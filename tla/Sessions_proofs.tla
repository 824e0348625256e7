--------------------------- MODULE Sessions_proofs ---------------------------
(***************************************************************************)
(* What the three database sessions promise the connection actor, for any  *)
(* number of executed statements.  Each session has an inductive invariant *)
(* of four or five parts: the types; who is at work, and for whom (SqNum-  *)
(* bered, PgLine and PgNumbered, MyHolds and MyFollows); what each         *)
(* statement has left behind so far (SqAccounts, PgAccounts and PgHeld,    *)
(* MyRemains); what the caller can read (MyShows); and what became of      *)
(* statements that were stopped (SqStops, PgStops).  A step of a session   *)
(* is shown to be a step of SessionPromise by what it does to the database *)
(* and what it says.                                                       *)
(***************************************************************************)
EXTENDS MCDrivers, TLAPS

-----------------------------------------------------------------------------
(***************************************************************************)
(* SQLite.                                                                 *)
(***************************************************************************)

SqDbs == [open : BOOLEAN, work : SUBSET SqEffects, saved : SUBSET SqEffects,
          undone : SUBSET SqEffects]
SqSayings == [of : SUBSET SqEffects, done : BOOLEAN, own : BOOLEAN]

SqCancels == [gen : Nat, cancelled : Nat, requested : BOOLEAN]
SqWorkers == [at : {"idle", "start", "cursor", "ended"}, n : Nat, sort : SqSorts \cup {"none"},
              stepped : BOOLEAN, live : BOOLEAN, late : BOOLEAN]
SqCallers ==
    [op : {"idle", "execute", "fetch", "read", "finish", "commit", "rollback", "edit", "gone"},
     sort : SqSorts \cup {"none"}, manual : BOOLEAN, executed : 0..SqExecutes,
     cursor : BOOLEAN, said : SqSayings]

SqTypes ==
    /\ sqCancel \in SqCancels /\ sqDb \in SqDbs /\ sqWorker \in SqWorkers
    /\ sqCaller \in SqCallers /\ sqStopped \subseteq SqEffects

\* The effects that anything has been heard of.
SqTouched == sqDb.work \cup sqDb.saved \cup sqDb.undone \cup sqStopped

\* A statement is new to the database until it writes, the next one and the one that starts.
SqNumbered ==
    /\ \A e \in SqTouched : e <= sqCaller.executed
    /\ sqCaller.op \in {"execute", "edit"} => sqCaller.executed \in SqEffects \ SqTouched
    /\ sqWorker.at \in {"start", "cursor"} => sqWorker.n \in 1..sqCaller.executed
    /\ sqWorker.at = "start" => sqCaller.op \in {"execute", "gone"} /\ sqWorker.n \notin SqTouched
    /\ sqWorker.at = "cursor" /\ sqWorker.sort = "rows" /\ ~sqWorker.stepped
        => sqWorker.n \notin SqTouched

\* Outside of a transaction only a suspended statement has work that is not saved.
SqAccounts ==
    /\ sqDb.work \cap sqDb.saved = {}
    /\ sqWorker.live => sqWorker.at = "cursor" /\ sqWorker.stepped /\ sqWorker.n \in sqDb.work
    /\ ~sqDb.open => sqDb.work \subseteq IF sqWorker.live THEN {sqWorker.n} ELSE {}

\* Work that was stopped is that of the suspended statement, which is interrupted when it ends.
SqStops ==
    /\ sqStopped \cap sqDb.saved = {}
    /\ \A e \in sqStopped \cap sqDb.work : sqWorker.live /\ e = sqWorker.n
    /\ sqWorker.live /\ sqWorker.n \in sqStopped => sqCancel.requested \/ sqWorker.late

SqInv == SqTypes /\ SqNumbered /\ SqAccounts /\ SqStops

LEMMA SqDbFacts ==
    ASSUME NEW db \in SqDbs, NEW n \in SqEffects
    PROVE  /\ SqCommitted(db) \in SqDbs /\ SqRolledBack(db) \in SqDbs /\ SqWrote(db, n) \in SqDbs
           /\ SqCommitted(db).work = {} /\ SqCommitted(db).saved = db.saved \cup db.work
           /\ SqCommitted(db).undone = db.undone /\ ~SqCommitted(db).open
           /\ SqRolledBack(db).work = {} /\ SqRolledBack(db).saved = db.saved
           /\ SqRolledBack(db).undone = db.undone \cup db.work /\ ~SqRolledBack(db).open
           /\ SqWrote(db, n).work = db.work \cup {n} /\ SqWrote(db, n).saved = db.saved
           /\ SqWrote(db, n).undone = db.undone /\ SqWrote(db, n).open = db.open
  BY DEF SqDbs, SqCommitted, SqRolledBack, SqWrote

\* A statement that fails leaves nothing behind, and others' work is kept or undone.
LEMMA SqFailedFacts ==
    ASSUME NEW db \in SqDbs, NEW n \in SqEffects, NEW after \in SqFailed(db, n)
    PROVE  /\ after \in SqDbs
           /\ after.work \subseteq db.work \ {n} /\ after.saved = db.saved
           /\ after.undone = db.undone \cup (db.work \ after.work)
           /\ ~after.open => ~db.open \/ after.work = {}
  BY DEF SqDbs, SqFailed, SqRolledBack

LEMMA SqReplies ==
    ASSUME SqTypes, NEW said \in SqSayings, SqReply(said) \/ SqStarted(said)
    PROVE  /\ sqCaller' \in SqCallers
           /\ sqCaller'.op = (IF sqCaller.op = "gone" THEN "gone" ELSE "idle")
           /\ sqCaller'.executed = sqCaller.executed
           /\ sqCaller'.said = (IF sqCaller.op = "gone" THEN sqCaller.said ELSE said)
  BY DEF SqTypes, SqReply, SqStarted, SqCallers

LEMMA SqSayingsOf ==
    /\ SqQuiet \in SqSayings /\ SqQuiet.of = {} /\ ~SqQuiet.done
    /\ \A n \in SqEffects, done, own \in BOOLEAN :
        /\ SqSaid(n, done, own) \in SqSayings /\ SqSaid(n, done, own).of = {n}
        /\ SqSaid(n, done, own).done = done /\ SqSaid(n, done, own).own = own
  BY DEF SqSayings, SqQuiet, SqSaid

SqPromised == SqPromise!PromiseNext

\* A step of the caller alone.
LEMMA SqCallerStep ==
    ASSUME SqInv, UNCHANGED <<sqDb, sqWorker, sqStopped>>,
           sqCancel' \in SqCancels, sqCancel.requested => sqCancel'.requested,
           sqCaller' \in SqCallers, sqCaller'.executed >= sqCaller.executed,
           sqCaller'.op \in {"execute", "edit"} => sqCaller'.executed \in SqEffects \ SqTouched,
           sqWorker.at = "start" => sqCaller'.op \in {"execute", "gone"},
           sqCaller'.said \in {sqCaller.said, SqQuiet}
    PROVE  SqInv' /\ SqPromised
  <1>1. SqTypes'
    BY DEF SqInv, SqTypes
  <1>2. SqTouched' = SqTouched
    BY DEF SqTouched
  <1>3. SqNumbered'
    BY <1>2, SqAssumption DEF SqInv, SqNumbered, SqTypes, SqCallers, SqWorkers, SqTouched, SqDbs, SqEffects
  <1>4. SqAccounts' /\ SqStops'
    BY DEF SqInv, SqAccounts, SqStops, SqTypes
  <1>5. SqPromised
    BY SqSayingsOf DEF SqPromised, SqPromise!PromiseNext, SqPromise!Same, SqPromise!True, SqPromise!Sayings, SqSayings
  <1> QED
    BY <1>1, <1>3, <1>4, <1>5 DEF SqInv

LEMMA SqRequestStep ==
    ASSUME SqInv, NEW op \in {"fetch", "read", "finish", "commit", "rollback", "edit"},
           SqRequest(op)
    PROVE  SqInv' /\ SqPromised
  <1>1. /\ sqCaller' \in SqCallers /\ sqCaller'.op = op /\ sqCaller'.said = SqQuiet
        /\ sqCaller'.executed = IF op = "edit" THEN sqCaller.executed + 1 ELSE sqCaller.executed
    <2>1. PICK e : e = sqCaller.executed + IF op = "edit" THEN 1 ELSE 0
      OBVIOUS
    <2>2. PICK c : c = (sqCaller.cursor /\ op # "finish")
      OBVIOUS
    <2>3. sqCaller' = [sqCaller EXCEPT !.op = op, !.said = SqQuiet, !.cursor = c, !.executed = e]
      BY <2>1, <2>2 DEF SqRequest
    <2>4. sqCaller \in SqCallers /\ sqCaller.executed \in 0..SqExecutes
      BY DEF SqInv, SqTypes, SqCallers
    <2>5. e \in 0..SqExecutes /\ e = (IF op = "edit" THEN sqCaller.executed + 1 ELSE sqCaller.executed)
      BY <2>1, <2>4, SqAssumption DEF SqRequest
    <2>6. c \in BOOLEAN
      BY <2>2
    <2> QED
      BY <2>3, <2>4, <2>5, <2>6, SqSayingsOf DEF SqCallers
  <1>2. op = "edit" => sqCaller.executed + 1 \in SqEffects \ SqTouched
    BY SqAssumption DEF SqInv, SqTypes, SqCallers, SqNumbered, SqEffects, SqRequest
  <1>3. sqWorker.at # "start" /\ UNCHANGED <<sqCancel, sqDb, sqWorker, sqStopped>>
    BY DEF SqInv, SqNumbered, SqRequest
  <1> QED
    BY <1>1, <1>2, <1>3, SqCallerStep DEF SqInv, SqTypes, SqCallers

LEMMA SqExecuteStep ==
    ASSUME SqInv, NEW sort \in SqSorts, NEW manual \in BOOLEAN, SqExecute(sort, manual)
    PROVE  SqInv' /\ SqPromised
  <1>1. /\ sqCaller' \in SqCallers /\ sqCaller'.op = "execute" /\ sqCaller'.said = SqQuiet
        /\ sqCaller'.executed = sqCaller.executed + 1
    <2>1. sqCaller \in SqCallers /\ sqCaller.executed \in 0..SqExecutes
      BY DEF SqInv, SqTypes, SqCallers
    <2>2. sqCaller.executed + 1 \in 0..SqExecutes
      BY <2>1, SqAssumption DEF SqExecute
    <2> QED
      BY <2>1, <2>2, SqSayingsOf DEF SqCallers, SqExecute
  <1>2. sqCaller.executed + 1 \in SqEffects \ SqTouched
    BY SqAssumption DEF SqInv, SqTypes, SqCallers, SqNumbered, SqEffects, SqExecute
  <1>3. sqWorker.at # "start" /\ UNCHANGED <<sqCancel, sqDb, sqWorker, sqStopped>>
    BY DEF SqInv, SqNumbered, SqExecute
  <1> QED
    BY <1>1, <1>2, <1>3, SqCallerStep DEF SqInv, SqTypes, SqCallers

LEMMA SqLeaveStep ==
    ASSUME SqInv, NEW drop \in BOOLEAN, SqLeave(drop)
    PROVE  SqInv' /\ SqPromised
  <1>1. /\ sqCaller' \in SqCallers /\ sqCaller'.op = "gone" /\ sqCaller'.said = SqQuiet
        /\ sqCaller'.executed = sqCaller.executed
    BY SqSayingsOf DEF SqInv, SqTypes, SqCallers, SqLeave
  <1>2. /\ sqCancel' \in SqCancels
        /\ sqCancel.requested => sqCancel'.requested
        /\ UNCHANGED <<sqDb, sqWorker, sqStopped>>
    BY DEF SqInv, SqTypes, SqCancels, SqLeave
  <1> QED
    BY <1>1, <1>2, SqCallerStep DEF SqInv, SqTypes, SqCallers

LEMMA SqReadStep ==
    ASSUME SqInv, SqRead
    PROVE  SqInv' /\ SqPromised
  <1>1. sqWorker.at # "start" /\ SqReply(SqQuiet) /\ UNCHANGED <<sqCancel, sqDb, sqWorker, sqStopped>>
    BY DEF SqRead
  <1>2. SqTypes /\ SqQuiet \in SqSayings /\ sqCaller.executed \in Nat
    BY SqSayingsOf, SqAssumption DEF SqInv, SqTypes, SqCallers
  <1>3. /\ sqCaller' \in SqCallers /\ sqCaller'.op \in {"gone", "idle"}
        /\ sqCaller'.said \in {sqCaller.said, SqQuiet} /\ sqCaller'.executed = sqCaller.executed
    BY <1>1, <1>2, SqReplies
  <1> QED
    BY <1>1, <1>2, <1>3, SqCallerStep DEF SqTypes

\* A step that stops the suspended statement, or asks for that, or begins the next one.
LEMMA SqStopStep ==
    ASSUME SqInv, (\E g \in 1..SqExecutes : SqCancelQuery(g)) \/ SqDeadline
    PROVE  SqInv' /\ SqPromised
  <1>1. /\ UNCHANGED <<sqDb, sqCaller>>
        /\ sqCancel' \in SqCancels /\ sqWorker' \in SqWorkers
        /\ sqWorker' = [sqWorker EXCEPT !.late = sqWorker'.late]
        /\ sqCancel.requested => sqCancel'.requested
        /\ sqWorker.late => sqWorker'.late
        /\ sqStopped' = sqStopped \/ (sqStopped' = SqStopping /\ (sqCancel'.requested \/ sqWorker'.late))
    <2>1. CASE SqDeadline
      BY <2>1 DEF SqInv, SqTypes, SqWorkers, SqDeadline
    <2>2. ASSUME NEW g \in 1..SqExecutes, SqCancelQuery(g)
          PROVE  /\ UNCHANGED <<sqDb, sqCaller, sqWorker>> /\ sqCancel' \in SqCancels
                 /\ sqCancel.requested => sqCancel'.requested
                 /\ sqStopped' = sqStopped \/ (sqStopped' = SqStopping /\ sqCancel'.requested)
      <3>1. sqCancel \in SqCancels /\ g \in Nat
        BY SqAssumption DEF SqInv, SqTypes
      <3>2. CASE sqCancel' = [sqCancel EXCEPT !.requested = TRUE, !.cancelled = IF @ > g THEN @ ELSE g]
        BY <2>2, <3>1, <3>2 DEF SqCancels, SqCancelQuery
      <3>3. CASE sqCancel' = [sqCancel EXCEPT !.cancelled = g] /\ UNCHANGED sqStopped
        BY <2>2, <3>1, <3>3 DEF SqCancels, SqCancelQuery
      <3> QED
        BY <2>2, <3>2, <3>3 DEF SqCancelQuery
    <2> QED
      BY <2>1, <2>2 DEF SqInv, SqTypes, SqWorkers
  <1>2. /\ sqWorker'.at = sqWorker.at /\ sqWorker'.n = sqWorker.n /\ sqWorker'.sort = sqWorker.sort
        /\ sqWorker'.stepped = sqWorker.stepped /\ sqWorker'.live = sqWorker.live
    BY <1>1 DEF SqInv, SqTypes, SqWorkers
  <1>3. \/ sqStopped' = sqStopped
        \/ /\ sqStopped' = sqStopped \cup {sqWorker.n} /\ sqWorker.live /\ sqCaller.op = "idle"
           /\ sqCancel'.requested \/ sqWorker'.late
    BY <1>1 DEF SqStopping, SqSuspended
  <1>4. sqWorker.live => /\ sqWorker.n \in sqDb.work /\ sqWorker.n \in SqEffects /\ sqWorker.at = "cursor"
                         /\ sqWorker.stepped
    BY DEF SqInv, SqAccounts, SqTypes, SqDbs
  <1>5. SqTypes'
    BY <1>1, <1>3, <1>4 DEF SqInv, SqTypes
  <1>6. SqTouched' = SqTouched
    BY <1>1, <1>3, <1>4 DEF SqTouched
  <1>7. SqNumbered'
    BY <1>1, <1>2, <1>6 DEF SqInv, SqNumbered
  <1>8. SqAccounts'
    BY <1>1, <1>2 DEF SqInv, SqAccounts
  <1>9. SqStops'
    BY <1>1, <1>2, <1>3, <1>4 DEF SqInv, SqStops, SqAccounts
  <1>10. SqPromised
    BY <1>1 DEF SqPromised, SqPromise!PromiseNext, SqPromise!Same
  <1> QED
    BY <1>5, <1>7, <1>8, <1>9, <1>10 DEF SqInv

LEMMA SqTakeExecuteStep ==
    ASSUME SqInv, SqTakeExecute
    PROVE  SqInv' /\ SqPromised
  <1>1. /\ sqCaller.op = "execute" /\ sqCaller.executed \in 0..SqExecutes /\ sqCaller.sort \in SqSorts \cup {"none"}
        /\ sqCaller.executed \in SqEffects \ SqTouched /\ sqCancel \in SqCancels
        /\ UNCHANGED <<sqDb, sqCaller, sqStopped>> /\ ~sqWorker.live
    BY DEF SqInv, SqTypes, SqCallers, SqNumbered, SqAccounts, SqTakeExecute
  <1>2. /\ sqWorker' \in SqWorkers /\ sqWorker'.at = "start" /\ sqWorker'.n = sqCaller.executed
        /\ sqWorker'.live = FALSE
    <2>1. sqCaller.executed \in Nat
      BY <1>1, SqAssumption DEF SqEffects
    <2> QED
      BY <1>1, <2>1 DEF SqTakeExecute, SqIdle, SqWorkers
  <1>3. sqCancel' \in SqCancels
    <2>1. PICK r \in BOOLEAN : r = (sqCancel.cancelled = sqCancel.gen + 1)
      OBVIOUS
    <2>2. sqCancel' = [sqCancel EXCEPT !.gen = sqCancel.gen + 1, !.requested = r]
      BY <2>1 DEF SqTakeExecute
    <2>3. sqCancel.gen + 1 \in Nat
      BY <1>1 DEF SqCancels
    <2> QED
      BY <1>1, <2>2, <2>3 DEF SqCancels
  <1>4. SqTypes' /\ SqTouched' = SqTouched
    BY <1>1, <1>2, <1>3 DEF SqInv, SqTypes, SqTouched
  <1>5. SqNumbered'
    BY <1>1, <1>2, <1>4, SqAssumption DEF SqInv, SqNumbered, SqEffects
  <1>6. SqAccounts' /\ SqStops'
    BY <1>1, <1>2 DEF SqInv, SqAccounts, SqStops
  <1>7. SqPromised
    BY <1>1 DEF SqPromised, SqPromise!PromiseNext, SqPromise!Same
  <1> QED
    BY <1>4, <1>5, <1>6, <1>7 DEF SqInv

\* A step of the database that ends what the worker does, or leaves it at its cursor.
LEMMA SqDatabaseStep ==
    ASSUME SqInv, NEW said \in SqSayings, SqReply(said) \/ SqStarted(said),
           sqCaller.op # "edit",
           UNCHANGED <<sqCancel, sqStopped>>,
           sqDb' \in SqDbs, sqWorker' \in SqWorkers,
           sqDb'.work \cap sqDb'.saved = {},
           sqDb'.work \cup sqDb'.saved \cup sqDb'.undone
                \subseteq SqTouched \cup (IF sqWorker.at \in {"start", "cursor"} THEN {sqWorker.n} ELSE {}),
           sqWorker'.at \in {"idle", "cursor", "ended"},
           sqWorker'.at = "cursor" => /\ sqWorker.at \in {"start", "cursor"}
                                      /\ sqWorker'.n = sqWorker.n /\ sqWorker'.late = sqWorker.late,
           sqWorker'.at = "cursor" /\ sqWorker'.sort = "rows" /\ ~sqWorker'.stepped
                => sqWorker'.n \notin SqTouched',
           sqWorker'.live => /\ sqWorker'.at = "cursor" /\ sqWorker'.stepped /\ sqWorker'.n \in sqDb'.work,
           ~sqDb'.open => sqDb'.work \subseteq IF sqWorker'.live THEN {sqWorker'.n} ELSE {},
           sqStopped \cap sqDb'.saved = {},
           \A e \in sqStopped \cap sqDb'.work : sqWorker'.live /\ e = sqWorker'.n,
           sqWorker'.live /\ sqWorker'.n \in sqStopped => sqCancel.requested \/ sqWorker'.late
    PROVE  SqInv'
  <1>1. /\ sqCaller' \in SqCallers /\ sqCaller'.op \in {"idle", "gone"}
        /\ sqCaller'.executed = sqCaller.executed
    BY SqReplies DEF SqInv
  <1>2. SqTypes'
    BY <1>1 DEF SqInv, SqTypes
  <1>3. SqTouched' \subseteq SqTouched \cup (IF sqWorker.at \in {"start", "cursor"} THEN {sqWorker.n} ELSE {})
    BY DEF SqTouched
  <1>4. \A e \in SqTouched' : e <= sqCaller.executed
    BY <1>3, SqAssumption DEF SqInv, SqNumbered, SqTypes, SqCallers
  <1>5. SqNumbered'
    BY <1>1, <1>4 DEF SqInv, SqNumbered
  <1>6. SqAccounts'
    BY DEF SqAccounts
  <1>7. SqStops'
    BY DEF SqStops
  <1> QED
    BY <1>2, <1>5, <1>6, <1>7 DEF SqInv

\* A statement that fails when it starts or is read, or is interrupted, is undone.
LEMMA SqFailure ==
    ASSUME SqInv, NEW db \in SqDbs, db.work = sqDb.work, db.saved = sqDb.saved,
           db.undone = sqDb.undone, sqDb.open => db.open,
           sqWorker.at \in {"start", "cursor"},
           sqWorker.n \notin sqDb.saved,
           sqDb' \in SqFailed(db, sqWorker.n), sqCaller.op # "edit",
           UNCHANGED <<sqCancel, sqStopped>>, NEW said \in {SqQuiet, SqSaid(sqWorker.n, FALSE, FALSE)},
           SqReply(said),
           sqWorker' \in {SqIdle, [sqWorker EXCEPT !.stepped = TRUE, !.live = FALSE]},
           sqWorker.at = "start" => sqWorker' = SqIdle
    PROVE  SqInv' /\ SqPromised
  <1>2. sqWorker.n \in SqEffects /\ sqWorker \in SqWorkers
    BY SqAssumption DEF SqInv, SqNumbered, SqTypes, SqCallers, SqEffects, SqAccounts
  <1>3. /\ sqDb' \in SqDbs
        /\ sqDb'.work \subseteq sqDb.work \ {sqWorker.n} /\ sqDb'.saved = sqDb.saved
        /\ sqDb'.undone = sqDb.undone \cup (sqDb.work \ sqDb'.work)
        /\ ~sqDb'.open => ~db.open \/ sqDb'.work = {}
    BY <1>2, SqFailedFacts
  <1>4. /\ said \in SqSayings /\ said.of \subseteq {sqWorker.n} /\ ~said.done
    BY <1>2, SqSayingsOf
  <1>5. /\ sqWorker' \in SqWorkers /\ ~sqWorker'.live /\ sqWorker'.at \in {"idle", "cursor"}
        /\ sqWorker'.at = "cursor" => /\ sqWorker.at = "cursor" /\ sqWorker'.stepped
                                      /\ sqWorker'.n = sqWorker.n /\ sqWorker'.late = sqWorker.late
    <2>1. CASE sqWorker' = SqIdle
      BY <2>1 DEF SqWorkers, SqIdle
    <2>2. CASE /\ sqWorker' = [sqWorker EXCEPT !.stepped = TRUE, !.live = FALSE]
               /\ sqWorker.at = "cursor"
      BY <1>2, <2>2 DEF SqWorkers
    <2> QED
      BY <2>1, <2>2
  <1>6. ~sqDb'.open => sqDb'.work = {}
    BY <1>3 DEF SqInv, SqAccounts
  <1>7. \A e \in sqStopped \cap sqDb'.work : FALSE
    BY <1>3 DEF SqInv, SqStops
  <1>8. sqDb'.work \cap sqDb'.saved = {} /\ sqStopped \cap sqDb'.saved = {}
    BY <1>3 DEF SqInv, SqStops, SqAccounts
  <1>9. sqDb'.work \cup sqDb'.saved \cup sqDb'.undone \subseteq SqTouched
    BY <1>3 DEF SqTouched
  <1>10. SqInv'
    BY <1>3, <1>4, <1>5, <1>6, <1>7, <1>8, <1>9, SqDatabaseStep
  <1>11. sqCaller'.said \in {sqCaller.said, said} /\ SqTypes
    BY <1>4, SqReplies DEF SqInv
  <1>12. SqPromised
    BY <1>3, <1>4, <1>11 DEF SqPromised, SqPromise!PromiseNext, SqPromise!TakeBack, SqPromise!True,
        SqPromise!Sayings, SqSayings
  <1> QED
    BY <1>10, <1>12

LEMMA SqTakeCloseStep ==
    ASSUME SqInv, SqTakeClose
    PROVE  SqInv' /\ SqPromised
  <1>1. /\ UNCHANGED <<sqCancel, sqCaller, sqStopped>> /\ sqCaller.op = "gone"
        /\ sqWorker' \in SqWorkers /\ sqWorker'.at = "ended" /\ ~sqWorker'.live
    BY DEF SqTakeClose, SqIdle, SqWorkers
  <1>2. /\ sqDb' \in SqDbs /\ sqDb'.work = {} /\ sqDb'.saved = sqDb.saved
        /\ sqDb'.undone = sqDb.undone \cup sqDb.work
    BY DEF SqInv, SqTypes, SqTakeClose, SqRolledBack, SqDbs
  <1>3. SqTypes' /\ SqTouched' = SqTouched
    BY <1>1, <1>2 DEF SqInv, SqTypes, SqTouched
  <1>4. SqNumbered' /\ SqAccounts' /\ SqStops'
    BY <1>1, <1>2, <1>3 DEF SqInv, SqNumbered, SqAccounts, SqStops
  <1>5. SqPromised
    BY <1>1, <1>2 DEF SqPromised, SqPromise!PromiseNext, SqPromise!TakeBack
  <1> QED
    BY <1>3, <1>4, <1>5 DEF SqInv

LEMMA SqTransactionStep ==
    ASSUME SqInv, SqTransaction
    PROVE  SqInv' /\ SqPromised
  <1>1. /\ UNCHANGED <<sqCancel, sqWorker, sqStopped>> /\ sqCaller.op \in {"commit", "rollback"}
        /\ sqWorker \in SqWorkers /\ sqWorker.at = "idle" /\ ~sqWorker.live /\ SqReply(SqQuiet)
        /\ SqQuiet \in SqSayings /\ sqDb \in SqDbs /\ sqDb.work \cap sqDb.saved = {}
        /\ sqStopped \cap sqDb.saved = {} /\ sqStopped \cap sqDb.work = {}
        /\ ~sqDb.open => sqDb.work = {}
    BY SqSayingsOf DEF SqInv, SqTypes, SqAccounts, SqStops, SqTransaction
  <1>2. \/ UNCHANGED sqDb
        \/ /\ sqCaller.op = "commit"
           /\ sqDb' \in SqDbs /\ sqDb'.work = {} /\ sqDb'.saved = sqDb.saved \cup sqDb.work
           /\ sqDb'.undone = sqDb.undone
        \/ /\ sqDb' \in SqDbs /\ sqDb'.work = {} /\ sqDb'.saved = sqDb.saved
           /\ sqDb'.undone = sqDb.undone \cup sqDb.work
    <2>1. CASE sqDb' = SqCommitted(sqDb) /\ sqCaller.op = "commit"
      BY <1>1, <2>1 DEF SqCommitted, SqDbs
    <2>2. CASE sqDb' = SqRolledBack(sqDb)
      BY <1>1, <2>2 DEF SqRolledBack, SqDbs
    <2>3. UNCHANGED sqDb \/ (sqDb' = SqCommitted(sqDb) /\ sqCaller.op = "commit") \/ sqDb' = SqRolledBack(sqDb)
      BY DEF SqTransaction
    <2> QED
      BY <2>1, <2>2, <2>3
  <1>3. /\ sqDb' \in SqDbs /\ sqDb'.work \cap sqDb'.saved = {}
        /\ sqDb'.work \cup sqDb'.saved \cup sqDb'.undone \subseteq SqTouched
        /\ ~sqDb'.open => sqDb'.work = {}
        /\ sqStopped \cap sqDb'.saved = {} /\ sqStopped \cap sqDb'.work = {}
    BY <1>1, <1>2 DEF SqTouched
  <1>4. SqInv'
    BY <1>1, <1>3, SqDatabaseStep
  <1>5. sqCaller'.said \in {sqCaller.said, SqQuiet}
    BY <1>1, SqReplies DEF SqInv
  <1>6. sqCaller.op = "commit" => SqWant = "all"
    BY DEF SqWant
  <1>7. SqPromised
    BY <1>2, <1>5, <1>6, SqSayingsOf DEF SqPromised, SqPromise!PromiseNext, SqPromise!TakeBack,
        SqPromise!SaveAll, SqPromise!Same, SqPromise!True, SqPromise!Sayings, SqSayings
  <1> QED
    BY <1>4, <1>7

LEMMA SqFinishStep ==
    ASSUME SqInv, SqFinish
    PROVE  SqInv' /\ SqPromised
  <1>1. /\ sqWorker.at = "cursor" /\ sqCaller.op = "finish" /\ sqWorker' = SqIdle /\ SqReply(SqQuiet)
        /\ UNCHANGED <<sqCancel, sqStopped>> /\ sqDb \in SqDbs
    BY DEF SqFinish, SqInv, SqTypes
  <1>2. CASE SqAbort
    <2>1. sqDb' \in SqFailed(sqDb, sqWorker.n) /\ sqWorker.n \notin sqDb.saved
      BY <1>2 DEF SqFinish, SqAbort, SqInv, SqAccounts
    <2> QED
      BY <1>1, <2>1, SqFailure
  <1>3. CASE ~SqAbort
    <2>1. /\ sqDb' = SqStatementEnds(sqDb)
          /\ sqStopped \cap sqDb.work = {}
      BY <1>3 DEF SqFinish, SqAbort, SqInv, SqStops, SqStop
    <2>2. \/ UNCHANGED sqDb /\ sqDb.open
          \/ /\ ~sqDb.open
             /\ sqDb' \in SqDbs /\ sqDb'.work = {} /\ sqDb'.saved = sqDb.saved \cup sqDb.work
             /\ sqDb'.undone = sqDb.undone
      <3>1. CASE sqDb.open
        BY <2>1, <3>1 DEF SqStatementEnds
      <3>2. CASE ~sqDb.open
        BY <1>1, <2>1, <3>2 DEF SqStatementEnds, SqCommitted, SqDbs
      <3> QED
        BY <3>1, <3>2
    <2>3. /\ sqWorker' \in SqWorkers /\ sqWorker'.at = "idle" /\ ~sqWorker'.live
      BY <1>1 DEF SqIdle, SqWorkers
    <2>4. /\ sqDb.work \cap sqDb.saved = {} /\ sqStopped \cap sqDb.saved = {}
          /\ sqWorker.live => sqWorker.n \in sqDb.work
      BY DEF SqInv, SqAccounts, SqStops
    <2>5. /\ sqDb' \in SqDbs /\ sqDb'.work \cap sqDb'.saved = {}
          /\ sqDb'.work \cup sqDb'.saved \cup sqDb'.undone \subseteq SqTouched
          /\ ~sqDb'.open => sqDb'.work = {}
          /\ sqStopped \cap sqDb'.saved = {} /\ sqStopped \cap sqDb'.work = {}
      BY <1>1, <2>1, <2>2, <2>4 DEF SqTouched
    <2>6. SqInv' 
      BY <1>1, <2>3, <2>5, SqSayingsOf, SqDatabaseStep
    <2>7. sqCaller'.said \in {sqCaller.said, SqQuiet}
      BY <1>1, SqSayingsOf, SqReplies DEF SqInv
    <2>8. ~sqDb.open => /\ SqWant = "one" 
                        /\ sqDb.work = {} \/ (sqDb.work = {sqWorker.n} /\ sqWorker.n \in SqEffects)
      BY <1>1, <2>4 DEF SqWant, SqInv, SqAccounts, SqTypes, SqDbs
    <2>9. \/ UNCHANGED sqDb
          \/ UNCHANGED <<sqDb.work, sqDb.saved, sqDb.undone>>
          \/ /\ SqWant = "one" /\ sqWorker.n \in SqEffects /\ sqDb.work = {sqWorker.n}
             /\ sqDb'.work = {} /\ sqDb'.saved = sqDb.saved \cup {sqWorker.n} /\ sqDb'.undone = sqDb.undone
      BY <2>2, <2>8
    <2>10. SqPromised
      BY <2>7, <2>9, SqSayingsOf DEF SqPromised, SqPromise!PromiseNext,
        SqPromise!SaveOne, SqPromise!Same, SqPromise!True, SqPromise!Sayings, SqSayings
    <2> QED
      BY <2>6, <2>10
  <1> QED
    BY <1>2, <1>3

LEMMA SqEditStep ==
    ASSUME SqInv, SqEdit, ~SqEditCommitFails
    PROVE  SqInv' /\ SqPromised
  <1> DEFINE n == sqCaller.executed
  <1>1. /\ sqWorker.at = "idle" /\ sqCaller.op = "edit" /\ UNCHANGED <<sqCancel, sqWorker>>
        /\ n \in SqEffects \ SqTouched /\ n \in 0..SqExecutes /\ ~sqWorker.live
        /\ sqDb \in SqDbs /\ sqWorker \in SqWorkers
    BY DEF SqEdit, SqInv, SqTypes, SqCallers, SqNumbered, SqAccounts
  <1>2. \A done, own \in BOOLEAN : SqReply(SqSaid(n, done, own)) =>
            /\ sqCaller' \in SqCallers /\ sqCaller'.op = "idle"
            /\ sqCaller'.executed = n /\ sqCaller'.said = SqSaid(n, done, own)
    BY <1>1, SqSayingsOf, SqReplies DEF SqInv
  <1>3. CASE SqReply(SqSaid(n, FALSE, FALSE)) /\ sqStopped' = sqStopped \cup {n} /\ UNCHANGED sqDb
    <2>1. SqTypes' /\ SqTouched' = SqTouched \cup {n}
      BY <1>1, <1>2, <1>3 DEF SqInv, SqTypes, SqTouched
    <2>2. SqNumbered'
      <3>1. sqCaller'.op = "idle" /\ sqCaller'.executed = n /\ n <= n
        <4>1. n <= n
          BY <1>1, SqAssumption
        <4>2. \E done, own \in BOOLEAN : SqReply(SqSaid(n, done, own))
          BY <1>3
        <4> QED
          BY <1>2, <4>1, <4>2
      <3> QED
        BY <1>1, <2>1, <3>1 DEF SqInv, SqNumbered
    <2>3. SqAccounts' /\ SqStops'
      BY <1>1, <1>3 DEF SqInv, SqAccounts, SqStops, SqTouched
    <2>4. sqCaller'.said = SqSaid(n, FALSE, FALSE) /\ n \notin sqDb.work \cup sqDb.saved
      BY <1>1, <1>2, <1>3 DEF SqTouched
    <2>5. SqPromised
      <3>1. /\ sqCaller'.said \in SqSayings /\ sqCaller'.said.of = {n} /\ ~sqCaller'.said.done
        BY <1>1, <2>4, SqSayingsOf
      <3>2. sqDb' = sqDb
        BY <1>3
      <3> QED
        BY <2>4, <3>1, <3>2 DEF SqPromised, SqPromise!PromiseNext,
            SqPromise!Same, SqPromise!True, SqPromise!Sayings, SqSayings
    <2> QED
      BY <2>1, <2>2, <2>3, <2>5 DEF SqInv
  <1>4. CASE /\ ~sqDb.open /\ sqDb' = SqCommitted(SqWrote(sqDb, n)) /\ SqReply(SqSaid(n, TRUE, TRUE))
             /\ UNCHANGED sqStopped
    <2>1. /\ sqDb' \in SqDbs /\ sqDb'.work = {} /\ sqDb'.saved = sqDb.saved \cup {n}
          /\ sqDb'.undone = sqDb.undone /\ sqDb.work = {}
      <3>1. SqWrote(sqDb, n) \in SqDbs
        BY <1>1, SqDbFacts
      <3>2. sqDb.work = {}
        BY <1>1, <1>4 DEF SqInv, SqAccounts
      <3> QED
        BY <1>1, <1>4, <3>1, <3>2, SqDbFacts
    <2>2. SqTypes' /\ SqTouched' = SqTouched \cup {n}
      BY <1>1, <1>2, <1>4, <2>1 DEF SqInv, SqTypes, SqTouched
    <2>3. SqNumbered'
      <3>1. sqCaller'.op = "idle" /\ sqCaller'.executed = n /\ n <= n
        <4>1. n <= n
          BY <1>1, SqAssumption
        <4>2. \E done, own \in BOOLEAN : SqReply(SqSaid(n, done, own))
          BY <1>4
        <4> QED
          BY <1>2, <4>1, <4>2
      <3> QED
        BY <1>1, <2>2, <3>1 DEF SqInv, SqNumbered
    <2>4. SqAccounts' /\ SqStops'
      BY <1>1, <1>4, <2>1 DEF SqInv, SqAccounts, SqStops, SqTouched
    <2>5. sqCaller'.said = SqSaid(n, TRUE, TRUE) /\ SqWant = "one" 
      BY <1>1, <1>2, <1>4 DEF SqWant
    <2>6. n \in SqEffects /\ n \notin sqDb.work \cup sqDb.saved \cup sqDb.undone
      BY <1>1 DEF SqTouched
    <2>7. SqPromise!SaveOne
      BY <2>1, <2>5, <2>6 DEF SqPromise!SaveOne, SqPromise!New
    <2>8. SqPromised
      <3>1. /\ sqCaller'.said \in SqSayings /\ sqCaller'.said.of = {n}
            /\ sqCaller'.said.done /\ sqCaller'.said.own
        BY <1>1, <2>5, SqSayingsOf
      <3> QED
        BY <2>1, <2>7, <3>1 DEF SqPromised, SqPromise!PromiseNext,
            SqPromise!True, SqPromise!Sayings, SqSayings
    <2> QED
      BY <2>2, <2>3, <2>4, <2>8 DEF SqInv
  <1> QED
    BY <1>3, <1>4 DEF SqEdit, SqBatchAlone

\* What an answer says of the statement of the worker.
LEMMA SqSaysTruly ==
    ASSUME SqInv, NEW n \in SqEffects, NEW done \in BOOLEAN, NEW own \in BOOLEAN,
           NEW said \in {SqQuiet, SqSaid(n, done, own)}, SqReply(said) \/ SqStarted(said),
           IF done THEN n \in sqDb'.saved \cup (IF own THEN {} ELSE sqDb'.work \cup sqDb'.undone)
                   ELSE n \notin sqDb'.work \cup sqDb'.saved,
           \/ UNCHANGED <<sqDb.work, sqDb.saved, sqDb.undone>>
           \/ SqPromise!Perform \/ SqPromise!SaveOne \/ SqPromise!SaveAll \/ SqPromise!TakeBack
    PROVE  SqPromised
  <1>1. said \in SqSayings /\ SqTypes
    BY SqSayingsOf DEF SqInv
  <1>2. sqCaller'.said \in {sqCaller.said, said}
    BY <1>1, SqReplies
  <1>3. SqPromise!True(said)
    BY SqSayingsOf DEF SqPromise!True
  <1>4. sqCaller'.said = sqCaller.said \/ (sqCaller'.said \in SqPromise!Sayings /\ SqPromise!True(sqCaller'.said))
    BY <1>1, <1>2, <1>3 DEF SqPromise!Sayings, SqSayings, SqPromise!True
  <1> QED
    BY <1>4 DEF SqPromised, SqPromise!PromiseNext, SqPromise!Same

LEMMA SqFetchStep ==
    ASSUME SqInv, SqFetch
    PROVE  SqInv' /\ SqPromised
  <1> DEFINE n == sqWorker.n
             wrote == IF sqWorker.stepped THEN sqDb ELSE SqWrote(sqDb, n)
             read == [sqWorker EXCEPT !.stepped = TRUE, !.live = FALSE]
  <1>1. /\ sqWorker.at = "cursor" /\ sqCaller.op = "fetch" /\ UNCHANGED <<sqCancel, sqStopped>>
        /\ sqDb \in SqDbs /\ sqWorker \in SqWorkers /\ n \in SqEffects
        /\ sqDb.work \cap sqDb.saved = {} /\ sqStopped \cap sqDb.saved = {}
    BY SqAssumption DEF SqInv, SqTypes, SqCallers, SqNumbered, SqEffects, SqAccounts, SqStops, SqFetch
  <1>2. CASE SqReply(SqQuiet) /\ UNCHANGED <<sqDb, sqWorker>>
    <2>1. sqCaller'.said \in {sqCaller.said, SqQuiet} /\ sqCaller' \in SqCallers
          /\ sqCaller'.executed = sqCaller.executed /\ sqCaller'.op \in {"idle", "gone"}
      BY <1>2, SqSayingsOf, SqReplies DEF SqInv
    <2>2. sqCaller.executed \in Nat /\ sqCancel \in SqCancels
      BY SqAssumption DEF SqInv, SqTypes, SqCallers
    <2> QED
      BY <1>1, <1>2, <2>1, <2>2, SqCallerStep
  <1>3. ASSUME ~SqStop, ~sqWorker.late, sqWorker.sort = "rows", sqWorker.stepped => sqWorker.live
        PROVE  /\ wrote \in SqDbs /\ wrote.work = sqDb.work \cup {n} /\ wrote.saved = sqDb.saved
               /\ wrote.undone = sqDb.undone /\ wrote.open = sqDb.open
               /\ n \notin sqDb.saved /\ n \notin sqStopped
               /\ sqStopped \cap sqDb.work = {}
               /\ ~sqDb.open => sqDb.work \subseteq {n}
               /\ n \in sqDb.work \/ n \notin SqTouched
    <2>1. CASE sqWorker.stepped
      BY <1>1, <1>3, <2>1 DEF SqInv, SqAccounts, SqStops, SqStop
    <2>2. CASE ~sqWorker.stepped
      BY <1>1, <1>3, <2>2, SqDbFacts DEF SqInv, SqAccounts, SqNumbered, SqStops, SqTouched
    <2> QED
      BY <2>1, <2>2
  <1> HIDE DEF wrote
  <1>4. ASSUME ~SqStop, ~sqWorker.late, sqWorker.sort = "rows", sqWorker.stepped => sqWorker.live,
               sqDb' = wrote, sqWorker' = [sqWorker EXCEPT !.stepped = TRUE, !.live = TRUE],
               NEW said \in {SqQuiet, SqSaid(n, TRUE, FALSE)}, SqReply(said)
        PROVE  SqInv' /\ SqPromised
    <2>1. /\ sqWorker' \in SqWorkers /\ sqWorker'.at = "cursor" /\ sqWorker'.n = n /\ sqWorker'.live
          /\ sqWorker'.stepped /\ sqWorker'.late = sqWorker.late /\ said \in SqSayings
      BY <1>1, <1>4, SqSayingsOf DEF SqWorkers
    <2>2. /\ sqDb'.work \cup sqDb'.saved \cup sqDb'.undone \subseteq SqTouched \cup {n}
          /\ sqDb'.work \cap sqDb'.saved = {}
          /\ ~sqDb'.open => sqDb'.work \subseteq {n}
          /\ sqStopped \cap sqDb'.saved = {} /\ sqStopped \cap sqDb'.work = {} /\ n \in sqDb'.work
          /\ sqDb' \in SqDbs
      BY <1>1, <1>3, <1>4 DEF SqTouched
    <2>3. SqInv'
      BY <1>1, <1>3, <1>4, <2>1, <2>2, SqDatabaseStep
    <2>4. UNCHANGED <<sqDb.work, sqDb.saved, sqDb.undone>> \/ SqPromise!Perform
      BY <1>1, <1>3, <1>4 DEF SqPromise!Perform, SqPromise!New, SqTouched
    <2>5. SqPromised
      BY <1>1, <1>4, <2>2, <2>4, SqSaysTruly
    <2> QED
      BY <2>3, <2>5
  <1>5. ASSUME ~SqStop, ~sqWorker.late, sqWorker.sort = "rows", sqWorker.stepped => sqWorker.live,
               sqDb' = SqStatementEnds(wrote), sqWorker' = read, SqReply(SqSaid(n, TRUE, ~sqDb.open))
        PROVE  SqInv' /\ SqPromised
    <2>1. /\ sqWorker' \in SqWorkers /\ sqWorker'.at = "cursor" /\ sqWorker'.n = n /\ ~sqWorker'.live
          /\ sqWorker'.stepped /\ sqWorker'.late = sqWorker.late
      BY <1>1, <1>5 DEF SqWorkers
    <2>2. /\ sqDb' \in SqDbs /\ sqDb'.undone = sqDb.undone
          /\ sqDb.open => sqDb'.work = sqDb.work \cup {n} /\ sqDb'.saved = sqDb.saved /\ sqDb'.open
          /\ ~sqDb.open => sqDb'.work = {} /\ sqDb'.saved = sqDb.saved \cup {n}
      <3>1. CASE sqDb.open
        BY <1>3, <1>5, <3>1 DEF SqStatementEnds
      <3>2. CASE ~sqDb.open
        <4>1. sqDb' = SqCommitted(wrote)
          BY <1>3, <1>5, <3>2 DEF SqStatementEnds
        <4>2. sqDb' \in SqDbs /\ sqDb'.undone = wrote.undone /\ sqDb'.work = {} /\ sqDb'.saved = wrote.saved \cup wrote.work
          BY <1>1, <1>3, <1>5, <4>1, SqDbFacts
        <4> QED
          BY <1>3, <1>5, <3>2, <4>2
      <3> QED
        BY <3>1, <3>2
    <2>3. /\ sqDb'.work \cup sqDb'.saved \cup sqDb'.undone \subseteq SqTouched \cup {n}
          /\ sqDb'.work \cap sqDb'.saved = {}
          /\ ~sqDb'.open => sqDb'.work = {}
          /\ sqStopped \cap sqDb'.saved = {} /\ sqStopped \cap sqDb'.work = {}
      BY <1>1, <1>3, <1>5, <2>2 DEF SqTouched
    <2>4. SqSaid(n, TRUE, ~sqDb.open) \in SqSayings
      BY <1>1, SqSayingsOf
    <2>5. SqInv'
      BY <1>1, <1>3, <1>5, <2>1, <2>2, <2>3, <2>4, SqDatabaseStep
    <2>6. CASE sqDb.open
      <3>1. UNCHANGED <<sqDb.work, sqDb.saved, sqDb.undone>> \/ SqPromise!Perform
        BY <1>1, <1>3, <1>5, <2>2, <2>6 DEF SqPromise!Perform, SqPromise!New, SqTouched
      <3>2. SqReply(SqSaid(n, TRUE, FALSE)) /\ n \in sqDb'.work
        BY <1>5, <2>2, <2>6
      <3> QED
        BY <1>1, <2>5, <3>1, <3>2, SqSaysTruly
    <2>7. CASE ~sqDb.open
      <3>1. SqPromise!SaveOne
        <4>1. SqWant = "one"
          BY <1>1, <2>7 DEF SqWant
        <4> QED
          BY <1>1, <1>3, <1>5, <2>2, <2>7, <4>1 DEF SqPromise!SaveOne, SqPromise!New, SqTouched
      <3>2. SqReply(SqSaid(n, TRUE, TRUE)) /\ n \in sqDb'.saved
        BY <1>5, <2>2, <2>7
      <3> QED
        BY <1>1, <2>5, <3>1, <3>2, SqSaysTruly
    <2> QED
      BY <2>6, <2>7
  <1>6. ASSUME ~SqStop, ~sqWorker.late, sqWorker.sort = "rows", sqWorker.stepped => sqWorker.live,
               sqDb' \in SqFailed(sqDb, n), sqWorker' = read, SqReply(SqSaid(n, FALSE, FALSE))
        PROVE  SqInv' /\ SqPromised
    BY <1>1, <1>3, <1>6, SqFailure
  <1>7. CASE /\ ~SqStop /\ ~sqWorker.late
             /\ sqWorker.sort = "rows" /\ (sqWorker.stepped => sqWorker.live)
             /\ \/ \E got \in BOOLEAN :
                    /\ sqDb' = wrote
                    /\ sqWorker' = [sqWorker EXCEPT !.stepped = TRUE, !.live = TRUE]
                    /\ SqReply(IF got THEN SqSaid(n, TRUE, FALSE) ELSE SqQuiet)
                \/ /\ sqDb' = SqStatementEnds(wrote) /\ sqWorker' = read
                   /\ SqReply(SqSaid(n, TRUE, ~sqDb.open))
                \/ /\ sqDb' \in SqFailed(sqDb, n) /\ sqWorker' = read
                   /\ SqReply(SqSaid(n, FALSE, FALSE))
    BY <1>4, <1>5, <1>6, <1>7
  <1> QED
    BY <1>2, <1>7 DEF SqFetch, wrote

LEMMA SqStartStep ==
    ASSUME SqInv, SqStart
    PROVE  SqInv' /\ SqPromised
  <1> DEFINE n == sqWorker.n
             begun == [sqDb EXCEPT !.open = @ \/ sqCaller.manual]
             cursor == [sqWorker EXCEPT !.at = "cursor"]
             said == IF sqWorker.sort = "write" THEN SqSaid(n, TRUE, ~begun.open) ELSE SqQuiet
  <1>1. /\ sqWorker.at = "start" /\ sqCaller.op \in {"execute", "gone"} /\ UNCHANGED <<sqCancel, sqStopped>>
        /\ sqDb \in SqDbs /\ sqWorker \in SqWorkers /\ n \in SqEffects /\ n \notin SqTouched
        /\ sqDb.work \cap sqDb.saved = {} /\ sqStopped \cap sqDb.saved = {} /\ ~sqWorker.live
        /\ sqCaller.manual \in BOOLEAN
    BY SqAssumption DEF SqInv, SqTypes, SqCallers, SqNumbered, SqEffects, SqAccounts, SqStops, SqStart
  <1>2. /\ begun \in SqDbs /\ begun.work = sqDb.work /\ begun.saved = sqDb.saved
        /\ begun.undone = sqDb.undone /\ sqDb.open => begun.open
    BY <1>1 DEF SqDbs
  <1>3. /\ begun \in SqDbs /\ begun.work = sqDb.work /\ begun.saved = sqDb.saved
        /\ begun.undone = sqDb.undone
    BY <1>1 DEF SqDbs
  <1>4. /\ ~sqDb.open => sqDb.work = {}
        /\ sqStopped \cap sqDb.work = {}
    BY <1>1 DEF SqInv, SqAccounts, SqStops
  <1>5. /\ cursor \in SqWorkers /\ cursor.at = "cursor" /\ cursor.n = n /\ ~cursor.live
        /\ cursor.late = sqWorker.late /\ cursor.sort = sqWorker.sort
    BY <1>1 DEF SqWorkers
  <1>6. sqDb.open => begun.open
    BY <1>1 DEF SqDbs
  <1>7. said \in SqSayings /\ said \in {SqQuiet, SqSaid(n, TRUE, ~begun.open)}
    BY <1>1, <1>3, SqSayingsOf DEF SqDbs
  <1> HIDE DEF begun, cursor, said
  \* The statement fails, or is refused.
  <1>8. ASSUME SqReply(SqSaid(n, FALSE, FALSE)), sqWorker' = SqIdle, sqDb' \in SqFailed(begun, n)
        PROVE  SqInv' /\ SqPromised
    BY <1>1, <1>3, <1>6, <1>8, SqFailure DEF SqTouched
  <1>9. ASSUME SqReply(SqSaid(n, FALSE, FALSE)), sqWorker' = SqIdle, sqDb' \in {sqDb, begun}
        PROVE  SqInv' /\ SqPromised
    <2>1. /\ sqWorker' \in SqWorkers /\ sqWorker'.at = "idle" /\ ~sqWorker'.live
      BY <1>9 DEF SqIdle, SqWorkers
    <2>2. /\ sqDb' \in SqDbs /\ sqDb'.work = sqDb.work /\ sqDb'.saved = sqDb.saved
          /\ sqDb'.undone = sqDb.undone
      BY <1>1, <1>3, <1>9
    <2>3. ~sqDb'.open => sqDb'.work = {}
      BY <1>4, <1>6, <1>9, <2>2
    <2>4. sqDb'.work \cup sqDb'.saved \cup sqDb'.undone \subseteq SqTouched
      BY <2>2 DEF SqTouched
    <2>5. SqInv'
      BY <1>1, <1>4, <1>9, <2>1, <2>2, <2>3, <2>4, SqSayingsOf, SqDatabaseStep
    <2>6. n \notin sqDb'.work \cup sqDb'.saved
      BY <1>1, <2>2 DEF SqTouched
    <2>7. SqPromised
      BY <1>1, <1>9, <2>2, <2>6, SqSaysTruly
    <2> QED
      BY <2>5, <2>7
  \* What the statement does to the database, when it runs.
  <1>10. ASSUME sqWorker.sort # "rows", sqDb' \in SqRan(begun, sqWorker.sort, n)
         PROVE  /\ sqDb' \in SqDbs
                /\ ~sqDb'.open => sqDb'.work = {}
                /\ \/ sqWorker.sort # "write" /\ UNCHANGED <<sqDb.work, sqDb.saved, sqDb.undone>>
                   \/ /\ sqWorker.sort = "commit" /\ sqDb'.work = {}
                      /\ sqDb'.saved = sqDb.saved \cup sqDb.work /\ sqDb'.undone = sqDb.undone
                   \/ /\ sqWorker.sort = "rollback" /\ sqDb'.work = {}
                      /\ sqDb'.saved = sqDb.saved /\ sqDb'.undone = sqDb.undone \cup sqDb.work
                   \/ /\ sqWorker.sort # "commit" /\ begun.open /\ sqDb'.work = sqDb.work \cup {n}
                      /\ sqDb'.saved = sqDb.saved /\ sqDb'.undone = sqDb.undone
                   \/ /\ sqWorker.sort # "commit" /\ ~begun.open /\ sqDb'.work = {} /\ sqDb.work = {}
                      /\ sqDb'.saved = sqDb.saved \cup {n} /\ sqDb'.undone = sqDb.undone
    <2>1. CASE sqWorker.sort = "begin"
      <3>1. sqDb' = [begun EXCEPT !.open = TRUE]
        BY <1>10, <2>1 DEF SqRan
      <3> QED
        BY <1>3, <2>1, <3>1 DEF SqDbs
    <2>2. CASE sqWorker.sort = "commit"
      <3>1. sqDb' = SqCommitted(begun)
        BY <1>10, <2>2 DEF SqRan
      <3> QED
        BY <1>1, <1>3, <2>2, <3>1, SqDbFacts
    <2>3. CASE sqWorker.sort = "rollback"
      <3>1. sqDb' = SqRolledBack(begun)
        BY <1>10, <2>3 DEF SqRan
      <3> QED
        BY <1>1, <1>3, <2>3, <3>1, SqDbFacts
    <2>4. CASE sqWorker.sort \notin {"begin", "commit", "rollback"}
      <3>1. sqDb' = SqStatementEnds(SqWrote(begun, n))
        BY <1>10, <2>4 DEF SqRan
      <3>2. /\ SqWrote(begun, n) \in SqDbs /\ SqWrote(begun, n).open = begun.open
            /\ SqWrote(begun, n).work = sqDb.work \cup {n} /\ SqWrote(begun, n).saved = sqDb.saved
            /\ SqWrote(begun, n).undone = sqDb.undone
        BY <1>1, <1>3, SqDbFacts
      <3>3. CASE begun.open
        BY <2>4, <3>1, <3>2, <3>3 DEF SqStatementEnds
      <3>4. CASE ~begun.open
        <4>1. sqDb' = SqCommitted(SqWrote(begun, n)) /\ sqDb.work = {}
          BY <1>4, <1>6, <3>1, <3>2, <3>4 DEF SqStatementEnds
        <4> QED
          BY <1>1, <2>4, <3>2, <3>4, <4>1, SqDbFacts
      <3> QED
        BY <3>3, <3>4
    <2> QED
      BY <2>1, <2>2, <2>3, <2>4
  <1>11. ASSUME sqWorker' = cursor, SqStarted(said), sqDb' \in SqDbs,
                ~sqDb'.open => sqDb'.work = {},
                sqDb'.work \cup sqDb'.saved \cup sqDb'.undone \subseteq SqTouched \cup {n},
                sqDb'.work \cap sqDb'.saved = {},
                sqStopped \cap sqDb'.saved = {}, sqStopped \cap sqDb'.work = {},
                sqWorker.sort = "rows" => UNCHANGED <<sqDb.work, sqDb.saved, sqDb.undone>>
         PROVE  SqInv'
    <2>1. sqWorker'.sort = "rows" => sqWorker'.n \notin SqTouched'
      BY <1>1, <1>5, <1>11 DEF SqTouched
    <2> QED
      BY <1>1, <1>5, <1>7, <1>11, <2>1, SqDatabaseStep
  <1>12. ASSUME sqWorker.sort # "rows", sqDb' \in SqRan(begun, sqWorker.sort, n),
                sqWorker' = cursor, SqStarted(said)
         PROVE  SqInv' /\ SqPromised
    <2>1. SqInv'
      <3>1. /\ sqDb'.work \cup sqDb'.saved \cup sqDb'.undone \subseteq SqTouched \cup {n}
            /\ sqDb'.work \cap sqDb'.saved = {}
            /\ sqStopped \cap sqDb'.saved = {} /\ sqStopped \cap sqDb'.work = {}
        BY <1>1, <1>4, <1>10, <1>12 DEF SqTouched
      <3> QED
        BY <1>10, <1>11, <1>12, <3>1
    <2>2. \/ UNCHANGED <<sqDb.work, sqDb.saved, sqDb.undone>>
          \/ SqPromise!Perform \/ SqPromise!SaveOne \/ SqPromise!SaveAll \/ SqPromise!TakeBack
      <3>1. sqWorker.sort = "commit" => SqWant = "all"
        BY <1>1 DEF SqWant
      <3>2. sqWorker.sort # "commit" /\ ~begun.open => SqWant = "one"
        BY <1>1, <1>6 DEF SqWant
      <3> QED
        BY <1>1, <1>10, <1>12, <3>1, <3>2 DEF SqTouched, SqPromise!Perform, SqPromise!New,
            SqPromise!SaveOne, SqPromise!SaveAll, SqPromise!TakeBack
    <2>3. CASE sqWorker.sort = "write"
      <3>1. n \in sqDb'.saved \cup (IF ~begun.open THEN {} ELSE sqDb'.work \cup sqDb'.undone)
        BY <1>10, <1>12, <2>3
      <3> QED
        BY <1>1, <1>3, <1>7, <1>12, <2>1, <2>2, <3>1, SqSaysTruly DEF SqDbs
    <2>4. CASE sqWorker.sort # "write"
      <3>1. said = SqQuiet
        BY <2>4 DEF said
      <3>2. \/ n \in sqDb'.saved \cup sqDb'.work \cup sqDb'.undone
            \/ n \notin sqDb'.work \cup sqDb'.saved
        OBVIOUS
      <3>3. \A done \in BOOLEAN : said \in {SqQuiet, SqSaid(n, done, FALSE)}
        BY <3>1
      <3> QED
        BY <1>1, <1>12, <2>1, <2>2, <3>2, <3>3, SqSaysTruly
    <2> QED
      BY <2>3, <2>4
  <1>13. ASSUME sqWorker.sort = "rows", sqDb' = begun, sqWorker' = cursor, SqStarted(SqQuiet)
         PROVE  SqInv' /\ SqPromised
    <2>1. said = SqQuiet
      BY <1>13 DEF said
    <2>2. /\ sqDb'.work = sqDb.work /\ sqDb'.saved = sqDb.saved /\ sqDb'.undone = sqDb.undone
          /\ sqDb' \in SqDbs
      BY <1>3, <1>13
    <2>3. ~sqDb'.open => sqDb'.work = {}
      BY <1>4, <1>6, <1>13, <2>2
    <2>4. sqDb'.work \cup sqDb'.saved \cup sqDb'.undone \subseteq SqTouched
      BY <2>2 DEF SqTouched
    <2>5. SqInv'
      BY <1>1, <1>4, <1>11, <1>13, <2>1, <2>2, <2>3, <2>4
    <2>6. n \notin sqDb'.work \cup sqDb'.saved
      BY <1>1, <2>2 DEF SqTouched
    <2>7. SqPromised
      BY <1>1, <1>13, <2>2, <2>6, SqSaysTruly
    <2> QED
      BY <2>5, <2>7
  <1>14. CASE SqReply(SqSaid(n, FALSE, FALSE)) /\ sqWorker' = SqIdle
              /\ sqDb' \in {sqDb, begun} \cup SqFailed(begun, n)
    BY <1>8, <1>9, <1>14
  <1>15. \/ SqReply(SqSaid(n, FALSE, FALSE)) /\ sqWorker' = SqIdle
            /\ sqDb' \in {sqDb, begun} \cup SqFailed(begun, n)
         \/ /\ sqWorker.sort # "rows" /\ sqDb' \in SqRan(begun, sqWorker.sort, n)
            /\ sqWorker' = cursor /\ SqStarted(said)
         \/ /\ sqWorker.sort = "rows" /\ sqDb' = begun /\ sqWorker' = cursor /\ SqStarted(SqQuiet)
    BY DEF SqStart, begun, cursor, said
  <1> QED
    BY <1>12, <1>13, <1>14, <1>15

LEMMA SqStep ==
    ASSUME SqInv, [SqNext]_sqVars, ~SqEditCommitFails
    PROVE  SqInv' /\ [SqPromised]_<<sqDb.work, sqDb.saved, sqDb.undone, SqWant, sqCaller.said>>
  <1>1. CASE UNCHANGED sqVars
    <2>1. UNCHANGED <<sqCancel, sqDb, sqWorker, sqCaller, sqStopped>>
      BY <1>1 DEF sqVars
    <2> QED
      BY <2>1 DEF SqInv, SqTypes, SqTouched, SqNumbered, SqAccounts, SqStops, SqWant
  <1>2. CASE SqNext
    BY <1>2, SqRequestStep, SqExecuteStep, SqLeaveStep, SqStopStep, SqTakeExecuteStep, SqStartStep,
       SqFetchStep, SqReadStep, SqFinishStep, SqTransactionStep, SqEditStep, SqTakeCloseStep
       DEF SqNext
  <1> QED
    BY <1>1, <1>2

LEMMA SqStarts == SqInit => SqInv /\ SqPromise!PromiseInit
  <1> SUFFICES ASSUME SqInit PROVE SqInv /\ SqPromise!PromiseInit
    OBVIOUS
  <1>1. SqTypes
    BY SqAssumption DEF SqInit, SqTypes, SqCancels, SqDbs, SqWorkers, SqCallers, SqIdle, SqQuiet, SqSayings
  <1>2. SqNumbered /\ SqAccounts /\ SqStops
    BY DEF SqInit, SqNumbered, SqAccounts, SqStops, SqTouched, SqIdle
  <1>3. SqPromise!PromiseInit
    BY DEF SqInit, SqPromise!PromiseInit, SqPromise!Silence, SqWant, SqQuiet, SqIdle
  <1> QED
    BY <1>1, <1>2, <1>3 DEF SqInv

\* A SQLite session saves, for each execution, no more than it was asked to save, and says of a
\* statement only what became of it: where the commit of grid changes does not fail, the worker
\* thread of driver-sqlite implements the session that the connection actor relies on.
THEOREM SqPromiseKept == ASSUME ~SqEditCommitFails PROVE SqSpec => SqKeepsItsPromise
  <1>1. SqInit => SqInv /\ SqPromise!PromiseInit
    BY SqStarts
  <1>2. SqInv /\ [SqNext]_sqVars => SqInv' /\ [SqPromise!PromiseNext]_(SqPromise!promiseVars)
    BY SqStep DEF SqPromised, SqPromise!promiseVars
  <1> QED
    BY <1>1, <1>2, PTL DEF SqSpec, SqKeepsItsPromise, SqPromise!PromiseSpec

-----------------------------------------------------------------------------
(***************************************************************************)
(* PostgreSQL.                                                             *)
(***************************************************************************)

PgCommands ==
    [op : {"execute", "fetch", "finish", "commit", "rollback", "chain", "catalog", "edit",
           "begin", "close"},
     n : Nat, sort : PgSorts \cup {"none"}, auto : BOOLEAN]
PgCancels == [current : Nat, cancelled : Nat, running : BOOLEAN, sending : BOOLEAN,
              closing : BOOLEAN]
PgServers == [up : BOOLEAN, open : BOOLEAN, failed : BOOLEAN, work : SUBSET PgEffects,
              saved : SUBSET PgEffects, undone : SUBSET PgEffects]
PgWorkers ==
    [at : {"outside", "implicit", "begin", "bind", "first", "inside", "page", "commit",
           "rollback", "ended"},
     n : Nat, gen : Nat, sort : PgSorts \cup {"none", "begin"}, auto : BOOLEAN, fresh : BOOLEAN,
     active : BOOLEAN, complete : BOOLEAN,
     then : {"none", "started", "page", "failed", "closed", "asked"}]
PgSayings == [of : SUBSET PgEffects, done : BOOLEAN, own : BOOLEAN]
PgCallers == [op : {"idle", "execute", "control", "controlled", "fetch", "ask", "gone"},
              executed : 0..PgExecutes, cursor : Nat, said : PgSayings]

PgTypes ==
    /\ pgCancel \in PgCancels /\ pgServer \in PgServers /\ pgWorker \in PgWorkers
    /\ pgQueue \in Seq(PgCommands) /\ pgCaller \in PgCallers /\ pgStopped \subseteq PgEffects

\* The effects that anything has been heard of.
PgTouched == pgServer.work \cup pgServer.saved \cup pgServer.undone \cup pgStopped

\* The worker has a command that is still to be answered.
PgBusy ==
    \/ pgWorker.at \in {"implicit", "begin", "bind", "first", "page"}
    \/ pgWorker.at \in {"commit", "rollback"} /\ pgWorker.then # "none"

\* One command at a time, in the queue or with the worker, and the close after it.
PgLine ==
    /\ pgCaller.op \in {"idle", "controlled"} => pgQueue = <<>> /\ ~PgBusy
    /\ Len(pgQueue) \in {0, 1, 2}
    /\ pgCaller.op # "gone" => /\ Len(pgQueue) \in {0, 1} /\ pgWorker.at # "ended"
                               /\ \A i \in 1..Len(pgQueue) : pgQueue[i].op # "close"
    /\ Len(pgQueue) = 2 => pgQueue[1].op # "close" /\ pgQueue[2].op = "close"
    /\ PgBusy /\ pgQueue # <<>> => Len(pgQueue) = 1 /\ pgQueue[1].op = "close"

\* A statement is new to the server until it is bound.
PgNew(n) == n \in (1..pgCaller.executed) \ PgTouched
PgNumbered ==
    /\ \A e \in PgTouched : e <= pgCaller.executed
    /\ pgQueue # <<>> => /\ pgQueue[1].op \in {"execute", "edit"} => PgNew(pgQueue[1].n)
                         /\ pgQueue[1].op = "execute" => pgQueue[1].sort # "begin"
    /\ pgWorker.at = "bind" => PgNew(pgWorker.n)
    /\ pgWorker.at = "begin" /\ pgWorker.sort # "begin" => PgNew(pgWorker.n)
    /\ pgWorker.at = "implicit" /\ pgServer.up => PgNew(pgWorker.n)

\* Where the work of the statements is, and of what generation one that starts is.
PgStarting ==
    pgWorker.at \in {"bind", "first"} \/ (pgWorker.at = "begin" /\ pgWorker.sort # "begin")
PgAccounts ==
    /\ PgStarting => pgWorker.gen = pgCancel.current /\ pgWorker.gen # 0
    /\ pgWorker.at \in {"outside", "implicit", "begin", "ended"} => pgServer.work = {}
    /\ pgServer.failed \/ ~pgServer.up => pgServer.work = {}
    /\ pgWorker.auto => pgServer.work \subseteq {pgWorker.n}
    /\ pgWorker.at = "first" => /\ pgWorker.n \in 1..pgCaller.executed \ pgServer.saved
                                /\ pgServer.up /\ ~pgServer.failed => pgWorker.n \in pgServer.work
    /\ pgWorker.active => /\ pgWorker.at \in {"inside", "page"}
                          /\ pgWorker.n \in pgServer.work \cup pgServer.undone \cup pgServer.saved
    /\ pgWorker.at = "page" => pgWorker.active
    /\ pgWorker.at = "commit" =>
            /\ pgWorker.then \in {"started", "page", "closed", "asked"}
            /\ pgWorker.then \in {"started", "page"} =>
                    /\ pgWorker.auto /\ ~pgServer.failed
                    /\ pgServer.up => pgWorker.n \in pgServer.work
    /\ pgWorker.at = "rollback" =>
            /\ pgWorker.then \in {"none", "failed", "closed", "asked"}
            /\ pgWorker.then = "failed" => pgWorker.n \in PgEffects \ pgServer.saved

\* While the result of an automatic transaction is read, nothing else is asked of the session.
PgReading == pgWorker.auto /\ pgWorker.active
PgHeld ==
    PgReading =>
        /\ pgWorker.gen = pgCancel.current /\ pgWorker.gen # 0
        /\ ~pgServer.failed /\ pgWorker.n \notin pgServer.saved
        /\ pgServer.up => pgWorker.n \in pgServer.work
        /\ pgCaller.op # "gone" =>
                \/ pgCaller.cursor = pgWorker.gen /\ pgCaller.op # "execute"
                \/ pgCaller.op = "ask" /\ pgQueue # <<>> /\ pgQueue[1].op = "finish"
        /\ pgQueue # <<>> => /\ pgQueue[1].op \in {"fetch", "finish", "catalog", "close"}
                             /\ pgQueue[1].op = "finish" => pgQueue[1].n = pgWorker.gen

\* Work that was stopped is that of the suspended portal, or is being rolled back.
PgStops ==
    /\ pgStopped \cap pgServer.saved = {}
    /\ \A e \in pgStopped \cap pgServer.work :
        /\ e = pgWorker.n /\ pgWorker.auto
        /\ \/ pgWorker.at = "rollback"
           \/ pgWorker.active /\ ~pgWorker.complete /\ pgCancel.cancelled = pgWorker.gen

PgInv == PgTypes /\ PgLine /\ PgNumbered /\ PgAccounts /\ PgHeld /\ PgStops

USE PgAssumption

PgPromised == PgPromise!PromiseNext

LEMMA PgServerFacts ==
    ASSUME NEW s \in PgServers
    PROVE  /\ PgRolledBack(s) \in PgServers /\ PgRolledBack(s).work = {} /\ PgRolledBack(s).saved = s.saved
           /\ PgRolledBack(s).undone = s.undone \cup s.work /\ PgRolledBack(s).failed = FALSE
           /\ PgRolledBack(s).up = s.up
           /\ PgErred(s) \in PgServers /\ PgErred(s).work = {} /\ PgErred(s).saved = s.saved
           /\ PgErred(s).undone = s.undone \cup s.work /\ PgErred(s).failed = TRUE
           /\ PgErred(s).up = s.up
           /\ PgEnded(s) \in PgServers /\ PgEnded(s).work = {} /\ PgEnded(s).failed = FALSE
           /\ PgEnded(s).up = s.up
           /\ s.failed => PgEnded(s).saved = s.saved /\ PgEnded(s).undone = s.undone \cup s.work
           /\ ~s.failed => PgEnded(s).saved = s.saved \cup s.work /\ PgEnded(s).undone = s.undone
  <1>1. /\ PgRolledBack(s) \in PgServers /\ PgRolledBack(s).work = {} /\ PgRolledBack(s).saved = s.saved
        /\ PgRolledBack(s).undone = s.undone \cup s.work /\ PgRolledBack(s).failed = FALSE
        /\ PgRolledBack(s).up = s.up
    BY DEF PgServers, PgRolledBack
  <1>2. /\ PgErred(s) \in PgServers /\ PgErred(s).work = {} /\ PgErred(s).saved = s.saved
        /\ PgErred(s).undone = s.undone \cup s.work /\ PgErred(s).failed = TRUE
        /\ PgErred(s).up = s.up
    BY DEF PgServers, PgErred
  <1>3. /\ PgCommitted(s) \in PgServers /\ PgCommitted(s).work = {} /\ PgCommitted(s).saved = s.saved \cup s.work
        /\ PgCommitted(s).undone = s.undone /\ PgCommitted(s).failed = FALSE
        /\ PgCommitted(s).up = s.up
    BY DEF PgServers, PgCommitted
  <1> QED
    BY <1>1, <1>2, <1>3 DEF PgEnded

LEMMA PgReplies ==
    ASSUME PgTypes, NEW said \in PgSayings, NEW cursor \in Nat, PgReply(said, cursor)
    PROVE  /\ pgCaller' \in PgCallers /\ pgCaller'.executed = pgCaller.executed
           /\ pgCaller.op = "gone" => pgCaller' = pgCaller
           /\ pgCaller.op # "gone" => /\ pgCaller'.op \in {"idle", "controlled"}
                                      /\ pgCaller'.cursor = cursor /\ pgCaller'.said = said
  <1>1. CASE pgCaller.op = "gone"
    BY <1>1 DEF PgReply, PgTypes
  <1>2. CASE pgCaller.op # "gone"
    <2>1. PICK op \in {"idle", "controlled"} :
            pgCaller' = [pgCaller EXCEPT !.op = op, !.cursor = cursor, !.said = said]
      BY <1>2 DEF PgReply
    <2> QED
      BY <1>2, <2>1 DEF PgTypes, PgCallers
  <1> QED
    BY <1>1, <1>2

LEMMA PgSayingsOf ==
    /\ PgQuiet \in PgSayings /\ PgQuiet.of = {} /\ ~PgQuiet.done
    /\ \A n \in PgEffects : /\ PgDidNot(n) \in PgSayings /\ PgDidNot(n).of = {n} /\ ~PgDidNot(n).done
    /\ \A own \in BOOLEAN : pgWorker.n \in PgEffects =>
            /\ PgDid(own) \in PgSayings /\ PgDid(own).of = {pgWorker.n}
            /\ PgDid(own).done /\ PgDid(own).own = own
  BY DEF PgSayings, PgQuiet, PgDid, PgDidNot

\* A step of the server that is one of the promised ones, and an answer that is so.
PgMoves ==
    \/ UNCHANGED <<pgServer.work, pgServer.saved, pgServer.undone>>
    \/ PgPromise!Perform \/ PgPromise!SaveOne \/ PgPromise!SaveAll \/ PgPromise!TakeBack

PgSo(s) ==
    IF s.done THEN s.of \subseteq pgServer'.saved \cup
                        (IF s.own THEN {} ELSE pgServer'.work \cup pgServer'.undone)
    ELSE s.of \cap (pgServer'.work \cup pgServer'.saved) = {}

LEMMA PgSaysTruly ==
    ASSUME NEW s \in PgSayings, pgCaller'.said \in {pgCaller.said, s}, PgSo(s), PgMoves
    PROVE  PgPromised
  <1>1. PgPromise!True(s) /\ s \in PgPromise!Sayings
    BY DEF PgPromise!True, PgSo, PgPromise!Sayings, PgSayings
  <1>2. pgCaller'.said = pgCaller.said
        \/ (pgCaller'.said \in PgPromise!Sayings /\ PgPromise!True(pgCaller'.said))
    BY <1>1 DEF PgPromise!True
  <1> QED
    BY <1>2 DEF PgPromised, PgPromise!PromiseNext, PgPromise!Same, PgMoves

LEMMA PgSaysNothing ==
    ASSUME pgCaller'.said \in {pgCaller.said, PgQuiet}, PgMoves
    PROVE  PgPromised
  BY PgSayingsOf, PgSaysTruly DEF PgSo

\* What is behind the first command.
LEMMA PgTails ==
    ASSUME PgTypes, PgLine, pgQueue # <<>>
    PROVE  /\ pgQueue[1] = Head(pgQueue) /\ Head(pgQueue) \in PgCommands /\ Len(pgQueue) \in {1, 2}
           /\ Tail(pgQueue) \in Seq(PgCommands) /\ Len(Tail(pgQueue)) = Len(pgQueue) - 1
           /\ Head(pgQueue).op = "close" => Tail(pgQueue) = <<>>
           /\ Tail(pgQueue) # <<>> => /\ Len(Tail(pgQueue)) = 1 /\ Tail(pgQueue)[1].op = "close"
                                      /\ pgCaller.op = "gone"
  <1>1. /\ pgQueue[1] = Head(pgQueue) /\ Head(pgQueue) \in PgCommands /\ Len(pgQueue) \in {1, 2}
        /\ Tail(pgQueue) \in Seq(PgCommands) /\ Len(Tail(pgQueue)) = Len(pgQueue) - 1
        /\ \A i \in 1..Len(Tail(pgQueue)) : Tail(pgQueue)[i] = pgQueue[i + 1]
    BY DEF PgTypes, PgLine
  <1>2. CASE Len(pgQueue) = 1
    BY <1>1, <1>2
  <1>3. CASE Len(pgQueue) = 2
    BY <1>1, <1>3 DEF PgLine
  <1> QED
    BY <1>1, <1>2, <1>3

\* A step of the worker: it works on the command it has, or takes one, and may answer it.
PgWorks ==
    \/ PgBusy /\ UNCHANGED pgQueue
    \/ ~PgBusy /\ pgQueue # <<>> /\ Head(pgQueue).op # "close" /\ pgQueue' = Tail(pgQueue)

LEMMA PgWorksOnOne ==
    ASSUME PgTypes, PgLine, PgWorks
    PROVE  /\ pgQueue' \in Seq(PgCommands) /\ Len(pgQueue') \in {0, 1}
           /\ pgQueue' # <<>> => /\ Len(pgQueue') = 1 /\ pgQueue'[1].op = "close" /\ pgCaller.op = "gone"
           /\ pgCaller.op \notin {"idle", "controlled"}
  <1>1. CASE PgBusy /\ UNCHANGED pgQueue
    <2>1. pgQueue # <<>> => pgCaller.op = "gone"
      BY <1>1 DEF PgLine
    <2>2. Len(pgQueue) \in {0, 1} 
      BY <1>1 DEF PgLine, PgTypes
    <2> QED
      BY <1>1, <2>1, <2>2 DEF PgLine, PgTypes
  <1>2. CASE pgQueue # <<>> /\ pgQueue' = Tail(pgQueue)
    BY <1>2, PgTails DEF PgLine
  <1> QED
    BY <1>1, <1>2 DEF PgWorks

LEMMA PgWorkerStep ==
    ASSUME PgInv, PgWorks, UNCHANGED pgStopped,
           pgCancel' \in PgCancels, pgServer' \in PgServers, pgWorker' \in PgWorkers,
           pgCaller' \in PgCallers, pgCaller'.executed = pgCaller.executed,
           pgWorker'.at # "ended",
           pgCaller.op = "gone" => pgCaller'.op = "gone",
           pgCaller.op # "gone" => \/ pgCaller'.op = pgCaller.op
                                   \/ pgCaller'.op \in {"idle", "controlled"} /\ ~PgBusy',
           \A e \in (pgServer'.work \cup pgServer'.saved \cup pgServer'.undone) \ PgTouched :
                e \in 1..pgCaller.executed,
           \/ pgWorker'.at = "bind"
           \/ pgWorker'.at = "begin" /\ pgWorker'.sort # "begin"
           \/ pgWorker'.at = "implicit" /\ pgServer'.up
           => /\ pgWorker'.n \in 1..pgCaller.executed
              /\ pgWorker'.n \notin pgServer'.work \cup pgServer'.saved \cup pgServer'.undone \cup pgStopped
    PROVE  PgTypes' /\ PgLine' /\ PgNumbered'
  <1>1. /\ pgQueue' \in Seq(PgCommands) /\ Len(pgQueue') \in {0, 1}
        /\ pgQueue' # <<>> => /\ Len(pgQueue') = 1 /\ pgQueue'[1].op = "close" /\ pgCaller.op = "gone"
        /\ pgCaller.op \notin {"idle", "controlled"}
    BY PgWorksOnOne DEF PgInv
  <1>2. PgTypes'
    BY <1>1 DEF PgInv, PgTypes
  <1>3. PgLine'
    <2>1. pgCaller'.op # "gone" => pgQueue' = <<>> /\ Len(pgQueue') = 0
      BY <1>1
    <2>2. pgCaller'.op \in {"idle", "controlled"} => ~PgBusy'
      BY <1>1
    <2> QED
      BY <1>1, <2>1, <2>2 DEF PgLine
  <1>4. PgNumbered'
    <2>1. \A e \in PgTouched' : e <= pgCaller'.executed
      BY DEF PgTouched, PgInv, PgNumbered, PgTypes, PgCallers
    <2>2. \/ pgWorker'.at = "bind"
          \/ pgWorker'.at = "begin" /\ pgWorker'.sort # "begin"
          \/ pgWorker'.at = "implicit" /\ pgServer'.up
          => pgWorker'.n \in (1..pgCaller'.executed) \ PgTouched'
      BY DEF PgTouched
    <2> QED
      BY <1>1, <2>1, <2>2 DEF PgNumbered, PgNew
  <1> QED
    BY <1>2, <1>3, <1>4

-----------------------------------------------------------------------------
(***************************************************************************)
(* Steps of the session and of those who cancel.                           *)
(***************************************************************************)
LEMMA PgRequests ==
    ASSUME PgInv, pgCaller.op = "idle", UNCHANGED <<pgServer, pgWorker, pgStopped>>,
           NEW c \in PgCommands, c.op # "close", pgQueue' = Append(pgQueue, c),
           pgCancel' \in PgCancels, pgCancel'.cancelled = pgCancel.cancelled,
           pgCaller' \in PgCallers, pgCaller'.op \in {"execute", "control", "fetch", "ask"},
           pgCaller'.said = PgQuiet,
           pgCaller'.executed \in {pgCaller.executed, pgCaller.executed + 1},
           c.op \in {"execute", "edit"} => /\ pgCaller'.executed = pgCaller.executed + 1
                                           /\ c.n = pgCaller'.executed,
           c.op = "execute" => c.sort # "begin",
           PgReading =>
                /\ pgCancel'.current = pgCancel.current
                /\ c.op \in {"fetch", "finish", "catalog"}
                /\ c.op = "finish" => c.n = pgWorker.gen
                /\ \/ pgCaller'.cursor = pgWorker.gen /\ pgCaller'.op # "execute"
                   \/ pgCaller'.op = "ask" /\ c.op = "finish"
    PROVE  PgInv' /\ PgPromised
  <1>1. /\ pgQueue = <<>> /\ ~PgBusy /\ pgWorker.at # "ended"
        /\ pgCaller.executed \in Nat
    BY DEF PgInv, PgLine, PgTypes, PgCallers
  <1>2. /\ pgQueue' \in Seq(PgCommands) /\ Len(pgQueue') = 1 /\ pgQueue'[1] = c /\ pgQueue' # <<>>
    BY <1>1
  <1>3. PgTypes'
    BY <1>2 DEF PgInv, PgTypes
  <1>4. ~PgBusy' /\ PgTouched' = PgTouched
    BY <1>1 DEF PgBusy, PgTouched
  <1>5. PgLine'
    BY <1>1, <1>2, <1>4 DEF PgLine
  <1>6. PgNumbered'
    <2>1. \A e \in PgTouched : e <= pgCaller.executed /\ e \in Nat
      BY DEF PgInv, PgNumbered, PgTypes, PgServers, PgTouched, PgEffects
    <2>2. \A n : PgNew(n) => n \in (1..pgCaller'.executed) \ PgTouched'
      BY <1>1, <1>4 DEF PgNew
    <2>3. c.op \in {"execute", "edit"} => c.n \in (1..pgCaller'.executed) \ PgTouched'
      BY <1>1, <1>4, <2>1
    <2>4. \A e \in PgTouched' : e <= pgCaller'.executed
      BY <1>1, <1>4, <2>1
    <2> QED
      BY <1>2, <2>2, <2>3, <2>4 DEF PgInv, PgNumbered, PgNew
  <1>7. PgAccounts'
    BY <1>1 DEF PgInv, PgAccounts, PgStarting, PgBusy
  <1>8. PgHeld'
    BY <1>2 DEF PgInv, PgHeld, PgReading
  <1>9. PgStops'
    BY DEF PgInv, PgStops
  <1>10. PgPromised
    BY PgSaysNothing DEF PgMoves
  <1> QED
    BY <1>3, <1>5, <1>6, <1>7, <1>8, <1>9, <1>10 DEF PgInv

\* Nothing but what is known of cancellations changes, or how an answer was taken.
LEMMA PgAside ==
    ASSUME PgInv, UNCHANGED <<pgServer, pgWorker, pgQueue>>, pgCancel' \in PgCancels,
           pgCaller' \in PgCallers, pgCaller'.cursor = pgCaller.cursor,
           \/ UNCHANGED pgCaller
           \/ pgCaller.op \in {"idle", "controlled"} /\ pgCaller'.op = "idle",
           pgCaller'.executed \in {pgCaller.executed, pgCaller.executed + 1},
           pgCaller'.said \in {pgCaller.said, PgQuiet},
           PgReading \/ PgBusy => pgCancel'.current = pgCancel.current,
           PgReading => pgCancel'.cancelled \in {pgCancel.cancelled, pgWorker.gen},
           \/ UNCHANGED pgStopped
           \/ /\ PgSuspended /\ pgCancel'.cancelled = pgWorker.gen
              /\ pgStopped' = pgStopped \cup {pgWorker.n}
    PROVE  PgInv' /\ PgPromised
  <1>1. pgCaller.executed \in Nat /\ pgWorker.n \in Nat
    BY DEF PgInv, PgTypes, PgCallers, PgWorkers
  <1>2. PgSuspended => PgReading /\ pgWorker.n \in pgServer.work \cup pgServer.undone /\ pgWorker.n \in PgEffects
    BY DEF PgSuspended, PgReading, PgInv, PgHeld, PgAccounts, PgTypes, PgServers
  <1>3. PgTouched' = PgTouched
    BY <1>2 DEF PgTouched
  <1>4. PgTypes'
    BY <1>2 DEF PgInv, PgTypes
  <1>5. PgLine'
    <2>1. PgBusy' = PgBusy
      BY DEF PgBusy
    <2> QED
      BY <2>1 DEF PgInv, PgLine
  <1>6. PgNumbered'
    <2>1. \A n : PgNew(n) => n \in (1..pgCaller'.executed) \ PgTouched'
      BY <1>1, <1>3 DEF PgNew
    <2>2. \A e \in PgTouched' : e <= pgCaller'.executed
      BY <1>1, <1>3 DEF PgInv, PgNumbered, PgTypes, PgServers, PgTouched, PgEffects
    <2> QED
      BY <2>1, <2>2 DEF PgInv, PgNumbered, PgNew
  <1>7. PgAccounts'
    BY <1>1 DEF PgInv, PgAccounts, PgStarting, PgBusy
  <1>8. PgHeld'
    BY DEF PgInv, PgHeld, PgReading
  <1>9. PgStops'
    <2>1. PgReading => pgWorker.n \notin pgServer.saved
      BY DEF PgInv, PgHeld
    <2> QED
      BY <1>2, <2>1 DEF PgInv, PgStops, PgSuspended, PgReading
  <1>10. PgPromised
    BY PgSaysNothing DEF PgMoves
  <1> QED
    BY <1>4, <1>5, <1>6, <1>7, <1>8, <1>9, <1>10 DEF PgInv

\* The session is given up.
LEMMA PgGoes ==
    ASSUME PgInv, pgCaller.op # "gone", UNCHANGED <<pgServer, pgWorker, pgStopped>>,
           pgCancel' = [pgCancel EXCEPT !.closing = TRUE],
           pgCaller' = [pgCaller EXCEPT !.op = "gone", !.said = PgQuiet],
           PgQueued("close", 0, "none", FALSE)
    PROVE  PgInv' /\ PgPromised
  <1>1. /\ pgCaller' \in PgCallers /\ pgCaller'.op = "gone" /\ pgCaller'.said = PgQuiet
        /\ pgCaller'.executed = pgCaller.executed
    BY PgSayingsOf DEF PgInv, PgTypes, PgCallers
  <1>2. pgCancel' \in PgCancels /\ pgCancel'.current = pgCancel.current
        /\ pgCancel'.cancelled = pgCancel.cancelled
    BY DEF PgInv, PgTypes, PgCancels
  <1> DEFINE c == [op |-> "close", n |-> 0, sort |-> "none", auto |-> FALSE]
  <1>3. c \in PgCommands /\ c.op = "close" /\ pgQueue' = Append(pgQueue, c)
    BY DEF PgCommands, PgQueued
  <1> HIDE DEF c
  <1>4. /\ Len(pgQueue) \in {0, 1} /\ pgQueue \in Seq(PgCommands)
        /\ \A i \in 1..Len(pgQueue) : pgQueue[i].op # "close"
    BY DEF PgInv, PgLine, PgTypes
  <1>5. /\ pgQueue' \in Seq(PgCommands) /\ Len(pgQueue') = Len(pgQueue) + 1 /\ pgQueue' # <<>>
        /\ \A i \in 1..Len(pgQueue) : pgQueue'[i] = pgQueue[i]
        /\ pgQueue'[Len(pgQueue) + 1] = c
    BY <1>3, <1>4
  <1>6. \/ Len(pgQueue) = 0 /\ pgQueue = <<>> /\ Len(pgQueue') = 1 /\ pgQueue'[1] = c
        \/ /\ Len(pgQueue) = 1 /\ pgQueue # <<>> /\ Len(pgQueue') = 2 /\ pgQueue'[1] = pgQueue[1]
           /\ pgQueue'[2] = c /\ pgQueue[1].op # "close"
    BY <1>4, <1>5
  <1>7. PgTypes'
    BY <1>1, <1>2, <1>5 DEF PgInv, PgTypes
  <1>8. PgTouched' = PgTouched /\ PgBusy' = PgBusy
    BY DEF PgTouched, PgBusy
  <1>9. PgLine'
    BY <1>1, <1>3, <1>6, <1>8 DEF PgInv, PgLine
  <1>10. PgNumbered'
    BY <1>1, <1>3, <1>6, <1>8 DEF PgInv, PgNumbered, PgNew
  <1>11. PgAccounts' /\ PgStops'
    BY <1>1, <1>2 DEF PgInv, PgAccounts, PgStarting, PgStops
  <1>12. PgHeld'
    BY <1>1, <1>2, <1>3, <1>6 DEF PgInv, PgHeld, PgReading
  <1>13. PgPromised
    BY <1>1, PgSaysNothing DEF PgMoves
  <1> QED
    BY <1>7, <1>9, <1>10, <1>11, <1>12, <1>13 DEF PgInv

\* A result that is read keeps the session from anything else.
LEMMA PgReadingKeeps ==
    ASSUME PgInv, PgReading, pgCaller.op = "idle"
    PROVE  pgCaller.cursor = pgWorker.gen /\ pgCaller.cursor # 0
  BY DEF PgInv, PgHeld

LEMMA PgExecuteStep ==
    ASSUME PgInv, NEW sort \in PgSorts, NEW auto \in BOOLEAN, PgExecute(sort, auto)
    PROVE  PgInv' /\ PgPromised
  <1> DEFINE n == pgCaller.executed + 1
             c == [op |-> "execute", n |-> n, sort |-> sort, auto |-> auto]
  <1>1. /\ pgCaller.op = "idle" /\ pgCaller.cursor = 0 /\ n <= PgExecutes /\ sort # "begin"
        /\ pgQueue' = Append(pgQueue, c)
        /\ pgCaller' = [pgCaller EXCEPT !.op = "execute", !.executed = n, !.said = PgQuiet]
        /\ UNCHANGED <<pgCancel, pgServer, pgWorker, pgStopped>>
    BY DEF PgExecute, PgQueued, PgControls
  <1>2. pgCaller.executed \in 0..PgExecutes /\ n \in Nat /\ n \in 0..PgExecutes
    BY <1>1 DEF PgInv, PgTypes, PgCallers
  <1>3. c \in PgCommands /\ c.op = "execute" /\ c.n = n /\ c.sort = sort
    BY <1>2 DEF PgCommands
  <1> HIDE DEF c
  <1>4. /\ pgCaller' \in PgCallers /\ pgCaller'.op = "execute" /\ pgCaller'.said = PgQuiet
        /\ pgCaller'.executed = n
    BY <1>1, <1>2, PgSayingsOf DEF PgInv, PgTypes, PgCallers
  <1>5. ~PgReading /\ pgCancel \in PgCancels
    BY <1>1, PgReadingKeeps DEF PgInv, PgTypes
  <1> HIDE DEF n
  <1> QED
    BY <1>1, <1>3, <1>4, <1>5, PgRequests DEF n

LEMMA PgEditStep ==
    ASSUME PgInv, PgEdit
    PROVE  PgInv' /\ PgPromised
  <1> DEFINE n == pgCaller.executed + 1
             c == [op |-> "edit", n |-> n, sort |-> "none", auto |-> FALSE]
  <1>1. /\ pgCaller.op = "idle" /\ pgCaller.cursor = 0 /\ n <= PgExecutes
        /\ pgQueue' = Append(pgQueue, c)
        /\ pgCaller' = [pgCaller EXCEPT !.op = "ask", !.executed = n, !.said = PgQuiet]
        /\ UNCHANGED <<pgCancel, pgServer, pgWorker, pgStopped>>
    BY DEF PgEdit, PgQueued
  <1>2. pgCaller.executed \in 0..PgExecutes /\ n \in Nat /\ n \in 0..PgExecutes
    BY <1>1 DEF PgInv, PgTypes, PgCallers
  <1>3. c \in PgCommands /\ c.op = "edit" /\ c.n = n
    BY <1>2 DEF PgCommands
  <1> HIDE DEF c
  <1>4. /\ pgCaller' \in PgCallers /\ pgCaller'.op = "ask" /\ pgCaller'.said = PgQuiet
        /\ pgCaller'.executed = n
    BY <1>1, <1>2, PgSayingsOf DEF PgInv, PgTypes, PgCallers
  <1>5. ~PgReading /\ pgCancel \in PgCancels
    BY <1>1, PgReadingKeeps DEF PgInv, PgTypes
  <1> HIDE DEF n
  <1> QED
    BY <1>1, <1>3, <1>4, <1>5, PgRequests DEF n

LEMMA PgControlStep ==
    ASSUME PgInv, NEW sort \in PgSorts, PgControl(sort)
    PROVE  PgInv' /\ PgPromised
  <1> DEFINE n == pgCaller.executed + 1
             c == [op |-> sort, n |-> n, sort |-> sort, auto |-> FALSE]
  <1>1. PICK stop \in BOOLEAN :
        /\ pgCaller.op = "idle" /\ pgCaller.cursor = 0 /\ n <= PgExecutes /\ sort \in PgControls
        /\ pgCancel' = [pgCancel EXCEPT !.current = @ + 1, !.running = ~stop]
        /\ pgCaller' = [pgCaller EXCEPT !.op = IF stop THEN "idle" ELSE "control",
                                        !.executed = n, !.said = PgQuiet]
        /\ IF stop THEN UNCHANGED pgQueue ELSE pgQueue' = Append(pgQueue, c)
        /\ UNCHANGED <<pgServer, pgWorker, pgStopped>>
    BY DEF PgControl, PgQueued
  <1>2. pgCaller.executed \in 0..PgExecutes /\ n \in Nat /\ n \in 0..PgExecutes
    BY <1>1 DEF PgInv, PgTypes, PgCallers
  <1>3. c \in PgCommands /\ c.op \in {"begin", "commit", "rollback", "chain"}
    BY <1>1, <1>2 DEF PgCommands, PgControls
  <1> HIDE DEF c
  <1>4. /\ pgCaller' \in PgCallers /\ pgCaller'.said = PgQuiet
        /\ pgCaller'.executed = n /\ pgCaller'.cursor = pgCaller.cursor
        /\ pgCaller'.op = IF stop THEN "idle" ELSE "control"
    BY <1>1, <1>2, PgSayingsOf DEF PgInv, PgTypes, PgCallers
  <1>5. ~PgReading /\ ~PgBusy
    BY <1>1, PgReadingKeeps DEF PgInv, PgLine
  <1>6. pgCancel' \in PgCancels /\ pgCancel'.cancelled = pgCancel.cancelled
    <2>1. pgCancel \in PgCancels /\ pgCancel.current + 1 \in Nat
      BY DEF PgInv, PgTypes, PgCancels
    <2>2. PICK running \in BOOLEAN : running = ~stop
      OBVIOUS
    <2>3. pgCancel' = [pgCancel EXCEPT !.current = pgCancel.current + 1, !.running = running]
      BY <1>1, <2>2
    <2> QED
      BY <2>1, <2>3 DEF PgCancels
  <1>7. CASE stop
    BY <1>1, <1>4, <1>5, <1>6, <1>7, PgAside
  <1> HIDE DEF n
  <1>8. CASE ~stop
    BY <1>1, <1>3, <1>4, <1>5, <1>6, <1>8, PgRequests DEF n
  <1> QED
    BY <1>7, <1>8

LEMMA PgAskStep ==
    ASSUME PgInv, PgFetch \/ PgFinish \/ (\E op \in {"commit", "rollback", "chain", "catalog"} : PgAsk(op))
    PROVE  PgInv' /\ PgPromised
  <1>1. pgCaller \in PgCallers /\ pgCancel \in PgCancels /\ pgCaller.executed \in 0..PgExecutes
        /\ pgCaller.cursor \in Nat
    BY DEF PgInv, PgTypes, PgCallers
  <1>2. CASE PgFetch
    <2>1. /\ pgCaller.op = "idle" /\ UNCHANGED <<pgCancel, pgServer, pgWorker, pgStopped>>
          /\ pgQueue' = Append(pgQueue, [op |-> "fetch", n |-> pgCaller.cursor, sort |-> "none", auto |-> FALSE])
      BY <1>2 DEF PgFetch, PgQueued
    <2>2. /\ pgCaller' \in PgCallers /\ pgCaller'.op = "fetch" /\ pgCaller'.said = PgQuiet
          /\ pgCaller'.executed = pgCaller.executed /\ pgCaller'.cursor = pgCaller.cursor
      BY <1>1, <1>2, PgSayingsOf DEF PgFetch, PgCallers
    <2>3. PICK c \in PgCommands : c.op = "fetch" /\ pgQueue' = Append(pgQueue, c)
      BY <1>1, <2>1 DEF PgCommands
    <2> QED
      BY <1>1, <2>1, <2>2, <2>3, PgRequests, PgReadingKeeps
  <1>3. CASE PgFinish
    <2>1. /\ pgCaller.op = "idle" /\ UNCHANGED <<pgCancel, pgServer, pgWorker, pgStopped>>
          /\ pgQueue' = Append(pgQueue, [op |-> "finish", n |-> pgCaller.cursor, sort |-> "none", auto |-> FALSE])
      BY <1>3 DEF PgFinish, PgQueued
    <2>2. /\ pgCaller' \in PgCallers /\ pgCaller'.op = "ask" /\ pgCaller'.said = PgQuiet
          /\ pgCaller'.executed = pgCaller.executed
      BY <1>1, <1>3, PgSayingsOf DEF PgFinish, PgCallers
    <2>3. PICK c \in PgCommands : c.op = "finish" /\ c.n = pgCaller.cursor /\ pgQueue' = Append(pgQueue, c)
      BY <1>1, <2>1 DEF PgCommands
    <2> QED
      BY <1>1, <2>1, <2>2, <2>3, PgRequests, PgReadingKeeps
  <1>4. ASSUME NEW op \in {"commit", "rollback", "chain", "catalog"}, PgAsk(op)
        PROVE  PgInv' /\ PgPromised
    <2>1. /\ pgCaller.op = "idle" /\ UNCHANGED <<pgCancel, pgServer, pgWorker, pgStopped>>
          /\ pgQueue' = Append(pgQueue, [op |-> op, n |-> 0, sort |-> "none", auto |-> FALSE])
          /\ pgCaller.cursor = 0 \/ op = "catalog"
      BY <1>4 DEF PgAsk, PgQueued
    <2>2. /\ pgCaller' \in PgCallers /\ pgCaller'.op = "ask" /\ pgCaller'.said = PgQuiet
          /\ pgCaller'.executed = pgCaller.executed /\ pgCaller'.cursor = pgCaller.cursor
      BY <1>1, <1>4, PgSayingsOf DEF PgAsk, PgCallers
    <2>3. PICK c \in PgCommands : c.op = op /\ pgQueue' = Append(pgQueue, c)
      BY <1>1, <2>1 DEF PgCommands
    <2>4. PgReading => op = "catalog" /\ pgCaller.cursor = pgWorker.gen
      BY <2>1, PgReadingKeeps
    <2> QED
      BY <1>1, <2>1, <2>2, <2>3, <2>4, PgRequests
  <1> QED
    BY <1>2, <1>3, <1>4

LEMMA PgAsideStep ==
    ASSUME PgInv, PgControlled \/ PgInterrupt \/ PgSent \/ (\E g \in 1..PgExecutes : PgCancelQuery(g))
    PROVE  PgInv' /\ PgPromised
  <1>1. pgCancel \in PgCancels /\ pgCaller \in PgCallers
    BY DEF PgInv, PgTypes
  <1>2. CASE PgControlled
    <2>1. /\ pgCaller' \in PgCallers /\ pgCaller'.cursor = pgCaller.cursor /\ pgCaller'.op = "idle"
          /\ pgCaller.op = "controlled" /\ pgCaller'.executed = pgCaller.executed
          /\ pgCaller'.said = pgCaller.said
      BY <1>1, <1>2 DEF PgControlled, PgCallers
    <2>2. /\ pgCancel' \in PgCancels /\ pgCancel'.current = pgCancel.current
          /\ pgCancel'.cancelled = pgCancel.cancelled
          /\ UNCHANGED <<pgServer, pgWorker, pgQueue, pgStopped>>
      BY <1>1, <1>2 DEF PgControlled, PgCancels
    <2> QED
      BY <2>1, <2>2, PgAside
  <1>3. CASE PgInterrupt
    <2>1. /\ pgCancel' \in PgCancels /\ pgCancel'.current = pgCancel.current
          /\ pgCancel'.cancelled = pgCancel.current
          /\ UNCHANGED <<pgServer, pgWorker, pgQueue, pgStopped, pgCaller>>
      BY <1>1, <1>3 DEF PgInterrupt, PgCancels
    <2>2. PgReading => pgCancel.current = pgWorker.gen
      BY DEF PgInv, PgHeld
    <2> QED
      BY <1>1, <2>1, <2>2, PgAside
  <1>4. CASE PgSent
    <2>1. /\ pgCancel' \in PgCancels /\ pgCancel'.current = pgCancel.current
          /\ pgCancel'.cancelled = pgCancel.cancelled
          /\ UNCHANGED <<pgServer, pgWorker, pgQueue, pgStopped, pgCaller>>
      BY <1>1, <1>4 DEF PgSent, PgCancels
    <2> QED
      BY <1>1, <2>1, PgAside
  <1>5. ASSUME NEW g \in 1..PgExecutes, PgCancelQuery(g)
        PROVE  PgInv' /\ PgPromised
    <2>1. PICK sending : pgCancel' = [pgCancel EXCEPT !.cancelled = g, !.sending = sending]
                         /\ sending = (g = pgCancel.current /\ pgCancel.running)
      BY <1>5 DEF PgCancelQuery
    <2>2. sending \in BOOLEAN /\ g \in Nat
      BY <2>1
    <2>3. /\ pgCancel' \in PgCancels /\ pgCancel'.current = pgCancel.current
          /\ pgCancel'.cancelled = g
      BY <1>1, <2>1, <2>2 DEF PgCancels
    <2>4. /\ UNCHANGED <<pgServer, pgWorker, pgQueue, pgCaller>> /\ pgCaller.op # "gone"
          /\ g = pgCancel.current \/ (g = pgCancel.current + 1 /\ PgHandleTaken)
          /\ pgStopped' = IF g = pgWorker.gen /\ PgSuspended THEN pgStopped \cup {pgWorker.n} ELSE pgStopped
      BY <1>5 DEF PgCancelQuery
    <2>5. PgReading => pgCancel.current = pgWorker.gen /\ ~PgHandleTaken
      BY <2>4 DEF PgInv, PgHeld, PgHandleTaken
    <2>6. PgReading => pgCancel'.cancelled = pgWorker.gen
      BY <2>3, <2>4, <2>5
    <2>7. \/ UNCHANGED pgStopped
          \/ /\ PgSuspended /\ pgCancel'.cancelled = pgWorker.gen
             /\ pgStopped' = pgStopped \cup {pgWorker.n}
      BY <2>3, <2>4
    <2> QED
      BY <1>1, <2>3, <2>4, <2>6, <2>7, PgAside
  <1> QED
    BY <1>2, <1>3, <1>4, <1>5

LEMMA PgGoneStep ==
    ASSUME PgInv, PgLeave \/ PgControlTimesOut
    PROVE  PgInv' /\ PgPromised
  <1>1. /\ pgCaller.op # "gone" /\ UNCHANGED <<pgServer, pgWorker, pgStopped>>
        /\ pgCancel' = [pgCancel EXCEPT !.closing = TRUE]
        /\ pgCaller' = [pgCaller EXCEPT !.op = "gone", !.said = PgQuiet]
        /\ PgQueued("close", 0, "none", FALSE)
    BY DEF PgLeave, PgControlTimesOut
  <1> QED
    BY <1>1, PgGoes

\* The server goes back on what is open, unless it was just committing.
LEMMA PgHangUpStep ==
    ASSUME PgInv, PgHangUp
    PROVE  PgInv' /\ PgPromised
  <1> DEFINE n == pgWorker.n
             kept == [pgServer EXCEPT !.saved = @ \cup {pgWorker.n}]
  <1>1. /\ pgServer.up /\ UNCHANGED <<pgCancel, pgWorker, pgQueue, pgCaller, pgStopped>>
        /\ pgServer \in PgServers /\ pgCaller \in PgCallers /\ pgWorker \in PgWorkers
    BY DEF PgHangUp, PgInv, PgTypes
  <1>2. PICK s : /\ pgServer' = [PgRolledBack(s) EXCEPT !.up = FALSE]
                 /\ \/ s = pgServer
                    \/ pgWorker.at = "commit" /\ s = PgEnded(pgServer)
                    \/ pgWorker.at = "implicit" /\ s = kept
    BY DEF PgHangUp
  <1>3. pgWorker.at = "implicit" => PgNew(n) /\ n \in PgEffects /\ pgServer.work = {}
    BY <1>1 DEF PgInv, PgNumbered, PgAccounts, PgTypes, PgCallers, PgNew, PgEffects
  <1>4. /\ s \in PgServers
        /\ \/ s = pgServer
           \/ /\ pgWorker.at = "commit" /\ s.work = {} /\ s.saved = pgServer.saved \cup pgServer.work
              /\ s.undone = pgServer.undone
           \/ /\ pgWorker.at = "commit" /\ s.work = {} /\ s.saved = pgServer.saved
              /\ s.undone = pgServer.undone \cup pgServer.work
           \/ /\ pgWorker.at = "implicit" /\ s.work = {} /\ s.saved = pgServer.saved \cup {n}
              /\ s.undone = pgServer.undone
    <2>1. CASE s = pgServer
      BY <1>1, <2>1
    <2>2. CASE pgWorker.at = "commit" /\ s = PgEnded(pgServer)
      BY <1>1, <2>2, PgServerFacts
    <2>3. CASE pgWorker.at = "implicit" /\ s = kept
      BY <1>1, <1>3, <2>3 DEF PgServers
    <2> QED
      BY <1>2, <2>1, <2>2, <2>3
  <1>5. /\ pgServer' \in PgServers /\ pgServer'.work = {} /\ ~pgServer'.up /\ ~pgServer'.failed
        /\ pgServer'.saved = s.saved /\ pgServer'.undone = s.undone \cup s.work
    <2>1. /\ PgRolledBack(s) \in PgServers /\ PgRolledBack(s).work = {}
          /\ ~PgRolledBack(s).failed /\ PgRolledBack(s).saved = s.saved
          /\ PgRolledBack(s).undone = s.undone \cup s.work
      BY <1>4, PgServerFacts
    <2>2. pgServer' = [PgRolledBack(s) EXCEPT !.up = FALSE]
      BY <1>2
    <2> QED
      BY <2>1, <2>2 DEF PgServers
  <1>6. \/ /\ pgServer'.saved = pgServer.saved /\ pgServer'.undone = pgServer.undone \cup pgServer.work
        \/ /\ pgWorker.at = "commit" /\ pgServer'.saved = pgServer.saved \cup pgServer.work
           /\ pgServer'.undone = pgServer.undone
        \/ /\ pgWorker.at = "implicit" /\ pgServer'.saved = pgServer.saved \cup {n}
           /\ pgServer'.undone = pgServer.undone
    BY <1>4, <1>5
  <1> HIDE DEF kept
  <1>7. PgTypes'
    BY <1>1, <1>5 DEF PgInv, PgTypes
  <1>8. PgLine'
    BY <1>1 DEF PgInv, PgLine, PgBusy
  <1>9. PgTouched' \subseteq PgTouched \cup (IF pgWorker.at = "implicit" THEN {n} ELSE {})
    BY <1>1, <1>3, <1>5, <1>6 DEF PgTouched
  <1>10. PgNumbered'
    <2>1. pgWorker.at = "implicit" => /\ n <= pgCaller.executed
                                      /\ pgQueue # <<>> => pgQueue[1].op = "close"
      BY <1>1, <1>3 DEF PgInv, PgLine, PgBusy, PgNew, PgCallers
    <2>2. \A e \in PgTouched' : e <= pgCaller.executed
      BY <1>9, <2>1 DEF PgInv, PgNumbered
    <2>3. pgWorker.at # "implicit" => \A m : PgNew(m) => PgNew(m)'
      BY <1>1, <1>9 DEF PgNew
    <2>4. pgQueue' # <<>> => /\ pgQueue'[1].op \in {"execute", "edit"} => PgNew(pgQueue[1].n)'
                             /\ pgQueue'[1].op = "execute" => pgQueue'[1].sort # "begin"
      BY <1>1, <2>1, <2>3 DEF PgInv, PgNumbered
    <2>5. \/ pgWorker.at = "bind"
          \/ pgWorker.at = "begin" /\ pgWorker.sort # "begin"
          => PgNew(n)'
      BY <1>1, <2>3 DEF PgInv, PgNumbered
    <2> QED
      BY <1>1, <1>5, <2>2, <2>4, <2>5 DEF PgNumbered, PgNew
  <1>11. PgAccounts'
    BY <1>1, <1>5, <1>6 DEF PgInv, PgAccounts, PgStarting
  <1>12. PgHeld'
    BY <1>1, <1>5, <1>6 DEF PgInv, PgHeld, PgReading, PgAccounts
  <1>13. PgStops'
    <2>1. pgWorker.at = "commit" => pgStopped \cap pgServer.work = {}
      BY DEF PgInv, PgStops, PgAccounts
    <2>2. pgWorker.at = "implicit" => n \notin pgStopped
      BY <1>3 DEF PgNew, PgTouched
    <2> QED
      BY <1>1, <1>5, <1>6, <2>1, <2>2 DEF PgInv, PgStops
  <1>14. PgMoves
    <2>1. CASE pgServer'.saved = pgServer.saved /\ pgServer'.undone = pgServer.undone \cup pgServer.work
      BY <1>5, <2>1 DEF PgMoves, PgPromise!TakeBack
    <2>2. CASE /\ pgWorker.at = "commit" /\ pgServer'.saved = pgServer.saved \cup pgServer.work
               /\ pgServer'.undone = pgServer.undone
      <3>1. CASE pgWorker.auto
        <4>1. pgServer.work = {} \/ (pgServer.work = {n} /\ n \in PgEffects)
          BY <1>1, <3>1 DEF PgInv, PgAccounts, PgStarting, PgServers
        <4>2. PgWant = "one"
          BY <2>2, <3>1 DEF PgWant
        <4> QED
          BY <1>5, <2>2, <4>1, <4>2 DEF PgMoves, PgPromise!SaveOne
      <3>2. CASE ~pgWorker.auto
        <4>1. PgWant = "all"
          BY <2>2, <3>2 DEF PgWant
        <4> QED
          BY <1>5, <2>2, <4>1 DEF PgMoves, PgPromise!SaveAll
      <3> QED
        BY <3>1, <3>2
    <2>3. CASE /\ pgWorker.at = "implicit" /\ pgServer'.saved = pgServer.saved \cup {n}
               /\ pgServer'.undone = pgServer.undone
      <3>1. PgWant = "one"
        BY <2>3 DEF PgWant
      <3>2. n \in PgEffects /\ n \notin pgServer.work \cup pgServer.saved \cup pgServer.undone
        BY <1>3, <2>3 DEF PgNew, PgTouched
      <3> QED
        BY <1>3, <1>5, <2>3, <3>1, <3>2 DEF PgMoves, PgPromise!SaveOne, PgPromise!New
    <2> QED
      BY <1>6, <2>1, <2>2, <2>3
  <1>15. PgPromised
    BY <1>1, <1>14, PgSaysNothing
  <1> QED
    BY <1>7, <1>8, <1>10, <1>11, <1>12, <1>13, <1>15 DEF PgInv

-----------------------------------------------------------------------------
(***************************************************************************)
(* Steps of the worker.                                                    *)
(***************************************************************************)
\* The worker is done with the server, or has been refused: its own work is at rest.
LEMMA PgOutsideStep ==
    ASSUME PgInv, PgWorks, UNCHANGED pgStopped, pgCancel' \in PgCancels,
           pgServer' \in PgServers, pgServer'.work = {},
           \/ pgWorker' = PgOutside
           \/ pgWorker' \in PgWorkers /\ pgWorker'.at = "outside" /\ ~pgWorker'.active,
           pgCaller' \in PgCallers, pgCaller'.executed = pgCaller.executed,
           pgCaller.op = "gone" => pgCaller'.op = "gone",
           pgCaller.op # "gone" => pgCaller'.op \in {pgCaller.op, "idle", "controlled"},
           \A e \in (pgServer'.saved \cup pgServer'.undone) \ PgTouched : e \in 1..pgCaller.executed,
           pgStopped \cap pgServer'.saved = {}
    PROVE  PgInv'
  <1>1. /\ pgWorker' \in PgWorkers /\ pgWorker'.at = "outside" /\ ~pgWorker'.active
        /\ ~PgBusy'
    <2>1. PgOutside \in PgWorkers /\ PgOutside.at = "outside" /\ ~PgOutside.active
      BY DEF PgOutside, PgWorkers
    <2>2. pgWorker' \in PgWorkers /\ pgWorker'.at = "outside" /\ ~pgWorker'.active
      BY <2>1
    <2> QED
      BY <2>2 DEF PgBusy
  <1>2. PgTypes' /\ PgLine' /\ PgNumbered'
    BY <1>1, PgWorkerStep
  <1>3. PgAccounts' /\ PgHeld' /\ PgStops'
    BY <1>1 DEF PgAccounts, PgStarting, PgHeld, PgReading, PgStops
  <1> QED
    BY <1>2, <1>3 DEF PgInv

\* A statement that was cancelled before it begins is refused; another one takes the worker.
LEMMA PgBeginStep ==
    ASSUME PgInv, NEW c \in PgCommands, NEW at \in {"implicit", "begin", "bind"}, NEW fresh \in BOOLEAN,
           PgBeginGeneration(c, at, fresh),
           pgQueue # <<>>, Head(pgQueue).op = "execute", pgQueue' = Tail(pgQueue),
           c.n = Head(pgQueue).n, c.sort = Head(pgQueue).sort,
           UNCHANGED <<pgServer, pgStopped>>,
           \/ pgWorker.at = "outside" /\ at \in {"implicit", "begin"} /\ fresh
           \/ pgWorker.at = "inside" /\ at = "bind" /\ ~fresh /\ ~c.auto
    PROVE  PgInv' /\ PgPromised
  <1> DEFINE refused == [pgWorker EXCEPT !.active = FALSE]
             taken == [pgWorker EXCEPT !.at = at, !.n = c.n, !.sort = c.sort,
                        !.gen = pgCancel.current + 1, !.auto = c.auto, !.fresh = fresh,
                        !.active = FALSE, !.complete = FALSE]
  <1>1. PICK stop \in BOOLEAN :
        /\ pgCancel' = [pgCancel EXCEPT !.current = @ + 1, !.running = ~stop]
        /\ stop => /\ PgReply(PgDidNot(c.n), 0)
                   /\ pgWorker' = IF fresh THEN PgOutside ELSE refused
        /\ ~stop => pgWorker' = taken /\ UNCHANGED pgCaller
    BY DEF PgBeginGeneration
  <1>2. /\ pgCancel \in PgCancels /\ pgWorker \in PgWorkers /\ pgServer \in PgServers
        /\ pgCaller \in PgCallers /\ pgCancel.current + 1 \in Nat
    BY DEF PgInv, PgTypes, PgCancels
  <1>3. pgCancel' \in PgCancels
    <2>1. PICK running \in BOOLEAN : running = ~stop
      OBVIOUS
    <2>2. pgCancel' = [pgCancel EXCEPT !.current = pgCancel.current + 1, !.running = running]
      BY <1>1, <2>1
    <2> QED
      BY <1>2, <2>2 DEF PgCancels
  <1>4. PgNew(c.n) /\ c.sort # "begin" /\ c.n \in PgEffects /\ c.n \in 1..pgCaller.executed
        /\ c.n \notin pgServer.work \cup pgServer.saved \cup pgServer.undone \cup pgStopped
    <2>1. pgQueue[1] = Head(pgQueue)
      BY PgTails DEF PgInv
    <2>2. PgNew(c.n) /\ c.sort # "begin"
      BY <2>1 DEF PgInv, PgNumbered
    <2> QED
      BY <1>2, <2>2 DEF PgNew, PgTouched, PgCallers, PgEffects
  <1>5. ~PgBusy /\ ~PgReading /\ PgWorks
    <2>1. ~PgBusy
      BY DEF PgBusy
    <2>2. pgQueue[1].op = "execute"
      BY PgTails DEF PgInv
    <2> QED
      BY <2>1, <2>2 DEF PgInv, PgHeld, PgWorks
  <1>6. pgStopped \cap pgServer.work = {} /\ pgStopped \cap pgServer.saved = {}
    BY <1>5 DEF PgInv, PgStops, PgReading
  <1>7. CASE stop
    <2>1. /\ pgCaller' \in PgCallers /\ pgCaller'.executed = pgCaller.executed
          /\ pgCaller.op = "gone" => pgCaller' = pgCaller
          /\ pgCaller.op # "gone" => /\ pgCaller'.op \in {"idle", "controlled"}
                                     /\ pgCaller'.said = PgDidNot(c.n)
      BY <1>1, <1>4, <1>7, PgReplies, PgSayingsOf DEF PgInv
    <2>2. PgPromised
      <3>1. PgSo(PgDidNot(c.n)) /\ PgMoves /\ PgDidNot(c.n) \in PgSayings
        BY <1>4, PgSayingsOf DEF PgSo, PgMoves
      <3>2. pgCaller'.said \in {pgCaller.said, PgDidNot(c.n)}
        BY <2>1
      <3> QED
        BY <3>1, <3>2, PgSaysTruly
    <2>3. CASE fresh
      <3>1. pgServer.work = {} /\ pgWorker' = PgOutside
        BY <1>1, <1>7, <2>3 DEF PgInv, PgAccounts, PgStarting
      <3>2. PgInv'
        BY <1>2, <1>3, <1>5, <1>6, <2>1, <3>1, PgOutsideStep DEF PgTouched
      <3> QED
        BY <2>2, <3>2
    <2>4. CASE ~fresh
      <3>1. /\ pgWorker' \in PgWorkers /\ pgWorker'.at = "inside" /\ pgWorker'.n = pgWorker.n
            /\ pgWorker'.auto = pgWorker.auto /\ ~pgWorker'.active /\ ~PgBusy'
        BY <1>1, <1>2, <1>7, <2>4 DEF PgWorkers, PgBusy
      <3>2. PgTypes' /\ PgLine' /\ PgNumbered'
        BY <1>2, <1>3, <1>5, <2>1, <3>1, PgWorkerStep DEF PgTouched
      <3>3. PgAccounts' /\ PgHeld' /\ PgStops'
        BY <1>6, <3>1 DEF PgInv, PgAccounts, PgStarting, PgHeld, PgReading, PgStops
      <3> QED
        BY <2>2, <3>2, <3>3 DEF PgInv
    <2> QED
      BY <2>3, <2>4
  <1>8. CASE ~stop
    <2>1. c.n \in Nat /\ c.sort \in PgSorts \cup {"none"} /\ c.auto \in BOOLEAN
      BY DEF PgCommands
    <2>2. /\ pgWorker' \in PgWorkers /\ pgWorker'.at = at /\ pgWorker'.n = c.n
          /\ pgWorker'.sort = c.sort /\ pgWorker'.auto = c.auto /\ ~pgWorker'.active
          /\ pgWorker'.gen = pgCancel.current + 1
      BY <1>1, <1>2, <1>8, <2>1 DEF PgWorkers
    <2>3. PgTypes' /\ PgLine' /\ PgNumbered'
      BY <1>1, <1>2, <1>3, <1>4, <1>5, <1>8, <2>2, PgWorkerStep DEF PgTouched
    <2>4. pgWorker.at = "outside" => pgServer.work = {}
      BY DEF PgInv, PgAccounts, PgStarting
    <2>5. PgAccounts' /\ PgHeld' /\ PgStops'
      <3>1. pgCancel'.current = pgCancel.current + 1 /\ pgCancel.current + 1 # 0
        BY <1>1, <1>2 DEF PgCancels
      <3> QED
        BY <1>6, <2>2, <2>4, <3>1 DEF PgInv, PgAccounts, PgStarting, PgHeld, PgReading, PgStops
    <2>6. PgPromised
      BY <1>1, <1>8, PgSaysNothing DEF PgMoves
    <2> QED
      BY <2>3, <2>5, <2>6 DEF PgInv
  <1> QED
    BY <1>7, <1>8

LEMMA PgTakeExecuteStep ==
    ASSUME PgInv, PgTakeExecute \/ PgTakeManual
    PROVE  PgInv' /\ PgPromised
  <1> DEFINE c == [PgCommand EXCEPT !.auto = FALSE]
  <1>1. /\ pgQueue # <<>> /\ Head(pgQueue).op = "execute" /\ pgQueue' = Tail(pgQueue)
        /\ UNCHANGED <<pgServer, pgStopped>> /\ Head(pgQueue) \in PgCommands
    BY PgTails DEF PgInv, PgTakeExecute, PgTakeManual, PgHas, PgTaken, PgCommand
  <1>2. CASE PgTakeExecute
    <2>1. PICK at \in {"implicit", "begin"} : PgBeginGeneration(Head(pgQueue), at, TRUE)
      BY <1>2 DEF PgTakeExecute, PgCommand
    <2>2. pgWorker.at = "outside"
      BY <1>2 DEF PgTakeExecute
    <2> QED
      BY <1>1, <2>1, <2>2, PgBeginStep
  <1>3. CASE PgTakeManual
    <2>1. c \in PgCommands /\ c.n = Head(pgQueue).n /\ c.sort = Head(pgQueue).sort /\ ~c.auto
      BY <1>1 DEF PgCommands, PgCommand
    <2>2. pgWorker.at = "inside" /\ PgBeginGeneration(c, "bind", FALSE)
      BY <1>3 DEF PgTakeManual
    <2> HIDE DEF c
    <2> QED
      BY <1>1, <2>1, <2>2, PgBeginStep
  <1> QED
    BY <1>2, <1>3

LEMMA PgImplicitStep ==
    ASSUME PgInv, PgImplicit
    PROVE  PgInv' /\ PgPromised
  <1> DEFINE n == pgWorker.n
  <1>1. /\ pgWorker.at = "implicit" /\ UNCHANGED <<pgQueue, pgStopped>> /\ pgWorker' = PgOutside
        /\ pgCancel' = [pgCancel EXCEPT !.running = FALSE]
        /\ pgServer \in PgServers /\ pgCancel \in PgCancels /\ pgServer.work = {}
        /\ pgStopped \cap pgServer.saved = {} /\ pgWorker.gen \in Nat
    BY DEF PgImplicit, PgGoOutside, PgInv, PgTypes, PgAccounts, PgStops, PgWorkers
  <1>2. PgWorks /\ pgCancel' \in PgCancels
    BY <1>1 DEF PgWorks, PgBusy, PgCancels
  <1>3. CASE /\ PgSends /\ pgServer' = [pgServer EXCEPT !.saved = @ \cup {n}]
             /\ PgReply(PgDid(TRUE), pgWorker.gen) \/ PgReply(PgQuiet, 0)
    <2>1. /\ n \in PgEffects /\ n \in 1..pgCaller.executed
          /\ n \notin pgServer.work \cup pgServer.saved \cup pgServer.undone \cup pgStopped
      BY <1>1, <1>3 DEF PgSends, PgInv, PgNumbered, PgNew, PgTouched, PgTypes, PgCallers, PgEffects
    <2>2. PICK s \in {PgDid(TRUE), PgQuiet}, cursor \in Nat : PgReply(s, cursor)
      BY <1>1, <1>3
    <2>3. s \in PgSayings /\ (s.of = {} \/ s.of = {n}) /\ (s.done => s.of = {n} /\ s.own) /\ (~s.done => s.of = {})
      BY <2>1, PgSayingsOf
    <2>4. /\ pgCaller' \in PgCallers /\ pgCaller'.executed = pgCaller.executed
          /\ pgCaller.op = "gone" => pgCaller'.op = "gone"
          /\ pgCaller.op # "gone" => pgCaller'.op \in {pgCaller.op, "idle", "controlled"}
          /\ pgCaller'.said \in {pgCaller.said, s}
      BY <2>2, <2>3, PgReplies DEF PgInv
    <2>5. /\ pgServer' \in PgServers /\ pgServer'.work = {} /\ pgServer'.saved = pgServer.saved \cup {n}
          /\ pgServer'.undone = pgServer.undone
      BY <1>1, <1>3, <2>1 DEF PgServers
    <2>6. PgInv'
      BY <1>1, <1>2, <2>1, <2>4, <2>5, PgOutsideStep DEF PgTouched
    <2>7. PgWant = "one"
      BY <1>1 DEF PgWant
    <2>8. PgMoves
      BY <1>1, <2>1, <2>5, <2>7 DEF PgMoves, PgPromise!SaveOne, PgPromise!New
    <2>9. PgSo(s)
      BY <2>3, <2>5 DEF PgSo
    <2> QED
      BY <2>3, <2>4, <2>6, <2>8, <2>9, PgSaysTruly
  <1>4. CASE /\ PgSends \/ PgLost
             /\ PgReply(IF PgLost THEN PgQuiet ELSE PgDidNot(pgWorker.n), 0)
             /\ UNCHANGED pgServer
    <2>1. ~PgLost => n \in PgEffects /\ n \notin pgServer.work \cup pgServer.saved
      BY <1>1 DEF PgLost, PgInv, PgNumbered, PgNew, PgTouched, PgTypes, PgCallers, PgEffects
    <2>2. PICK s : s = (IF PgLost THEN PgQuiet ELSE PgDidNot(pgWorker.n))
      OBVIOUS
    <2>3. s \in PgSayings /\ ~s.done /\ PgReply(s, 0) /\ (s.of = {} \/ (~PgLost /\ s.of = {n}))
      BY <1>4, <2>1, <2>2, PgSayingsOf
    <2>4. /\ pgCaller' \in PgCallers /\ pgCaller'.executed = pgCaller.executed
          /\ pgCaller.op = "gone" => pgCaller'.op = "gone"
          /\ pgCaller.op # "gone" => pgCaller'.op \in {pgCaller.op, "idle", "controlled"}
          /\ pgCaller'.said \in {pgCaller.said, s}
      BY <2>3, PgReplies DEF PgInv
    <2>5. PgInv'
      BY <1>1, <1>2, <1>4, <2>4, PgOutsideStep DEF PgTouched
    <2>6. PgSo(s) /\ PgMoves
      BY <1>4, <2>1, <2>3 DEF PgSo, PgMoves
    <2> QED
      BY <2>3, <2>4, <2>5, <2>6, PgSaysTruly
  <1> QED
    BY <1>3, <1>4 DEF PgImplicit

\* An answer that says nothing of a statement.
LEMMA PgAnswers ==
    ASSUME PgTypes, PgAnswer \/ (\E cursor \in Nat : PgReply(PgQuiet, cursor))
    PROVE  /\ pgCaller' \in PgCallers /\ pgCaller'.executed = pgCaller.executed
           /\ pgCaller.op = "gone" => pgCaller' = pgCaller
           /\ pgCaller.op # "gone" => pgCaller'.op \in {"idle", "controlled"}
           /\ PgAnswer /\ pgCaller.op # "gone" => pgCaller'.cursor = pgCaller.cursor
           /\ pgCaller'.said \in {pgCaller.said, PgQuiet}
  <1>1. pgCaller.cursor \in Nat /\ PgQuiet \in PgSayings
    BY PgSayingsOf DEF PgTypes, PgCallers
  <1>2. PICK cursor \in Nat : PgReply(PgQuiet, cursor) /\ (PgAnswer => cursor = pgCaller.cursor)
    BY <1>1 DEF PgAnswer
  <1> QED
    BY <1>1, <1>2, PgReplies

LEMMA PgTakeBeginStep ==
    ASSUME PgInv, PgTakeBegin
    PROVE  PgInv' /\ PgPromised
  <1>1. /\ pgWorker.at = "outside" /\ pgQueue # <<>> /\ Head(pgQueue).op = "begin" /\ pgQueue' = Tail(pgQueue)
        /\ pgWorker' = [PgOutside EXCEPT !.at = "begin", !.sort = "begin"]
        /\ UNCHANGED <<pgCancel, pgServer, pgCaller, pgStopped>>
    BY DEF PgTakeBegin, PgHas, PgTaken, PgCommand
  <1>2. /\ pgWorker' \in PgWorkers /\ pgWorker'.at = "begin" /\ pgWorker'.sort = "begin" /\ ~pgWorker'.active
        /\ pgServer.work = {} /\ pgCancel \in PgCancels /\ pgServer \in PgServers /\ pgCaller \in PgCallers
        /\ pgStopped \cap pgServer.saved = {}
    BY <1>1 DEF PgOutside, PgWorkers, PgInv, PgAccounts, PgTypes, PgStops
  <1>3. PgWorks
    BY <1>1 DEF PgWorks, PgBusy
  <1>4. PgTypes' /\ PgLine' /\ PgNumbered'
    BY <1>1, <1>2, <1>3, PgWorkerStep DEF PgTouched
  <1>5. PgAccounts' /\ PgHeld' /\ PgStops'
    BY <1>1, <1>2 DEF PgAccounts, PgStarting, PgHeld, PgReading, PgStops, PgInv
  <1>6. PgPromised
    BY <1>1, PgSaysNothing DEF PgMoves
  <1> QED
    BY <1>4, <1>5, <1>6 DEF PgInv

LEMMA PgBegunStep ==
    ASSUME PgInv, PgBegun
    PROVE  PgInv' /\ PgPromised
  <1>1. /\ pgWorker.at = "begin" /\ UNCHANGED <<pgQueue, pgStopped>>
        /\ pgServer \in PgServers /\ pgCancel \in PgCancels /\ pgWorker \in PgWorkers /\ pgCaller \in PgCallers
        /\ pgServer.work = {} /\ pgStopped \cap pgServer.saved = {} /\ ~pgWorker.active /\ PgTypes
    BY DEF PgBegun, PgInv, PgTypes, PgAccounts, PgStops
  <1>2. PgWorks
    BY <1>1 DEF PgWorks, PgBusy
  <1>3. CASE /\ PgSends /\ pgServer' = [pgServer EXCEPT !.open = TRUE] /\ UNCHANGED pgCancel
             /\ pgWorker.sort = "begin" /\ PgGo("inside") /\ PgAnswer
    <2>1. /\ pgServer' \in PgServers /\ pgServer'.work = {} /\ pgServer'.saved = pgServer.saved
          /\ pgServer'.undone = pgServer.undone
      BY <1>1, <1>3 DEF PgServers
    <2>2. /\ pgWorker' \in PgWorkers /\ pgWorker'.at = "inside" /\ ~pgWorker'.active /\ ~PgBusy'
      BY <1>1, <1>3 DEF PgGo, PgWorkers, PgBusy
    <2>3. PgTypes' /\ PgLine' /\ PgNumbered'
      BY <1>1, <1>2, <1>3, <2>1, <2>2, PgAnswers, PgWorkerStep DEF PgTouched
    <2>4. PgAccounts' /\ PgHeld' /\ PgStops'
      BY <1>1, <2>1, <2>2 DEF PgAccounts, PgStarting, PgHeld, PgReading, PgStops
    <2>5. PgPromised
      BY <1>1, <1>3, <2>1, PgAnswers, PgSaysNothing DEF PgMoves
    <2> QED
      BY <2>3, <2>4, <2>5 DEF PgInv
  <1>4. CASE /\ PgSends /\ pgServer' = [pgServer EXCEPT !.open = TRUE] /\ UNCHANGED <<pgCancel, pgCaller>>
             /\ pgWorker.sort # "begin" /\ PgGo("bind")
    <2>1. /\ pgServer' \in PgServers /\ pgServer'.work = {} /\ pgServer'.saved = pgServer.saved
          /\ pgServer'.undone = pgServer.undone
      BY <1>1, <1>4 DEF PgServers
    <2>2. /\ pgWorker' \in PgWorkers /\ pgWorker'.at = "bind" /\ ~pgWorker'.active /\ pgWorker'.n = pgWorker.n
          /\ pgWorker'.gen = pgWorker.gen
      BY <1>1, <1>4 DEF PgGo, PgWorkers
    <2>3. /\ pgWorker.n \in 1..pgCaller.executed
          /\ pgWorker.n \notin pgServer.work \cup pgServer.saved \cup pgServer.undone \cup pgStopped
      BY <1>1, <1>4 DEF PgInv, PgNumbered, PgNew, PgTouched
    <2>4. PgTypes' /\ PgLine' /\ PgNumbered'
      BY <1>1, <1>2, <1>4, <2>1, <2>2, <2>3, PgWorkerStep DEF PgTouched
    <2>5. PgAccounts' /\ PgHeld' /\ PgStops'
      BY <1>1, <1>4, <2>1, <2>2 DEF PgInv, PgAccounts, PgStarting, PgHeld, PgReading, PgStops
    <2>6. PgPromised
      BY <1>4, <2>1, PgSaysNothing DEF PgMoves
    <2> QED
      BY <2>4, <2>5, <2>6 DEF PgInv
  <1>5. CASE /\ PgAnswer /\ PgGoOutside /\ UNCHANGED pgServer
             /\ pgCancel' = [pgCancel EXCEPT !.running = IF pgWorker.sort = "begin" THEN @ ELSE FALSE]
    <2>1. pgCancel' \in PgCancels
      BY <1>1, <1>5 DEF PgCancels
    <2>2. PgInv'
      BY <1>1, <1>2, <1>5, <2>1, PgAnswers, PgOutsideStep DEF PgTouched, PgGoOutside
    <2>3. PgPromised
      BY <1>1, <1>5, PgAnswers, PgSaysNothing DEF PgMoves
    <2> QED
      BY <2>2, <2>3
  <1> QED
    BY <1>3, <1>4, <1>5 DEF PgBegun

LEMMA PgBindStep ==
    ASSUME PgInv, PgBind
    PROVE  PgInv' /\ PgPromised
  <1> DEFINE n == pgWorker.n
  <1>1. /\ pgWorker.at = "bind" /\ UNCHANGED <<pgCancel, pgQueue, pgCaller, pgStopped>> /\ PgGo("first")
        /\ pgServer \in PgServers /\ pgCancel \in PgCancels /\ pgWorker \in PgWorkers /\ pgCaller \in PgCallers
        /\ pgStopped \cap pgServer.saved = {} /\ ~pgWorker.active
    BY DEF PgBind, PgInv, PgTypes, PgAccounts, PgStops
  <1>2. PgWorks
    BY <1>1 DEF PgWorks, PgBusy
  <1>3. /\ n \in 1..pgCaller.executed /\ n \in PgEffects
        /\ n \notin pgServer.work \cup pgServer.saved \cup pgServer.undone \cup pgStopped
    BY <1>1 DEF PgInv, PgNumbered, PgNew, PgTouched, PgCallers, PgEffects
  <1>4. /\ pgWorker' \in PgWorkers /\ pgWorker'.at = "first" /\ ~pgWorker'.active /\ pgWorker'.n = n
        /\ pgWorker'.auto = pgWorker.auto /\ pgWorker'.gen = pgWorker.gen
    BY <1>1 DEF PgGo, PgWorkers
  <1>5. pgStopped \cap pgServer.work = {} /\ (pgWorker.auto => pgServer.work = {})
        /\ (pgServer.failed \/ ~pgServer.up => pgServer.work = {})
    BY <1>1, <1>3 DEF PgInv, PgStops, PgAccounts
  <1>6. /\ pgServer' \in PgServers /\ pgServer'.saved = pgServer.saved /\ pgServer'.up = pgServer.up
        /\ \/ /\ pgServer'.work = pgServer.work \cup {n} /\ pgServer'.undone = pgServer.undone
              /\ ~pgServer'.failed /\ pgServer.up
           \/ /\ pgServer'.work = {} /\ pgServer'.undone = pgServer.undone \cup pgServer.work
              /\ pgServer'.failed
           \/ UNCHANGED pgServer /\ ~pgServer.up
    <2>1. CASE /\ PgSends /\ ~pgServer.failed /\ pgServer' = [pgServer EXCEPT !.work = @ \cup {pgWorker.n}]
      BY <1>1, <1>3, <2>1 DEF PgServers, PgSends
    <2>2. CASE pgServer' = PgErred(pgServer)
      BY <1>1, <2>2, PgServerFacts
    <2>3. CASE PgLost /\ UNCHANGED pgServer
      BY <1>1, <2>3 DEF PgLost
    <2> QED
      BY <2>1, <2>2, <2>3 DEF PgBind
  <1>7. PgTypes' /\ PgLine' /\ PgNumbered'
    BY <1>1, <1>2, <1>3, <1>4, <1>6, PgWorkerStep DEF PgTouched
  <1>8. PgAccounts'
    <2>1. pgWorker.gen = pgCancel.current /\ pgWorker.gen # 0
      BY <1>1 DEF PgInv, PgAccounts, PgStarting
    <2> QED
      BY <1>1, <1>3, <1>4, <1>5, <1>6, <2>1 DEF PgAccounts, PgStarting
  <1>9. PgHeld' /\ PgStops'
    BY <1>1, <1>3, <1>4, <1>5, <1>6 DEF PgHeld, PgReading, PgStops
  <1>10. PgMoves
    BY <1>3, <1>6 DEF PgMoves, PgPromise!Perform, PgPromise!New, PgPromise!TakeBack
  <1>11. PgPromised
    BY <1>1, <1>10, PgSaysNothing
  <1> QED
    BY <1>7, <1>8, <1>9, <1>11 DEF PgInv

LEMMA PgFirstFailsStep ==
    ASSUME PgInv, PgFirstFails
    PROVE  PgInv' /\ PgPromised
  <1> DEFINE n == pgWorker.n
  <1>1. /\ pgWorker.at = "first" /\ UNCHANGED <<pgServer, pgQueue, pgStopped>>
        /\ pgCancel' = [pgCancel EXCEPT !.running = FALSE]
        /\ pgServer \in PgServers /\ pgCancel \in PgCancels /\ pgWorker \in PgWorkers /\ PgTypes
        /\ pgStopped \cap pgServer.saved = {} /\ pgStopped \cap pgServer.work = {} /\ ~pgWorker.active
    BY DEF PgFirstFails, PgInv, PgTypes, PgAccounts, PgStops
  <1>2. PgWorks /\ pgCancel' \in PgCancels
    BY <1>1 DEF PgWorks, PgBusy, PgCancels
  <1>3. PICK at \in {"rollback", "inside"} : pgWorker' = [pgWorker EXCEPT !.at = at, !.then = "none"]
    BY DEF PgFirstFails
  <1>4. /\ pgWorker' \in PgWorkers /\ pgWorker'.at = at /\ pgWorker'.then = "none" /\ ~pgWorker'.active
        /\ pgWorker'.n = n /\ pgWorker'.auto = pgWorker.auto /\ ~PgBusy'
    BY <1>1, <1>3 DEF PgWorkers, PgBusy
  <1>5. n \in PgEffects /\ n \notin pgServer.saved /\ (pgServer.failed => n \notin pgServer.work)
    BY <1>1 DEF PgInv, PgAccounts, PgStarting, PgTypes, PgCallers, PgEffects
  <1>6. PICK s : s = (IF pgServer.failed THEN PgDidNot(n) ELSE PgQuiet)
    OBVIOUS
  <1>7. s \in PgSayings /\ ~s.done /\ PgReply(s, 0) /\ s.of \cap (pgServer.work \cup pgServer.saved) = {}
    BY <1>5, <1>6, PgSayingsOf DEF PgFirstFails
  <1>8. /\ pgCaller' \in PgCallers /\ pgCaller'.executed = pgCaller.executed
        /\ pgCaller.op = "gone" => pgCaller'.op = "gone"
        /\ pgCaller.op # "gone" => pgCaller'.op \in {"idle", "controlled"}
        /\ pgCaller'.said \in {pgCaller.said, s}
    BY <1>1, <1>7, PgReplies
  <1>9. PgTypes' /\ PgLine' /\ PgNumbered'
    BY <1>1, <1>2, <1>4, <1>8, PgWorkerStep DEF PgTouched
  <1>10. PgAccounts' /\ PgHeld' /\ PgStops'
    BY <1>1, <1>4 DEF PgInv, PgAccounts, PgStarting, PgHeld, PgReading, PgStops
  <1>11. PgSo(s) /\ PgMoves
    BY <1>1, <1>7 DEF PgSo, PgMoves
  <1> QED
    BY <1>7, <1>8, <1>9, <1>10, <1>11, PgSaysTruly DEF PgInv

LEMMA PgStartedStep ==
    ASSUME PgInv, PgStarted
    PROVE  PgInv' /\ PgPromised
  <1> DEFINE n == pgWorker.n
  <1>1. /\ pgWorker.at = "first" /\ UNCHANGED <<pgServer, pgQueue, pgStopped>>
        /\ pgCancel' = [pgCancel EXCEPT !.running = FALSE]
        /\ pgServer.up /\ ~pgServer.failed
        /\ pgServer \in PgServers /\ pgCancel \in PgCancels /\ pgWorker \in PgWorkers /\ PgTypes
        /\ pgStopped \cap pgServer.saved = {} /\ pgStopped \cap pgServer.work = {} /\ ~pgWorker.active
        /\ pgCaller \in PgCallers
    BY DEF PgStarted, PgLost, PgInv, PgTypes, PgAccounts, PgStops
  <1>2. PgWorks /\ pgCancel' \in PgCancels /\ pgCancel'.current = pgCancel.current
    BY <1>1 DEF PgWorks, PgBusy, PgCancels
  <1>3. /\ n \in PgEffects /\ n \in 1..pgCaller.executed /\ n \notin pgServer.saved /\ n \in pgServer.work
    BY <1>1 DEF PgInv, PgAccounts, PgStarting, PgTypes, PgCallers, PgEffects
  <1>4. PICK suspended \in BOOLEAN :
            IF pgWorker.auto /\ ~suspended
            THEN /\ pgWorker' = [pgWorker EXCEPT !.at = "commit", !.then = "started"]
                 /\ UNCHANGED pgCaller
            ELSE /\ pgWorker' = [pgWorker EXCEPT !.at = "inside", !.active = TRUE,
                                                 !.complete = ~suspended]
                 /\ PgReply(PgDid(FALSE), pgWorker.gen)
    BY DEF PgStarted
  <1>5. CASE pgWorker.auto /\ ~suspended
    <2>1. /\ pgWorker' \in PgWorkers /\ pgWorker'.at = "commit" /\ pgWorker'.then = "started"
          /\ ~pgWorker'.active /\ pgWorker'.n = n /\ pgWorker'.auto = pgWorker.auto
          /\ UNCHANGED pgCaller
      BY <1>1, <1>4, <1>5 DEF PgWorkers
    <2>2. PgTypes' /\ PgLine' /\ PgNumbered'
      BY <1>1, <1>2, <2>1, PgWorkerStep DEF PgTouched
    <2>3. PgAccounts' /\ PgHeld' /\ PgStops'
      BY <1>1, <1>3, <1>5, <2>1 DEF PgInv, PgAccounts, PgStarting, PgHeld, PgReading, PgStops
    <2>4. PgPromised
      BY <1>1, <2>1, PgSaysNothing DEF PgMoves
    <2> QED
      BY <2>2, <2>3, <2>4 DEF PgInv
  <1>6. CASE ~(pgWorker.auto /\ ~suspended)
    <2>1. PICK complete \in BOOLEAN : complete = ~suspended
      OBVIOUS
    <2>2. pgWorker' = [pgWorker EXCEPT !.at = "inside", !.active = TRUE, !.complete = complete]
      BY <1>4, <1>6, <2>1
    <2>3. /\ pgWorker' \in PgWorkers /\ pgWorker'.at = "inside" /\ pgWorker'.active /\ pgWorker'.n = n
          /\ pgWorker'.auto = pgWorker.auto /\ pgWorker'.gen = pgWorker.gen /\ ~PgBusy' /\ pgWorker.gen \in Nat
      BY <1>1, <2>2 DEF PgWorkers, PgBusy
    <2>4. PgReply(PgDid(FALSE), pgWorker.gen) /\ PgDid(FALSE) \in PgSayings
      BY <1>3, <1>4, <1>6, PgSayingsOf
    <2>5. /\ pgCaller' \in PgCallers /\ pgCaller'.executed = pgCaller.executed
          /\ pgCaller.op = "gone" => pgCaller'.op = "gone"
          /\ pgCaller.op # "gone" => pgCaller'.op \in {"idle", "controlled"} /\ pgCaller'.cursor = pgWorker.gen
          /\ pgCaller'.said \in {pgCaller.said, PgDid(FALSE)}
      BY <1>1, <2>3, <2>4, PgReplies
    <2>6. PgTypes' /\ PgLine' /\ PgNumbered'
      BY <1>1, <1>2, <2>3, <2>5, PgWorkerStep DEF PgTouched
    <2>7. PgAccounts' /\ PgStops'
      BY <1>1, <1>3, <2>3 DEF PgInv, PgAccounts, PgStarting, PgStops
    <2>8. PgHeld'
      <3>1. pgWorker.gen = pgCancel.current /\ pgWorker.gen # 0
        BY <1>1 DEF PgInv, PgAccounts, PgStarting
      <3>2. pgQueue' # <<>> => pgQueue'[1].op = "close"
        BY <1>1, <1>2, PgWorksOnOne DEF PgInv
      <3> QED
        BY <1>1, <1>2, <1>3, <2>3, <2>5, <3>1, <3>2 DEF PgHeld, PgReading
    <2>9. PgSo(PgDid(FALSE)) /\ PgMoves
      BY <1>1, <1>3, PgSayingsOf DEF PgSo, PgMoves
    <2> QED
      BY <2>4, <2>5, <2>6, <2>7, <2>8, <2>9, PgSaysTruly DEF PgInv
  <1> QED
    BY <1>5, <1>6

LEMMA PgTakeOutsideStep ==
    ASSUME PgInv, PgTakeOutside
    PROVE  PgInv' /\ PgPromised
  <1> DEFINE c == Head(pgQueue)
  <1>1. /\ pgWorker.at = "outside" /\ pgQueue # <<>> /\ pgQueue' = Tail(pgQueue)
        /\ UNCHANGED <<pgCancel, pgWorker, pgStopped>> /\ c.op # "close"
        /\ pgServer \in PgServers /\ pgCancel \in PgCancels /\ pgWorker \in PgWorkers /\ PgTypes
        /\ pgStopped \cap pgServer.saved = {} /\ pgServer.work = {} /\ ~pgWorker.active
    BY DEF PgTakeOutside, PgHas, PgTaken, PgCommand, PgInv, PgTypes, PgAccounts, PgStarting, PgStops
  <1>2. PgWorks
    BY <1>1 DEF PgWorks, PgBusy
  <1>3. CASE PgAnswer /\ UNCHANGED pgServer
    <2>1. PgInv'
      BY <1>1, <1>2, <1>3, PgAnswers, PgOutsideStep DEF PgTouched
    <2>2. PgPromised
      BY <1>1, <1>3, PgAnswers, PgSaysNothing DEF PgMoves
    <2> QED
      BY <2>1, <2>2
  <1>4. ASSUME c.op = "edit"
        PROVE  /\ c.n \in 1..pgCaller.executed /\ c.n \in PgEffects /\ PgWant = "one"
               /\ c.n \notin pgServer.work \cup pgServer.saved \cup pgServer.undone \cup pgStopped
    <2>1. pgQueue[1] = c
      BY <1>1, PgTails DEF PgInv
    <2>2. PgNew(c.n)
      BY <1>1, <1>4, <2>1 DEF PgInv, PgNumbered
    <2>3. PgWant = "one"
      BY <1>1, <1>4 DEF PgWant, PgHas, PgCommand
    <2> QED
      BY <1>1, <2>2, <2>3 DEF PgNew, PgTouched, PgTypes, PgCallers, PgEffects
  <1>5. CASE /\ c.op = "edit" /\ pgServer' = [pgServer EXCEPT !.saved = @ \cup {c.n}]
             /\ PgReply([of |-> {c.n}, done |-> TRUE, own |-> TRUE], 0)
    <2>1. PICK s : s = [of |-> {c.n}, done |-> TRUE, own |-> TRUE]
      OBVIOUS
    <2>2. s \in PgSayings /\ s.of = {c.n} /\ s.done /\ s.own /\ PgReply(s, 0)
      BY <1>4, <1>5, <2>1 DEF PgSayings
    <2>3. /\ pgServer' \in PgServers /\ pgServer'.work = {} /\ pgServer'.saved = pgServer.saved \cup {c.n}
          /\ pgServer'.undone = pgServer.undone
      BY <1>1, <1>4, <1>5 DEF PgServers
    <2>4. /\ pgCaller' \in PgCallers /\ pgCaller'.executed = pgCaller.executed
          /\ pgCaller.op = "gone" => pgCaller'.op = "gone"
          /\ pgCaller.op # "gone" => pgCaller'.op \in {pgCaller.op, "idle", "controlled"}
          /\ pgCaller'.said \in {pgCaller.said, s}
      BY <1>1, <2>2, PgReplies
    <2>5. PgInv'
      BY <1>1, <1>2, <1>4, <1>5, <2>3, <2>4, PgOutsideStep DEF PgTouched
    <2>6. PgSo(s)
      BY <2>2, <2>3 DEF PgSo
    <2>7. PgMoves
      BY <1>1, <1>4, <1>5, <2>3 DEF PgMoves, PgPromise!SaveOne, PgPromise!New
    <2> QED
      BY <2>2, <2>4, <2>5, <2>6, <2>7, PgSaysTruly
  <1>6. CASE c.op = "edit" /\ PgReply(PgDidNot(c.n), 0) /\ UNCHANGED pgServer
    <2>1. PgDidNot(c.n) \in PgSayings /\ PgSo(PgDidNot(c.n)) /\ PgMoves
      BY <1>4, <1>6, PgSayingsOf DEF PgSo, PgMoves
    <2>2. /\ pgCaller' \in PgCallers /\ pgCaller'.executed = pgCaller.executed
          /\ pgCaller.op = "gone" => pgCaller'.op = "gone"
          /\ pgCaller.op # "gone" => pgCaller'.op \in {pgCaller.op, "idle", "controlled"}
          /\ pgCaller'.said \in {pgCaller.said, PgDidNot(c.n)}
      BY <1>1, <1>6, <2>1, PgReplies
    <2>3. PgInv'
      BY <1>1, <1>2, <1>6, <2>2, PgOutsideStep DEF PgTouched
    <2> QED
      BY <2>1, <2>2, <2>3, PgSaysTruly
  <1> QED
    BY <1>3, <1>5, <1>6 DEF PgTakeOutside, PgHas, PgCommand

LEMMA PgTakeCloseStep ==
    ASSUME PgInv, PgTakeClose
    PROVE  PgInv' /\ PgPromised
  <1>1. /\ pgWorker.at \in {"outside", "inside"} /\ pgQueue # <<>> /\ pgQueue' = Tail(pgQueue)
        /\ Head(pgQueue).op = "close" /\ UNCHANGED <<pgCancel, pgCaller, pgStopped>>
        /\ pgServer \in PgServers /\ pgCancel \in PgCancels /\ pgCaller \in PgCallers /\ PgTypes
        /\ pgStopped \cap pgServer.saved = {} /\ PgLine
    BY DEF PgTakeClose, PgHas, PgTaken, PgCommand, PgInv, PgTypes, PgStops
  <1>2. pgQueue' = <<>> /\ pgCaller.op = "gone"
    <2>1. pgQueue' = <<>> /\ pgQueue[1] = Head(pgQueue) /\ Len(pgQueue) \in {1, 2}
      BY <1>1, PgTails
    <2> QED
      BY <1>1, <2>1 DEF PgLine
  <1>3. /\ pgWorker' \in PgWorkers /\ pgWorker'.at = "ended" /\ ~pgWorker'.active /\ ~PgBusy'
    BY DEF PgTakeClose, PgOutside, PgWorkers, PgBusy
  <1>4. /\ pgServer' \in PgServers /\ pgServer'.work = {} /\ pgServer'.saved = pgServer.saved
        /\ pgServer'.undone = pgServer.undone \cup pgServer.work
    <2>1. PICK s : s = PgRolledBack(pgServer)
      OBVIOUS
    <2>2. /\ s \in PgServers /\ s.work = {} /\ s.saved = pgServer.saved
          /\ s.undone = pgServer.undone \cup pgServer.work
      BY <1>1, <2>1, PgServerFacts
    <2>3. pgServer' = [s EXCEPT !.up = FALSE]
      BY <2>1 DEF PgTakeClose
    <2> QED
      BY <2>2, <2>3 DEF PgServers
  <1>5. PgTouched' = PgTouched
    BY <1>1, <1>4 DEF PgTouched
  <1>6. PgTypes' /\ PgLine'
    <2>1. pgQueue' \in Seq(PgCommands) /\ Len(pgQueue') = 0
      BY <1>2
    <2>2. PgTypes'
      BY <1>1, <1>3, <1>4, <2>1 DEF PgTypes
    <2>3. PgLine'
      BY <1>1, <1>2, <1>3, <2>1 DEF PgLine
    <2> QED
      BY <2>2, <2>3
  <1>7. PgNumbered'
    BY <1>1, <1>2, <1>3, <1>5 DEF PgInv, PgNumbered
  <1>8. PgAccounts' /\ PgHeld' /\ PgStops'
    BY <1>1, <1>3, <1>4 DEF PgAccounts, PgStarting, PgHeld, PgReading, PgStops
  <1>9. PgMoves
    BY <1>4 DEF PgMoves, PgPromise!TakeBack
  <1> QED
    BY <1>1, <1>6, <1>7, <1>8, <1>9, PgSaysNothing DEF PgInv

LEMMA PgTakeFetchStep ==
    ASSUME PgInv, PgTakeFetch
    PROVE  PgInv' /\ PgPromised
  <1>1. /\ pgWorker.at = "inside" /\ pgQueue # <<>> /\ pgQueue' = Tail(pgQueue)
        /\ Head(pgQueue).op = "fetch" /\ UNCHANGED <<pgCancel, pgServer, pgStopped>>
        /\ pgServer \in PgServers /\ pgCancel \in PgCancels /\ pgWorker \in PgWorkers /\ PgTypes
        /\ pgCaller \in PgCallers
    BY DEF PgTakeFetch, PgHas, PgTaken, PgCommand, PgInv, PgTypes
  <1>2. PgWorks /\ pgQueue[1].op = "fetch"
    BY <1>1, PgTails DEF PgWorks, PgBusy, PgInv
  <1>3. pgQueue' # <<>> => pgQueue'[1].op = "close"
    BY <1>2, PgWorksOnOne DEF PgInv
  <1>4. PgReading /\ pgCaller.op # "gone" => pgCaller.cursor = pgWorker.gen /\ pgCaller.op # "execute"
    BY <1>2 DEF PgInv, PgHeld
  <1>5. CASE pgWorker.active /\ PgGo("page") /\ UNCHANGED pgCaller
    <2>1. /\ pgWorker' \in PgWorkers /\ pgWorker'.at = "page" /\ pgWorker'.n = pgWorker.n
          /\ pgWorker'.auto = pgWorker.auto /\ pgWorker'.active = pgWorker.active
          /\ pgWorker'.gen = pgWorker.gen /\ pgWorker'.complete = pgWorker.complete
      BY <1>1, <1>5 DEF PgGo, PgWorkers
    <2>2. PgTypes' /\ PgLine' /\ PgNumbered'
      BY <1>1, <1>2, <1>5, <2>1, PgWorkerStep DEF PgTouched
    <2>3. PgAccounts'
      BY <1>1, <1>5, <2>1 DEF PgInv, PgAccounts, PgStarting
    <2>4. PgHeld'
      BY <1>1, <1>3, <1>4, <1>5, <2>1 DEF PgInv, PgHeld, PgReading
    <2>5. PgStops'
      BY <1>1, <2>1 DEF PgInv, PgStops
    <2>6. PgPromised
      BY <1>1, <1>5, PgSaysNothing DEF PgMoves
    <2> QED
      BY <2>2, <2>3, <2>4, <2>5, <2>6 DEF PgInv
  <1>6. CASE PgAnswer /\ UNCHANGED pgWorker
    <2>1. ~PgBusy'
      BY <1>1, <1>6 DEF PgBusy
    <2>2. PgTypes' /\ PgLine' /\ PgNumbered'
      BY <1>1, <1>2, <1>6, <2>1, PgAnswers, PgWorkerStep DEF PgTouched
    <2>3. PgAccounts' /\ PgStops'
      BY <1>1, <1>6, PgAnswers DEF PgInv, PgAccounts, PgStarting, PgStops
    <2>4. PgHeld'
      BY <1>1, <1>3, <1>4, <1>6, PgAnswers DEF PgInv, PgHeld, PgReading
    <2>5. PgPromised
      BY <1>1, <1>6, PgAnswers, PgSaysNothing DEF PgMoves
    <2> QED
      BY <2>2, <2>3, <2>4, <2>5 DEF PgInv
  <1> QED
    BY <1>5, <1>6 DEF PgTakeFetch

LEMMA PgPageStep ==
    ASSUME PgInv, PgPage
    PROVE  PgInv' /\ PgPromised
  <1> DEFINE n == pgWorker.n
  <1>1. /\ pgWorker.at = "page" /\ pgWorker.active /\ UNCHANGED <<pgCancel, pgQueue, pgStopped>>
        /\ pgServer \in PgServers /\ pgCancel \in PgCancels /\ pgWorker \in PgWorkers /\ PgTypes
        /\ pgCaller \in PgCallers /\ PgLine
        /\ pgStopped \cap pgServer.saved = {}
        /\ pgWorker.auto => pgServer.work \subseteq {n}
    BY DEF PgPage, PgInv, PgTypes, PgAccounts, PgStops
  <1>2. PgWorks
    BY <1>1 DEF PgWorks, PgBusy
  <1>3. pgQueue' # <<>> => pgQueue'[1].op = "close"
    BY <1>2, PgWorksOnOne DEF PgInv
  <1>4. n \in pgServer.work \cup pgServer.undone \cup pgServer.saved /\ n \in PgEffects
    BY <1>1 DEF PgInv, PgAccounts, PgServers
  <1>5. pgWorker.auto => /\ pgWorker.gen = pgCancel.current /\ pgWorker.gen # 0 /\ ~pgServer.failed
                         /\ n \notin pgServer.saved
                         /\ pgServer.up => n \in pgServer.work
    BY <1>1 DEF PgInv, PgHeld, PgReading
  <1>6. pgWorker.auto /\ pgCaller.op # "gone" => pgCaller.cursor = pgWorker.gen
    BY <1>1, <1>3 DEF PgInv, PgHeld, PgReading
  <1>7. pgWorker.complete \/ ~PgStop => pgStopped \cap pgServer.work = {}
    BY <1>1, <1>5 DEF PgInv, PgStops, PgStop
  <1>8. CASE /\ UNCHANGED <<pgServer, pgCaller>>
             /\ pgWorker.complete \/ ~PgStop
             /\ pgWorker.auto /\ PgEndsWith("commit", "page")
    <2>1. /\ pgWorker' \in PgWorkers /\ pgWorker'.at = "commit" /\ pgWorker'.then = "page"
          /\ ~pgWorker'.active /\ pgWorker'.n = n /\ pgWorker'.auto = pgWorker.auto
      BY <1>1, <1>8 DEF PgEndsWith, PgWorkers
    <2>2. PgTypes' /\ PgLine' /\ PgNumbered'
      BY <1>1, <1>2, <1>8, <2>1, PgWorkerStep DEF PgTouched
    <2>3. PgAccounts' /\ PgHeld' /\ PgStops'
      BY <1>1, <1>5, <1>7, <1>8, <2>1 DEF PgInv, PgAccounts, PgStarting, PgHeld, PgReading, PgStops
    <2>4. PgPromised
      BY <1>8, PgSaysNothing DEF PgMoves
    <2> QED
      BY <2>2, <2>3, <2>4 DEF PgInv
  <1>9. CASE /\ UNCHANGED pgServer /\ PgReply(PgDid(FALSE), pgCaller.cursor)
             /\ \/ PgGo("inside")
                \/ ~PgStop /\ \E complete \in BOOLEAN :
                        pgWorker' = [pgWorker EXCEPT !.at = "inside", !.complete = complete]
    <2>1. /\ pgWorker' \in PgWorkers /\ pgWorker'.at = "inside" /\ pgWorker'.active /\ pgWorker'.n = n
          /\ pgWorker'.auto = pgWorker.auto /\ pgWorker'.gen = pgWorker.gen
          /\ (pgWorker'.complete = pgWorker.complete \/ ~PgStop) /\ ~PgBusy'
      <3>1. CASE PgGo("inside")
        BY <1>1, <3>1 DEF PgGo, PgWorkers, PgBusy
      <3>2. CASE ~PgStop /\ \E complete \in BOOLEAN :
                        pgWorker' = [pgWorker EXCEPT !.at = "inside", !.complete = complete]
        BY <1>1, <3>2 DEF PgWorkers, PgBusy
      <3> QED
        BY <1>9, <3>1, <3>2
    <2>2. PgDid(FALSE) \in PgSayings /\ pgCaller.cursor \in Nat
      BY <1>1, <1>4, PgSayingsOf DEF PgCallers
    <2>3. /\ pgCaller' \in PgCallers /\ pgCaller'.executed = pgCaller.executed
          /\ pgCaller.op = "gone" => pgCaller'.op = "gone"
          /\ pgCaller.op # "gone" => pgCaller'.op \in {"idle", "controlled"} /\ pgCaller'.cursor = pgCaller.cursor
          /\ pgCaller'.said \in {pgCaller.said, PgDid(FALSE)}
      BY <1>1, <1>9, <2>2, PgReplies
    <2>4. PgTypes' /\ PgLine' /\ PgNumbered'
      BY <1>1, <1>2, <1>9, <2>1, <2>3, PgWorkerStep DEF PgTouched
    <2>5. PgAccounts'
      BY <1>1, <1>4, <1>9, <2>1, <2>3 DEF PgInv, PgAccounts, PgStarting
    <2>6. PgHeld'
      BY <1>1, <1>3, <1>5, <1>6, <1>9, <2>1, <2>3 DEF PgHeld, PgReading
    <2>7. PgStops'
      BY <1>1, <1>7, <1>9, <2>1 DEF PgInv, PgStops
    <2>8. PgSo(PgDid(FALSE)) /\ PgMoves
      BY <1>4, <1>9, PgSayingsOf DEF PgSo, PgMoves
    <2> QED
      BY <2>2, <2>3, <2>4, <2>5, <2>6, <2>7, <2>8, PgSaysTruly DEF PgInv
  <1>10. CASE /\ pgServer' \in {pgServer, PgErred(pgServer)}
              /\ \/ pgWorker.auto /\ PgEndsWith("rollback", "failed") /\ UNCHANGED pgCaller
                 \/ ~pgWorker.auto /\ PgGo("inside") /\ PgAnswer
    <2>1. /\ pgServer' \in PgServers /\ pgServer'.saved = pgServer.saved /\ pgServer'.up = pgServer.up
          /\ pgServer'.work \cup pgServer'.undone = pgServer.work \cup pgServer.undone
          /\ pgServer'.work \subseteq pgServer.work
          /\ pgServer'.failed => pgServer'.work = {} \/ pgServer.failed
          /\ PgMoves
      <3>1. CASE pgServer' = pgServer
        BY <1>1, <3>1 DEF PgMoves
      <3>2. CASE pgServer' = PgErred(pgServer)
        <4>1. /\ pgServer' \in PgServers /\ pgServer'.saved = pgServer.saved /\ pgServer'.up = pgServer.up
              /\ pgServer'.undone = pgServer.undone \cup pgServer.work /\ pgServer'.work = {}
          BY <1>1, <3>2, PgServerFacts
        <4> QED
          BY <1>1, <4>1 DEF PgMoves, PgPromise!TakeBack
      <3> QED
        BY <1>10, <3>1, <3>2
    <2>2. /\ pgCaller' \in PgCallers /\ pgCaller'.executed = pgCaller.executed
          /\ pgCaller.op = "gone" => pgCaller'.op = "gone"
          /\ \/ pgCaller'.op = pgCaller.op
             \/ ~pgWorker.auto /\ pgCaller'.op \in {"idle", "controlled"}
          /\ pgCaller'.said \in {pgCaller.said, PgQuiet}
      BY <1>1, <1>10, PgAnswers
    <2>3. /\ pgWorker' \in PgWorkers /\ pgWorker'.n = n /\ pgWorker'.auto = pgWorker.auto
          /\ \/ pgWorker.auto /\ pgWorker'.at = "rollback" /\ pgWorker'.then = "failed" /\ ~pgWorker'.active
             \/ ~pgWorker.auto /\ pgWorker'.at = "inside" /\ pgWorker'.active /\ ~PgBusy'
      BY <1>1, <1>10 DEF PgEndsWith, PgGo, PgWorkers, PgBusy
    <2>4. PgTypes' /\ PgLine' /\ PgNumbered'
      BY <1>1, <1>2, <2>1, <2>2, <2>3, PgWorkerStep DEF PgTouched
    <2>5. PgAccounts'
      BY <1>1, <1>4, <1>5, <2>1, <2>3 DEF PgInv, PgAccounts, PgStarting
    <2>6. PgHeld' /\ PgStops'
      BY <1>1, <2>1, <2>3 DEF PgInv, PgHeld, PgReading, PgStops
    <2>7. PgPromised
      BY <2>1, <2>2, PgSaysNothing
    <2> QED
      BY <2>4, <2>5, <2>6, <2>7 DEF PgInv
  <1> QED
    BY <1>8, <1>9, <1>10 DEF PgPage, PgPageEnds

LEMMA PgTakeFinishStep ==
    ASSUME PgInv, PgTakeFinish
    PROVE  PgInv' /\ PgPromised
  <1> DEFINE n == pgWorker.n
             c == Head(pgQueue)
  <1>1. /\ pgWorker.at = "inside" /\ pgQueue # <<>> /\ pgQueue' = Tail(pgQueue)
        /\ c.op = "finish" /\ UNCHANGED <<pgCancel, pgServer, pgStopped>>
        /\ pgServer \in PgServers /\ pgCancel \in PgCancels /\ pgWorker \in PgWorkers /\ PgTypes
        /\ pgCaller \in PgCallers
        /\ pgStopped \cap pgServer.saved = {}
        /\ pgWorker.auto => pgServer.work \subseteq {n}
    BY DEF PgTakeFinish, PgHas, PgTaken, PgCommand, PgInv, PgTypes, PgAccounts, PgStops
  <1>2. PgWorks /\ pgQueue[1] = c
    BY <1>1, PgTails DEF PgWorks, PgBusy, PgInv
  <1>3. pgQueue' # <<>> => pgQueue'[1].op = "close"
    BY <1>2, PgWorksOnOne DEF PgInv
  <1>4. PgReading => c.n = pgWorker.gen
    BY <1>1, <1>2 DEF PgInv, PgHeld
  <1>5. CASE pgWorker.active /\ pgWorker.auto /\ PgEndsWith(PgClosing, "closed") /\ UNCHANGED pgCaller
    <2>1. PICK at : at = PgClosing /\ at \in {"commit", "rollback"}
      BY DEF PgClosing
    <2>2. /\ pgWorker' \in PgWorkers /\ pgWorker'.at = at /\ pgWorker'.then = "closed"
          /\ ~pgWorker'.active /\ pgWorker'.n = n /\ pgWorker'.auto = pgWorker.auto
      BY <1>1, <1>5, <2>1 DEF PgEndsWith, PgWorkers
    <2>3. at = "commit" => pgStopped \cap pgServer.work = {}
      BY <1>1, <2>1 DEF PgClosing, PgWasCancelled, PgInv, PgStops
    <2>4. PgTypes' /\ PgLine' /\ PgNumbered'
      BY <1>1, <1>2, <1>5, <2>1, <2>2, PgWorkerStep DEF PgTouched
    <2>5. PgAccounts' /\ PgHeld'
      BY <1>1, <1>5, <2>1, <2>2 DEF PgInv, PgAccounts, PgStarting, PgHeld, PgReading
    <2>6. PgStops'
      BY <1>1, <2>1, <2>2, <2>3 DEF PgInv, PgStops
    <2>7. PgPromised
      BY <1>1, <1>5, PgSaysNothing DEF PgMoves
    <2> QED
      BY <2>4, <2>5, <2>6, <2>7 DEF PgInv
  <1>6. ASSUME ~PgReading, PgAnswer, NEW active \in BOOLEAN, active => pgWorker.active,
               pgWorker' = [pgWorker EXCEPT !.active = active]
        PROVE  PgInv' /\ PgPromised
    <2>2. /\ pgWorker' \in PgWorkers /\ pgWorker'.at = "inside" /\ pgWorker'.n = n
          /\ pgWorker'.auto = pgWorker.auto
          /\ pgWorker'.active => pgWorker.active
          /\ ~(pgWorker'.auto /\ pgWorker'.active) /\ ~PgBusy'
      BY <1>1, <1>6 DEF PgWorkers, PgReading, PgBusy
    <2>3. PgTypes' /\ PgLine' /\ PgNumbered'
      BY <1>1, <1>2, <1>6, <2>2, PgAnswers, PgWorkerStep DEF PgTouched
    <2>4. PgAccounts' /\ PgHeld'
      BY <1>1, <2>2 DEF PgInv, PgAccounts, PgStarting, PgHeld, PgReading
    <2>5. pgStopped \cap pgServer.work = {}
      BY <1>1, <1>6 DEF PgInv, PgStops, PgReading
    <2>6. PgStops'
      BY <1>1, <2>5 DEF PgStops
    <2>7. PgPromised
      BY <1>1, <1>6, PgAnswers, PgSaysNothing DEF PgMoves
    <2> QED
      BY <2>3, <2>4, <2>6, <2>7 DEF PgInv
  <1>7. CASE ~(pgWorker.active /\ pgWorker.gen = c.n /\ pgWorker.auto)
    <2>1. /\ pgWorker' = [pgWorker EXCEPT !.active = @ /\ pgWorker.gen # c.n]
          /\ PgAnswer
      BY <1>7 DEF PgTakeFinish, PgCommand
    <2>2. PICK active : active = (pgWorker.active /\ pgWorker.gen # c.n)
      OBVIOUS
    <2>3. active \in BOOLEAN /\ (active => pgWorker.active)
      BY <2>2
    <2>4. pgWorker' = [pgWorker EXCEPT !.active = active]
      BY <2>1, <2>2
    <2>5. ~PgReading
      BY <1>4, <1>7 DEF PgReading
    <2> QED
      BY <1>6, <2>1, <2>3, <2>4, <2>5
  <1>8. CASE pgWorker.active /\ pgWorker.gen = c.n /\ pgWorker.auto
    BY <1>5, <1>8 DEF PgTakeFinish, PgCommand
  <1> QED
    BY <1>7, <1>8

LEMMA PgTakeEndStep ==
    ASSUME PgInv, PgTakeEnd
    PROVE  PgInv' /\ PgPromised
  <1>1. /\ pgWorker.at = "inside" /\ pgQueue # <<>> /\ pgQueue' = Tail(pgQueue)
        /\ UNCHANGED <<pgCancel, pgServer, pgStopped, pgCaller>>
        /\ pgServer \in PgServers /\ pgCancel \in PgCancels /\ pgWorker \in PgWorkers /\ PgTypes
        /\ pgCaller \in PgCallers /\ pgStopped \cap pgServer.saved = {}
    BY DEF PgTakeEnd, PgTaken, PgInv, PgTypes, PgStops
  <1>2. PICK op \in {"commit", "rollback"} : Head(pgQueue).op = op /\ PgEndsWith(op, "asked")
    BY DEF PgTakeEnd, PgHas, PgCommand
  <1>3. PgWorks /\ pgQueue[1].op = op
    BY <1>1, <1>2, PgTails DEF PgWorks, PgBusy, PgInv
  <1>4. ~PgReading /\ pgStopped \cap pgServer.work = {}
    BY <1>1, <1>3 DEF PgInv, PgHeld, PgStops, PgReading
  <1>5. /\ pgWorker' \in PgWorkers /\ pgWorker'.at = op /\ pgWorker'.then = "asked"
        /\ ~pgWorker'.active /\ pgWorker'.n = pgWorker.n /\ pgWorker'.auto = pgWorker.auto
    BY <1>1, <1>2 DEF PgEndsWith, PgWorkers
  <1>6. PgTypes' /\ PgLine' /\ PgNumbered'
    BY <1>1, <1>3, <1>5, PgWorkerStep DEF PgTouched
  <1>7. PgAccounts' /\ PgHeld' /\ PgStops'
    BY <1>1, <1>4, <1>5 DEF PgInv, PgAccounts, PgStarting, PgHeld, PgReading, PgStops
  <1>8. PgPromised
    BY <1>1, PgSaysNothing DEF PgMoves
  <1> QED
    BY <1>6, <1>7, <1>8 DEF PgInv

\* A request is answered inside the transaction.
LEMMA PgInsideStep ==
    ASSUME PgInv, pgWorker.at = "inside", pgQueue # <<>>, Head(pgQueue).op # "close",
           pgQueue' = Tail(pgQueue), UNCHANGED <<pgCancel, pgStopped>>,
           PgReading => Head(pgQueue).op = "catalog" /\ UNCHANGED <<pgServer, pgWorker>>,
           \/ UNCHANGED <<pgServer, pgWorker>>
           \/ /\ pgServer' \in PgServers /\ pgWorker' \in PgWorkers
              /\ pgWorker'.at = "inside" /\ ~pgWorker'.active /\ pgWorker'.n = pgWorker.n
              /\ pgWorker'.auto => pgServer'.work \subseteq {pgWorker.n}
              /\ pgServer'.failed \/ ~pgServer'.up => pgServer'.work = {}
              /\ pgStopped \cap (pgServer'.saved \cup pgServer'.work) = {}
              /\ pgServer'.work \cup pgServer'.saved \cup pgServer'.undone
                    \subseteq pgServer.work \cup pgServer.saved \cup pgServer.undone,
           pgCaller' \in PgCallers, pgCaller'.executed = pgCaller.executed,
           pgCaller.op = "gone" => pgCaller'.op = "gone",
           pgCaller.op # "gone" => pgCaller'.op \in {"idle", "controlled"},
           PgReading /\ pgCaller.op # "gone" => pgCaller'.cursor = pgCaller.cursor
    PROVE  PgInv'
  <1>1. /\ pgServer \in PgServers /\ pgCancel \in PgCancels /\ pgWorker \in PgWorkers /\ PgTypes
    BY DEF PgInv, PgTypes
  <1>2. PgWorks /\ pgQueue[1] = Head(pgQueue)
    BY PgTails DEF PgWorks, PgBusy, PgInv
  <1>3. pgQueue' # <<>> => pgQueue'[1].op = "close"
    BY <1>2, PgWorksOnOne DEF PgInv
  <1>4. /\ pgServer' \in PgServers /\ pgWorker' \in PgWorkers /\ pgCancel' \in PgCancels
        /\ pgWorker'.at = "inside" /\ ~PgBusy'
    BY <1>1 DEF PgBusy
  <1>5. PgTypes' /\ PgLine' /\ PgNumbered'
    BY <1>1, <1>2, <1>4, PgWorkerStep DEF PgTouched
  <1>6. CASE UNCHANGED <<pgServer, pgWorker>>
    <2>1. PgAccounts' /\ PgStops'
      BY <1>6 DEF PgInv, PgAccounts, PgStarting, PgStops
    <2>2. PgReading /\ pgCaller.op # "gone" => pgCaller.cursor = pgWorker.gen
      BY <1>2 DEF PgInv, PgHeld
    <2>3. PgHeld'
      BY <1>3, <1>6, <2>2 DEF PgInv, PgHeld, PgReading
    <2> QED
      BY <1>5, <2>1, <2>3 DEF PgInv
  <1>7. CASE ~UNCHANGED <<pgServer, pgWorker>>
    <2>1. PgAccounts' /\ PgHeld' /\ PgStops'
      BY <1>7 DEF PgAccounts, PgStarting, PgHeld, PgReading, PgStops
    <2> QED
      BY <1>5, <2>1 DEF PgInv
  <1> QED
    BY <1>6, <1>7

LEMMA PgTakeInsideStep ==
    ASSUME PgInv, PgTakeInside, ~PgCatalogErrors
    PROVE  PgInv' /\ PgPromised
  <1> DEFINE n == pgWorker.n
             c == Head(pgQueue)
  <1>1. /\ pgWorker.at = "inside" /\ pgQueue # <<>> /\ pgQueue' = Tail(pgQueue)
        /\ UNCHANGED <<pgCancel, pgStopped>>
        /\ pgServer \in PgServers /\ pgCancel \in PgCancels /\ pgWorker \in PgWorkers /\ PgTypes
        /\ pgCaller \in PgCallers
        /\ pgStopped \cap pgServer.saved = {}
        /\ pgWorker.auto => pgServer.work \subseteq {n}
        /\ pgServer.failed \/ ~pgServer.up => pgServer.work = {}
    BY DEF PgTakeInside, PgTaken, PgInv, PgTypes, PgAccounts, PgStops
  <1>2. pgQueue[1] = c
    BY <1>1, PgTails DEF PgInv
  <1>3. c.op \in {"begin", "chain", "edit"} => ~PgReading /\ pgStopped \cap pgServer.work = {}
    BY <1>1, <1>2 DEF PgInv, PgHeld, PgStops, PgReading
  <1>4. PgReading => c.op \in {"fetch", "finish", "catalog", "close"}
    BY <1>1, <1>2 DEF PgInv, PgHeld
  <1>5. CASE c.op = "begin" /\ pgServer' \in {pgServer, PgErred(pgServer)} /\ PgAnswer
             /\ pgWorker' = [pgWorker EXCEPT !.active = FALSE, !.auto = @ /\ pgServer' # pgServer]
    <2>1. PICK auto : auto = (pgWorker.auto /\ pgServer' # pgServer)
      OBVIOUS
    <2>2. auto \in BOOLEAN /\ (auto => pgServer' # pgServer)
      BY <2>1
    <2>3. pgWorker' = [pgWorker EXCEPT !.active = FALSE, !.auto = auto]
      BY <1>5, <2>1
    <2>4. /\ pgWorker' \in PgWorkers /\ pgWorker'.at = "inside" /\ ~pgWorker'.active
          /\ pgWorker'.n = pgWorker.n /\ pgWorker'.auto = auto
      BY <1>1, <2>2, <2>3 DEF PgWorkers
    <2>5. CASE pgServer' = pgServer
      <3>1. PgInv'
        BY <1>1, <1>3, <1>5, <2>2, <2>4, <2>5, PgAnswers, PgInsideStep
      <3>2. PgPromised
        BY <1>1, <1>5, <2>5, PgAnswers, PgSaysNothing DEF PgMoves
      <3> QED
        BY <3>1, <3>2
    <2>6. CASE pgServer' = PgErred(pgServer)
      <3>1. /\ pgServer' \in PgServers /\ pgServer'.work = {} /\ pgServer'.saved = pgServer.saved
            /\ pgServer'.undone = pgServer.undone \cup pgServer.work
        BY <1>1, <2>6, PgServerFacts
      <3>2. PgInv'
        BY <1>1, <1>3, <1>5, <2>4, <3>1, PgAnswers, PgInsideStep
      <3>3. PgPromised
        BY <1>1, <1>5, <3>1, PgAnswers, PgSaysNothing DEF PgMoves, PgPromise!TakeBack
      <3> QED
        BY <3>2, <3>3
    <2> QED
      BY <1>5, <2>5, <2>6
  <1>6. CASE c.op = "chain" /\ PgAnswer
             /\ pgServer' \in {[s EXCEPT !.open = TRUE] : s \in {PgEnded(pgServer), PgRolledBack(pgServer)}}
                              \cup {PgErred(pgServer)}
             /\ pgWorker' = [pgWorker EXCEPT !.active = FALSE, !.auto = @ /\ pgServer'.failed]
    <2>1. /\ pgServer' \in PgServers /\ pgServer'.work = {}
          /\ \/ /\ pgServer'.saved = pgServer.saved
                /\ pgServer'.undone = pgServer.undone \cup pgServer.work
             \/ /\ pgServer'.saved = pgServer.saved \cup pgServer.work
                /\ pgServer'.undone = pgServer.undone
      <3>1. CASE pgServer' = PgErred(pgServer)
        BY <1>1, <3>1, PgServerFacts
      <3>2. CASE pgServer' \in {[s EXCEPT !.open = TRUE] : s \in {PgEnded(pgServer), PgRolledBack(pgServer)}}
        <4>1. PICK s \in {PgEnded(pgServer), PgRolledBack(pgServer)} : pgServer' = [s EXCEPT !.open = TRUE]
          BY <3>2
        <4>2. CASE s = PgRolledBack(pgServer)
          <5>1. /\ s \in PgServers /\ s.work = {} /\ s.saved = pgServer.saved
                /\ s.undone = pgServer.undone \cup pgServer.work
            BY <1>1, <4>2, PgServerFacts
          <5> QED
            BY <4>1, <5>1 DEF PgServers
        <4>3. CASE s = PgEnded(pgServer)
          <5>1. /\ s \in PgServers /\ s.work = {}
                /\ pgServer.failed =>
                        s.saved = pgServer.saved /\ s.undone = pgServer.undone \cup pgServer.work
                /\ ~pgServer.failed =>
                        s.saved = pgServer.saved \cup pgServer.work /\ s.undone = pgServer.undone
            BY <1>1, <4>3, PgServerFacts
          <5> QED
            BY <4>1, <5>1 DEF PgServers
        <4> QED
          BY <4>1, <4>2, <4>3
      <3> QED
        BY <1>6, <3>1, <3>2
    <2>2. PICK auto : auto = (pgWorker.auto /\ pgServer'.failed)
      OBVIOUS
    <2>3. auto \in BOOLEAN
      BY <2>2
    <2>4. pgWorker' = [pgWorker EXCEPT !.active = FALSE, !.auto = auto]
      BY <1>6, <2>2
    <2>5. /\ pgWorker' \in PgWorkers /\ pgWorker'.at = "inside" /\ ~pgWorker'.active
          /\ pgWorker'.n = pgWorker.n
      BY <1>1, <2>3, <2>4 DEF PgWorkers
    <2>6. PgInv'
      BY <1>1, <1>3, <1>6, <2>1, <2>5, PgAnswers, PgInsideStep
    <2>7. PgWant = "all"
      BY <1>1, <1>6 DEF PgWant, PgHas, PgCommand
    <2>8. PgMoves
      BY <2>1, <2>7 DEF PgMoves, PgPromise!SaveAll, PgPromise!TakeBack
    <2>9. PgPromised
      BY <1>1, <1>6, <2>8, PgAnswers, PgSaysNothing
    <2> QED
      BY <2>6, <2>9
  <1>7. CASE c.op \in {"begin", "chain", "catalog"} /\ PgAnswer /\ UNCHANGED <<pgServer, pgWorker>>
    <2>1. PgInv'
      BY <1>1, <1>4, <1>7, PgAnswers, PgInsideStep
    <2>2. PgPromised
      BY <1>1, <1>7, PgAnswers, PgSaysNothing DEF PgMoves
    <2> QED
      BY <2>1, <2>2
  <1>8. CASE c.op = "edit" /\ PgReply(PgDidNot(c.n), 0) /\ UNCHANGED <<pgServer, pgWorker>>
    <2>1. c.n \in PgEffects /\ c.n \notin pgServer.work \cup pgServer.saved
      BY <1>1, <1>2, <1>8 DEF PgInv, PgNumbered, PgNew, PgTouched, PgTypes, PgCallers, PgEffects
    <2>2. PgDidNot(c.n) \in PgSayings /\ PgSo(PgDidNot(c.n)) /\ PgMoves
      BY <1>8, <2>1, PgSayingsOf DEF PgSo, PgMoves
    <2>3. /\ pgCaller' \in PgCallers /\ pgCaller'.executed = pgCaller.executed
          /\ pgCaller.op = "gone" => pgCaller'.op = "gone"
          /\ pgCaller.op # "gone" => pgCaller'.op \in {"idle", "controlled"}
          /\ pgCaller'.said \in {pgCaller.said, PgDidNot(c.n)}
      BY <1>1, <1>8, <2>2, PgReplies
    <2>4. PgInv'
      BY <1>1, <1>3, <1>8, <2>3, PgInsideStep
    <2> QED
      BY <2>2, <2>3, <2>4, PgSaysTruly
  <1> QED
    BY <1>5, <1>6, <1>7, <1>8 DEF PgTakeInside, PgHas, PgCommand

\* What is said at the end of a transaction.
LEMMA PgSays ==
    ASSUME PgInv, NEW ok \in BOOLEAN, PgSaying(ok), pgWorker.at \in {"commit", "rollback"},
           ok => pgServer.up
    PROVE  /\ pgCaller' \in PgCallers /\ pgCaller'.executed = pgCaller.executed
           /\ pgCaller.op = "gone" => pgCaller'.op = "gone"
           /\ pgCaller.op # "gone" => pgCaller'.op \in {pgCaller.op, "idle", "controlled"}
           /\ pgWorker.then = "none" => UNCHANGED pgCaller
           /\ \/ pgCaller'.said \in {pgCaller.said, PgQuiet}
              \/ /\ ok /\ pgWorker.at = "commit" /\ pgWorker.n \in PgEffects
                 /\ pgServer.work = {pgWorker.n} /\ ~pgServer.failed
                 /\ pgCaller'.said \in {pgCaller.said, PgDid(TRUE)}
              \/ /\ ok /\ pgWorker.at = "rollback" /\ pgWorker.n \in PgEffects \ pgServer.saved
                 /\ pgCaller'.said \in {pgCaller.said, PgDidNot(pgWorker.n)}
  <1> DEFINE n == pgWorker.n
  <1>1. /\ pgWorker \in PgWorkers /\ pgServer \in PgServers /\ pgCaller \in PgCallers /\ PgTypes
        /\ pgWorker.gen \in Nat /\ pgCaller.cursor \in Nat
    BY DEF PgInv, PgTypes, PgWorkers, PgCallers
  <1>2. pgWorker.at = "commit" /\ pgWorker.then \in {"started", "page"} =>
            /\ pgWorker.auto /\ ~pgServer.failed
            /\ pgServer.up => pgServer.work = {n} /\ n \in PgEffects
    BY <1>1 DEF PgInv, PgAccounts, PgServers
  <1>3. CASE pgWorker.then = "started"
    <2>1. pgWorker.at = "commit"
      BY <1>3 DEF PgInv, PgAccounts
    <2>2. CASE ok
      <3>1. PgReply(PgDid(TRUE), pgWorker.gen)
        BY <1>3, <2>2 DEF PgSaying
      <3>2. PgDid(TRUE) \in PgSayings
        BY <1>2, <1>3, <2>1, <2>2, PgSayingsOf
      <3> QED
        BY <1>1, <1>2, <1>3, <2>1, <2>2, <3>1, <3>2, PgReplies
    <2>3. CASE ~ok
      <3>1. PgReply(PgQuiet, 0)
        BY <1>3, <2>3 DEF PgSaying
      <3> QED
        BY <1>1, <1>3, <3>1, PgSayingsOf, PgReplies
    <2> QED
      BY <2>2, <2>3
  <1>4. CASE pgWorker.then = "page"
    <2>1. pgWorker.at = "commit"
      BY <1>4 DEF PgInv, PgAccounts
    <2>2. CASE ok
      <3>1. PgReply(PgDid(TRUE), pgCaller.cursor)
        BY <1>4, <2>2 DEF PgSaying
      <3>2. PgDid(TRUE) \in PgSayings
        BY <1>2, <1>4, <2>1, <2>2, PgSayingsOf
      <3> QED
        BY <1>1, <1>2, <1>4, <2>1, <2>2, <3>1, <3>2, PgReplies
    <2>3. CASE ~ok
      <3>1. PgReply(PgQuiet, pgCaller.cursor)
        BY <1>4, <2>3 DEF PgSaying
      <3> QED
        BY <1>1, <1>4, <3>1, PgSayingsOf, PgReplies
    <2> QED
      BY <2>2, <2>3
  <1>5. CASE pgWorker.then = "failed"
    <2>1. pgWorker.at = "rollback" /\ n \in PgEffects \ pgServer.saved
      BY <1>5 DEF PgInv, PgAccounts
    <2>2. CASE ok
      <3>1. PgReply(PgDidNot(n), pgCaller.cursor)
        BY <1>5, <2>2 DEF PgSaying
      <3>2. PgDidNot(n) \in PgSayings
        BY <2>1, PgSayingsOf
      <3> QED
        BY <1>1, <1>5, <2>1, <2>2, <3>1, <3>2, PgReplies
    <2>3. CASE ~ok
      <3>1. PgReply(PgQuiet, pgCaller.cursor)
        BY <1>5, <2>3 DEF PgSaying
      <3> QED
        BY <1>1, <1>5, <3>1, PgSayingsOf, PgReplies
    <2> QED
      BY <2>2, <2>3
  <1>6. CASE pgWorker.then \in {"asked", "closed"}
    <2>1. PgAnswer
      BY <1>6 DEF PgSaying
    <2> QED
      BY <1>1, <1>6, <2>1, PgAnswers
  <1>7. CASE pgWorker.then = "none"
    <2>1. UNCHANGED pgCaller
      BY <1>7 DEF PgSaying
    <2> QED
      BY <1>1, <2>1
  <1> QED
    BY <1>1, <1>3, <1>4, <1>5, <1>6, <1>7 DEF PgWorkers

LEMMA PgCommitStep ==
    ASSUME PgInv, PgCommit
    PROVE  PgInv' /\ PgPromised
  <1> DEFINE n == pgWorker.n
  <1>1. /\ pgWorker.at = "commit" /\ pgWorker.then # "none" /\ PgGoOutside
        /\ UNCHANGED <<pgCancel, pgQueue, pgStopped>> /\ pgCancel \in PgCancels
        /\ pgWorker \in PgWorkers /\ pgServer \in PgServers
        /\ pgStopped \cap pgServer.saved = {} /\ pgStopped \cap pgServer.work = {}
        /\ pgWorker.auto => pgServer.work \subseteq {n}
        /\ pgServer.failed \/ ~pgServer.up => pgServer.work = {}
    BY DEF PgCommit, PgInv, PgTypes, PgAccounts, PgStops
  <1>2. PgWorks
    BY <1>1 DEF PgWorks, PgBusy
  <1>3. ASSUME NEW ok \in BOOLEAN, PgSaying(ok), ok => pgServer.up, pgServer' \in PgServers, pgServer'.work = {},
               \/ pgServer'.saved = pgServer.saved /\ pgServer'.undone = pgServer.undone \cup pgServer.work
               \/ pgServer'.saved = pgServer.saved \cup pgServer.work /\ pgServer'.undone = pgServer.undone,
               ok /\ ~pgServer.failed => pgServer'.saved = pgServer.saved \cup pgServer.work
        PROVE  PgInv' /\ PgPromised
    <2>1. PgInv'
      BY <1>1, <1>2, <1>3, PgSays, PgOutsideStep DEF PgTouched, PgGoOutside
    <2>2. PgMoves
      <3>1. CASE pgServer'.saved = pgServer.saved /\ pgServer'.undone = pgServer.undone \cup pgServer.work
        BY <1>3, <3>1 DEF PgMoves, PgPromise!TakeBack
      <3>2. CASE pgServer'.saved = pgServer.saved \cup pgServer.work /\ pgServer'.undone = pgServer.undone
        <4>1. CASE pgWorker.auto
          <5>1. pgServer.work = {} \/ (pgServer.work = {n} /\ n \in PgEffects)
            BY <1>1, <4>1 DEF PgServers
          <5>2. PgWant = "one"
            BY <1>1, <4>1 DEF PgWant
          <5> QED
            BY <1>3, <3>2, <5>1, <5>2 DEF PgMoves, PgPromise!SaveOne
        <4>2. CASE ~pgWorker.auto
          <5>1. PgWant = "all"
            BY <1>1, <4>2 DEF PgWant
          <5> QED
            BY <1>3, <3>2, <5>1 DEF PgMoves, PgPromise!SaveAll
        <4> QED
          BY <4>1, <4>2
      <3> QED
        BY <1>3, <3>1, <3>2
    <2>3. ASSUME pgCaller'.said \in {pgCaller.said, PgQuiet}
          PROVE  PgPromised
      BY <2>2, <2>3, PgSaysNothing
    <2>4. ASSUME ok, pgServer.work = {n}, ~pgServer.failed, n \in PgEffects,
                 pgCaller'.said \in {pgCaller.said, PgDid(TRUE)}
          PROVE  PgPromised
      <3>1. PgDid(TRUE) \in PgSayings /\ PgSo(PgDid(TRUE))
        BY <1>3, <2>4, PgSayingsOf DEF PgSo
      <3> QED
        BY <2>2, <2>4, <3>1, PgSaysTruly
    <2>5. PgPromised
      BY <1>1, <1>3, <2>3, <2>4, PgSays
    <2> QED
      BY <2>1, <2>5
  <1>4. CASE PgSends /\ pgServer' = PgEnded(pgServer) /\ PgSaying(TRUE)
    <2>1. /\ pgServer' \in PgServers /\ pgServer'.work = {}
          /\ pgServer.failed => pgServer'.saved = pgServer.saved
                                /\ pgServer'.undone = pgServer.undone \cup pgServer.work
          /\ ~pgServer.failed => pgServer'.saved = pgServer.saved \cup pgServer.work
                                 /\ pgServer'.undone = pgServer.undone
      BY <1>1, <1>4, PgServerFacts
    <2>2. pgServer.up
      BY <1>4 DEF PgSends
    <2> QED
      BY <1>3, <1>4, <2>1, <2>2
  <1>5. CASE PgSends /\ pgServer' = PgRolledBack(pgServer) /\ PgSaying(FALSE)
    <2>1. /\ pgServer' \in PgServers /\ pgServer'.work = {} /\ pgServer'.saved = pgServer.saved
          /\ pgServer'.undone = pgServer.undone \cup pgServer.work
      BY <1>1, <1>5, PgServerFacts
    <2> QED
      BY <1>3, <1>5, <2>1
  <1>6. CASE PgLost /\ UNCHANGED pgServer /\ PgSaying(FALSE)
    BY <1>1, <1>3, <1>6 DEF PgLost
  <1> QED
    BY <1>4, <1>5, <1>6 DEF PgCommit

LEMMA PgRollbackStep ==
    ASSUME PgInv, PgRollback
    PROVE  PgInv' /\ PgPromised
  <1> DEFINE n == pgWorker.n
  <1>1. /\ pgWorker.at = "rollback" /\ pgWorker' = PgOutside
        /\ UNCHANGED <<pgCancel, pgQueue, pgStopped>> /\ pgCancel \in PgCancels
        /\ pgWorker \in PgWorkers /\ pgServer \in PgServers /\ PgTypes
        /\ pgStopped \cap pgServer.saved = {}
        /\ pgServer.failed \/ ~pgServer.up => pgServer.work = {}
    BY DEF PgRollback, PgGoOutside, PgInv, PgTypes, PgAccounts, PgStops
  <1>2. /\ pgServer' \in PgServers /\ pgServer'.work = {} /\ pgServer'.saved = pgServer.saved
        /\ pgServer'.undone = pgServer.undone \cup pgServer.work
    <2>1. CASE pgServer' = PgRolledBack(pgServer)
      BY <1>1, <2>1, PgServerFacts
    <2>2. CASE PgLost /\ UNCHANGED pgServer
      BY <1>1, <2>2 DEF PgLost
    <2> QED
      BY <2>1, <2>2 DEF PgRollback
  <1>3. PICK ok \in BOOLEAN : PgSaying(ok) /\ (ok => pgServer.up)
    BY DEF PgRollback, PgSends
  <1>4. PgMoves
    BY <1>2 DEF PgMoves, PgPromise!TakeBack
  <1>5. PgPromised
    <2>1. CASE pgCaller'.said \in {pgCaller.said, PgQuiet}
      BY <1>4, <2>1, PgSaysNothing
    <2>2. CASE n \in PgEffects \ pgServer.saved /\ pgCaller'.said \in {pgCaller.said, PgDidNot(n)}
      <3>1. PgDidNot(n) \in PgSayings /\ PgSo(PgDidNot(n))
        BY <1>2, <2>2, PgSayingsOf DEF PgSo
      <3> QED
        BY <1>4, <2>2, <3>1, PgSaysTruly
    <2> QED
      BY <1>1, <1>3, <2>1, <2>2, PgSays
  <1>6. CASE pgWorker.then # "none"
    <2>1. PgWorks
      BY <1>1, <1>6 DEF PgWorks, PgBusy
    <2>2. PgInv'
      BY <1>1, <1>2, <1>3, <2>1, PgSays, PgOutsideStep DEF PgTouched
    <2> QED
      BY <1>5, <2>2
  <1>7. CASE pgWorker.then = "none"
    <2>1. UNCHANGED pgCaller
      BY <1>1, <1>3, <1>7, PgSays
    <2>2. /\ pgWorker' \in PgWorkers /\ pgWorker'.at = "outside" /\ ~pgWorker'.active /\ ~PgBusy' /\ ~PgBusy
      BY <1>1, <1>7 DEF PgOutside, PgWorkers, PgBusy
    <2>3. PgTouched' = PgTouched
      BY <1>1, <1>2 DEF PgTouched
    <2>4. PgTypes'
      BY <1>1, <1>2, <2>1, <2>2 DEF PgTypes
    <2>5. PgLine'
      BY <1>1, <2>1, <2>2 DEF PgInv, PgLine
    <2>6. PgNumbered'
      BY <1>1, <2>1, <2>2, <2>3 DEF PgInv, PgNumbered, PgNew
    <2>7. PgAccounts' /\ PgHeld' /\ PgStops'
      BY <1>1, <1>2, <2>2 DEF PgAccounts, PgStarting, PgHeld, PgReading, PgStops
    <2> QED
      BY <1>5, <2>4, <2>5, <2>6, <2>7 DEF PgInv
  <1> QED
    BY <1>6, <1>7

LEMMA PgStep ==
    ASSUME PgInv, [PgNext]_pgVars, ~PgCatalogErrors
    PROVE  PgInv' /\ [PgPromised]_<<pgServer.work, pgServer.saved, pgServer.undone, PgWant, pgCaller.said>>
  <1>1. CASE UNCHANGED pgVars
    <2>1. UNCHANGED <<pgCancel, pgServer, pgWorker, pgQueue, pgCaller, pgStopped>>
      BY <1>1 DEF pgVars
    <2>2. PgTypes' /\ PgLine' /\ PgNumbered'
      BY <2>1 DEF PgInv, PgTypes, PgLine, PgBusy, PgNumbered, PgNew, PgTouched
    <2>3. PgAccounts' /\ PgHeld' /\ PgStops'
      BY <2>1 DEF PgInv, PgAccounts, PgStarting, PgHeld, PgReading, PgStops
    <2>4. UNCHANGED <<pgServer.work, pgServer.saved, pgServer.undone, PgWant, pgCaller.said>>
      BY <2>1 DEF PgWant, PgHas, PgCommand
    <2> QED
      BY <2>2, <2>3, <2>4 DEF PgInv
  <1>2. CASE PgNext
    <2>1. CASE \/ \E sort \in PgSorts, auto \in BOOLEAN : PgExecute(sort, auto)
               \/ \E sort \in PgSorts : PgControl(sort)
               \/ \E op \in {"commit", "rollback", "chain", "catalog"} : PgAsk(op)
               \/ \E g \in 1..PgExecutes : PgCancelQuery(g)
               \/ PgControlled \/ PgControlTimesOut \/ PgFetch \/ PgFinish \/ PgEdit \/ PgLeave
               \/ PgInterrupt \/ PgSent
      BY <2>1, PgExecuteStep, PgControlStep, PgAskStep, PgAsideStep, PgGoneStep, PgEditStep
    <2>2. CASE \/ PgHangUp \/ PgTakeExecute \/ PgImplicit \/ PgTakeBegin \/ PgBegun \/ PgBind
               \/ PgFirstFails \/ PgStarted \/ PgTakeOutside \/ PgTakeClose \/ PgTakeManual
      BY <2>2, PgHangUpStep, PgTakeExecuteStep, PgImplicitStep, PgTakeBeginStep, PgBegunStep,
         PgBindStep, PgFirstFailsStep, PgStartedStep, PgTakeOutsideStep, PgTakeCloseStep
    <2>3. CASE \/ PgTakeFetch \/ PgPage \/ PgTakeFinish \/ PgTakeEnd \/ PgTakeInside
               \/ PgCommit \/ PgRollback
      BY <2>3, PgTakeFetchStep, PgPageStep, PgTakeFinishStep, PgTakeEndStep, PgTakeInsideStep,
         PgCommitStep, PgRollbackStep
    <2> QED
      BY <1>2, <2>1, <2>2, <2>3 DEF PgNext
  <1> QED
    BY <1>1, <1>2

LEMMA PgStarts == PgInit => PgInv /\ PgPromise!PromiseInit
  <1> SUFFICES ASSUME PgInit PROVE PgInv /\ PgPromise!PromiseInit
    OBVIOUS
  <1>1. PgTypes
    <2>1. pgCancel \in PgCancels /\ pgServer \in PgServers /\ pgStopped \subseteq PgEffects
      BY DEF PgInit, PgCancels, PgServers
    <2>2. pgWorker \in PgWorkers /\ pgQueue \in Seq(PgCommands)
      BY DEF PgInit, PgOutside, PgWorkers
    <2>3. pgCaller \in PgCallers
      BY PgSayingsOf DEF PgInit, PgCallers
    <2> QED
      BY <2>1, <2>2, <2>3 DEF PgTypes
  <1>2. PgLine
    BY DEF PgInit, PgLine, PgBusy, PgOutside
  <1>3. PgNumbered /\ PgAccounts /\ PgHeld /\ PgStops
    BY DEF PgInit, PgNumbered, PgTouched, PgAccounts, PgStarting, PgHeld, PgReading, PgStops, PgOutside
  <1>4. PgPromise!PromiseInit
    BY DEF PgInit, PgPromise!PromiseInit, PgPromise!Silence, PgWant, PgQuiet, PgOutside
  <1> QED
    BY <1>1, <1>2, <1>3, <1>4 DEF PgInv

\* A PostgreSQL session does: its worker saves a statement's work when its result was read to the
\* end or it was asked to commit, and else never, whichever of a stop, a deadline, a lost
\* connection and a next command comes first.  (No catalog read fails in its transaction.)
THEOREM PgPromiseKept == ASSUME ~PgCatalogErrors PROVE PgSpec => PgKeepsItsPromise
  <1>1. PgInit => PgInv /\ PgPromise!PromiseInit
    BY PgStarts
  <1>2. PgInv /\ [PgNext]_pgVars => PgInv' /\ [PgPromise!PromiseNext]_(PgPromise!promiseVars)
    BY PgStep DEF PgPromised, PgPromise!promiseVars
  <1> QED
    BY <1>1, <1>2, PTL DEF PgSpec, PgKeepsItsPromise, PgPromise!PromiseSpec

-----------------------------------------------------------------------------
(***************************************************************************)
(* MySQL and MariaDB.                                                      *)
(***************************************************************************)

MyKinds == {"write", "begin", "commit"}
MyLinks == [at : {"session", "worker", "closed"}, known : {"open", "closed", "unknown"}]
MyServers == [open : BOOLEAN, work : SUBSET MyEffects, saved : SUBSET MyEffects,
              undone : SUBSET MyEffects, running : {"nothing", "statement", "ok", "error"}]
MyWorkers ==
    [step : {"none", "admit", "prepare", "begin", "check", "run", "rows", "probe", "ping", "finish"},
     drain : {"no", "kill", "drain"}, n : 0..MyExecutes, script : Seq(MyKinds), at : Nat,
     manual : BOOLEAN, started : BOOLEAN, end : {"none", "ok", "error", "cancelled", "lost"}]
MyFailures == [at : Nat, kind : {"none", "interrupted", "error", "lost"}]
MyResults == [sets : Seq(MySetType), done : BOOLEAN, failure : MyFailures]
MySayings == [of : SUBSET MyEffects, done : BOOLEAN, own : BOOLEAN]
MyCallers ==
    [op : {"idle", "execute", "reading", "commit", "rollback", "edit", "gone"},
     executed : 0..MyExecutes, cursor : BOOLEAN, set : Nat,
     told : {"nothing", "end", "failure"}, said : MySayings]

MyTypes ==
    /\ myLink \in MyLinks /\ myServer \in MyServers /\ myWorker \in MyWorkers
    /\ myCancelled \subseteq MyHandles /\ myResult \in MyResults /\ myCaller \in MyCallers

\* The effects that anything has been heard of.
MyTouched == myServer.work \cup myServer.saved \cup myServer.undone
\* No statement of the script from k on has left one.
MyFresh(k) == \A i \in 1..2 : i >= k => <<myWorker.n, i>> \notin MyTouched
MyBusy == myWorker.step # "none"

\* What is known of the transaction is so, or it is not known and none is open.
MySane == myLink.known = MyTruth(myServer) \/ (myLink.known = "unknown" /\ ~myServer.open)

\* Who has the connection.
MyHolds ==
    /\ myLink.at = "worker" <=> MyBusy
    /\ myResult.done <=> ~MyBusy
    /\ myCaller.op \in {"commit", "rollback", "edit"} => myLink.at = "session"
    /\ myLink.at = "session" => myCaller.op # "gone" /\ MySane
    /\ myServer.running # "nothing" =>
            \/ myWorker.step \in {"run", "rows"}
            \/ myWorker.step = "finish" /\ myWorker.end = "lost"
    /\ myWorker.step \in {"run", "rows"} => myServer.running # "nothing"
    /\ myWorker.step \in {"admit", "prepare"} \/ (myWorker.step = "finish" /\ myWorker.end # "lost")
            => MySane
    /\ myWorker.step = "begin" => myWorker.started = myServer.open
    /\ ~myServer.open => myServer.work = {}
    /\ myWorker.drain # "no" => MyBusy

\* The results are those of the statements before, and of the one that is at work.
MyFollows == LET sets == myResult.sets  at == myWorker.at IN
    MyBusy =>
        /\ myWorker.n \in 1..myCaller.executed /\ at \in 1..Len(myWorker.script)
        /\ Len(myWorker.script) \in 1..2
        /\ myWorker.step \in {"admit", "prepare", "begin", "check", "run"} =>
                Len(sets) = at - 1 /\ (sets # <<>> => sets[Len(sets)].final)
        /\ myWorker.step \in {"rows", "probe"} =>
                Len(sets) = at /\ sets[at].done = (myWorker.step = "probe")
        /\ myWorker.step \notin {"ping", "finish"} => myWorker.end = "none"
        /\ myWorker.step = "ping" => myWorker.end \in {"error", "cancelled"}
        /\ myWorker.step = "finish" => myWorker.end # "none"
        /\ myWorker.step = "finish" /\ myWorker.end = "ok" =>
                Len(sets) = Len(myWorker.script) /\ sets[Len(sets)].final
        /\ myResult.failure.kind \in {"none", "interrupted"}

\* The statement that a failure is of.
MyFailedAt(sets) ==
    IF sets = <<>> THEN 1 ELSE Len(sets) + IF sets[Len(sets)].done THEN 1 ELSE 0

\* What a statement left, and when.
MyRemains ==
    /\ \A e \in MyTouched : e[1] <= myCaller.executed
    /\ MyGrid \notin myServer.work \cup myServer.undone
    /\ myCaller.op = "edit" => MyGrid \notin myServer.saved
    /\ myWorker.step \in {"admit", "prepare", "begin", "check"} => MyFresh(myWorker.at)
    /\ myServer.running \in {"statement", "error"} => MyFresh(myWorker.at)
    /\ myServer.running = "ok" =>
            /\ MyFresh(myWorker.at + 1)
            /\ MyKind = "write" => MyEffect \in MyTouched
    /\ myWorker.step = "probe" => MyFresh(myWorker.at + 1)
    /\ myWorker.step \in {"ping", "finish"} /\ myWorker.end = "error" =>
            <<myWorker.n, MyFailedAt(myResult.sets)>> \notin MyTouched
    /\ myResult.failure.kind = "error" => 
            /\ ~MyBusy /\ myWorker.n # 0 /\ <<myWorker.n, myResult.failure.at + 1>> \notin MyTouched

\* What the cursor finds.
MyShows == LET sets == myResult.sets  script == myWorker.script IN
    /\ Len(sets) <= Len(script) /\ myResult.failure.at <= Len(sets)
    /\ \A i \in 1..Len(sets) :
            /\ sets[i].final => sets[i].done /\ (sets[i].more \/ i = Len(script))
            /\ i < Len(sets) => sets[i].final
            /\ sets[i].done /\ script[i] = "write" => <<myWorker.n, i>> \in MyTouched
    /\ myResult.done /\ myResult.failure.kind = "none" => Len(sets) = Len(script)
    /\ myResult.done /\ sets # <<>> =>
            \/ sets[Len(sets)].final \/ ~sets[Len(sets)].done \/ sets[Len(sets)].more
            \/ myResult.failure.kind = "interrupted"
    /\ myCaller.told = "end" => Len(sets) = Len(script)
    /\ myCaller.op = "execute" => myCaller.set = 0 /\ myCaller.told = "nothing"
    /\ myCaller.cursor => myCaller.set + 1 <= Len(sets)
    /\ myCaller.op = "reading" =>
            /\ myCaller.cursor /\ sets[myCaller.set + 1].done
            /\ sets[myCaller.set + 1].final \/ myResult.done

MyInv == MyTypes /\ MyHolds /\ MyFollows /\ MyRemains /\ MyShows

MyPromised == MyPromise!PromiseNext

\* A step of the server that is one of the promised ones, and an answer that is so.
MyMoves ==
    \/ UNCHANGED <<myServer.work, myServer.saved, myServer.undone>>
    \/ MyPromise!Perform \/ MyPromise!SaveOne \/ MyPromise!SaveAll \/ MyPromise!TakeBack

MySo(s) ==
    IF s.done THEN s.of \subseteq myServer'.saved \cup
                        (IF s.own THEN {} ELSE myServer'.work \cup myServer'.undone)
    ELSE s.of \cap (myServer'.work \cup myServer'.saved) = {}

LEMMA MySaysTruly ==
    ASSUME MyMoves, \/ myCaller'.said = myCaller.said
                    \/ myCaller'.said \in MySayings /\ MySo(myCaller'.said)
    PROVE  MyPromised
  <1>1. myCaller'.said = myCaller.said
        \/ (myCaller'.said \in MyPromise!Sayings /\ MyPromise!True(myCaller'.said))
    BY DEF MySo, MySayings, MyPromise!Sayings, MyPromise!True
  <1> QED
    BY <1>1 DEF MyPromised, MyPromise!PromiseNext, MyPromise!Same, MyMoves

LEMMA MyQuietSaid == MyQuiet \in MySayings /\ MySo(MyQuiet)
  BY DEF MyQuiet, MySayings, MySo

-----------------------------------------------------------------------------
(***************************************************************************)
(* Steps of the session and its cursor.                                    *)
(***************************************************************************)
LEMMA MyCallerStep ==
    ASSUME MyInv, UNCHANGED <<myLink, myServer, myWorker, myResult>>, myCancelled' \subseteq MyHandles,
           myCaller' \in MyCallers, myCaller'.executed \in {myCaller.executed, myCaller.executed + 1},
           myCaller'.op \in {"commit", "rollback", "edit"} => myLink.at = "session",
           myCaller'.op = "gone" => myLink.at # "session",
           myCaller'.op = "edit" => MyGrid \notin myServer.saved,
           myCaller'.told = "end" => Len(myResult.sets) = Len(myWorker.script),
           myCaller'.op = "execute" => myCaller'.set = 0 /\ myCaller'.told = "nothing",
           myCaller'.cursor => myCaller'.set + 1 <= Len(myResult.sets),
           myCaller'.op = "reading" =>
                /\ myCaller'.cursor /\ myResult.sets[myCaller'.set + 1].done
                /\ myResult.sets[myCaller'.set + 1].final \/ myResult.done,
           \/ myCaller'.said = myCaller.said
           \/ myCaller'.said \in MySayings /\ MySo(myCaller'.said)
    PROVE  MyInv' /\ MyPromised
  <1>1. MyTypes'
    BY DEF MyInv, MyTypes
  <1>2. MyTouched' = MyTouched /\ MyBusy' = MyBusy /\ MySane' = MySane
    BY DEF MyTouched, MyBusy, MySane, MyTruth
  <1>3. MyHolds'
    BY <1>2 DEF MyInv, MyHolds
  <1>4. MyFollows'
    <2>1. \A n : n \in 1..myCaller.executed => n \in 1..myCaller'.executed
      BY DEF MyInv, MyTypes, MyCallers
    <2> QED
      BY <1>2, <2>1 DEF MyInv, MyFollows
  <1>5. MyRemains'
    <2>1. \A e \in MyTouched' : e[1] <= myCaller'.executed
      <3>1. \A e \in MyTouched : e[1] \in Nat
        BY DEF MyInv, MyTypes, MyServers, MyTouched, MyEffects, MyGrid
      <3>2. myCaller.executed \in Nat
        BY DEF MyInv, MyTypes, MyCallers
      <3> QED
        BY <1>2, <3>1, <3>2 DEF MyInv, MyRemains
    <2>2. \A k : MyFresh(k)' = MyFresh(k)
      BY <1>2 DEF MyFresh
    <2>3. MyKind' = MyKind /\ MyEffect' = MyEffect /\ (myResult.sets)' = myResult.sets
      BY DEF MyKind, MyEffect
    <2> QED
      BY <1>2, <2>1, <2>2, <2>3 DEF MyInv, MyRemains
  <1>6. MyShows'
    BY <1>2 DEF MyInv, MyShows
  <1>7. MyPromised
    BY MySaysTruly DEF MyMoves
  <1> QED
    BY <1>1, <1>3, <1>4, <1>5, <1>6, <1>7 DEF MyInv

LEMMA MyCancelStep ==
    ASSUME MyInv, NEW n \in MyHandles, MyCancel(n)
    PROVE  MyInv' /\ MyPromised
  <1>1. /\ UNCHANGED <<myLink, myServer, myWorker, myResult, myCaller>>
        /\ myCancelled' \subseteq MyHandles /\ myCaller \in MyCallers
    BY DEF MyCancel, MyInv, MyTypes
  <1>2. myCaller'.executed = myCaller.executed
    BY <1>1 DEF MyCallers
  <1> QED
    BY <1>1, <1>2, MyCallerStep DEF MyInv, MyHolds, MyRemains, MyShows

LEMMA MyRefuseExecuteStep ==
    ASSUME MyInv, MyRefuseExecute
    PROVE  MyInv' /\ MyPromised
  <1> DEFINE n == myCaller.executed + 1
             s == [of |-> {n} \X (1..2), done |-> FALSE, own |-> FALSE]
  <1>1. /\ UNCHANGED <<myLink, myServer, myWorker, myResult>> /\ myCaller.op = "idle" /\ n <= MyExecutes
        /\ myCancelled' \subseteq MyHandles /\ myCaller \in MyCallers
        /\ myCaller' = [myCaller EXCEPT !.executed = n, !.said = s]
    BY DEF MyRefuseExecute, MyInv, MyTypes
  <1>2. n \in 1..MyExecutes /\ n \in 0..MyExecutes /\ myCaller.executed \in Nat
    BY <1>1, MyAssumption DEF MyCallers
  <1>3. s \in MySayings /\ s.of = {n} \X (1..2) /\ ~s.done
    BY <1>2 DEF MySayings, MyEffects
  <1>4. s.of \cap MyTouched = {}
    BY <1>2, <1>3 DEF MyInv, MyRemains
  <1>5. MySo(s)
    BY <1>1, <1>3, <1>4 DEF MySo, MyTouched
  <1> HIDE DEF s
  <1>6. /\ myCaller' \in MyCallers /\ myCaller'.executed = n /\ myCaller'.op = "idle" /\ myCaller'.said = s
        /\ myCaller'.told = myCaller.told /\ myCaller'.cursor = myCaller.cursor /\ myCaller'.set = myCaller.set
    BY <1>1, <1>2, <1>3 DEF MyCallers
  <1> QED
    BY <1>1, <1>3, <1>5, <1>6, MyCallerStep DEF MyInv, MyShows

\* A failure says of a statement that it left nothing only when it did not.
LEMMA MyFailsStep ==
    ASSUME MyInv, UNCHANGED <<myLink, myServer, myWorker, myResult, myCancelled>>,
           NEW failure \in MyFailures, failure.kind = "error" => failure = myResult.failure,
           MyFails(failure)
    PROVE  MyInv' /\ MyPromised
  <1> DEFINE s == MySaid(failure)
  <1>1. myCaller \in MyCallers /\ myWorker \in MyWorkers /\ myCancelled \subseteq MyHandles
    BY DEF MyInv, MyTypes
  <1>2. s \in MySayings /\ ~s.done
        /\ s.of = {e \in MyEffects : failure.kind = "error" /\ e = <<myWorker.n, failure.at + 1>>}
    BY DEF MySaid, MySayings
  <1>3. s.of \cap MyTouched = {}
    BY <1>2 DEF MyInv, MyRemains
  <1>4. MySo(s)
    BY <1>2, <1>3 DEF MySo, MyTouched
  <1> HIDE DEF s
  <1>5. myCaller' = [myCaller EXCEPT !.op = "idle", !.told = "failure", !.said = s]
    BY DEF MyFails, s
  <1>6. /\ myCaller' \in MyCallers /\ myCaller'.op = "idle" /\ myCaller'.told = "failure"
        /\ myCaller'.said = s /\ myCaller'.cursor = myCaller.cursor /\ myCaller'.set = myCaller.set
        /\ myCaller'.executed = myCaller.executed
    BY <1>1, <1>2, <1>5 DEF MyCallers
  <1> QED
    BY <1>1, <1>2, <1>4, <1>6, MyCallerStep DEF MyInv, MyShows

LEMMA MyReadStep ==
    ASSUME MyInv, MyStartFails \/ MyFetchFails \/ MyNextSet
    PROVE  MyInv' /\ MyPromised
  <1>1. /\ myCaller \in MyCallers /\ myCancelled \subseteq MyHandles /\ myResult \in MyResults
        /\ myResult.failure \in MyFailures /\ myResult.sets \in Seq(MySetType)
        /\ UNCHANGED <<myLink, myServer, myWorker, myResult, myCancelled>>
    BY DEF MyInv, MyTypes, MyResults, MyStartFails, MyFetchFails, MyNextSet
  <1>2. CASE MyStartFails
    BY <1>1, <1>2, MyFailsStep DEF MyStartFails
  <1>3. ASSUME NEW set \in Nat,
               MyFails([myResult.failure EXCEPT !.kind = IF set = myResult.failure.at THEN @ ELSE "interrupted"])
        PROVE  MyInv' /\ MyPromised
    <2>1. PICK kind : kind = (IF set = myResult.failure.at THEN myResult.failure.kind ELSE "interrupted")
      OBVIOUS
    <2>2. PICK failure : failure = [myResult.failure EXCEPT !.kind = kind]
      OBVIOUS
    <2>3. failure \in MyFailures /\ (failure.kind = "error" => failure = myResult.failure)
      BY <1>1, <2>1, <2>2 DEF MyFailures
    <2> QED
      BY <1>1, <1>3, <2>1, <2>2, <2>3, MyFailsStep
  <1>4. CASE MyFetchFails
    <2>1. myCaller.set \in Nat
      BY <1>1 DEF MyCallers
    <2> QED
      BY <1>3, <1>4, <2>1 DEF MyFetchFails
  <1>5. CASE MyNextSet
    <2>1. myCaller.set \in Nat /\ myCaller.set + 1 \in Nat /\ myCaller.op = "idle" /\ myCaller.cursor
          /\ Len(myResult.sets) \in Nat
      BY <1>1, <1>5 DEF MyNextSet, MyCallers
    <2>2. CASE MyInterrupted(myCaller.set + 1)
      BY <1>3, <1>5, <2>1, <2>2 DEF MyNextSet
    <2>3. CASE /\ Len(myResult.sets) > myCaller.set + 1
               /\ myCaller' = [myCaller EXCEPT !.set = @ + 1, !.told = "nothing"]
      <3>1. /\ myCaller' \in MyCallers /\ myCaller'.op = "idle" /\ myCaller'.told = "nothing"
            /\ myCaller'.said = myCaller.said /\ myCaller'.set = myCaller.set + 1
            /\ myCaller'.executed = myCaller.executed
        BY <1>1, <2>1, <2>3 DEF MyCallers
      <3>2. myCaller'.set + 1 <= Len(myResult.sets)
        BY <2>1, <2>3, <3>1
      <3> QED
        BY <1>1, <3>1, <3>2, MyCallerStep
    <2>4. CASE /\ ~MyInterrupted(myCaller.set + 1)
               /\ Len(myResult.sets) = myCaller.set + 1 /\ myResult.done
               /\ myCaller' = [myCaller EXCEPT !.told = "end"]
      <3>1. /\ myCaller' \in MyCallers /\ myCaller'.op = "idle" /\ myCaller'.told = "end"
            /\ myCaller'.said = myCaller.said /\ myCaller'.set = myCaller.set
            /\ myCaller'.cursor = myCaller.cursor /\ myCaller'.executed = myCaller.executed
        BY <1>1, <2>1, <2>4 DEF MyCallers
      <3>2. myResult.failure.kind = "none"
        BY <1>1, <2>1, <2>4 DEF MyInterrupted, MyInv, MyShows, MyFailures
      <3>3. Len(myResult.sets) = Len(myWorker.script)
        BY <2>4, <3>2 DEF MyInv, MyShows
      <3> QED
        BY <1>1, <3>1, <3>3, MyCallerStep DEF MyInv, MyShows
    <2> QED
      BY <1>5, <2>2, <2>3, <2>4 DEF MyNextSet
  <1> QED
    BY <1>2, <1>4, <1>5

LEMMA MyCursorStep ==
    ASSUME MyInv, MyStarted \/ MyFetch \/ MyFetched \/ MyCloseCursor \/ (\E op \in {"commit", "rollback", "edit"} : MyAsk(op))
    PROVE  MyInv' /\ MyPromised
  <1>1. /\ myCaller \in MyCallers /\ myCancelled \subseteq MyHandles /\ myResult \in MyResults
        /\ myResult.sets \in Seq(MySetType) /\ Len(myResult.sets) \in Nat /\ myCaller.set \in Nat
        /\ myWorker \in MyWorkers
        /\ UNCHANGED <<myLink, myServer, myWorker, myResult>>
    BY DEF MyInv, MyTypes, MyResults, MyCallers, MyStarted, MyFetch, MyFetched, MyCloseCursor, MyAsk
  <1>2. CASE MyStarted
    <2>1. /\ myCaller' = [myCaller EXCEPT !.op = "idle", !.cursor = TRUE] /\ myCaller.op = "execute"
          /\ myResult.sets # <<>> /\ UNCHANGED myCancelled
      BY <1>2 DEF MyStarted
    <2>2. /\ myCaller' \in MyCallers /\ myCaller'.op = "idle" /\ myCaller'.told = myCaller.told
          /\ myCaller'.said = myCaller.said /\ myCaller'.set = myCaller.set
          /\ myCaller'.executed = myCaller.executed
      BY <1>1, <2>1 DEF MyCallers
    <2>3. myCaller.set = 0 /\ myCaller.told = "nothing"
      BY <2>1 DEF MyInv, MyShows
    <2>4. myCaller'.set + 1 <= Len(myResult.sets)
      BY <1>1, <2>1, <2>2, <2>3
    <2> QED
      BY <1>1, <2>1, <2>2, <2>3, <2>4, MyCallerStep
  <1>3. CASE MyFetch
    <2>1. /\ myCaller' = [myCaller EXCEPT !.op = "reading"] /\ myCaller.op = "idle" /\ myCaller.cursor
          /\ UNCHANGED myCancelled
      BY <1>3 DEF MyFetch
    <2>2. /\ myCaller' \in MyCallers /\ myCaller'.op = "reading" /\ myCaller'.told = myCaller.told
          /\ myCaller'.said = myCaller.said /\ myCaller'.set = myCaller.set
          /\ myCaller'.cursor = myCaller.cursor /\ myCaller'.executed = myCaller.executed
      BY <1>1, <2>1 DEF MyCallers
    <2>3. myCaller.set + 1 <= Len(myResult.sets)
      BY <2>1 DEF MyInv, MyShows
    <2>4. /\ myResult.sets[myCaller.set + 1].done
          /\ myResult.sets[myCaller.set + 1].final \/ myResult.done
      <3>1. myCaller.set + 1 \in 1..Len(myResult.sets)
        BY <1>1, <2>3
      <3>2. myCaller.set + 1 < Len(myResult.sets) => myResult.sets[myCaller.set + 1].final
        BY <3>1 DEF MyInv, MyShows
      <3> QED
        BY <1>3, <3>2 DEF MyFetch, MyAvailable
    <2> QED
      BY <1>1, <2>1, <2>2, <2>3, <2>4, MyCallerStep DEF MyInv, MyShows
  <1>4. CASE MyFetched
    <2> DEFINE i == myCaller.set + 1
               set == myResult.sets[i]
    <2>1. PICK s : s = [of |-> IF myWorker.script[i] = "write" THEN {<<myWorker.n, i>>} ELSE {},
                        done |-> TRUE, own |-> FALSE]
      OBVIOUS
    <2>2. PICK told : told = (IF set.more THEN "nothing" ELSE "end")
      OBVIOUS
    <2>3. /\ myCaller' = [myCaller EXCEPT !.op = "idle", !.told = told, !.said = s]
          /\ myCaller.op = "reading" /\ ~MyInterrupted(myCaller.set) /\ UNCHANGED myCancelled
      BY <1>4, <2>1, <2>2 DEF MyFetched
    <2>4. /\ myCaller.cursor /\ set.done /\ (set.final \/ myResult.done) /\ i <= Len(myResult.sets)
      BY <2>3 DEF MyInv, MyShows
    <2>5. i \in 1..Len(myResult.sets)
      BY <1>1, <2>4
    <2>6. s.of \subseteq MyTouched
      BY <2>1, <2>4, <2>5 DEF MyInv, MyShows
    <2>7. s \in MySayings /\ MySo(s)
      <3>1. s.of \subseteq MyEffects
        BY <2>6 DEF MyTouched, MyInv, MyTypes, MyServers
      <3> QED
        BY <1>1, <2>1, <2>6, <3>1 DEF MySayings, MySo, MyTouched
    <2>8. told = "end" => Len(myResult.sets) = Len(myWorker.script)
      <3> SUFFICES ASSUME ~set.more
                   PROVE  Len(myResult.sets) = Len(myWorker.script)
        BY <2>2
      <3>1. Len(myResult.sets) <= Len(myWorker.script) /\ Len(myWorker.script) \in Nat
        BY <1>1 DEF MyInv, MyShows, MyWorkers
      <3>2. CASE set.final
        <4>1. i = Len(myWorker.script)
          BY <2>5, <3>2 DEF MyInv, MyShows
        <4> QED
          BY <1>1, <2>4, <3>1, <4>1
      <3>3. CASE ~set.final
        <4>1. i = Len(myResult.sets) /\ myResult.done
          <5>1. ~(i < Len(myResult.sets))
            BY <2>5, <3>3 DEF MyInv, MyShows
          <5> QED
            BY <1>1, <2>4, <3>3, <5>1
        <4>2. myResult.sets # <<>>
          BY <1>1, <2>5
        <4>3. myResult.failure.kind = "interrupted"
          BY <2>4, <3>3, <4>1, <4>2 DEF MyInv, MyShows
        <4> QED
          BY <2>3, <4>3 DEF MyInterrupted
      <3> QED
        BY <3>2, <3>3
    <2>9. /\ myCaller' \in MyCallers /\ myCaller'.op = "idle" /\ myCaller'.told = told
          /\ myCaller'.said = s /\ myCaller'.set = myCaller.set
          /\ myCaller'.cursor = myCaller.cursor /\ myCaller'.executed = myCaller.executed
      BY <1>1, <2>2, <2>3, <2>7 DEF MyCallers
    <2> QED
      BY <1>1, <2>3, <2>4, <2>7, <2>8, <2>9, MyCallerStep
  <1>5. CASE MyCloseCursor
    <2>1. myCaller' = [myCaller EXCEPT !.cursor = FALSE, !.said = MyQuiet] /\ myCaller.op = "idle"
      BY <1>5 DEF MyCloseCursor
    <2>2. /\ myCaller' \in MyCallers /\ myCaller'.op = "idle" /\ myCaller'.told = myCaller.told
          /\ myCaller'.said = MyQuiet /\ ~myCaller'.cursor /\ myCaller'.executed = myCaller.executed
      BY <1>1, <2>1, MyQuietSaid DEF MyCallers
    <2>3. myCancelled' \subseteq MyHandles
      <3>1. ~myResult.done => myWorker.n \in MyHandles
        BY <1>1 DEF MyInv, MyHolds, MyFollows, MyCallers, MyHandles, MyWorkers
      <3> QED
        BY <1>1, <1>5, <3>1 DEF MyCloseCursor
    <2> QED
      BY <1>1, <2>2, <2>3, MyQuietSaid, MyCallerStep DEF MyInv, MyShows
  <1>6. ASSUME NEW op \in {"commit", "rollback", "edit"}, MyAsk(op)
        PROVE  MyInv' /\ MyPromised
    <2>1. /\ myCaller' = [myCaller EXCEPT !.op = op, !.cursor = FALSE, !.said = MyQuiet]
          /\ myLink.at = "session" /\ (op = "edit" => MyGrid \notin myServer.saved) /\ UNCHANGED myCancelled
      BY <1>6 DEF MyAsk
    <2>2. /\ myCaller' \in MyCallers /\ myCaller'.op = op /\ myCaller'.told = myCaller.told
          /\ myCaller'.said = MyQuiet /\ ~myCaller'.cursor /\ myCaller'.executed = myCaller.executed
      BY <1>1, <2>1, MyQuietSaid DEF MyCallers
    <2> QED
      BY <1>1, <2>1, <2>2, MyQuietSaid, MyCallerStep DEF MyInv, MyShows
  <1> QED
    BY <1>2, <1>3, <1>4, <1>5, <1>6

LEMMA MyServerFacts ==
    ASSUME MyTypes, NEW effect \in MyEffects, NEW kind \in MyKinds,
           ~myServer.open => myServer.work = {}
    PROVE  LET s == myServer  r == MyRan(s, kind, effect) IN
           /\ MyCommitted(s) \in MyServers /\ MyCommitted(s).work = {} /\ ~MyCommitted(s).open
           /\ MyCommitted(s).saved = s.saved \cup s.work /\ MyCommitted(s).undone = s.undone
           /\ MyCommitted(s).running = s.running
           /\ MyRolledBack(s) \in MyServers /\ MyRolledBack(s).work = {} /\ ~MyRolledBack(s).open
           /\ MyRolledBack(s).saved = s.saved /\ MyRolledBack(s).undone = s.undone \cup s.work
           /\ MyRolledBack(s).running = s.running
           /\ MyBegun(s) \in MyServers /\ MyBegun(s).work = {} /\ MyBegun(s).open
           /\ MyBegun(s).saved = s.saved \cup s.work /\ MyBegun(s).undone = s.undone
           /\ MyBegun(s).running = s.running
           /\ r \in MyServers /\ r.running = s.running /\ r.undone = s.undone
           /\ ~r.open => r.work = {}
           /\ kind \in {"begin", "commit"} => r.work = {} /\ r.saved = s.saved \cup s.work
           /\ kind = "write" /\ s.open => r.work = s.work \cup {effect} /\ r.saved = s.saved
           /\ kind = "write" /\ ~s.open => r.work = {} /\ r.saved = s.saved \cup {effect}
  <1> DEFINE s == myServer
  <1>1. s \in MyServers
    BY DEF MyTypes
  <1>2. /\ MyCommitted(s) \in MyServers /\ MyCommitted(s).work = {} /\ ~MyCommitted(s).open
        /\ MyCommitted(s).saved = s.saved \cup s.work /\ MyCommitted(s).undone = s.undone
        /\ MyCommitted(s).running = s.running
    BY <1>1 DEF MyCommitted, MyServers
  <1>3. /\ MyRolledBack(s) \in MyServers /\ MyRolledBack(s).work = {} /\ ~MyRolledBack(s).open
        /\ MyRolledBack(s).saved = s.saved /\ MyRolledBack(s).undone = s.undone \cup s.work
        /\ MyRolledBack(s).running = s.running
    BY <1>1 DEF MyRolledBack, MyServers
  <1>4. /\ MyBegun(s) \in MyServers /\ MyBegun(s).work = {} /\ MyBegun(s).open
        /\ MyBegun(s).saved = s.saved \cup s.work /\ MyBegun(s).undone = s.undone
        /\ MyBegun(s).running = s.running
    <2>1. PICK c : c = MyCommitted(s)
      OBVIOUS
    <2>2. MyBegun(s) = [c EXCEPT !.open = TRUE] /\ c \in MyServers /\ c.work = {}
          /\ c.saved = s.saved \cup s.work /\ c.undone = s.undone /\ c.running = s.running
      BY <1>2, <2>1 DEF MyBegun
    <2> QED
      BY <2>2 DEF MyServers
  <1> DEFINE r == MyRan(s, kind, effect)
  <1>5. CASE kind = "begin"
    <2>1. r = MyBegun(s)
      BY <1>5 DEF MyRan
    <2> QED
      BY <1>2, <1>3, <1>4, <1>5, <2>1
  <1>6. CASE kind = "commit"
    <2>1. r = MyCommitted(s)
      BY <1>6 DEF MyRan
    <2> QED
      BY <1>2, <1>3, <1>4, <1>6, <2>1
  <1>7. CASE kind = "write" /\ s.open
    <2>1. r = [s EXCEPT !.work = @ \cup {effect}]
      BY <1>7 DEF MyRan
    <2>2. /\ r \in MyServers /\ r.running = s.running /\ r.undone = s.undone /\ r.open
          /\ r.work = s.work \cup {effect} /\ r.saved = s.saved
      BY <1>1, <1>7, <2>1 DEF MyServers
    <2> HIDE DEF r
    <2>3. r = MyRan(s, kind, effect)
      BY DEF r
    <2> QED
      BY <1>2, <1>3, <1>4, <1>7, <2>2, <2>3
  <1>8. CASE kind = "write" /\ ~s.open
    <2>1. r = [s EXCEPT !.saved = @ \cup {effect}]
      BY <1>8 DEF MyRan
    <2>2. /\ r \in MyServers /\ r.running = s.running /\ r.undone = s.undone /\ r.work = {}
          /\ r.saved = s.saved \cup {effect}
      BY <1>1, <1>8, <2>1 DEF MyServers
    <2> HIDE DEF r
    <2>3. r = MyRan(s, kind, effect)
      BY DEF r
    <2> QED
      BY <1>2, <1>3, <1>4, <1>8, <2>2, <2>3
  <1> QED
    BY <1>5, <1>6, <1>7, <1>8 DEF MyKinds

LEMMA MyGoneFacts ==
    ASSUME MyTypes, ~myServer.open => myServer.work = {},
           myServer.running = "statement" => MyEffect \in MyEffects /\ MyKind \in MyKinds,
           NEW t \in MyHangUp(myServer)
    PROVE  /\ t \in MyServers /\ t.work = {} /\ ~t.open /\ t.running = "nothing"
           /\ \/ t.saved = myServer.saved /\ t.undone = myServer.undone \cup myServer.work
              \/ /\ myServer.running = "statement" /\ MyKind \in {"begin", "commit"}
                 /\ t.saved = myServer.saved \cup myServer.work /\ t.undone = myServer.undone
              \/ /\ myServer.running = "statement" /\ MyKind = "write" /\ ~myServer.open
                 /\ t.saved = myServer.saved \cup {MyEffect} /\ t.undone = myServer.undone
  <1>1. ASSUME NEW r \in MyServers, t = [MyRolledBack(r) EXCEPT !.running = "nothing"]
        PROVE  /\ t \in MyServers /\ t.work = {} /\ ~t.open /\ t.running = "nothing"
               /\ t.saved = r.saved /\ t.undone = r.undone \cup r.work
    <2>1. PICK b : b = MyRolledBack(r)
      OBVIOUS
    <2>2. /\ b \in MyServers /\ b.work = {} /\ ~b.open /\ b.saved = r.saved
          /\ b.undone = r.undone \cup r.work
      BY <2>1 DEF MyRolledBack, MyServers
    <2>3. t = [b EXCEPT !.running = "nothing"]
      BY <1>1, <2>1
    <2> QED
      BY <2>2, <2>3 DEF MyServers
  <1>2. myServer \in MyServers
    BY DEF MyTypes
  <1>3. CASE t = [MyRolledBack(myServer) EXCEPT !.running = "nothing"]
    BY <1>1, <1>2, <1>3
  <1>4. CASE /\ myServer.running = "statement" /\ ~(myServer.open /\ MyKind = "write")
             /\ t = [MyRolledBack(MyRan(myServer, MyKind, MyEffect)) EXCEPT !.running = "nothing"]
    <2>1. PICK r : r = MyRan(myServer, MyKind, MyEffect)
      OBVIOUS
    <2>2. MyEffect \in MyEffects /\ MyKind \in MyKinds
      BY <1>4
    <2>3. /\ r \in MyServers /\ r.undone = myServer.undone /\ r.work = {}
          /\ \/ MyKind \in {"begin", "commit"} /\ r.saved = myServer.saved \cup myServer.work
             \/ MyKind = "write" /\ ~myServer.open /\ r.saved = myServer.saved \cup {MyEffect}
      BY <1>4, <2>1, <2>2, MyServerFacts DEF MyKinds
    <2>4. /\ t \in MyServers /\ t.work = {} /\ ~t.open /\ t.running = "nothing"
          /\ t.saved = r.saved /\ t.undone = r.undone \cup r.work
      BY <1>1, <1>4, <2>1, <2>3
    <2> QED
      BY <1>4, <2>3, <2>4
  <1> QED
    BY <1>3, <1>4 DEF MyHangUp

LEMMA MyExecuteStep ==
    ASSUME MyInv, NEW script \in MyScripts, NEW manual \in BOOLEAN, MyExecute(script, manual)
    PROVE  MyInv' /\ MyPromised
  <1> DEFINE n == myCaller.executed + 1
  <1>1. /\ myCaller.op = "idle" /\ myLink.at = "session" /\ n <= MyExecutes /\ UNCHANGED myServer
        /\ myCaller' = [myCaller EXCEPT !.op = "execute", !.executed = n, !.cursor = FALSE,
                !.set = 0, !.told = "nothing", !.said = MyQuiet]
        /\ myWorker' = [MyIdle EXCEPT !.step = "admit", !.n = n, !.script = script, !.manual = manual]
        /\ myLink' = [myLink EXCEPT !.at = "worker"]
        /\ myResult' = [MyNoResult EXCEPT !.done = FALSE]
        /\ myCancelled' = {}
        /\ myLink \in MyLinks /\ myServer \in MyServers /\ myCaller \in MyCallers
    BY DEF MyExecute, MyInv, MyTypes
  <1>2. n \in 1..MyExecutes /\ n \in 0..MyExecutes /\ myCaller.executed \in Nat
    BY <1>1, MyAssumption DEF MyCallers
  <1>3. script \in Seq(MyKinds) /\ Len(script) \in 1..2
    BY MyAssumption DEF MyKinds
  <1>4. /\ myWorker' \in MyWorkers /\ myWorker'.step = "admit" /\ myWorker'.drain = "no"
        /\ myWorker'.n = n /\ myWorker'.script = script /\ myWorker'.at = 1 /\ myWorker'.end = "none"
    BY <1>1, <1>2, <1>3 DEF MyIdle, MyWorkers
  <1>5. /\ myCaller' \in MyCallers /\ myCaller'.op = "execute" /\ myCaller'.executed = n
        /\ ~myCaller'.cursor /\ myCaller'.set = 0 /\ myCaller'.told = "nothing"
        /\ myCaller'.said = MyQuiet
    BY <1>1, <1>2, MyQuietSaid DEF MyCallers
  <1>6. myLink' \in MyLinks /\ myLink'.at = "worker" /\ myLink'.known = myLink.known
    BY <1>1 DEF MyLinks
  <1>7. /\ myResult' \in MyResults /\ myResult'.sets = <<>> /\ ~myResult'.done
        /\ Len(myResult'.sets) = 0
        /\ myResult'.failure.kind = "none" /\ myResult'.failure.at = 0
    <2>1. myResult' = [sets |-> <<>>, done |-> FALSE, failure |-> MyNoFailure]
      BY <1>1 DEF MyNoResult
    <2>2. MyNoFailure \in MyFailures /\ MyNoFailure.kind = "none" /\ MyNoFailure.at = 0
      BY DEF MyNoFailure, MyFailures
    <2>3. <<>> \in Seq(MySetType) /\ Len(<<>>) = 0
      OBVIOUS
    <2> QED
      BY <2>1, <2>2, <2>3 DEF MyResults
  <1>8. MyTypes'
    BY <1>1, <1>4, <1>5, <1>6, <1>7 DEF MyTypes
  <1>9. MyBusy' /\ MyTouched' = MyTouched /\ MySane' /\ myServer.running = "nothing"
    <2>1. MySane /\ ~MyBusy
      BY <1>1 DEF MyInv, MyHolds
    <2>2. myServer.running = "nothing"
      BY <1>1, <2>1 DEF MyInv, MyHolds, MyBusy, MyTypes, MyServers
    <2> QED
      BY <1>1, <1>4, <1>6, <2>1, <2>2 DEF MyBusy, MyTouched, MySane, MyTruth
  <1>10. MyHolds'
    BY <1>1, <1>4, <1>5, <1>6, <1>7, <1>9 DEF MyInv, MyHolds
  <1>11. MyFollows'
    <2>1. myWorker'.n \in 1..myCaller'.executed
      BY <1>2, <1>4, <1>5
    <2>2. myWorker'.at \in 1..Len(myWorker'.script) /\ Len(myWorker'.script) \in 1..2
      <3>1. 1 \in 1..Len(script)
        BY <1>3
      <3> QED
        BY <1>3, <1>4, <3>1
    <2>3. Len(myResult'.sets) = myWorker'.at - 1
      BY <1>4, <1>7
    <2> QED
      BY <1>4, <1>7, <2>1, <2>2, <2>3 DEF MyFollows
  <1>12. \A i \in Nat : <<n, i>> \notin MyTouched
    BY <1>2 DEF MyInv, MyRemains
  <1>13. MyRemains'
    <2>1. \A e \in MyTouched : e[1] \in Nat
      BY DEF MyInv, MyTypes, MyServers, MyTouched, MyEffects, MyGrid
    <2>2. \A e \in MyTouched' : e[1] <= myCaller'.executed
      BY <1>2, <1>5, <1>9, <2>1 DEF MyInv, MyRemains
    <2>3. MyFresh(myWorker.at)'
      BY <1>4, <1>9, <1>12 DEF MyFresh
    <2> QED
      BY <1>1, <1>4, <1>5, <1>7, <1>9, <2>2, <2>3 DEF MyInv, MyRemains
  <1>14. MyShows'
    BY <1>3, <1>4, <1>5, <1>7 DEF MyShows
  <1>15. MyPromised
    BY <1>1, <1>5, MyQuietSaid, MySaysTruly DEF MyMoves
  <1> QED
    BY <1>8, <1>10, <1>11, <1>13, <1>14, <1>15 DEF MyInv

\* Between two scripts the session uses the connection itself.
LEMMA MySessionStep ==
    ASSUME MyInv, ~MyBusy, UNCHANGED <<myWorker, myResult, myCancelled>>,
           myServer' \in MyServers, myServer'.running = "nothing",
           ~myServer'.open => myServer'.work = {},
           MyTouched \subseteq MyTouched', MyTouched' \subseteq MyTouched \cup {MyGrid},
           MyGrid \notin myServer'.work \cup myServer'.undone,
           myLink' \in MyLinks, myLink'.at # "worker",
           myLink'.at = "session" => MySane' /\ myCaller'.op # "gone",
           myCaller' \in MyCallers, myCaller'.executed = myCaller.executed,
           myCaller'.op \in {"idle", "gone"}, myCaller'.told \in {myCaller.told, "nothing"},
           myCaller'.cursor => myCaller.cursor /\ myCaller'.set = myCaller.set
    PROVE  MyInv'
  <1>1. MyTypes'
    BY DEF MyInv, MyTypes
  <1>2. ~MyBusy' /\ myWorker.step = "none"
    BY DEF MyBusy
  <1>3. MyHolds'
    BY <1>2 DEF MyInv, MyHolds
  <1>4. MyFollows'
    BY <1>2 DEF MyFollows
  <1>5. MyRemains'
    <2>1. \A e \in MyTouched' : e[1] <= myCaller'.executed
      <3>1. \A e \in MyTouched' : e \in MyTouched \/ e[1] = 0
        BY DEF MyGrid
      <3>2. myCaller.executed \in Nat
        BY DEF MyInv, MyTypes, MyCallers
      <3> QED
        BY <3>1, <3>2 DEF MyInv, MyRemains
    <2>2. myResult.failure.kind = "error" => <<myWorker.n, myResult.failure.at + 1>> \notin MyTouched'
      BY DEF MyInv, MyRemains, MyGrid
    <2> QED
      BY <1>2, <2>1, <2>2 DEF MyInv, MyRemains
  <1>6. MyShows'
    BY DEF MyInv, MyShows
  <1> QED
    BY <1>1, <1>3, <1>4, <1>5, <1>6 DEF MyInv

LEMMA MyLeaveStep ==
    ASSUME MyInv, MyLeave
    PROVE  MyInv' /\ MyPromised
  <1>1. /\ myCaller.op # "gone" /\ UNCHANGED <<myWorker, myResult>>
        /\ myCaller' = [myCaller EXCEPT !.op = "gone", !.cursor = FALSE, !.set = 0,
                !.told = "nothing", !.said = MyQuiet]
        /\ myLink \in MyLinks /\ myServer \in MyServers /\ myCaller \in MyCallers
        /\ myCancelled \subseteq MyHandles /\ MyTypes /\ myWorker \in MyWorkers
        /\ ~myServer.open => myServer.work = {}
    BY DEF MyLeave, MyInv, MyTypes, MyHolds
  <1>2. /\ myCaller' \in MyCallers /\ myCaller'.op = "gone" /\ myCaller'.executed = myCaller.executed
        /\ ~myCaller'.cursor /\ myCaller'.set = 0 /\ myCaller'.told = "nothing"
        /\ myCaller'.said = MyQuiet
    BY <1>1, MyQuietSaid DEF MyCallers
  <1>3. CASE myLink.at = "session"
    <2>1. ~MyBusy /\ myServer.running = "nothing" /\ UNCHANGED myCancelled
      BY <1>1, <1>3 DEF MyLeave, MyInv, MyHolds, MyBusy, MyServers
    <2>2. myServer' \in MyHangUp(myServer) /\ myLink' = [myLink EXCEPT !.at = "closed"]
      BY <1>3 DEF MyLeave
    <2>3. /\ myServer' \in MyServers /\ myServer'.work = {} /\ ~myServer'.open
          /\ myServer'.running = "nothing" /\ myServer'.saved = myServer.saved
          /\ myServer'.undone = myServer.undone \cup myServer.work
      BY <1>1, <2>1, <2>2, MyGoneFacts
    <2>4. myLink' \in MyLinks /\ myLink'.at = "closed"
      BY <1>1, <2>2 DEF MyLinks
    <2>5. MyTouched' = MyTouched /\ MyGrid \notin myServer'.work \cup myServer'.undone
      BY <2>3 DEF MyTouched, MyInv, MyRemains
    <2>6. MyInv'
      BY <1>1, <1>2, <2>1, <2>3, <2>4, <2>5, MySessionStep
    <2>7. MyMoves
      BY <2>3 DEF MyMoves, MyPromise!TakeBack
    <2> QED
      BY <1>2, <2>6, <2>7, MyQuietSaid, MySaysTruly
  <1>4. CASE myLink.at # "session"
    <2>1. UNCHANGED <<myLink, myServer>>
      BY <1>4 DEF MyLeave
    <2>2. myLink.at = "worker" => myWorker.n \in MyHandles
      BY <1>1 DEF MyInv, MyHolds, MyFollows, MyCallers, MyHandles, MyWorkers
    <2>3. myCancelled' \subseteq MyHandles
      BY <1>1, <2>2 DEF MyLeave
    <2> QED
      BY <1>1, <1>2, <1>4, <2>1, <2>3, MyQuietSaid, MyCallerStep
  <1> QED
    BY <1>3, <1>4

LEMMA MyAskedStep ==
    ASSUME MyInv, MyAsked
    PROVE  MyInv' /\ MyPromised
  <1>1. /\ myCaller.op \in {"commit", "rollback"} /\ UNCHANGED <<myWorker, myResult, myCancelled>>
        /\ myCaller' = [myCaller EXCEPT !.op = "idle"]
        /\ myLink \in MyLinks /\ myServer \in MyServers /\ myCaller \in MyCallers /\ MyTypes
        /\ myLink.at = "session" /\ ~MyBusy /\ myServer.running = "nothing"
        /\ ~myServer.open => myServer.work = {}
    BY DEF MyAsked, MyInv, MyTypes, MyHolds, MyBusy, MyServers
  <1>2. /\ myCaller' \in MyCallers /\ myCaller'.op = "idle" /\ myCaller'.executed = myCaller.executed
        /\ myCaller'.cursor = myCaller.cursor /\ myCaller'.set = myCaller.set
        /\ myCaller'.told = myCaller.told /\ myCaller'.said = myCaller.said
    BY <1>1 DEF MyCallers
  <1>3. PICK committed, rolledback : committed = MyCommitted(myServer) /\ rolledback = MyRolledBack(myServer)
    OBVIOUS
  <1>4. /\ committed \in MyServers /\ committed.work = {} /\ ~committed.open
        /\ committed.saved = myServer.saved \cup myServer.work /\ committed.undone = myServer.undone
        /\ committed.running = myServer.running
        /\ rolledback \in MyServers /\ rolledback.work = {} /\ ~rolledback.open
        /\ rolledback.saved = myServer.saved /\ rolledback.undone = myServer.undone \cup myServer.work
        /\ rolledback.running = myServer.running
    <2>1. "write" \in MyKinds /\ MyGrid \in MyEffects
      BY DEF MyKinds, MyEffects
    <2> QED
      BY <1>1, <1>3, <2>1, MyServerFacts
  <1>5. /\ myServer' \in MyServers /\ myServer'.work = {} /\ ~myServer'.open /\ myServer'.running = "nothing"
        /\ \/ /\ myCaller.op = "commit" /\ myServer'.saved = myServer.saved \cup myServer.work
              /\ myServer'.undone = myServer.undone
           \/ myServer'.saved = myServer.saved /\ myServer'.undone = myServer.undone \cup myServer.work
    <2>1. (myServer' = committed /\ myCaller.op = "commit") \/ myServer' = rolledback
      BY <1>1, <1>3 DEF MyAsked
    <2> QED
      BY <1>1, <1>4, <2>1
  <1>6. myLink' \in MyLinks /\ myLink'.at = "session" /\ myLink'.known \in {"closed", "unknown"}
    BY <1>1, <1>5 DEF MyAsked, MyKnow, MyForget, MyTruth, MyLinks
  <1>7. MySane'
    BY <1>5, <1>6 DEF MySane, MyTruth
  <1>8. MyTouched' = MyTouched /\ MyGrid \notin myServer'.work \cup myServer'.undone
    BY <1>5 DEF MyTouched, MyInv, MyRemains
  <1>9. MyInv'
    BY <1>1, <1>2, <1>5, <1>6, <1>7, <1>8, MySessionStep
  <1>10. MyMoves
    BY <1>5 DEF MyMoves, MyWant, MyPromise!TakeBack, MyPromise!SaveAll
  <1> QED
    BY <1>2, <1>9, <1>10, MySaysTruly

LEMMA MyEditedStep ==
    ASSUME MyInv, MyEdited
    PROVE  MyInv' /\ MyPromised
  <1>1. /\ myCaller.op = "edit" /\ UNCHANGED <<myWorker, myResult, myCancelled>> /\ MyKnow(myServer)
        /\ myLink \in MyLinks /\ myServer \in MyServers /\ myCaller \in MyCallers /\ MyTypes
        /\ myLink.at = "session" /\ ~MyBusy /\ myServer.running = "nothing"
        /\ MyGrid \notin myServer.saved \cup myServer.work \cup myServer.undone /\ MyGrid \in MyEffects
        /\ ~myServer.open => myServer.work = {}
    BY DEF MyEdited, MyInv, MyTypes, MyHolds, MyBusy, MyServers, MyRemains, MyEffects
  <1>2. PICK done \in BOOLEAN :
            /\ done => ~myServer.open
            /\ myServer' = [myServer EXCEPT !.saved = @ \cup IF done THEN {MyGrid} ELSE {}]
            /\ myCaller' = [myCaller EXCEPT !.op = "idle",
                    !.said = [of |-> {MyGrid}, done |-> done, own |-> done]]
    BY DEF MyEdited
  <1>3. PICK s : s = [of |-> {MyGrid}, done |-> done, own |-> done]
    OBVIOUS
  <1>4. s \in MySayings /\ s.of = {MyGrid} /\ s.done = done /\ s.own = done
    BY <1>1, <1>3 DEF MySayings
  <1>5. myCaller' = [myCaller EXCEPT !.op = "idle", !.said = s]
    BY <1>2, <1>3
  <1>6. /\ myCaller' \in MyCallers /\ myCaller'.op = "idle" /\ myCaller'.executed = myCaller.executed
        /\ myCaller'.cursor = myCaller.cursor /\ myCaller'.set = myCaller.set
        /\ myCaller'.told = myCaller.told /\ myCaller'.said = s
    BY <1>1, <1>4, <1>5 DEF MyCallers
  <1>7. PICK more : more = IF done THEN {MyGrid} ELSE {}
    OBVIOUS
  <1>8. /\ myServer' \in MyServers /\ myServer'.work = myServer.work /\ myServer'.open = myServer.open
        /\ myServer'.undone = myServer.undone /\ myServer'.saved = myServer.saved \cup more
        /\ myServer'.running = "nothing"
    <2>1. myServer' = [myServer EXCEPT !.saved = @ \cup more]
      BY <1>2, <1>7
    <2>2. more \subseteq MyEffects
      BY <1>1, <1>7
    <2> QED
      BY <1>1, <2>1, <2>2 DEF MyServers
  <1>9. myLink' \in MyLinks /\ myLink'.at = "session" /\ MySane'
    BY <1>1, <1>8 DEF MyKnow, MyTruth, MyLinks, MySane
  <1>10. MyTouched' = MyTouched \cup more
    BY <1>8 DEF MyTouched
  <1>11. MyInv'
    <2>1. MyGrid \notin myServer'.work \cup myServer'.undone /\ (~myServer'.open => myServer'.work = {})
      BY <1>1, <1>8
    <2> QED
      BY <1>1, <1>6, <1>7, <1>8, <1>9, <1>10, <2>1, MySessionStep
  <1>12. MyMoves /\ MySo(s)
    <2>1. CASE done
      <3>1. myServer.work = {} /\ more = {MyGrid}
        BY <1>1, <1>2, <1>7, <2>1
      <3> QED
        BY <1>1, <1>4, <1>8, <2>1, <3>1 DEF MyMoves, MySo, MyWant, MyPromise!SaveOne, MyPromise!New
    <2>2. CASE ~done
      BY <1>1, <1>4, <1>7, <1>8, <2>2 DEF MyMoves, MySo
    <2> QED
      BY <2>1, <2>2
  <1> QED
    BY <1>4, <1>6, <1>11, <1>12, MySaysTruly

LEMMA MyCatalogStep ==
    ASSUME MyInv, MyCatalog, ~MyCatalogErrors
    PROVE  MyInv' /\ MyPromised
  <1>1. /\ UNCHANGED <<myServer, myWorker, myCancelled, myResult, myCaller>>
        /\ myCaller.op = "idle" /\ myLink.at = "session" /\ myLink \in MyLinks
        /\ myServer \in MyServers /\ myCaller \in MyCallers
        /\ ~MyBusy /\ myServer.running = "nothing"
        /\ MyGrid \notin myServer.work \cup myServer.undone
        /\ ~myServer.open => myServer.work = {}
    BY DEF MyCatalog, MyInv, MyTypes, MyHolds, MyBusy, MyServers, MyRemains
  <1>2. myLink' \in MyLinks /\ myLink'.at = "session" /\ MySane'
    BY <1>1 DEF MyCatalog, MyKnow, MyForget, MyTruth, MyLinks, MySane
  <1>3. MyTouched' = MyTouched
    BY <1>1 DEF MyTouched
  <1>4. MyInv'
    BY <1>1, <1>2, <1>3, MySessionStep
  <1> QED
    BY <1>1, <1>4, MySaysTruly DEF MyMoves

-----------------------------------------------------------------------------
(***************************************************************************)
(* Steps of the worker of a script.                                        *)
(***************************************************************************)
\* What is known while a script runs.
LEMMA MyRunning ==
    ASSUME MyInv, MyBusy
    PROVE  /\ myWorker.n \in MyHandles /\ myWorker.at \in 1..2 /\ MyEffect \in MyEffects /\ MyKind \in MyKinds
           /\ myWorker.at \in 1..Len(myWorker.script) /\ myWorker.n # 0
           /\ Len(myResult.sets) \in Nat /\ myResult.sets \in Seq(MySetType)
           /\ myLink.at = "worker" /\ ~myResult.done
           /\ myCaller.op \notin {"commit", "rollback", "edit"}
  <1>1. /\ myWorker.n \in 1..myCaller.executed /\ myWorker.at \in 1..Len(myWorker.script)
        /\ Len(myWorker.script) \in 1..2
    BY DEF MyInv, MyFollows
  <1>2. myCaller.executed \in 0..MyExecutes /\ myWorker.script \in Seq(MyKinds) /\ myWorker.n \in 0..MyExecutes
    BY DEF MyInv, MyTypes, MyCallers, MyWorkers
  <1>3. myWorker.n \in 1..MyExecutes /\ myWorker.at \in 1..2
    <2>1. \A n, e : n \in 1..e /\ e \in 0..MyExecutes => n \in 1..MyExecutes
      BY MyAssumption
    <2>2. \A at, len : at \in 1..len /\ len \in 1..2 => at \in 1..2
      OBVIOUS
    <2> QED
      BY <1>1, <1>2, <2>1, <2>2
  <1>4. MyEffect \in MyEffects /\ MyKind \in MyKinds
    BY <1>1, <1>2, <1>3 DEF MyEffect, MyEffects, MyKind
  <1>5. myResult.sets \in Seq(MySetType) /\ Len(myResult.sets) \in Nat
    BY DEF MyInv, MyTypes, MyResults
  <1> QED
    BY <1>1, <1>3, <1>4, <1>5 DEF MyHandles, MyInv, MyHolds

\* The statement that fails has left nothing.
LEMMA MyFailedFresh ==
    ASSUME MyInv, MyBusy,
           \/ myWorker.step \in {"prepare", "begin", "probe"}
           \/ myWorker.step \in {"run", "rows"} /\ myServer.running = "error"
    PROVE  <<myWorker.n, MyFailedAt(myResult.sets)>> \notin MyTouched
  <1> DEFINE sets == myResult.sets
             at == myWorker.at
  <1>1. at \in 1..2 /\ sets \in Seq(MySetType) /\ Len(sets) \in Nat
    BY MyRunning
  <1>2. ASSUME myWorker.step \in {"prepare", "begin", "run"}
        PROVE  MyFailedAt(sets) = at
    <2>1. Len(sets) = at - 1 /\ (sets # <<>> => sets[Len(sets)].final)
      BY <1>2 DEF MyInv, MyFollows
    <2>2. sets # <<>> => Len(sets) \in 1..Len(sets)
      BY <1>1
    <2>3. sets # <<>> => sets[Len(sets)].done
      BY <2>1, <2>2 DEF MyInv, MyShows
    <2> QED
      BY <1>1, <2>1, <2>3 DEF MyFailedAt
  <1>3. ASSUME myWorker.step \in {"rows", "probe"}
        PROVE  MyFailedAt(sets) = IF myWorker.step = "rows" THEN at ELSE at + 1
    <2>1. Len(sets) = at /\ sets[at].done = (myWorker.step = "probe")
      BY <1>3 DEF MyInv, MyFollows
    <2>2. sets # <<>>
      BY <1>1, <2>1
    <2>3. MyFailedAt(sets) = at + IF sets[at].done THEN 1 ELSE 0
      BY <2>1, <2>2 DEF MyFailedAt
    <2>4. CASE myWorker.step = "rows"
      <3>1. ~sets[at].done
        BY <2>1, <2>4
      <3>2. MyFailedAt(sets) = at + 0
        BY <2>3, <3>1
      <3> QED
        BY <1>1, <2>4, <3>2
    <2>5. CASE myWorker.step = "probe"
      <3>1. sets[at].done
        BY <2>1, <2>5
      <3> QED
        BY <2>3, <2>5, <3>1
    <2> QED
      BY <1>3, <2>4, <2>5
  <1>4. CASE myWorker.step \in {"prepare", "begin"}
    <2>1. MyFresh(at)
      BY <1>4 DEF MyInv, MyRemains
    <2> QED
      BY <1>1, <1>2, <1>4, <2>1 DEF MyFresh
  <1>5. CASE myWorker.step \in {"run", "rows"} /\ myServer.running = "error"
    <2>1. MyFresh(at)
      BY <1>5 DEF MyInv, MyRemains
    <2>2. MyFailedAt(sets) = at
      BY <1>2, <1>3, <1>5
    <2> QED
      BY <1>1, <2>1, <2>2 DEF MyFresh
  <1>6. CASE myWorker.step = "probe"
    <2>1. MyFresh(at + 1)
      BY <1>6 DEF MyInv, MyRemains
    <2>2. \A m : <<m, 3>> \notin MyTouched
      BY DEF MyInv, MyTypes, MyServers, MyTouched, MyEffects, MyGrid
    <2>3. at + 1 \in {2, 3} /\ MyFailedAt(sets) = at + 1
      BY <1>1, <1>3, <1>6
    <2> QED
      BY <2>1, <2>2, <2>3 DEF MyFresh
  <1> QED
    BY <1>4, <1>5, <1>6

MySteps == {"admit", "prepare", "begin", "check"}

\* Nothing changes on the server but whether a statement runs, and nothing a reader sees.
LEMMA MyWorkerStep ==
    ASSUME MyInv, MyBusy, UNCHANGED <<myResult, myCaller>>, myCancelled' \subseteq MyHandles,
           myServer' \in MyServers,
           UNCHANGED <<myServer.work, myServer.saved, myServer.undone>>,
           ~myServer'.open => ~myServer.open,
           myWorker' \in MyWorkers, UNCHANGED <<myWorker.n, myWorker.script, myWorker.at>>,
           myWorker'.step # "none", myLink' \in MyLinks, myLink'.at = myLink.at,
           myServer'.running # "nothing" =>
                \/ myWorker'.step \in {"run", "rows"}
                \/ myWorker'.step = "finish" /\ myWorker'.end = "lost",
           myWorker'.step \in {"run", "rows"} => myServer'.running # "nothing",
           myWorker'.step \in {"admit", "prepare"} \/ (myWorker'.step = "finish" /\ myWorker'.end # "lost")
                => MySane',
           myWorker'.step = "begin" => myWorker'.started = myServer'.open,
           myWorker'.step \in MySteps => myWorker.step \in MySteps,
           myWorker'.step = "run" => myWorker.step \in MySteps \cup {"run"},
           myWorker'.step \in {"rows", "probe"} => myWorker'.step = myWorker.step,
           myWorker'.step \notin {"ping", "finish"} => myWorker'.end = "none",
           myWorker'.step = "ping" => myWorker'.end \in {"error", "cancelled"},
           myWorker'.step = "finish" => myWorker'.end # "none",
           myWorker'.step = "finish" /\ myWorker'.end = "ok" => myWorker.step = "finish" /\ myWorker.end = "ok",
           myServer'.running \in {"statement", "error"} =>
                myServer'.running = myServer.running \/ myWorker.step = "check",
           myServer'.running = "ok" => myServer.running = "ok",
           myWorker'.step \in {"ping", "finish"} /\ myWorker'.end = "error" =>
                <<myWorker.n, MyFailedAt(myResult.sets)>> \notin MyTouched
    PROVE  MyInv' /\ MyPromised
  <1>1. MyTypes'
    BY DEF MyInv, MyTypes
  <1>2. MyTouched' = MyTouched /\ MyBusy'
    BY DEF MyTouched, MyBusy
  <1>3. MyHolds'
    <2>1. myLink'.at = "worker" /\ ~myResult'.done /\ myCaller'.op \notin {"commit", "rollback", "edit"}
      BY MyRunning
    <2>2. ~myServer'.open => myServer'.work = {}
      BY DEF MyInv, MyHolds
    <2> QED
      BY <1>2, <2>1, <2>2 DEF MyHolds
  <1>4. MyFollows'
    <2>1. myResult'.failure.kind \in {"none", "interrupted"}
      BY DEF MyInv, MyFollows
    <2>2. /\ myWorker'.n \in 1..myCaller'.executed /\ myWorker'.at \in 1..Len(myWorker'.script)
          /\ Len(myWorker'.script) \in 1..2
      BY DEF MyInv, MyFollows
    <2>3. myWorker'.step \in {"admit", "prepare", "begin", "check", "run"} =>
            Len(myResult'.sets) = myWorker'.at - 1
            /\ (myResult'.sets # <<>> => (myResult.sets)'[Len(myResult'.sets)].final)
      BY DEF MyInv, MyFollows, MySteps
    <2>4. myWorker'.step \in {"rows", "probe"} =>
            Len(myResult'.sets) = myWorker'.at
            /\ (myResult.sets)'[myWorker'.at].done = (myWorker'.step = "probe")
      BY DEF MyInv, MyFollows
    <2>5. myWorker'.step = "finish" /\ myWorker'.end = "ok" =>
            Len(myResult'.sets) = Len(myWorker'.script) /\ (myResult.sets)'[Len(myResult'.sets)].final
      BY DEF MyInv, MyFollows
    <2> QED
      BY <2>1, <2>2, <2>3, <2>4, <2>5 DEF MyFollows
  <1>5. MyRemains'
    <2>1. \A k : MyFresh(k)' = MyFresh(k)
      BY <1>2 DEF MyFresh
    <2>2. myWorker'.step \in {"admit", "prepare", "begin", "check"} => MyFresh(myWorker.at)
      BY DEF MyInv, MyRemains, MySteps
    <2>3. myServer'.running \in {"statement", "error"} => MyFresh(myWorker.at)
      BY DEF MyInv, MyRemains
    <2>4. myServer'.running = "ok" =>
            /\ MyFresh(myWorker.at + 1)
            /\ MyKind' = "write" => MyEffect' \in MyTouched
      BY DEF MyInv, MyRemains, MyKind, MyEffect
    <2>5. myWorker'.step = "probe" => MyFresh(myWorker.at + 1)
      BY DEF MyInv, MyRemains
    <2>6. /\ \A e \in MyTouched' : e[1] <= myCaller'.executed
          /\ MyGrid \notin myServer'.work \cup myServer'.undone
          /\ myCaller'.op = "edit" => MyGrid \notin myServer'.saved
          /\ myResult'.failure.kind # "error"
      BY <1>2 DEF MyInv, MyRemains
    <2> QED
      BY <1>2, <2>1, <2>2, <2>3, <2>4, <2>5, <2>6 DEF MyRemains
  <1>6. MyShows'
    BY <1>2 DEF MyInv, MyShows
  <1>7. MyPromised
    BY MySaysTruly DEF MyMoves
  <1> QED
    BY <1>1, <1>3, <1>4, <1>5, <1>6, <1>7 DEF MyInv

LEMMA MyAdmitStep ==
    ASSUME MyInv, MyAdmit
    PROVE  MyInv' /\ MyPromised
  <1>1. /\ myWorker.step = "admit" /\ MyBusy /\ UNCHANGED <<myLink, myServer, myCancelled, myResult, myCaller>>
        /\ myServer \in MyServers /\ myWorker \in MyWorkers /\ myLink \in MyLinks /\ myCancelled \subseteq MyHandles
        /\ MySane /\ myWorker.end = "none" /\ myServer.running = "nothing"
    BY DEF MyAdmit, MyBusy, MyInv, MyTypes, MyHolds, MyFollows, MyServers
  <1>2. /\ myWorker' \in MyWorkers /\ UNCHANGED <<myWorker.n, myWorker.script, myWorker.at>>
        /\ \/ myWorker'.step = "finish" /\ myWorker'.end = "cancelled"
           \/ myWorker'.step = "prepare" /\ myWorker'.end = "none"
    BY <1>1 DEF MyAdmit, MyEnd, MyStep, MyWorkers
  <1>3. MySane'
    BY <1>1 DEF MySane, MyTruth
  <1> QED
    BY <1>1, <1>2, <1>3, MyWorkerStep DEF MySteps

LEMMA MyPrepareStep ==
    ASSUME MyInv, MyPrepare
    PROVE  MyInv' /\ MyPromised
  <1>1. /\ myWorker.step = "prepare" /\ MyBusy /\ UNCHANGED <<myServer, myCancelled, myResult, myCaller>>
        /\ myServer \in MyServers /\ myWorker \in MyWorkers /\ myLink \in MyLinks /\ myCancelled \subseteq MyHandles
        /\ MySane /\ myWorker.end = "none" /\ myServer.running = "nothing"
    BY DEF MyPrepare, MyBusy, MyInv, MyTypes, MyHolds, MyFollows, MyServers
  <1>2. CASE MyForget /\ MyEnd("ping", "error")
    <2>1. /\ myWorker' \in MyWorkers /\ UNCHANGED <<myWorker.n, myWorker.script, myWorker.at>>
          /\ myWorker'.step = "ping" /\ myWorker'.end = "error"
      BY <1>1, <1>2 DEF MyEnd, MyWorkers
    <2>2. myLink' \in MyLinks /\ myLink'.at = myLink.at
      BY <1>1, <1>2 DEF MyForget, MyLinks
    <2> QED
      BY <1>1, <2>1, <2>2, MyFailedFresh, MyWorkerStep DEF MySteps
  <1>3. CASE /\ \E known \in {"open", "closed"} : myLink' = [myLink EXCEPT !.known = known]
             /\ myWorker' = [myWorker EXCEPT !.step = "begin",
                    !.started = IF Len(myWorker.script) = 1 THEN MyBelievesOpen ELSE myServer.open]
    <2>1. PICK started : started = IF Len(myWorker.script) = 1 THEN MyBelievesOpen ELSE myServer.open
      OBVIOUS
    <2>2. started = myServer.open
      BY <1>1, <2>1 DEF MyBelievesOpen, MySane, MyTruth, MyServers
    <2>3. started \in BOOLEAN
      BY <1>1, <2>2 DEF MyServers
    <2>4. myWorker' = [myWorker EXCEPT !.step = "begin", !.started = started]
      BY <1>3, <2>1
    <2>5. /\ myWorker' \in MyWorkers /\ UNCHANGED <<myWorker.n, myWorker.script, myWorker.at>>
          /\ myWorker'.step = "begin" /\ myWorker'.end = "none" /\ myWorker'.started = started
      BY <1>1, <2>3, <2>4 DEF MyWorkers
    <2>6. myLink' \in MyLinks /\ myLink'.at = myLink.at
      BY <1>1, <1>3 DEF MyLinks
    <2> QED
      BY <1>1, <2>2, <2>5, <2>6, MyWorkerStep DEF MySteps
  <1> QED
    BY <1>2, <1>3 DEF MyPrepare

LEMMA MyBeginStep ==
    ASSUME MyInv, MyBegin
    PROVE  MyInv' /\ MyPromised
  <1>1. /\ myWorker.step = "begin" /\ MyBusy /\ UNCHANGED <<myCancelled, myResult, myCaller>> /\ MyTypes
        /\ myServer \in MyServers /\ myWorker \in MyWorkers /\ myLink \in MyLinks /\ myCancelled \subseteq MyHandles
        /\ myWorker.started = myServer.open /\ myWorker.end = "none" /\ myServer.running = "nothing"
        /\ ~myServer.open => myServer.work = {}
    BY DEF MyBegin, MyBusy, MyInv, MyTypes, MyHolds, MyFollows, MyServers
  <1>2. CASE ~myWorker.started /\ MyForget /\ MyEnd("ping", "error") /\ UNCHANGED myServer
    <2>1. /\ myWorker' \in MyWorkers /\ UNCHANGED <<myWorker.n, myWorker.script, myWorker.at>>
          /\ myWorker'.step = "ping" /\ myWorker'.end = "error"
      BY <1>1, <1>2 DEF MyEnd, MyWorkers
    <2>2. myLink' \in MyLinks /\ myLink'.at = myLink.at
      BY <1>1, <1>2 DEF MyForget, MyLinks
    <2> QED
      BY <1>1, <1>2, <2>1, <2>2, MyFailedFresh, MyWorkerStep DEF MySteps
  <1>3. CASE MyStep("check") /\ myLink' \in MyLinks /\ myLink'.at = myLink.at /\ myServer' \in MyServers
             /\ UNCHANGED <<myServer.work, myServer.saved, myServer.undone, myServer.running>>
             /\ (~myServer'.open => ~myServer.open)
    <2>1. /\ myWorker' \in MyWorkers /\ UNCHANGED <<myWorker.n, myWorker.script, myWorker.at>>
          /\ myWorker'.step = "check" /\ myWorker'.end = "none"
      BY <1>1, <1>3 DEF MyStep, MyWorkers
    <2> QED
      BY <1>1, <1>3, <2>1, MyWorkerStep DEF MySteps
  <1>4. CASE ~myWorker.started /\ myServer' = MyBegun(myServer) /\ MyKnow(myServer') /\ MyStep("check")
    <2>1. "write" \in MyKinds /\ MyGrid \in MyEffects
      BY DEF MyKinds, MyEffects
    <2>2. /\ myServer' \in MyServers /\ myServer'.work = {} /\ myServer'.open
          /\ myServer'.saved = myServer.saved \cup myServer.work /\ myServer'.undone = myServer.undone
          /\ myServer'.running = myServer.running
      BY <1>1, <1>4, <2>1, MyServerFacts
    <2>3. myLink' \in MyLinks /\ myLink'.at = myLink.at
      BY <1>1, <1>4 DEF MyKnow, MyTruth, MyLinks
    <2> QED
      BY <1>1, <1>3, <1>4, <2>2, <2>3
  <1> QED
    BY <1>1, <1>2, <1>3, <1>4 DEF MyBegin

LEMMA MyCheckStep ==
    ASSUME MyInv, MyCheck
    PROVE  MyInv' /\ MyPromised
  <1>1. /\ myWorker.step = "check" /\ MyBusy /\ UNCHANGED <<myLink, myCancelled, myResult, myCaller>>
        /\ myServer \in MyServers /\ myWorker \in MyWorkers /\ myLink \in MyLinks /\ myCancelled \subseteq MyHandles
        /\ myWorker.end = "none" /\ myServer.running = "nothing"
    BY DEF MyCheck, MyBusy, MyInv, MyTypes, MyHolds, MyFollows, MyServers
  <1>2. CASE MyEnd("ping", "cancelled") /\ UNCHANGED myServer
    <2>1. /\ myWorker' \in MyWorkers /\ UNCHANGED <<myWorker.n, myWorker.script, myWorker.at>>
          /\ myWorker'.step = "ping" /\ myWorker'.end = "cancelled"
      BY <1>1, <1>2 DEF MyEnd, MyWorkers
    <2> QED
      BY <1>1, <1>2, <2>1, MyWorkerStep DEF MySteps
  <1>3. CASE MyStep("run") /\ myServer' = [myServer EXCEPT !.running = "statement"]
    <2>1. /\ myWorker' \in MyWorkers /\ UNCHANGED <<myWorker.n, myWorker.script, myWorker.at>>
          /\ myWorker'.step = "run" /\ myWorker'.end = "none"
      BY <1>1, <1>3 DEF MyStep, MyWorkers
    <2>2. /\ myServer' \in MyServers /\ myServer'.running = "statement"
          /\ UNCHANGED <<myServer.work, myServer.saved, myServer.undone, myServer.open>>
      BY <1>1, <1>3 DEF MyServers
    <2> QED
      BY <1>1, <2>1, <2>2, MyWorkerStep DEF MySteps
  <1> QED
    BY <1>2, <1>3 DEF MyCheck

LEMMA MyFailStep ==
    ASSUME MyInv, MyStatementFails \/ MySpoolFails
    PROVE  MyInv' /\ MyPromised
  <1>1. /\ myWorker.step \in {"run", "rows"} /\ MyBusy /\ UNCHANGED <<myCancelled, myResult, myCaller>>
        /\ myServer \in MyServers /\ myWorker \in MyWorkers /\ myLink \in MyLinks /\ myCancelled \subseteq MyHandles
    BY DEF MyStatementFails, MySpoolFails, MyBusy, MyInv, MyTypes
  <1>2. CASE MyStatementFails
    <2>1. /\ myWorker' \in MyWorkers /\ UNCHANGED <<myWorker.n, myWorker.script, myWorker.at>>
          /\ myWorker'.step = "ping" /\ myWorker'.end = "error"
      BY <1>1, <1>2 DEF MyStatementFails, MyEnd, MyWorkers
    <2>2. /\ myServer' \in MyServers /\ myServer'.running = "nothing" /\ myServer.running = "error"
          /\ UNCHANGED <<myServer.work, myServer.saved, myServer.undone, myServer.open>>
      BY <1>1, <1>2 DEF MyStatementFails, MyServers
    <2>3. myLink' \in MyLinks /\ myLink'.at = myLink.at
      BY <1>1, <1>2 DEF MyStatementFails, MyForget, MyLinks
    <2> QED
      BY <1>1, <2>1, <2>2, <2>3, MyFailedFresh, MyWorkerStep DEF MySteps
  <1>3. CASE MySpoolFails
    <2>1. /\ myWorker' \in MyWorkers /\ UNCHANGED <<myWorker.n, myWorker.script, myWorker.at>>
          /\ myWorker'.step = "finish" /\ myWorker'.end = "lost"
      BY <1>1, <1>3 DEF MySpoolFails, MyEnd, MyWorkers
    <2>2. UNCHANGED <<myLink, myServer>>
      BY <1>3 DEF MySpoolFails
    <2> QED
      BY <1>1, <2>1, <2>2, MyWorkerStep DEF MySteps
  <1> QED
    BY <1>2, <1>3

LEMMA MyPingStep ==
    ASSUME MyInv, MyPing
    PROVE  MyInv' /\ MyPromised
  <1>1. /\ myWorker.step = "ping" /\ MyBusy /\ UNCHANGED <<myServer, myCancelled, myResult, myCaller>>
        /\ myServer \in MyServers /\ myWorker \in MyWorkers /\ myLink \in MyLinks /\ myCancelled \subseteq MyHandles
        /\ myWorker.end \in {"error", "cancelled"} /\ myServer.running = "nothing"
    BY DEF MyPing, MyBusy, MyInv, MyTypes, MyHolds, MyFollows, MyServers
  <1>2. myWorker.end = "error" => <<myWorker.n, MyFailedAt(myResult.sets)>> \notin MyTouched
    BY <1>1 DEF MyInv, MyRemains
  <1>3. /\ myWorker' \in MyWorkers /\ UNCHANGED <<myWorker.n, myWorker.script, myWorker.at>>
        /\ myWorker'.step = "finish"
        /\ \/ myWorker'.end = myWorker.end /\ MyKnow(myServer)
           \/ myWorker'.end = "lost" /\ UNCHANGED myLink
    BY <1>1 DEF MyPing, MyStep, MyEnd, MyWorkers
  <1>4. myLink' \in MyLinks /\ myLink'.at = myLink.at /\ (MyKnow(myServer) => MySane')
    BY <1>1, <1>3 DEF MyKnow, MyTruth, MySane, MyLinks
  <1> QED
    BY <1>1, <1>2, <1>3, <1>4, MyWorkerStep DEF MySteps

LEMMA MyKillStep ==
    ASSUME MyInv, MyKill \/ MyGiveUp
    PROVE  MyInv' /\ MyPromised
  <1>1. /\ UNCHANGED <<myLink, myServer, myCancelled, myResult, myCaller>>
        /\ myServer \in MyServers /\ myWorker \in MyWorkers /\ myLink \in MyLinks /\ myCancelled \subseteq MyHandles
    BY DEF MyKill, MyGiveUp, MyInv, MyTypes
  <1>2. MyBusy
    BY DEF MyKill, MyGiveUp, MyInv, MyHolds
  <1>3. MySane' = MySane
    BY <1>1 DEF MySane, MyTruth
  <1>4. CASE MyKill
    <2>1. /\ myWorker' \in MyWorkers /\ UNCHANGED <<myWorker.n, myWorker.script, myWorker.at>>
          /\ myWorker'.step = myWorker.step /\ myWorker'.end = myWorker.end /\ myWorker'.started = myWorker.started
      BY <1>1, <1>4 DEF MyKill, MyWorkers
    <2>2. MyHolds /\ MyFollows /\ MyRemains
      BY DEF MyInv
    <2> QED
      BY <1>1, <1>2, <1>3, <2>1, <2>2, MyWorkerStep DEF MySteps, MyHolds, MyFollows, MyRemains, MyBusy
  <1>5. CASE MyGiveUp
    <2>1. /\ myWorker' \in MyWorkers /\ UNCHANGED <<myWorker.n, myWorker.script, myWorker.at>>
          /\ myWorker'.step = "finish" /\ myWorker'.end = "lost"
      BY <1>1, <1>5 DEF MyGiveUp, MyWorkers
    <2> QED
      BY <1>1, <1>2, <2>1, MyWorkerStep DEF MySteps
  <1> QED
    BY <1>4, <1>5

\* The worker adds to the results.
LEMMA MySetStep ==
    ASSUME MyInv, MyBusy, UNCHANGED <<myCaller, myCancelled>>,
           myServer' \in MyServers,
           UNCHANGED <<myServer.work, myServer.saved, myServer.undone, myServer.open>>,
           myWorker' \in MyWorkers, UNCHANGED <<myWorker.n, myWorker.script>>,
           myWorker'.step \in {"rows", "probe", "prepare", "ping", "finish"}, myWorker'.end # "error",
           myLink' \in MyLinks, myLink'.at = myLink.at,
           myServer'.running # "nothing" <=> myWorker'.step = "rows",
           myWorker'.step \in {"prepare", "finish"} => MySane',
           myWorker'.step = "prepare" => MyFresh(myWorker'.at),
           myWorker'.step = "probe" => MyFresh(myWorker'.at + 1),
           myServer'.running = myServer.running \/ myServer'.running = "nothing",
           myServer'.running # "nothing" => UNCHANGED myWorker.at,
           MyFollows',
           myResult' \in MyResults, UNCHANGED <<myResult.done, myResult.failure>>,
           Len(myResult.sets) <= Len(myResult'.sets), Len(myResult'.sets) <= Len(myWorker.script),
           Len(myResult.sets) = Len(myWorker.script) => Len(myResult'.sets) = Len(myResult.sets),
           \A i \in 1..Len(myResult.sets) :
                /\ myResult.sets[i].done => (myResult.sets)'[i].done
                /\ myResult.sets[i].final => (myResult.sets)'[i].final,
           \A i \in 1..Len(myResult'.sets) :
                /\ (myResult.sets)'[i].final =>
                        (myResult.sets)'[i].done /\ ((myResult.sets)'[i].more \/ i = Len(myWorker.script))
                /\ i < Len(myResult'.sets) => (myResult.sets)'[i].final
                /\ (myResult.sets)'[i].done /\ myWorker.script[i] = "write" => <<myWorker.n, i>> \in MyTouched
    PROVE  MyInv' /\ MyPromised
  <1>1. MyTypes'
    BY DEF MyInv, MyTypes
  <1>2. MyTouched' = MyTouched /\ MyBusy'
    BY DEF MyTouched, MyBusy
  <1>3. /\ myLink.at = "worker" /\ ~myResult.done /\ myCaller.op \notin {"commit", "rollback", "edit"}
        /\ Len(myResult.sets) \in Nat
    BY MyRunning
  <1>4. MyHolds'
    <2>1. ~myServer'.open => myServer'.work = {}
      BY DEF MyInv, MyHolds
    <2> QED
      BY <1>2, <1>3, <2>1 DEF MyHolds
  <1>5. MyRemains'
    <2>1. \A k : MyFresh(k)' = MyFresh(k)
      BY <1>2 DEF MyFresh
    <2>2. myServer'.running \in {"statement", "error"} => MyFresh(myWorker'.at)
      BY DEF MyInv, MyRemains
    <2>3. myServer'.running = "ok" =>
            /\ MyFresh(myWorker'.at + 1)
            /\ MyKind' = "write" => MyEffect' \in MyTouched
      BY DEF MyInv, MyRemains, MyKind, MyEffect
    <2>4. /\ \A e \in MyTouched' : e[1] <= myCaller'.executed
          /\ MyGrid \notin myServer'.work \cup myServer'.undone
          /\ myCaller'.op = "edit" => MyGrid \notin myServer'.saved
          /\ myResult'.failure.kind # "error"
      BY <1>2 DEF MyInv, MyRemains
    <2> QED
      BY <1>2, <2>1, <2>2, <2>3, <2>4 DEF MyRemains
  <1>6. MyShows'
    <2>1. \A i \in 1..Len(myResult'.sets) :
            (myResult.sets)'[i].done /\ (myWorker.script)'[i] = "write" => <<myWorker'.n, i>> \in MyTouched'
      BY <1>2
    <2>2. myResult'.failure.at <= Len(myResult'.sets)
      <3>1. myResult.failure.at \in Nat /\ Len(myResult'.sets) \in Nat
        BY DEF MyInv, MyTypes, MyResults, MyFailures
      <3> QED
        BY <1>3, <3>1 DEF MyInv, MyShows
    <2>3. myCaller'.told = "end" => Len(myResult'.sets) = Len(myWorker'.script)
      BY DEF MyInv, MyShows
    <2>4. myCaller'.cursor => myCaller'.set + 1 <= Len(myResult'.sets)
      <3>1. myCaller.set \in Nat /\ Len(myResult'.sets) \in Nat
        BY DEF MyInv, MyTypes, MyResults, MyCallers
      <3> QED
        BY <1>3, <3>1 DEF MyInv, MyShows
    <2>5. myCaller'.op = "reading" =>
            /\ myCaller'.cursor /\ (myResult.sets)'[myCaller'.set + 1].done
            /\ (myResult.sets)'[myCaller'.set + 1].final \/ myResult'.done
      <3>1. myCaller.op = "reading" => myCaller.set + 1 \in 1..Len(myResult.sets)
        BY <1>3 DEF MyInv, MyShows, MyTypes, MyCallers
      <3> QED
        BY <3>1 DEF MyInv, MyShows
    <2>6. myCaller'.op = "execute" => myCaller'.set = 0 /\ myCaller'.told = "nothing"
      BY DEF MyInv, MyShows
    <2> QED
      BY <1>3, <2>1, <2>2, <2>3, <2>4, <2>5, <2>6 DEF MyShows
  <1>7. MyPromised
    BY MySaysTruly DEF MyMoves
  <1> QED
    BY <1>1, <1>4, <1>5, <1>6, <1>7 DEF MyInv

LEMMA MyOpenSetStep ==
    ASSUME MyInv, MyOpenSet
    PROVE  MyInv' /\ MyPromised
  <1> DEFINE sets == myResult.sets
             at == myWorker.at
  <1>1. /\ myWorker.step = "run" /\ MyBusy /\ UNCHANGED <<myLink, myServer, myCancelled, myCaller>>
        /\ myServer \in MyServers /\ myWorker \in MyWorkers /\ myLink \in MyLinks /\ myResult \in MyResults
        /\ myServer.running # "nothing" /\ myWorker.end = "none"
        /\ Len(sets) = at - 1 /\ (sets # <<>> => sets[Len(sets)].final)
        /\ myResult.failure.kind \in {"none", "interrupted"} /\ myWorker.n \in 1..myCaller.executed
        /\ Len(myWorker.script) \in 1..2
    BY DEF MyOpenSet, MyBusy, MyInv, MyTypes, MyHolds, MyFollows
  <1>2. /\ at \in 1..2 /\ at \in 1..Len(myWorker.script) /\ sets \in Seq(MySetType) /\ Len(sets) \in Nat
        /\ Len(myWorker.script) \in Nat
    BY <1>1, MyRunning
  <1>3. PICK rows \in BOOLEAN :
            myResult' = [myResult EXCEPT !.sets =
                Append(@, [rows |-> rows, done |-> FALSE, final |-> FALSE, more |-> FALSE])]
    BY DEF MyOpenSet
  <1>4. PICK set : set = [rows |-> rows, done |-> FALSE, final |-> FALSE, more |-> FALSE]
    OBVIOUS
  <1>5. set \in MySetType /\ ~set.done /\ ~set.final
    BY <1>4 DEF MySetType
  <1>6. PICK new : new = Append(sets, set)
    OBVIOUS
  <1>7. /\ new \in Seq(MySetType) /\ Len(new) = at /\ new[at] = set
        /\ \A i \in 1..Len(sets) : new[i] = sets[i]
    BY <1>1, <1>2, <1>5, <1>6
  <1>8. myResult' = [myResult EXCEPT !.sets = new]
    BY <1>3, <1>4, <1>6
  <1>9. /\ myResult' \in MyResults /\ myResult'.sets = new /\ UNCHANGED <<myResult.done, myResult.failure>>
    BY <1>1, <1>7, <1>8 DEF MyResults
  <1>10. /\ myWorker' \in MyWorkers /\ UNCHANGED <<myWorker.n, myWorker.script, myWorker.at>>
         /\ myWorker'.step = "rows" /\ myWorker'.end = "none"
    BY <1>1 DEF MyOpenSet, MyStep, MyWorkers
  <1>11. MyFollows'
    <2>1. myWorker'.n \in 1..myCaller'.executed /\ myWorker'.at \in 1..Len(myWorker'.script)
      BY <1>1, <1>2, <1>10
    <2>2. Len(myResult'.sets) = myWorker'.at /\ (myResult.sets)'[myWorker'.at].done = FALSE
      BY <1>5, <1>7, <1>9, <1>10
    <2>3. Len(myWorker'.script) \in 1..2 /\ myResult'.failure.kind \in {"none", "interrupted"}
      BY <1>1, <1>9, <1>10
    <2> QED
      BY <1>10, <2>1, <2>2, <2>3 DEF MyFollows
  <1>12. \A i \in 1..Len(new) : i \in 1..Len(sets) \/ i = at
    BY <1>1, <1>2, <1>7
  <1>13. \A i \in 1..Len(sets) : sets[i].final
    <2>1. \A i \in 1..Len(sets) : i < Len(sets) \/ (i = Len(sets) /\ sets # <<>>)
      BY <1>2
    <2> QED
      BY <1>1, <2>1 DEF MyInv, MyShows
  <1>14. \A i \in 1..Len(new) :
                /\ new[i].final => new[i].done /\ (new[i].more \/ i = Len(myWorker.script))
                /\ i < Len(new) => new[i].final
                /\ new[i].done /\ myWorker.script[i] = "write" => <<myWorker.n, i>> \in MyTouched
    <2> SUFFICES ASSUME NEW i \in 1..Len(new)
                 PROVE  /\ new[i].final => new[i].done /\ (new[i].more \/ i = Len(myWorker.script))
                        /\ i < Len(new) => new[i].final
                        /\ new[i].done /\ myWorker.script[i] = "write" => <<myWorker.n, i>> \in MyTouched
      OBVIOUS
    <2>1. CASE i = at
      BY <1>5, <1>7, <2>1
    <2>2. CASE i \in 1..Len(sets)
      BY <1>7, <1>13, <2>2 DEF MyInv, MyShows
    <2> QED
      BY <1>12, <2>1, <2>2
  <1>15. Len(sets) <= Len(new) /\ Len(new) <= Len(myWorker.script) /\ Len(sets) # Len(myWorker.script)
    BY <1>1, <1>2, <1>7
  <1> QED
    BY <1>1, <1>7, <1>9, <1>10, <1>11, <1>14, <1>15, MySetStep

\* One of the results, with some of its marks set.
LEMMA MySetChanges ==
    ASSUME myResult \in MyResults, NEW i \in 1..Len(myResult.sets), NEW set \in MySetType,
           NEW r, r = [myResult EXCEPT !.sets = [@ EXCEPT ![i] = set]]
    PROVE  /\ r \in MyResults /\ r.done = myResult.done /\ r.failure = myResult.failure
           /\ r.sets \in Seq(MySetType) /\ Len(r.sets) = Len(myResult.sets) /\ r.sets[i] = set
           /\ \A j \in 1..Len(r.sets) : j # i => r.sets[j] = myResult.sets[j]
  <1>1. myResult.sets \in Seq(MySetType)
    BY DEF MyResults
  <1>2. PICK new : new = [myResult.sets EXCEPT ![i] = set]
    OBVIOUS
  <1>3. /\ new \in Seq(MySetType) /\ Len(new) = Len(myResult.sets) /\ new[i] = set
        /\ \A j \in 1..Len(new) : j # i => new[j] = myResult.sets[j]
    BY <1>1, <1>2
  <1>4. r = [myResult EXCEPT !.sets = new]
    BY <1>2
  <1> QED
    BY <1>3, <1>4 DEF MyResults

LEMMA MyCloseSetStep ==
    ASSUME MyInv, MyCloseSet
    PROVE  MyInv' /\ MyPromised
  <1> DEFINE sets == myResult.sets
             at == myWorker.at
  <1>1. /\ myWorker.step = "rows" /\ MyBusy /\ UNCHANGED <<myCancelled, myCaller>>
        /\ myServer \in MyServers /\ myWorker \in MyWorkers /\ myLink \in MyLinks /\ myResult \in MyResults
        /\ myServer.running = "ok" /\ myWorker.end = "none"
        /\ Len(sets) = at /\ sets[at].done = FALSE
        /\ myResult.failure.kind \in {"none", "interrupted"} /\ myWorker.n \in 1..myCaller.executed
        /\ Len(myWorker.script) \in 1..2
    BY DEF MyCloseSet, MyBusy, MyInv, MyTypes, MyHolds, MyFollows
  <1>2. /\ at \in 1..2 /\ at \in 1..Len(myWorker.script) /\ sets \in Seq(MySetType) /\ Len(sets) \in Nat
        /\ Len(myWorker.script) \in Nat /\ at \in 1..Len(sets)
    BY <1>1, MyRunning
  <1>3. PICK set : set = [sets[at] EXCEPT !.done = TRUE]
    OBVIOUS
  <1>4. sets[at] \in MySetType
    BY <1>2
  <1>5. set \in MySetType /\ set.done = TRUE /\ set.final = sets[at].final /\ set.more = sets[at].more
    BY <1>3, <1>4 DEF MySetType
  <1>6. PICK r : r = [myResult EXCEPT !.sets = [@ EXCEPT ![at] = set]]
    OBVIOUS
  <1>7. myResult' = r
    BY <1>1, <1>3, <1>6 DEF MyCloseSet
  <1>8. /\ myResult' \in MyResults /\ UNCHANGED <<myResult.done, myResult.failure>>
        /\ Len(myResult'.sets) = at /\ (myResult.sets)'[at] = set
        /\ \A j \in 1..Len(sets) : j # at => (myResult.sets)'[j] = sets[j]
    BY <1>1, <1>2, <1>5, <1>6, <1>7, MySetChanges
  <1>9. /\ myWorker' \in MyWorkers /\ UNCHANGED <<myWorker.n, myWorker.script, myWorker.at>>
        /\ myWorker'.step = "probe" /\ myWorker'.end = "none"
    BY <1>1 DEF MyCloseSet, MyStep, MyWorkers
  <1>10. /\ myServer' \in MyServers /\ myServer'.running = "nothing"
         /\ UNCHANGED <<myServer.work, myServer.saved, myServer.undone, myServer.open>>
    BY <1>1 DEF MyCloseSet, MyServers
  <1>11. myLink' \in MyLinks /\ myLink'.at = myLink.at
    BY <1>1 DEF MyCloseSet, MyKnow, MyTruth, MyLinks
  <1>12. MyFollows'
    <2>1. myWorker'.n \in 1..myCaller'.executed /\ myWorker'.at \in 1..Len(myWorker'.script)
      BY <1>1, <1>2, <1>9
    <2>2. Len(myResult'.sets) = myWorker'.at /\ (myResult.sets)'[myWorker'.at].done = TRUE
      BY <1>5, <1>8, <1>9
    <2>3. Len(myWorker'.script) \in 1..2 /\ myResult'.failure.kind \in {"none", "interrupted"}
      BY <1>1, <1>8, <1>9
    <2> QED
      BY <1>9, <2>1, <2>2, <2>3 DEF MyFollows
  <1>13. MyFresh(at + 1) /\ (MyKind = "write" => MyEffect \in MyTouched)
    BY <1>1 DEF MyInv, MyRemains
  <1>14. \A j \in 1..Len(sets) :
                /\ sets[j].done => (myResult.sets)'[j].done
                /\ sets[j].final => (myResult.sets)'[j].final
    BY <1>5, <1>8
  <1>15. \A j \in 1..Len(myResult'.sets) :
                /\ (myResult.sets)'[j].final =>
                        (myResult.sets)'[j].done /\ ((myResult.sets)'[j].more \/ j = Len(myWorker.script))
                /\ j < Len(myResult'.sets) => (myResult.sets)'[j].final
                /\ (myResult.sets)'[j].done /\ myWorker.script[j] = "write" => <<myWorker.n, j>> \in MyTouched
    <2> SUFFICES ASSUME NEW j \in 1..Len(sets)
                 PROVE  /\ (myResult.sets)'[j].final =>
                                (myResult.sets)'[j].done /\ ((myResult.sets)'[j].more \/ j = Len(myWorker.script))
                        /\ j < Len(sets) => (myResult.sets)'[j].final
                        /\ (myResult.sets)'[j].done /\ myWorker.script[j] = "write" => <<myWorker.n, j>> \in MyTouched
      BY <1>1, <1>8
    <2>1. CASE j = at
      <3>1. ~sets[at].final
        BY <1>1, <1>2 DEF MyInv, MyShows
      <3> QED
        BY <1>1, <1>2, <1>5, <1>8, <1>13, <2>1, <3>1 DEF MyKind, MyEffect
    <2>2. CASE j # at
      BY <1>8, <2>2 DEF MyInv, MyShows
    <2> QED
      BY <2>1, <2>2
  <1>16. Len(myResult'.sets) = Len(sets) /\ Len(sets) <= Len(myWorker.script)
    BY <1>1, <1>2, <1>8
  <1>17. myWorker'.step = "probe" => MyFresh(myWorker'.at + 1)
    BY <1>9, <1>13
  <1> QED
    BY <1>1, <1>8, <1>9, <1>10, <1>11, <1>12, <1>14, <1>15, <1>16, <1>17, MySetStep

LEMMA MyProbeStep ==
    ASSUME MyInv, MyProbe
    PROVE  MyInv' /\ MyPromised
  <1> DEFINE sets == myResult.sets
             at == myWorker.at
             more == at < Len(myWorker.script)
  <1>1. /\ myWorker.step = "probe" /\ MyBusy /\ UNCHANGED <<myServer, myCancelled, myCaller>>
        /\ myServer \in MyServers /\ myWorker \in MyWorkers /\ myLink \in MyLinks /\ myResult \in MyResults
        /\ myCancelled \subseteq MyHandles
        /\ myServer.running = "nothing" /\ myWorker.end = "none"
        /\ Len(sets) = at /\ sets[at].done = TRUE
        /\ myResult.failure.kind \in {"none", "interrupted"} /\ myWorker.n \in 1..myCaller.executed
        /\ Len(myWorker.script) \in 1..2 /\ MyFresh(at + 1)
    BY DEF MyProbe, MyBusy, MyInv, MyTypes, MyHolds, MyFollows, MyRemains, MyServers
  <1>2. /\ at \in 1..2 /\ at \in 1..Len(myWorker.script) /\ sets \in Seq(MySetType) /\ Len(sets) \in Nat
        /\ Len(myWorker.script) \in Nat /\ at \in 1..Len(sets) /\ more \in BOOLEAN
    BY <1>1, MyRunning
  <1>3. CASE MyForget /\ MyEnd("ping", "error") /\ UNCHANGED myResult
    <2>1. /\ myWorker' \in MyWorkers /\ UNCHANGED <<myWorker.n, myWorker.script, myWorker.at>>
          /\ myWorker'.step = "ping" /\ myWorker'.end = "error"
      BY <1>1, <1>3 DEF MyEnd, MyWorkers
    <2>2. myLink' \in MyLinks /\ myLink'.at = myLink.at
      BY <1>1, <1>3 DEF MyForget, MyLinks
    <2> QED
      BY <1>1, <1>3, <2>1, <2>2, MyFailedFresh, MyWorkerStep DEF MySteps
  <1>4. CASE /\ MyKnow(myServer)
             /\ myResult' = [myResult EXCEPT !.sets[Len(sets)].final = TRUE, !.sets[Len(sets)].more = more]
             /\ IF more THEN myWorker' = [myWorker EXCEPT !.step =
                               IF MyUsed(myWorker.n) THEN "ping" ELSE "prepare",
                               !.end = IF MyUsed(myWorker.n) THEN "cancelled" ELSE @,
                               !.at = @ + 1]
                ELSE MyEnd("finish", "ok")
    <2>1. PICK m \in BOOLEAN : m = more
      BY <1>2
    <2>2. PICK set : set = [sets[at] EXCEPT !.final = TRUE, !.more = m]
      OBVIOUS
    <2>3. sets[at] \in MySetType
      BY <1>2
    <2>4. set \in MySetType /\ set.done = TRUE /\ set.final = TRUE /\ set.more = m
      BY <1>1, <2>2, <2>3 DEF MySetType
    <2>5. PICK r : r = [myResult EXCEPT !.sets = [@ EXCEPT ![at] = set]]
      OBVIOUS
    <2>6. myResult' = r
      <3>1. myResult' = [myResult EXCEPT !.sets = [@ EXCEPT ![at] = [sets[at] EXCEPT !.final = TRUE, !.more = m]]]
        <4>1. myResult' = [myResult EXCEPT !.sets[at].final = TRUE, !.sets[at].more = m]
          BY <1>1, <1>4, <2>1
        <4> HIDE DEF more
        <4> QED
          BY <1>1, <1>2, <2>3, <4>1 DEF MyResults, MySetType
      <3> QED
        BY <2>2, <2>5, <3>1
    <2>7. /\ myResult' \in MyResults /\ UNCHANGED <<myResult.done, myResult.failure>>
          /\ Len(myResult'.sets) = at /\ (myResult.sets)'[at] = set
          /\ \A j \in 1..Len(sets) : j # at => (myResult.sets)'[j] = sets[j]
      BY <1>1, <1>2, <2>4, <2>5, <2>6, MySetChanges
    <2>8. /\ myWorker' \in MyWorkers /\ UNCHANGED <<myWorker.n, myWorker.script>>
          /\ \/ more /\ myWorker'.step = "ping" /\ myWorker'.end = "cancelled" /\ myWorker'.at = at + 1
             \/ more /\ myWorker'.step = "prepare" /\ myWorker'.end = "none" /\ myWorker'.at = at + 1
             \/ ~more /\ myWorker'.step = "finish" /\ myWorker'.end = "ok" /\ myWorker'.at = at
      <3>1. CASE more /\ MyUsed(myWorker.n)
        <4>1. myWorker' = [myWorker EXCEPT !.step = "ping", !.end = "cancelled", !.at = @ + 1]
          BY <1>4, <3>1
        <4>2. at + 1 \in Nat
          BY <1>2
        <4> QED
          BY <1>1, <3>1, <4>1, <4>2 DEF MyWorkers
      <3>2. CASE more /\ ~MyUsed(myWorker.n)
        <4>1. myWorker' = [myWorker EXCEPT !.step = "prepare", !.end = @, !.at = @ + 1]
          BY <1>4, <3>2
        <4>2. at + 1 \in Nat
          BY <1>2
        <4> QED
          BY <1>1, <3>2, <4>1, <4>2 DEF MyWorkers
      <3>3. CASE ~more
        BY <1>1, <1>4, <3>3 DEF MyEnd, MyWorkers
      <3> QED
        BY <3>1, <3>2, <3>3
    <2>9. myLink' \in MyLinks /\ myLink'.at = myLink.at /\ MySane'
      BY <1>1, <1>4 DEF MyKnow, MyTruth, MySane, MyLinks
    <2>10. MyFollows'
      <3>1. myWorker'.n \in 1..myCaller'.executed /\ myWorker'.at \in 1..Len(myWorker'.script)
        <4>1. more => at + 1 \in 1..Len(myWorker.script)
          BY <1>2
        <4> QED
          BY <1>1, <1>2, <2>8, <4>1
      <3>2. /\ myWorker'.step = "prepare" => Len(myResult'.sets) = myWorker'.at - 1
            /\ (myResult.sets)'[Len(myResult'.sets)].final
        BY <1>2, <2>4, <2>7, <2>8
      <3>3. Len(myWorker'.script) \in 1..2 /\ myResult'.failure.kind \in {"none", "interrupted"}
        BY <1>1, <2>7, <2>8
      <3>4. myWorker'.step = "finish" => Len(myResult'.sets) = Len(myWorker'.script)
        BY <1>2, <2>7, <2>8
      <3> HIDE DEF more
      <3> QED
        BY <2>8, <3>1, <3>2, <3>3, <3>4 DEF MyFollows
    <2>11. \A j \in 1..Len(sets) :
                /\ sets[j].done => (myResult.sets)'[j].done
                /\ sets[j].final => (myResult.sets)'[j].final
      BY <2>4, <2>7
    <2>12. \A j \in 1..Len(myResult'.sets) :
                /\ (myResult.sets)'[j].final =>
                        (myResult.sets)'[j].done /\ ((myResult.sets)'[j].more \/ j = Len(myWorker.script))
                /\ j < Len(myResult'.sets) => (myResult.sets)'[j].final
                /\ (myResult.sets)'[j].done /\ myWorker.script[j] = "write" => <<myWorker.n, j>> \in MyTouched
      <3> SUFFICES ASSUME NEW j \in 1..Len(sets)
                   PROVE  /\ (myResult.sets)'[j].final =>
                                (myResult.sets)'[j].done /\ ((myResult.sets)'[j].more \/ j = Len(myWorker.script))
                          /\ j < Len(sets) => (myResult.sets)'[j].final
                          /\ (myResult.sets)'[j].done /\ myWorker.script[j] = "write" => <<myWorker.n, j>> \in MyTouched
        BY <1>1, <2>7
      <3>1. CASE j = at
        <4>1. at < Len(myWorker.script) \/ at = Len(myWorker.script)
          BY <1>2
        <4>2. m \/ at = Len(myWorker.script)
          BY <2>1, <4>1
        <4> QED
          BY <1>1, <1>2, <2>4, <2>7, <3>1, <4>2 DEF MyInv, MyShows
      <3>2. CASE j # at
        BY <2>7, <3>2 DEF MyInv, MyShows
      <3> QED
        BY <3>1, <3>2
    <2>13. Len(myResult'.sets) = Len(sets) /\ Len(sets) <= Len(myWorker.script)
      BY <1>1, <1>2, <2>7
    <2>14. myWorker'.step = "prepare" => MyFresh(myWorker'.at)
      BY <1>1, <2>8
    <2> HIDE DEF more
    <2> QED
      BY <1>1, <2>7, <2>8, <2>9, <2>10, <2>11, <2>12, <2>13, <2>14, MySetStep
  <1> QED
    BY <1>1, <1>3, <1>4 DEF MyProbe

LEMMA MyInterruptStep ==
    ASSUME MyInv, MyInterrupt
    PROVE  MyInv' /\ MyPromised
  <1>1. /\ MyBusy /\ UNCHANGED <<myLink, myServer, myCaller>> /\ myWorker \in MyWorkers /\ myResult \in MyResults
        /\ myCancelled \subseteq MyHandles /\ myCancelled' = myCancelled \cup {myWorker.n}
        /\ myWorker' = [myWorker EXCEPT !.drain = "kill"]
    BY DEF MyInterrupt, MyBusy, MyInv, MyTypes
  <1>2. /\ Len(myResult.sets) \in Nat /\ myWorker.n \in MyHandles /\ ~myResult.done
        /\ myCaller.op \notin {"commit", "rollback", "edit"}
    BY <1>1, MyRunning
  <1>3. PICK failure : failure = [at |-> MyMax(Len(myResult.sets), 1) - 1, kind |-> "interrupted"]
    OBVIOUS
  <1>4. failure \in MyFailures /\ failure.kind = "interrupted" /\ failure.at <= Len(myResult.sets)
    <2>1. \A len \in Nat : MyMax(len, 1) - 1 \in Nat /\ MyMax(len, 1) - 1 <= len
      BY DEF MyMax
    <2> QED
      BY <1>2, <1>3, <2>1 DEF MyFailures
  <1>5. /\ myResult' \in MyResults /\ UNCHANGED <<myResult.sets, myResult.done>> /\ myResult'.failure = failure
    <2>1. myResult' = [myResult EXCEPT !.failure = failure]
      BY <1>3 DEF MyInterrupt
    <2> QED
      BY <1>1, <1>4, <2>1 DEF MyResults
  <1>6. /\ myWorker' \in MyWorkers /\ myWorker'.drain = "kill"
        /\ UNCHANGED <<myWorker.step, myWorker.n, myWorker.script, myWorker.at, myWorker.end, myWorker.started>>
    BY <1>1 DEF MyWorkers
  <1>7. MyTypes'
    BY <1>1, <1>2, <1>5, <1>6 DEF MyInv, MyTypes
  <1>8. MyBusy' /\ MyTouched' = MyTouched /\ MySane' = MySane /\ MyKind' = MyKind /\ MyEffect' = MyEffect
    BY <1>1, <1>6 DEF MyBusy, MyTouched, MySane, MyTruth, MyKind, MyEffect
  <1>9. MyHolds'
    BY <1>1, <1>5, <1>6, <1>8 DEF MyInv, MyHolds
  <1>10. MyFollows'
    BY <1>1, <1>4, <1>5, <1>6 DEF MyInv, MyFollows
  <1>11. MyRemains'
    <2>1. \A k : MyFresh(k)' = MyFresh(k)
      BY <1>6, <1>8 DEF MyFresh
    <2>2. MyFailedAt(myResult.sets)' = MyFailedAt(myResult.sets)
      BY <1>5 DEF MyFailedAt
    <2>3. /\ \A e \in MyTouched' : e[1] <= myCaller'.executed
          /\ MyGrid \notin myServer'.work \cup myServer'.undone
          /\ myCaller'.op = "edit" => MyGrid \notin myServer'.saved
          /\ myWorker'.step \in {"admit", "prepare", "begin", "check"} => MyFresh(myWorker'.at)
          /\ myServer'.running \in {"statement", "error"} => MyFresh(myWorker'.at)
          /\ myServer'.running = "ok" =>
                /\ MyFresh(myWorker'.at + 1)
                /\ MyKind' = "write" => MyEffect' \in MyTouched'
          /\ myWorker'.step = "probe" => MyFresh(myWorker'.at + 1)
          /\ myWorker'.step \in {"ping", "finish"} /\ myWorker'.end = "error" =>
                <<myWorker'.n, MyFailedAt(myResult.sets)>> \notin MyTouched'
      BY <1>1, <1>6, <1>8 DEF MyInv, MyRemains
    <2> QED
      BY <1>4, <1>5, <2>1, <2>2, <2>3 DEF MyRemains
  <1>12. MyShows'
    BY <1>1, <1>2, <1>4, <1>5, <1>6, <1>8 DEF MyInv, MyShows
  <1>13. MyPromised
    BY <1>1, MySaysTruly DEF MyMoves
  <1> QED
    BY <1>7, <1>9, <1>10, <1>11, <1>12, <1>13 DEF MyInv

\* A statement at work on the server is a new one, and what it is asked to save is its own.
LEMMA MyAtWork ==
    ASSUME MyInv, MyBusy, myServer.running = "statement"
    PROVE  /\ MyEffect \notin MyTouched /\ MyEffect # MyGrid /\ MyEffect[1] <= myCaller.executed
           /\ MyKind \in {"begin", "commit"} => MyWant = "all"
           /\ MyKind = "write" /\ ~myServer.open => MyWant = "one"
  <1>1. /\ myWorker.n # 0 /\ myLink.at = "worker" /\ myCaller.op \notin {"commit", "rollback", "edit"}
        /\ myWorker.at \in 1..2
    BY MyRunning
  <1>2. MyFresh(myWorker.at)
    BY DEF MyInv, MyRemains
  <1>3. MyEffect \notin MyTouched
    BY <1>1, <1>2 DEF MyFresh, MyEffect
  <1>4. MyEffect # MyGrid /\ MyEffect[1] = myWorker.n
    BY <1>1 DEF MyEffect, MyGrid
  <1>5. myWorker.n <= myCaller.executed
    <2>1. myWorker.n \in 1..myCaller.executed /\ myCaller.executed \in Nat
      BY DEF MyInv, MyFollows, MyTypes, MyCallers
    <2> QED
      BY <2>1
  <1> QED
    BY <1>1, <1>3, <1>4, <1>5 DEF MyWant

LEMMA MyServerEndsStep ==
    ASSUME MyInv, MyServerEnds
    PROVE  MyInv' /\ MyPromised
  <1>1. /\ myServer.running = "statement" /\ UNCHANGED <<myLink, myWorker, myCancelled, myResult, myCaller>>
        /\ myServer \in MyServers /\ MyTypes /\ (~myServer.open => myServer.work = {})
    BY DEF MyServerEnds, MyInv, MyTypes, MyHolds
  <1>2. MyBusy /\ (myWorker.step \in {"run", "rows"} \/ (myWorker.step = "finish" /\ myWorker.end = "lost"))
    BY <1>1 DEF MyInv, MyHolds, MyBusy
  <1>3. /\ MyEffect \in MyEffects /\ MyKind \in MyKinds /\ ~myResult.done
        /\ myCaller.op \notin {"commit", "rollback", "edit"} /\ myWorker.at \in 1..2
    BY <1>2, MyRunning
  <1>4. /\ MyEffect \notin MyTouched /\ MyEffect # MyGrid /\ MyEffect[1] <= myCaller.executed
        /\ MyKind \in {"begin", "commit"} => MyWant = "all"
        /\ MyKind = "write" /\ ~myServer.open => MyWant = "one"
    BY <1>1, <1>2, MyAtWork
  <1>5. /\ myServer' \in MyServers /\ (~myServer'.open => myServer'.work = {})
        /\ MyTouched \subseteq MyTouched' /\ MyTouched' \subseteq MyTouched \cup {MyEffect}
        /\ MyGrid \notin myServer'.work \cup myServer'.undone
        /\ \/ myServer'.running = "ok" /\ (MyKind = "write" => MyEffect \in MyTouched')
           \/ myServer'.running = "error" /\ MyTouched' = MyTouched
        /\ MyMoves
    <2>1. MyGrid \notin myServer.work \cup myServer.undone
      BY DEF MyInv, MyRemains
    <2>2. CASE myServer' = [MyRan(myServer, MyKind, MyEffect) EXCEPT !.running = "ok"]
      <3>1. PICK r : r = MyRan(myServer, MyKind, MyEffect)
        OBVIOUS
      <3>2. /\ r \in MyServers /\ r.undone = myServer.undone /\ (~r.open => r.work = {})
            /\ \/ /\ MyKind \in {"begin", "commit"} /\ r.work = {}
                  /\ r.saved = myServer.saved \cup myServer.work
               \/ /\ MyKind = "write" /\ myServer.open /\ r.work = myServer.work \cup {MyEffect}
                  /\ r.saved = myServer.saved
               \/ /\ MyKind = "write" /\ ~myServer.open /\ r.work = {}
                  /\ r.saved = myServer.saved \cup {MyEffect}
        BY <1>1, <1>3, <3>1, MyServerFacts DEF MyKinds
      <3>3. /\ myServer' \in MyServers /\ UNCHANGED myServer.undone /\ myServer'.running = "ok"
            /\ (~myServer'.open => myServer'.work = {})
            /\ myServer'.work = r.work /\ myServer'.saved = r.saved
        BY <2>2, <3>1, <3>2 DEF MyServers
      <3>4. CASE /\ MyKind \in {"begin", "commit"} /\ r.work = {}
                 /\ r.saved = myServer.saved \cup myServer.work
        <4>1. MyMoves
          BY <1>4, <3>3, <3>4 DEF MyMoves, MyPromise!SaveAll
        <4>2. MyTouched' = MyTouched
          BY <3>3, <3>4 DEF MyTouched
        <4> QED
          BY <2>1, <3>3, <3>4, <4>1, <4>2
      <3>5. CASE /\ MyKind = "write" /\ myServer.open /\ r.work = myServer.work \cup {MyEffect}
                 /\ r.saved = myServer.saved
        <4>1. MyMoves
          <5>1. MyPromise!New(MyEffect)
            BY <1>4 DEF MyPromise!New, MyTouched
          <5> QED
            BY <1>3, <3>3, <3>5, <5>1 DEF MyMoves, MyPromise!Perform
        <4>2. MyTouched' = MyTouched \cup {MyEffect}
          BY <3>3, <3>5 DEF MyTouched
        <4> QED
          BY <1>4, <2>1, <3>3, <3>5, <4>1, <4>2
      <3>6. CASE /\ MyKind = "write" /\ ~myServer.open /\ r.work = {}
                 /\ r.saved = myServer.saved \cup {MyEffect}
        <4>1. MyMoves
          <5>1. MyPromise!New(MyEffect) /\ myServer.work = {}
            BY <1>1, <1>4, <3>6 DEF MyPromise!New, MyTouched
          <5> QED
            BY <1>3, <1>4, <3>3, <3>6, <5>1 DEF MyMoves, MyPromise!SaveOne
        <4>2. MyTouched' = MyTouched \cup {MyEffect}
          BY <1>1, <3>3, <3>6 DEF MyTouched
        <4> QED
          BY <2>1, <3>3, <3>6, <4>1, <4>2
      <3> QED
        BY <3>2, <3>4, <3>5, <3>6
    <2>3. CASE myServer' = [myServer EXCEPT !.running = "error"]
      <3>1. /\ myServer' \in MyServers /\ myServer'.running = "error"
            /\ UNCHANGED <<myServer.open, myServer.work, myServer.saved, myServer.undone>>
        BY <1>1, <2>3 DEF MyServers
      <3> QED
        BY <1>1, <2>1, <3>1 DEF MyTouched, MyMoves
    <2>4. CASE myServer' = [MyRolledBack(myServer) EXCEPT !.running = "error"]
      <3>1. PICK r : r = MyRolledBack(myServer)
        OBVIOUS
      <3>2. "write" \in MyKinds
        BY DEF MyKinds
      <3>3. /\ r \in MyServers /\ r.work = {} /\ r.saved = myServer.saved
            /\ r.undone = myServer.undone \cup myServer.work
        BY <1>1, <1>3, <3>1, <3>2, MyServerFacts
      <3>4. /\ myServer' \in MyServers /\ myServer'.running = "error" /\ myServer'.work = {}
            /\ UNCHANGED myServer.saved /\ myServer'.undone = myServer.undone \cup myServer.work
        BY <2>4, <3>1, <3>3 DEF MyServers
      <3>5. MyMoves
        BY <3>4 DEF MyMoves, MyPromise!TakeBack
      <3>6. MyTouched' = MyTouched
        BY <3>4 DEF MyTouched
      <3> QED
        BY <2>1, <3>4, <3>5, <3>6
    <2> QED
      BY <2>2, <2>3, <2>4 DEF MyServerEnds
  <1>6. MyTypes' /\ MyBusy' /\ MyKind' = MyKind /\ MyEffect' = MyEffect
    BY <1>1, <1>2, <1>5 DEF MyTypes, MyBusy, MyKind, MyEffect
  <1>7. MyHolds'
    BY <1>1, <1>2, <1>3, <1>5, <1>6 DEF MyInv, MyHolds
  <1>8. MyFollows'
    BY <1>1 DEF MyInv, MyFollows, MyBusy
  <1>9. MyRemains'
    <2>1. MyFresh(myWorker.at)
      BY <1>1 DEF MyInv, MyRemains
    <2>2. MyFresh(myWorker.at + 1)'
      <3>1. \A i : i >= myWorker.at + 1 /\ i \in 1..2 => i # myWorker.at /\ i >= myWorker.at
        BY <1>3
      <3> QED
        BY <1>1, <1>5, <2>1, <3>1 DEF MyFresh, MyEffect
    <2>3. myServer'.running = "error" => MyFresh(myWorker.at)'
      BY <1>1, <1>5, <2>1 DEF MyFresh
    <2>4. \A e \in MyTouched' : e[1] <= myCaller'.executed
      BY <1>1, <1>4, <1>5 DEF MyInv, MyRemains
    <2>5. myResult'.failure.kind # "error"
      BY <1>1, <1>2 DEF MyInv, MyRemains
    <2> QED
      BY <1>1, <1>2, <1>3, <1>5, <1>6, <2>2, <2>3, <2>4, <2>5 DEF MyRemains
  <1>10. MyShows'
    BY <1>1, <1>5 DEF MyInv, MyShows
  <1>11. MyPromised
    BY <1>1, <1>5, MySaysTruly
  <1> QED
    BY <1>6, <1>7, <1>8, <1>9, <1>10, <1>11 DEF MyInv

\* How a script ended is told as it was, and only a failed statement is said to have failed.
LEMMA MyFailureFacts ==
    ASSUME MyInv, MyBusy, myWorker.step = "finish"
    PROVE  LET f == MyFailure  sets == myResult.sets IN
           /\ f \in MyFailures /\ f.at <= Len(sets)
           /\ f.kind = "none" => Len(sets) = Len(myWorker.script) /\ sets[Len(sets)].final
           /\ f.kind = "error" =>
                /\ myWorker.end = "error" /\ <<myWorker.n, f.at + 1>> \notin MyTouched
           /\ sets # <<>> => \/ f.kind \in {"none", "interrupted"} \/ ~sets[Len(sets)].done
                             \/ f.at = Len(sets) /\ f.at > 0
  <1> DEFINE f == MyFailure
             sets == myResult.sets
  <1>1. /\ sets \in Seq(MySetType) /\ Len(sets) \in Nat /\ myWorker \in MyWorkers
        /\ myWorker.end # "none" /\ (sets # <<>> => Len(sets) > 0)
    BY MyRunning DEF MyInv, MyTypes, MyFollows
  <1>2. CASE myWorker.drain # "no" \/ myWorker.end = "cancelled"
    <2>1. f = [at |-> MyMax(Len(sets), 1) - 1, kind |-> "interrupted"]
      BY <1>2 DEF MyFailure
    <2>2. \A len \in Nat : MyMax(len, 1) - 1 \in Nat /\ MyMax(len, 1) - 1 <= len
      BY DEF MyMax
    <2>3. MyMax(Len(sets), 1) - 1 \in Nat /\ MyMax(Len(sets), 1) - 1 <= Len(sets)
      BY <1>1, <2>2
    <2>4. f \in MyFailures /\ f.at <= Len(sets) /\ f.kind = "interrupted"
      BY <2>1, <2>3 DEF MyFailures
    <2> QED
      BY <2>4
  <1>3. CASE myWorker.drain = "no" /\ myWorker.end = "ok"
    <2>1. f = MyNoFailure
      BY <1>3 DEF MyFailure
    <2>2. f \in MyFailures /\ f.kind = "none" /\ f.at = 0
      BY <2>1 DEF MyNoFailure, MyFailures
    <2>3. Len(sets) = Len(myWorker.script) /\ sets[Len(sets)].final
      BY <1>3 DEF MyInv, MyFollows
    <2> QED
      BY <1>1, <2>2, <2>3
  <1>4. CASE myWorker.drain = "no" /\ myWorker.end \in {"error", "lost"}
    <2>1. PICK at : at = IF sets = <<>> THEN 0 ELSE Len(sets) - IF sets[Len(sets)].done THEN 0 ELSE 1
      OBVIOUS
    <2>2. f = [at |-> at, kind |-> myWorker.end]
      BY <1>4, <2>1 DEF MyFailure
    <2>3. /\ at \in Nat /\ at <= Len(sets) /\ at + 1 = MyFailedAt(sets)
          /\ sets # <<>> /\ sets[Len(sets)].done => at = Len(sets)
      <3>1. CASE sets = <<>>
        BY <1>1, <2>1, <3>1 DEF MyFailedAt
      <3>2. CASE sets # <<>> /\ sets[Len(sets)].done
        <4>1. at = Len(sets) - 0 /\ MyFailedAt(sets) = Len(sets) + 1
          BY <2>1, <3>2 DEF MyFailedAt
        <4> QED
          BY <1>1, <3>2, <4>1
      <3>3. CASE sets # <<>> /\ ~sets[Len(sets)].done
        <4>1. at = Len(sets) - 1 /\ MyFailedAt(sets) = Len(sets) + 0
          BY <2>1, <3>3 DEF MyFailedAt
        <4> QED
          BY <1>1, <3>3, <4>1
      <3> QED
        BY <3>1, <3>2, <3>3
    <2>4. f \in MyFailures /\ f.at = at /\ f.kind = myWorker.end
      BY <1>4, <2>2, <2>3 DEF MyFailures
    <2>5. myWorker.end = "error" => <<myWorker.n, MyFailedAt(sets)>> \notin MyTouched
      BY DEF MyInv, MyRemains
    <2>6. f.kind \notin {"none", "interrupted"}
      BY <1>4, <2>4
    <2>7. f.kind = "error" => myWorker.end = "error" /\ <<myWorker.n, f.at + 1>> \notin MyTouched
      BY <2>3, <2>4, <2>5
    <2>8. sets # <<>> => ~sets[Len(sets)].done \/ (f.at = Len(sets) /\ f.at > 0)
      BY <1>1, <2>3, <2>4
    <2>9. f.at <= Len(sets) /\ f.kind # "none"
      BY <2>3, <2>4, <2>6
    <2> QED
      BY <2>4, <2>7, <2>8, <2>9
  <1> QED
    BY <1>1, <1>2, <1>3, <1>4 DEF MyWorkers

LEMMA MyFinishStep ==
    ASSUME MyInv, MyFinish
    PROVE  MyInv' /\ MyPromised
  <1> DEFINE sets == myResult.sets
             script == myWorker.script
  <1>1. /\ myWorker.step = "finish" /\ MyBusy /\ UNCHANGED myCaller /\ MyTypes
        /\ myServer \in MyServers /\ myWorker \in MyWorkers /\ myLink \in MyLinks /\ myResult \in MyResults
        /\ myCancelled \subseteq MyHandles /\ myCancelled' \subseteq myCancelled
        /\ myCaller \in MyCallers
        /\ ~myServer.open => myServer.work = {}
    BY DEF MyFinish, MyBusy, MyInv, MyTypes, MyHolds
  <1>2. /\ MyEffect \in MyEffects /\ MyKind \in MyKinds /\ Len(sets) \in Nat /\ sets \in Seq(MySetType)
        /\ myCaller.op \notin {"commit", "rollback", "edit"} /\ myWorker.n # 0
    BY <1>1, MyRunning
  <1>3. PICK f : f = MyFailure
    OBVIOUS
  <1>4. /\ f \in MyFailures /\ f.at <= Len(sets)
        /\ f.kind = "none" => Len(sets) = Len(script) /\ sets[Len(sets)].final
        /\ f.kind = "error" => myWorker.end = "error" /\ <<myWorker.n, f.at + 1>> \notin MyTouched
        /\ sets # <<>> => \/ f.kind \in {"none", "interrupted"} \/ ~sets[Len(sets)].done
                          \/ f.at = Len(sets) /\ f.at > 0
    BY <1>1, <1>3, MyFailureFacts
  <1>5. PICK new : new = IF f.kind # "none" /\ f.at > 0 THEN [sets EXCEPT ![f.at].more = TRUE] ELSE sets
    OBVIOUS
  <1>6. /\ new \in Seq(MySetType) /\ Len(new) = Len(sets)
        /\ \A i \in 1..Len(sets) : /\ new[i].done = sets[i].done /\ new[i].final = sets[i].final
                                   /\ sets[i].more => new[i].more
        /\ f.kind # "none" /\ f.at > 0 => new[f.at].more
    <2>1. CASE f.kind # "none" /\ f.at > 0
      <3>1. f.at \in 1..Len(sets)
        BY <1>2, <1>4, <2>1 DEF MyFailures
      <3>2. PICK set : set = [sets[f.at] EXCEPT !.more = TRUE]
        OBVIOUS
      <3>3. sets[f.at] \in MySetType
        BY <1>2, <3>1
      <3>4. set \in MySetType /\ set.done = sets[f.at].done /\ set.final = sets[f.at].final /\ set.more
        BY <3>2, <3>3 DEF MySetType
      <3>5. new = [sets EXCEPT ![f.at] = set]
        BY <1>5, <2>1, <3>2
      <3> QED
        BY <1>2, <3>1, <3>4, <3>5
    <2>2. CASE ~(f.kind # "none" /\ f.at > 0)
      BY <1>2, <1>5, <2>2
    <2> QED
      BY <2>1, <2>2
  <1>7. myResult' \in MyResults /\ myResult'.sets = new /\ myResult'.done = TRUE /\ myResult'.failure = f
    <2>1. myResult' = [myResult EXCEPT !.done = TRUE, !.failure = f, !.sets = new]
      BY <1>3, <1>5 DEF MyFinish
    <2> QED
      BY <1>1, <1>4, <1>6, <2>1 DEF MyResults
  <1>8. /\ myWorker' \in MyWorkers /\ UNCHANGED <<myWorker.n, myWorker.script>>
        /\ myWorker'.step = "none" /\ myWorker'.drain = "no" /\ myWorker'.end = "none"
    BY <1>1 DEF MyFinish, MyWorkers
  <1>9. /\ myLink' \in MyLinks /\ myLink'.at # "worker" /\ myServer' \in MyServers
        /\ myServer'.running = "nothing" /\ (~myServer'.open => myServer'.work = {})
        /\ myLink'.at = "session" => myCaller.op # "gone" /\ MySane'
        /\ MyTouched \subseteq MyTouched' /\ MyTouched' \subseteq MyTouched \cup {MyEffect}
        /\ (myWorker.end = "error" => MyTouched' = MyTouched)
        /\ MyTouched' # MyTouched => MyEffect[1] <= myCaller.executed
        /\ MyGrid \notin myServer'.work \cup myServer'.undone
        /\ MyMoves
    <2>1. /\ MyGrid \notin myServer.work \cup myServer.undone
          /\ myWorker.end # "lost" => MySane /\ myServer.running = "nothing"
      BY <1>1 DEF MyInv, MyRemains, MyHolds
    <2>2. CASE MyReusable /\ myCaller.op # "gone" /\ myLink' = [myLink EXCEPT !.at = "session"] /\ UNCHANGED myServer
      <3>1. myLink' \in MyLinks /\ myLink'.at = "session" /\ myLink'.known = myLink.known
        BY <1>1, <2>2 DEF MyLinks
      <3>2. MySane' /\ myServer.running = "nothing"
        BY <2>1, <2>2, <3>1 DEF MyReusable, MySane, MyTruth
      <3> QED
        BY <1>1, <2>1, <2>2, <3>1, <3>2 DEF MyTouched, MyMoves
    <2>3. CASE myLink' = [myLink EXCEPT !.at = "closed"] /\ myServer' \in MyHangUp(myServer)
      <3>1. myLink' \in MyLinks /\ myLink'.at = "closed"
        BY <1>1, <2>3 DEF MyLinks
      <3>2. PICK t \in MyHangUp(myServer) : myServer' = t
        BY <2>3
      <3>3. /\ t \in MyServers /\ t.work = {} /\ ~t.open /\ t.running = "nothing"
            /\ \/ t.saved = myServer.saved /\ t.undone = myServer.undone \cup myServer.work
               \/ /\ myServer.running = "statement" /\ MyKind \in {"begin", "commit"}
                  /\ t.saved = myServer.saved \cup myServer.work /\ t.undone = myServer.undone
               \/ /\ myServer.running = "statement" /\ MyKind = "write" /\ ~myServer.open
                  /\ t.saved = myServer.saved \cup {MyEffect} /\ t.undone = myServer.undone
        BY <1>1, <1>2, <3>2, MyGoneFacts
      <3>4. CASE t.saved = myServer.saved /\ t.undone = myServer.undone \cup myServer.work
        <4>1. MyMoves
          BY <3>2, <3>3, <3>4 DEF MyMoves, MyPromise!TakeBack
        <4>2. MyTouched' = MyTouched
          BY <3>2, <3>3, <3>4 DEF MyTouched
        <4> QED
          BY <2>1, <3>1, <3>2, <3>3, <3>4, <4>1, <4>2
      <3>5. CASE /\ myServer.running = "statement" /\ MyKind \in {"begin", "commit"}
                 /\ t.saved = myServer.saved \cup myServer.work /\ t.undone = myServer.undone
        <4>1. MyWant = "all"
          BY <1>1, <3>5, MyAtWork
        <4>2. MyMoves
          BY <3>2, <3>3, <3>5, <4>1 DEF MyMoves, MyPromise!SaveAll
        <4>3. MyTouched' = MyTouched
          BY <3>2, <3>3, <3>5 DEF MyTouched
        <4> QED
          BY <2>1, <3>1, <3>2, <3>3, <3>5, <4>2, <4>3
      <3>6. CASE /\ myServer.running = "statement" /\ MyKind = "write" /\ ~myServer.open
                 /\ t.saved = myServer.saved \cup {MyEffect} /\ t.undone = myServer.undone
        <4>1. MyWant = "one" /\ MyEffect \notin MyTouched /\ MyEffect[1] <= myCaller.executed
          BY <1>1, <3>6, MyAtWork
        <4>2. MyMoves
          <5>1. MyPromise!New(MyEffect) /\ myServer.work = {}
            BY <1>1, <3>6, <4>1 DEF MyPromise!New, MyTouched
          <5> QED
            BY <1>2, <3>2, <3>3, <3>6, <4>1, <5>1 DEF MyMoves, MyPromise!SaveOne
        <4>3. MyTouched' = MyTouched \cup {MyEffect}
          BY <1>1, <3>2, <3>3, <3>6 DEF MyTouched
        <4>4. myWorker.end # "error"
          BY <2>1, <3>6
        <4> QED
          BY <2>1, <3>1, <3>2, <3>3, <3>6, <4>1, <4>2, <4>3, <4>4
      <3> QED
        BY <3>3, <3>4, <3>5, <3>6
    <2> QED
      BY <2>2, <2>3 DEF MyFinish
  <1>10. MyTypes'
    BY <1>1, <1>7, <1>8, <1>9 DEF MyTypes
  <1>11. ~MyBusy'
    BY <1>8 DEF MyBusy
  <1>12. MyHolds'
    BY <1>1, <1>2, <1>7, <1>8, <1>9, <1>11 DEF MyHolds
  <1>13. MyFollows'
    BY <1>11 DEF MyFollows
  <1>14. MyRemains'
    <2>1. \A e \in MyTouched' : e[1] <= myCaller'.executed
      BY <1>1, <1>9 DEF MyInv, MyRemains
    <2>2. myResult'.failure.kind = "error" => <<myWorker'.n, myResult'.failure.at + 1>> \notin MyTouched'
      BY <1>4, <1>7, <1>8, <1>9
    <2> QED
      BY <1>1, <1>2, <1>7, <1>8, <1>9, <1>11, <2>1, <2>2 DEF MyRemains
  <1>15. MyShows'
    <2>1. Len(new) = Len(sets) /\ Len(sets) <= Len(script) /\ f.at <= Len(new)
      BY <1>4, <1>6 DEF MyInv, MyShows
    <2>2. \A i \in 1..Len(new) :
            /\ new[i].final => new[i].done /\ (new[i].more \/ i = Len(script))
            /\ i < Len(new) => new[i].final
            /\ new[i].done /\ script[i] = "write" => <<myWorker.n, i>> \in MyTouched'
      BY <1>6, <1>9 DEF MyInv, MyShows
    <2>3. f.kind = "none" => Len(new) = Len(script)
      BY <1>4, <1>6
    <2>4. new # <<>> => \/ new[Len(new)].final \/ ~new[Len(new)].done \/ new[Len(new)].more
                        \/ f.kind = "interrupted"
      <3>1. new # <<>> => sets # <<>> /\ Len(sets) \in 1..Len(sets)
        BY <1>2, <1>6
      <3> QED
        BY <1>4, <1>6, <3>1
    <2>5. myCaller.op = "reading" => myCaller.cursor /\ myCaller.set + 1 \in 1..Len(sets) /\ sets[myCaller.set + 1].done
      BY <1>1, <1>2 DEF MyInv, MyShows, MyCallers
    <2>6. /\ myCaller.told = "end" => Len(new) = Len(script)
          /\ myCaller.op = "execute" => myCaller.set = 0 /\ myCaller.told = "nothing"
          /\ myCaller.cursor => myCaller.set + 1 <= Len(new)
          /\ myCaller.op = "reading" => myCaller.cursor /\ new[myCaller.set + 1].done
      BY <1>6, <2>5 DEF MyInv, MyShows
    <2> QED
      BY <1>1, <1>7, <1>8, <2>1, <2>2, <2>3, <2>4, <2>6 DEF MyShows
  <1>16. MyPromised
    BY <1>1, <1>9, MySaysTruly
  <1> QED
    BY <1>10, <1>12, <1>13, <1>14, <1>15, <1>16 DEF MyInv

-----------------------------------------------------------------------------
LEMMA MyStarts == MyInit => MyInv /\ MyPromise!PromiseInit
  <1> SUFFICES ASSUME MyInit
               PROVE  MyInv /\ MyPromise!PromiseInit
    OBVIOUS
  <1>1. /\ myLink = [at |-> "session", known |-> "closed"]
        /\ myServer = [open |-> FALSE, work |-> {}, saved |-> {}, undone |-> {}, running |-> "nothing"]
        /\ myWorker = MyIdle /\ myCancelled = {} /\ myResult = MyNoResult
        /\ myCaller = [op |-> "idle", executed |-> 0, cursor |-> FALSE, set |-> 0,
                       told |-> "nothing", said |-> MyQuiet]
    BY DEF MyInit
  <1>2. <<>> \in Seq(MySetType) /\ <<>> \in Seq(MyKinds) /\ Len(<<>>) = 0 /\ 0 \in 0..MyExecutes
    BY MyAssumption
  <1>3. MyNoFailure \in MyFailures /\ MyNoFailure.kind = "none" /\ MyNoFailure.at = 0
    BY DEF MyNoFailure, MyFailures
  <1>4. /\ myResult \in MyResults /\ myResult.sets = <<>> /\ myResult.done
        /\ myResult.failure.kind = "none" /\ myResult.failure.at = 0
    BY <1>1, <1>2, <1>3 DEF MyNoResult, MyResults
  <1>5. /\ myWorker \in MyWorkers /\ myWorker.step = "none" /\ myWorker.drain = "no" /\ myWorker.script = <<>>
    BY <1>1, <1>2 DEF MyIdle, MyWorkers
  <1>6. myCaller \in MyCallers
    BY <1>1, <1>2, MyQuietSaid DEF MyCallers
  <1>7. MyTypes
    BY <1>1, <1>4, <1>5, <1>6 DEF MyTypes, MyLinks, MyServers
  <1>8. MyTouched = {} /\ ~MyBusy /\ MySane
    BY <1>1, <1>5 DEF MyTouched, MyBusy, MySane, MyTruth
  <1>9. MyHolds
    BY <1>1, <1>4, <1>5, <1>8 DEF MyHolds
  <1>10. MyFollows
    BY <1>8 DEF MyFollows
  <1>11. MyRemains
    BY <1>1, <1>4, <1>5, <1>8 DEF MyRemains
  <1>12. MyShows
    BY <1>1, <1>2, <1>4, <1>5 DEF MyShows
  <1>13. MyPromise!PromiseInit
    BY <1>1 DEF MyPromise!PromiseInit, MyPromise!Silence, MyWant, MyQuiet
  <1> QED
    BY <1>7, <1>9, <1>10, <1>11, <1>12, <1>13 DEF MyInv

LEMMA MyStays ==
    ASSUME MyInv, UNCHANGED myVars
    PROVE  MyInv'
  <1>1. UNCHANGED <<myLink, myServer, myWorker, myCancelled, myResult, myCaller>>
    BY DEF myVars
  <1>2. /\ MyTypes' = MyTypes /\ MyTouched' = MyTouched /\ MyBusy' = MyBusy /\ MySane' = MySane
        /\ MyKind' = MyKind /\ MyEffect' = MyEffect /\ MyFailedAt(myResult.sets)' = MyFailedAt(myResult.sets)
        /\ \A k : MyFresh(k)' = MyFresh(k)
    BY <1>1 DEF MyTypes, MyTouched, MyBusy, MySane, MyTruth, MyKind, MyEffect, MyFailedAt, MyFresh
  <1>3. MyHolds' /\ MyFollows'
    BY <1>1, <1>2 DEF MyInv, MyHolds, MyFollows
  <1>4. MyRemains'
    BY <1>1, <1>2 DEF MyInv, MyRemains
  <1>5. MyShows'
    BY <1>1, <1>2 DEF MyInv, MyShows
  <1> QED
    BY <1>2, <1>3, <1>4, <1>5 DEF MyInv

LEMMA MyNextStep ==
    ASSUME MyInv, [MyNext]_myVars, ~MyCatalogErrors
    PROVE  MyInv' /\ [MyPromised]_<<myServer.work, myServer.saved, myServer.undone, MyWant, myCaller.said>>
  <1>1. CASE UNCHANGED myVars
    <2>1. UNCHANGED <<myLink, myServer, myWorker, myCancelled, myResult, myCaller>>
      BY <1>1 DEF myVars
    <2>2. MyWant' = MyWant
      BY <2>1 DEF MyWant, MyKind
    <2> QED
      BY <1>1, <2>1, <2>2, MyStays
  <1>2. CASE MyNext
    <2>1. CASE \/ \E script \in MyScripts, manual \in BOOLEAN : MyExecute(script, manual)
               \/ \E n \in MyHandles : MyCancel(n)
               \/ \E op \in {"commit", "rollback", "edit"} : MyAsk(op)
               \/ MyRefuseExecute \/ MyStartFails \/ MyStarted \/ MyFetch \/ MyFetched \/ MyFetchFails
               \/ MyNextSet \/ MyCloseCursor \/ MyLeave \/ MyAsked \/ MyEdited \/ MyCatalog
      BY <2>1, MyExecuteStep, MyCancelStep, MyRefuseExecuteStep, MyReadStep, MyCursorStep, MyLeaveStep,
         MyAskedStep, MyEditedStep, MyCatalogStep
    <2>2. CASE \/ MyAdmit \/ MyPrepare \/ MyBegin \/ MyCheck \/ MyServerEnds \/ MyOpenSet \/ MyCloseSet
               \/ MyStatementFails \/ MySpoolFails \/ MyProbe \/ MyPing \/ MyInterrupt \/ MyKill
               \/ MyGiveUp \/ MyFinish
      BY <2>2, MyAdmitStep, MyPrepareStep, MyBeginStep, MyCheckStep, MyServerEndsStep, MyOpenSetStep,
         MyCloseSetStep, MyFailStep, MyProbeStep, MyPingStep, MyInterruptStep, MyKillStep, MyFinishStep
    <2> QED
      BY <1>2, <2>1, <2>2 DEF MyNext
  <1> QED
    BY <1>1, <1>2

LEMMA MyInvShows == MyInv => MyInStep
  <1>1. MyInv /\ myLink.at = "session" => myServer.running = "nothing"
    BY DEF MyInv, MyTypes, MyServers, MyHolds, MyBusy
  <1> QED
    BY <1>1 DEF MyInv, MyHolds, MySane, MyShows, MyInStep

\* A MySQL session does: no kill, deadline or lost answer saves work that nobody asked to save,
\* and a page, a failure or an end says of a statement what became of it.  (A catalog read does
\* not fail while a transaction is open: otherwise the driver starts another on top of it.)
THEOREM MyPromiseKept == ASSUME ~MyCatalogErrors PROVE MySpec => MyKeepsItsPromise
  <1>1. MyInit => MyInv /\ MyPromise!PromiseInit
    BY MyStarts
  <1>2. MyInv /\ [MyNext]_myVars => MyInv' /\ [MyPromise!PromiseNext]_(MyPromise!promiseVars)
    BY MyNextStep DEF MyPromised, MyPromise!promiseVars
  <1> QED
    BY <1>1, <1>2, PTL DEF MySpec, MyKeepsItsPromise, MyPromise!PromiseSpec

\* Whenever the session has its connection, every answer of the server has been read and what it
\* believes of its transaction is so or nothing; an end is told only after every statement.
THEOREM MyAnswersInStep == ASSUME ~MyCatalogErrors PROVE MySpec => []MyInStep
  <1>1. MyInit => MyInv
    BY MyStarts
  <1>2. MyInv /\ [MyNext]_myVars => MyInv'
    BY MyNextStep
  <1>3. MyInv => MyInStep
    BY MyInvShows
  <1> QED
    BY <1>1, <1>2, <1>3, PTL DEF MySpec

-----------------------------------------------------------------------------
(***************************************************************************)
(* The three of them, as the runs compose them.                            *)
(***************************************************************************)
SessionsInv == SqInv /\ PgInv /\ MyInv

LEMMA SessionsStart == MCInit => SessionsInv
  BY SqStarts, PgStarts, MyStarts DEF MCInit, SessionsInv

\* One of the sessions acts and the others do not.
LEMMA OneActs ==
    [MCNext]_mcVars => [SqNext]_sqVars /\ [PgNext]_pgVars /\ [MyNext]_myVars
  BY DEF MCNext, mcVars

\* What each session relies on: the commit of grid changes succeeds in SQLite, and no catalog
\* read fails inside of a transaction in the other two.
Undisturbed == ~SqEditCommitFails /\ ~PgCatalogErrors /\ ~MyCatalogErrors

LEMMA SessionsStep ==
    ASSUME Undisturbed
    PROVE  SessionsInv /\ [MCNext]_mcVars => SessionsInv'
  BY SqStep, PgStep, MyNextStep, OneActs DEF Undisturbed, SessionsInv

\* A result that was stopped, by the user or a deadline, while its statement was suspended in a
\* transaction of its own is never saved afterwards: not by the command that closes the cursor,
\* not by the next statement and not by the end of the connection (the cancellation checks of
\* PostgreSQL's portal worker and SQLite's cursor loop).
THEOREM StoppedStaysUndone == ASSUME Undisturbed PROVE MCSpec => []StoppedIsUndone
  <1>1. SessionsInv => StoppedIsUndone
    BY DEF SessionsInv, SqInv, SqStops, SqStoppedIsUndone, PgInv, PgStops, PgStoppedIsUndone,
           StoppedIsUndone
  <1> QED
    BY <1>1, SessionsStart, SessionsStep, PTL DEF MCSpec

\* The MySQL session's connection and what it believes of it are in step (lend and settle of
\* driver-mysql's runtime), as above, in the composition that the runs check.
THEOREM SessionsAreInStep == ASSUME Undisturbed PROVE MCSpec => []MyInStep
  <1>1. SessionsInv => MyInStep
    BY MyInvShows DEF SessionsInv
  <1> QED
    BY <1>1, SessionsStart, SessionsStep, PTL DEF MCSpec

\* Each driver implements the session that the connection actor relies on.
THEOREM SessionsKeepPromises == ASSUME Undisturbed PROVE MCSpec => SessionsKeepTheirPromise
  <1>1. MCInit => SqPromise!PromiseInit /\ PgPromise!PromiseInit /\ MyPromise!PromiseInit
    BY SqStarts, PgStarts, MyStarts DEF MCInit
  <1>2. SessionsInv /\ [MCNext]_mcVars => [SqPromise!PromiseNext]_(SqPromise!promiseVars)
    BY SqStep, OneActs DEF Undisturbed, SessionsInv, SqPromised, SqPromise!promiseVars
  <1>3. SessionsInv /\ [MCNext]_mcVars => [PgPromise!PromiseNext]_(PgPromise!promiseVars)
    BY PgStep, OneActs DEF Undisturbed, SessionsInv, PgPromised, PgPromise!promiseVars
  <1>4. SessionsInv /\ [MCNext]_mcVars => [MyPromise!PromiseNext]_(MyPromise!promiseVars)
    BY MyNextStep, OneActs DEF Undisturbed, SessionsInv, MyPromised, MyPromise!promiseVars
  <1> QED
    BY <1>1, <1>2, <1>3, <1>4, SessionsStart, SessionsStep, PTL
       DEF MCSpec, SessionsKeepTheirPromise, SqKeepsItsPromise, SqPromise!PromiseSpec,
           PgKeepsItsPromise, PgPromise!PromiseSpec, MyKeepsItsPromise, MyPromise!PromiseSpec

=============================================================================
