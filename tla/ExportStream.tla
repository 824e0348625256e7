----------------------------- MODULE ExportStream -----------------------------
(***************************************************************************)
(* The export of an original result to a file: the run of the connection   *)
(* actor (core/src/actor/export.rs), the streaming export and its file     *)
(* sink (export/src/service.rs, chunked.rs) and the store of the pages     *)
(* that were fetched before (result-store/src/lib.rs).  The source reads   *)
(* the stored pages and continues on the cursor of the query; each read    *)
(* runs as a task of its own that holds cursor and store, also after a     *)
(* cancellation has dropped the exporter that waited for it.               *)
(*                                                                         *)
(* Every page has one row with one value.  What is written is a sequence   *)
(* of <<page, character>>; character 0 stands for what precedes the value  *)
(* of a row and the character after the last for what follows it.  A write *)
(* that is dropped half done is followed by the abort of the file, so one  *)
(* write is one step.                                                      *)
(***************************************************************************)
EXTENDS Integers, Sequences
LOCAL INSTANCE SequencesExt
LOCAL INSTANCE Folds

CONSTANTS
    XpPages,        \* pages of the whole result
    XpWidths,       \* the widths in bytes of the characters of a value
    XpChunk,        \* MAX_VALUE_CHUNK_BYTES
    XpDeferred,     \* the pages whose value is deferred
    XpExports       \* bound: exports of the result, one after another

ASSUME XpAssumption ==
    /\ XpPages \in Nat \ {0} /\ XpWidths \in Seq(1..XpChunk) /\ XpChunk \in Nat \ {0}
    /\ XpDeferred \subseteq 1..XpPages /\ XpExports \in Nat

VARIABLES
    xpPhase,    \* where run is
    xpStop,     \* the watch that stops a fetch
    xpCancel,   \* Cancellation::cancelled
    xpAt,       \* who holds State: "actor", "source", "task" or "lost"
    xpStore,    \* State::store
    xpCursor,   \* State::active
    xpPoisoned,
    xpTask,     \* Source::pending: what the read is about to do, or its result
    xpIndex, xpDone,    \* Source::index and done
    xpRow,      \* the row that is being written
    xpFile,     \* the temporary file
    xpDest,     \* the file at the destination
    xpEvent, xpCount

xpVars == <<xpPhase, xpStop, xpCancel, xpAt, xpStore, xpCursor, xpPoisoned, xpTask, xpIndex, xpDone,
            xpRow, xpFile, xpDest, xpEvent, xpCount>>
XpSignals == <<xpStop, xpCancel>>
XpState == <<xpAt, xpStore, xpCursor, xpPoisoned>>
XpSource == <<xpIndex, xpDone, xpRow>>
XpFiles == <<xpFile, xpDest>>
XpEnd == <<xpEvent, xpCount>>

Tokens == (0..XpPages + 1) \X (0..Len(XpWidths) + 1)
Quiet == [step |-> "none", page |-> 0]

XpTypeOK ==
    /\ xpPhase \in {"idle", "waiting", "streaming", "closing", "finishing", "aborting", "settling", "done"}
    /\ xpStop \in BOOLEAN /\ xpCancel \in BOOLEAN /\ xpPoisoned \in BOOLEAN /\ xpDone \in BOOLEAN
    /\ xpAt \in {"actor", "source", "task", "lost"}
    /\ xpStore \in [pages : Seq(1..XpPages), complete : BOOLEAN, poisoned : BOOLEAN]
    /\ xpCursor \in [state : {"open", "completed", "none"}, next : 0..XpPages]
    /\ xpTask \in [step : {"none", "read", "fetch", "append", "page", "end", "error", "panic"},
                   page : 0..XpPages]
    /\ xpIndex \in 0..XpPages
    /\ xpRow \in [page : 0..XpPages, offset : Nat, carry : Nat]
    /\ xpFile \in Seq(Tokens) /\ xpDest \in Seq(Tokens)
    /\ xpEvent \in {"none", "finished", "failed"} /\ xpCount \in 0..XpExports

NoRow == [page |-> 0, offset |-> 0, carry |-> 0]
HasMore(page) == page < XpPages
Prefix(n) == [p \in 1..n |-> p]

\* The query has fetched some pages; its cursor is open, complete, or closed before or after the end.
XpInit ==
    /\ xpPhase = "idle" /\ xpStop = FALSE /\ xpCancel = FALSE
    /\ xpAt = "actor" /\ xpPoisoned = FALSE
    /\ \E n \in 0..XpPages, cursor \in {"open", "completed", "none"} :
          /\ cursor = "open" => n < XpPages
          /\ cursor = "completed" => n = XpPages
          /\ xpStore = [pages |-> Prefix(n), complete |-> n = XpPages, poisoned |-> FALSE]
          /\ xpCursor = [state |-> cursor, next |-> n]
    /\ xpTask = Quiet /\ xpIndex = 0 /\ xpDone = FALSE /\ xpRow = NoRow
    /\ xpFile = <<>> /\ xpDest = <<>> /\ xpEvent = "none" /\ xpCount = 0

-----------------------------------------------------------------------------
(* Signals.                                                                *)

\* start_export; one export of a connection at a time.
XpStart ==
    /\ xpPhase \in {"idle", "done"} /\ ~xpPoisoned /\ xpCount < XpExports
    /\ xpPhase' = "waiting" /\ xpCount' = xpCount + 1
    /\ xpStop' = FALSE /\ xpCancel' = FALSE /\ xpEvent' = "none" /\ xpDest' = <<>>
    /\ UNCHANGED <<XpState, xpTask, XpSource, xpFile>>

Running == xpPhase \notin {"idle", "done"}

\* cancel_export
XpUserCancels ==
    /\ Running /\ ~xpCancel /\ xpCancel' = TRUE
    /\ UNCHANGED <<xpPhase, xpStop, XpState, xpTask, XpSource, XpFiles, XpEnd>>

\* The monitor: the query was cancelled or released, the engine stops, or the user cancelled.
XpMonitor ==
    /\ Running /\ ~xpStop /\ xpStop' = TRUE /\ xpCancel' = TRUE
    /\ UNCHANGED <<xpPhase, XpState, xpTask, XpSource, XpFiles, XpEnd>>

-----------------------------------------------------------------------------
(* The run of the actor.                                                   *)

Failing == /\ xpPhase' = "done" /\ xpEvent' = "failed"

\* No room for a page in time, or the schema cannot be read; the result stays where it is.
XpRefused ==
    /\ xpPhase = "waiting" /\ Failing
    /\ UNCHANGED <<XpSignals, XpState, xpTask, XpSource, XpFiles, xpCount>>

\* The temporary file beside the destination; without it nothing is exported.
XpBegin ==
    /\ xpPhase = "waiting"
    /\ xpAt' = "source" /\ xpIndex' = 0 /\ xpDone' = FALSE /\ xpRow' = NoRow
    /\ \/ xpPhase' = "streaming" /\ xpFile' = <<<<0, 0>>>>
       \/ xpPhase' = "settling" /\ xpFile' = <<>>
    /\ UNCHANGED <<XpSignals, xpStore, xpCursor, xpPoisoned, xpTask, xpDest, XpEnd>>

\* The state comes back from the read, if it has not been lost.
Settle ==
    /\ xpTask.step \notin {"read", "fetch", "append"} /\ xpTask' = Quiet
    /\ xpAt' = IF xpTask.step = "panic" THEN "lost" ELSE "source"

\* As it would be if the exporter did not wait for its last read.
XpReturnEarly ==
    /\ xpPhase = "settling" /\ xpTask' = Quiet
    /\ xpAt' = "actor" /\ xpPoisoned' = xpPoisoned
    /\ xpPhase' = "done" /\ xpEvent' = IF xpEvent = "finished" THEN "finished" ELSE "failed"
    /\ UNCHANGED <<XpSignals, xpStore, xpCursor, XpSource, XpFiles, xpCount>>

\* Ownership is recovered only after the native operation and the append have settled.
XpReturn ==
    /\ xpPhase = "settling" /\ xpTask.step \notin {"read", "fetch", "append"}
    /\ xpTask' = Quiet
    /\ LET lost == xpAt = "lost" \/ xpTask.step = "panic"
       IN /\ xpAt' = IF lost THEN "lost" ELSE "actor"
          /\ xpPoisoned' = (xpPoisoned \/ lost)
    /\ xpPhase' = "done" /\ xpEvent' = IF xpEvent = "finished" THEN "finished" ELSE "failed"
    /\ UNCHANGED <<XpSignals, xpStore, xpCursor, XpSource, XpFiles, xpCount>>

-----------------------------------------------------------------------------
(* The source.                                                             *)

\* next_page: the task takes the state.
XpNextPage ==
    LET n == Len(xpStore.pages)
        step == IF xpIndex < n THEN "read"
                ELSE IF xpCursor.state = "open" THEN "fetch"
                ELSE IF xpCursor.state = "completed" \/ (n > 0 /\ ~HasMore(xpStore.pages[n])) THEN "end"
                ELSE "error"
    IN /\ xpPhase = "streaming" /\ xpRow = NoRow /\ ~xpDone /\ xpTask = Quiet /\ xpAt = "source"
       /\ xpAt' = "task" /\ xpTask' = [step |-> step, page |-> 0]
       /\ UNCHANGED <<xpPhase, XpSignals, xpStore, xpCursor, xpPoisoned, XpSource, XpFiles, XpEnd>>

XpRead ==
    /\ xpTask.step = "read"
    /\ \/ xpTask' = [step |-> "page", page |-> xpStore.pages[xpIndex + 1]]
       \/ xpTask' = [step |-> "error", page |-> 0]
    /\ UNCHANGED <<xpPhase, XpSignals, XpState, XpSource, XpFiles, XpEnd>>

Closed == [xpCursor EXCEPT !.state = "none"]

\* perform: a page or an error of the driver, which closes the cursor.
XpFetch ==
    /\ xpTask.step = "fetch"
    /\ \/ /\ ~xpStop
          /\ xpCursor' = [xpCursor EXCEPT !.next = @ + 1]
          /\ xpTask' = [step |-> "append", page |-> xpCursor.next + 1]
       \/ xpCursor' = Closed /\ xpTask' = [step |-> "error", page |-> 0]
    /\ UNCHANGED <<xpPhase, XpSignals, xpAt, xpStore, xpPoisoned, XpSource, XpFiles, XpEnd>>

\* A fetch that is stopped: a page that still comes is dropped, and a driver that does not settle
\* in time spoils the connection.
XpFetchStopped ==
    /\ xpTask.step = "fetch" /\ xpStop
    /\ \E came \in {0, 1}, settled \in BOOLEAN :
          /\ xpCursor' = [Closed EXCEPT !.next = @ + came]
          /\ xpPoisoned' = ~settled
    /\ xpTask' = [step |-> "error", page |-> 0]
    /\ UNCHANGED <<xpPhase, XpSignals, xpAt, xpStore, XpSource, XpFiles, XpEnd>>

\* ResultStore::append: the next page and no other, up to the last; what could not be written whole
\* is cut off again, and a store that could not do that takes no more.
Appended(store, page) ==
    IF store.poisoned \/ store.complete \/ page # Len(store.pages) + 1 THEN {store}
    ELSE {[store EXCEPT !.pages = Append(@, page), !.complete = ~HasMore(page)],
          store, [store EXCEPT !.poisoned = TRUE]}

\* The page is kept before it is handed out; the last one completes the query.
XpAppend ==
    /\ xpTask.step = "append"
    /\ \E store \in Appended(xpStore, xpTask.page) :
          /\ xpStore' = store
          /\ IF Len(store.pages) > Len(xpStore.pages)
             THEN /\ xpTask' = [xpTask EXCEPT !.step = "page"]
                  /\ xpCursor' = IF HasMore(xpTask.page) THEN xpCursor
                                 ELSE [xpCursor EXCEPT !.state = "completed"]
             ELSE xpTask' = [step |-> "error", page |-> 0] /\ xpCursor' = Closed
    /\ UNCHANGED <<xpPhase, XpSignals, xpAt, xpPoisoned, XpSource, XpFiles, XpEnd>>

\* The task dies with the state it holds.
XpTaskPanics ==
    /\ xpTask.step \in {"read", "fetch", "append"} /\ xpTask' = [step |-> "panic", page |-> 0]
    /\ UNCHANGED <<xpPhase, XpSignals, XpState, XpSource, XpFiles, XpEnd>>

\* What the waiting exporter makes of the result.
XpPage ==
    /\ xpPhase = "streaming" /\ xpTask.step = "page" /\ Settle
    /\ xpIndex' = xpIndex + 1 /\ xpDone' = ~HasMore(xpTask.page)
    /\ xpRow' = [page |-> xpTask.page, offset |-> 0, carry |-> 0]
    /\ UNCHANGED <<xpPhase, XpSignals, xpStore, xpCursor, xpPoisoned, XpFiles, XpEnd>>

XpNoPage ==
    /\ xpPhase = "streaming" /\ xpTask.step \in {"end", "error", "panic"} /\ Settle
    /\ xpDone' = (xpTask.step = "end")
    /\ xpPhase' = IF xpTask.step = "end" THEN "streaming" ELSE "aborting"
    /\ UNCHANGED <<XpSignals, xpStore, xpCursor, xpPoisoned, xpIndex, xpRow, XpFiles, XpEnd>>

-----------------------------------------------------------------------------
(* The stream.                                                             *)

\* The bytes of a value up to the end of its n-th character.
EndOf(n) == FoldLeft(+, 0, SubSeq(XpWidths, 1, n))
ValueBytes == EndOf(Len(XpWidths))
\* The characters that begin and end between two offsets.
Characters(from, to) ==
    SelectSeq([n \in 1..Len(XpWidths) |-> n], LAMBDA n : EndOf(n - 1) >= from /\ EndOf(n) <= to)
Written(page, characters) == [n \in 1..Len(characters) |-> <<page, characters[n]>>]
Behind == Len(XpWidths) + 1

WriteOf(tokens) == xpFile' = xpFile \o tokens

\* A row whose value is at hand.
XpRowWritten ==
    /\ xpPhase = "streaming" /\ xpRow # NoRow /\ xpRow.page \notin XpDeferred
    /\ WriteOf(Written(xpRow.page, [n \in 1..Behind + 1 |-> n - 1]))
    /\ xpRow' = NoRow
    /\ UNCHANGED <<xpPhase, XpSignals, XpState, xpTask, xpIndex, xpDone, xpDest, XpEnd>>

\* deferred: one chunk more.  The bytes of a character that is cut by the end of the chunk are
\* carried to the next one.
XpChunkWritten ==
    /\ xpPhase = "streaming" /\ xpRow # NoRow /\ xpRow.page \in XpDeferred
    /\ \E size \in 0..XpChunk :
          LET offset == xpRow.offset + size
              ready == Characters(xpRow.offset - xpRow.carry, offset)
              rest == xpRow.carry + size - FoldLeft(+, 0, [n \in 1..Len(ready) |-> XpWidths[ready[n]]])
              before == IF xpRow.offset = 0 THEN <<0>> ELSE <<>>
              end == offset = ValueBytes
          IN /\ offset <= ValueBytes /\ (size = 0 => end)
             /\ WriteOf(Written(xpRow.page, before \o ready \o (IF end THEN <<Behind>> ELSE <<>>)))
             /\ xpRow' = IF end THEN NoRow ELSE [xpRow EXCEPT !.offset = offset, !.carry = rest]
    /\ UNCHANGED <<xpPhase, XpSignals, XpState, xpTask, xpIndex, xpDone, xpDest, XpEnd>>

\* A page or value over its budget, a value that cannot be exported, a chunk that is not the one
\* that was asked for, or a write that fails.
XpStreamFails ==
    /\ xpPhase = "streaming" /\ xpTask = Quiet /\ xpPhase' = "aborting"
    /\ UNCHANGED <<XpSignals, XpState, xpTask, XpSource, XpFiles, XpEnd>>

\* Cancellation drops the stream wherever it waits.
XpCancelled ==
    /\ xpPhase = "streaming" /\ xpCancel /\ xpPhase' = "aborting"
    /\ UNCHANGED <<XpSignals, XpState, xpTask, XpSource, XpFiles, XpEnd>>

XpFooter ==
    /\ xpPhase = "streaming" /\ xpDone /\ xpRow = NoRow
    /\ WriteOf(<<<<XpPages + 1, 0>>>>) /\ xpPhase' = "closing"
    /\ UNCHANGED <<XpSignals, XpState, xpTask, XpSource, xpDest, XpEnd>>

\* The last look at the cancellation.
XpClose ==
    /\ xpPhase = "closing" /\ xpPhase' = IF xpCancel THEN "aborting" ELSE "finishing"
    /\ UNCHANGED <<XpSignals, XpState, xpTask, XpSource, XpFiles, XpEnd>>

\* FileSink::finish: synced, then renamed over the destination, or neither.
XpFinish ==
    /\ xpPhase = "finishing"
    /\ \/ xpDest' = xpFile /\ xpPhase' = "settling" /\ xpEvent' = "finished"
       \/ xpDest' = xpDest /\ xpPhase' = "aborting" /\ xpEvent' = xpEvent
    /\ xpFile' = <<>>
    /\ UNCHANGED <<XpSignals, XpState, xpTask, XpSource, xpCount>>

XpAbort ==
    /\ xpPhase = "aborting" /\ xpPhase' = "settling" /\ xpFile' = <<>>
    /\ UNCHANGED <<XpSignals, XpState, xpTask, XpSource, xpDest, XpEnd>>

XpNext ==
    \/ XpStart \/ XpUserCancels \/ XpMonitor \/ XpRefused \/ XpBegin \/ XpReturn
    \/ XpNextPage \/ XpRead \/ XpFetch \/ XpFetchStopped \/ XpAppend \/ XpTaskPanics
    \/ XpPage \/ XpNoPage \/ XpRowWritten \/ XpChunkWritten \/ XpStreamFails \/ XpCancelled
    \/ XpFooter \/ XpClose \/ XpFinish \/ XpAbort

XpSpec == XpInit /\ [][XpNext]_xpVars

-----------------------------------------------------------------------------
(* Properties.                                                             *)

Expected ==
    <<<<0, 0>>>>
    \o FlattenSeq([p \in 1..XpPages |-> Written(p, [n \in 1..Behind + 1 |-> n - 1])])
    \o <<<<XpPages + 1, 0>>>>

\* An export that is reported as finished has put the whole result at the destination, every page
\* in its order and every character once, whichever pages came from the store or the cursor and
\* however values were cut into chunks; one that is reported as failed has left the destination as
\* it was.  And when the run is over the query has its result back: no page that its open cursor
\* has delivered is missing in the store, unless the connection is given up.
XpWholeOrNothing ==
    /\ xpDest = (IF xpEvent = "finished" THEN Expected ELSE <<>>)
    /\ xpPhase = "done" =>
          /\ xpEvent # "none" /\ xpFile = <<>>
          /\ xpPoisoned \/ (xpAt = "actor" /\ xpStore.pages = Prefix(Len(xpStore.pages))
                            /\ (xpCursor.state # "none" => Len(xpStore.pages) = xpCursor.next))
          /\ xpPoisoned => xpStop \/ xpAt = "lost"
=============================================================================
