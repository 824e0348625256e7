---------------------------- MODULE DiagnosticsLog ----------------------------
(***************************************************************************)
(* The local diagnostics (diagnostics/src/service.rs).  Every process that *)
(* runs the application queues records without touching the disk; a writer *)
(* thread of its own moves them to the day file in the folder that all the *)
(* processes share under a lock file.  Queue and file are bounded: routine *)
(* records go before failure records, and what goes is counted, in memory  *)
(* first and then in the folder.  A marker file stands for a process that  *)
(* has not stopped; the next start finds the markers of dead ones.         *)
(*                                                                         *)
(* A step under the lock file is one step here: a process that is killed   *)
(* in the middle of it loses what it counted, as one killed before it.     *)
(***************************************************************************)
EXTENDS Integers, Sequences
LOCAL INSTANCE SequencesExt
LOCAL INSTANCE FiniteSetsExt

CONSTANTS
    DgProcesses,
    DgQueue,        \* MAX_QUEUE
    DgDay,          \* MAX_DAY_BYTES, in units of the smallest record
    DgRescued,      \* how many failure records a writer without the lock still tries to save
    DgReports,      \* how many unclean exits one start reports
    DgRecords,      \* bound: records that are offered
    DgCrashes,      \* bound: processes that are killed
    DgClears        \* bound: Service::clear

VARIABLES
    dgPending,      \* per process: Queue::pending
    dgFlags,        \* per process: the other fields of Queue
    dgHand,         \* per process: the record the writer has taken
    dgWriter,       \* per process: "none", "running" or "ended"
    dgUnsynced,     \* per process: dropped - synced_dropped
    dgStarting,     \* per process: the stale markers its start has removed
    dgFile,         \* the day file
    dgStats,        \* stats.json
    dgStale,        \* markers of dead processes
    dgOffered, dgKilled, dgCleared,
    dgBooked,       \* records a running process has taken over, and those counted as dropped though
                    \* kept, without what DgNothingVanishes lists; the code keeps no such number
    dgReported      \* unclean exits that were queued

dgVars == <<dgPending, dgFlags, dgHand, dgWriter, dgUnsynced, dgStarting, dgFile, dgStats, dgStale,
            dgOffered, dgKilled, dgCleared, dgBooked, dgReported>>

\* A memory sample is longer than the others.
Kinds == {"routine", "sample", "failure", "unclean"}
\* high_value
HighValue(kind) == kind \in {"failure", "unclean"}
Size(kind) == IF kind = "sample" THEN 2 ELSE 1
BytesOf(records) == FoldSeq(LAMBDA kind, sum : sum + Size(kind), 0, records)

Fields == [accepting : BOOLEAN, starting : BOOLEAN, running : BOOLEAN, stopping : BOOLEAN,
           marker : BOOLEAN]

DgTypeOK ==
    /\ dgPending \in [DgProcesses -> Seq(Kinds)] /\ dgFlags \in [DgProcesses -> Fields]
    /\ dgHand \in [DgProcesses -> Seq(Kinds)]
    /\ dgWriter \in [DgProcesses -> {"none", "running", "ended"}]
    /\ dgUnsynced \in [DgProcesses -> Nat] /\ dgStarting \in [DgProcesses -> Nat]
    /\ dgFile \in Seq(Kinds) /\ BytesOf(dgFile) <= DgDay
    /\ {dgStats, dgStale, dgOffered, dgKilled, dgCleared, dgBooked, dgReported} \subseteq Nat

\* Service::new
NewProcess == [accepting |-> TRUE, starting |-> FALSE, running |-> FALSE, stopping |-> FALSE,
               marker |-> FALSE]

DgInit ==
    /\ dgPending = [i \in DgProcesses |-> <<>>] /\ dgFlags = [i \in DgProcesses |-> NewProcess]
    /\ dgHand = [i \in DgProcesses |-> <<>>] /\ dgWriter = [i \in DgProcesses |-> "none"]
    /\ dgUnsynced = [i \in DgProcesses |-> 0] /\ dgStarting = [i \in DgProcesses |-> 0]
    /\ dgFile = <<>> /\ dgStats = 0 /\ dgStale = 0
    /\ dgOffered = 0 /\ dgKilled = 0 /\ dgCleared = 0 /\ dgBooked = 0 /\ dgReported = 0

DgFolder == <<dgFile, dgStats, dgStale>>
DgCounts == <<dgKilled, dgCleared>>

-----------------------------------------------------------------------------
(* Records.                                                                *)

Accepts(i) == (dgFlags[i].running \/ dgFlags[i].starting \/ dgFlags[i].accepting) /\ ~dgFlags[i].stopping

\* The first routine record of a full queue makes room for a failure, else the oldest one.
Evicted(queue) ==
    LET routine == {n \in DOMAIN queue : ~HighValue(queue[n])}
    IN RemoveAt(queue, IF routine = {} THEN 1 ELSE CHOOSE n \in routine : \A m \in routine : n <= m)

\* record.  What was dropped before the start is forgotten by it.
DgRecord(i, kind) ==
    LET full == Len(dgPending[i]) >= DgQueue
    IN /\ Accepts(i) /\ dgOffered < DgRecords /\ dgOffered' = dgOffered + 1
       /\ dgPending' = [dgPending EXCEPT ![i] =
              IF ~full THEN Append(@, kind)
              ELSE IF HighValue(kind) THEN Append(Evicted(@), kind) ELSE @]
       /\ dgUnsynced' = [dgUnsynced EXCEPT ![i] = @ + (IF full THEN 1 ELSE 0)]
       /\ dgBooked' = dgBooked + (IF dgFlags[i].running THEN 1 ELSE 0)
       /\ UNCHANGED <<dgFlags, dgHand, dgWriter, dgStarting, DgFolder, DgCounts, dgReported>>

-----------------------------------------------------------------------------
(* Starting.                                                               *)

\* start, also after one that failed; a process that has stopped is over (a bound).
DgBegin(i) ==
    /\ ~dgFlags[i].running /\ ~dgFlags[i].starting /\ dgWriter[i] = "none"
    /\ dgFlags' = [dgFlags EXCEPT ![i].starting = TRUE, ![i].stopping = FALSE]
    /\ UNCHANGED <<dgPending, dgHand, dgWriter, dgUnsynced, dgStarting, DgFolder, dgOffered,
                   DgCounts, dgBooked, dgReported>>

\* The folder, its lock, the marker or a thread is not to be had; what waits is discarded, and the
\* markers of dead processes that were removed already are never reported.
DgStartFails(i) ==
    /\ dgFlags[i].starting
    /\ dgFlags' = [dgFlags EXCEPT ![i] = [NewProcess EXCEPT !.accepting = FALSE]]
    /\ dgPending' = [dgPending EXCEPT ![i] = <<>>] /\ dgStarting' = [dgStarting EXCEPT ![i] = 0]
    /\ dgStale' \in IF dgFlags[i].marker THEN {dgStale} ELSE {dgStale, 0}
    /\ UNCHANGED <<dgHand, dgWriter, dgUnsynced, dgFile, dgStats, dgOffered, DgCounts, dgBooked,
                   dgReported>>

\* Under the lock: the markers of dead processes go, and one of its own is written.
DgMark(i) ==
    /\ dgFlags[i].starting /\ ~dgFlags[i].marker
    /\ dgStarting' = [dgStarting EXCEPT ![i] = dgStale] /\ dgStale' = 0
    /\ dgFlags' = [dgFlags EXCEPT ![i].marker = TRUE]
    /\ UNCHANGED <<dgPending, dgHand, dgWriter, dgUnsynced, dgFile, dgStats, dgOffered, DgCounts,
                   dgBooked, dgReported>>

\* The writer starts; the unclean exits beyond a number are only counted.
DgRun(i) ==
    LET reported == IF dgStarting[i] < DgReports THEN dgStarting[i] ELSE DgReports
        queue == dgPending[i] \o [n \in 1..reported |-> "unclean"] \o <<"routine">>
    IN /\ dgFlags[i].starting /\ dgFlags[i].marker
       /\ dgFlags' = [dgFlags EXCEPT ![i] = [@ EXCEPT !.starting = FALSE, !.accepting = FALSE,
                                                      !.running = TRUE, !.stopping = FALSE]]
       /\ dgPending' = [dgPending EXCEPT ![i] = queue]
       /\ dgWriter' = [dgWriter EXCEPT ![i] = "running"]
       /\ dgUnsynced' = [dgUnsynced EXCEPT ![i] = dgStarting[i] - reported]
       /\ dgBooked' = dgBooked + Len(queue) + dgStarting[i] - reported
       /\ dgReported' = dgReported + dgStarting[i]
       /\ dgStarting' = [dgStarting EXCEPT ![i] = 0]
       /\ UNCHANGED <<dgHand, DgFolder, dgOffered, DgCounts>>

-----------------------------------------------------------------------------
(* The writer.                                                             *)

DgTake(i) ==
    /\ dgWriter[i] = "running" /\ dgHand[i] = <<>> /\ dgPending[i] # <<>>
    /\ dgHand' = [dgHand EXCEPT ![i] = <<Head(dgPending[i])>>]
    /\ dgPending' = [dgPending EXCEPT ![i] = Tail(@)]
    /\ UNCHANGED <<dgFlags, dgWriter, dgUnsynced, dgStarting, DgFolder, dgOffered, DgCounts,
                   dgBooked, dgReported>>

\* append_bounded: who makes room in a file that is full, in this order.
Victims(file, kind) ==
    LET all == [n \in 1..Len(file) |-> n]
    IN SelectSeq(all, LAMBDA n : ~HighValue(file[n]))
       \o IF HighValue(kind) THEN SelectSeq(all, LAMBDA n : HighValue(file[n])) ELSE <<>>
Without(file, gone) ==
    LET left == SelectSeq([n \in 1..Len(file) |-> n], LAMBDA n : n \notin gone)
    IN [n \in 1..Len(left) |-> file[left[n]]]
Shrunk(file, kind, n) == Without(file, ToSet(SubSeq(Victims(file, kind), 1, n)))
\* As it would be if the file were measured without what is appended to it.
FittingBefore(file, kind) ==
    {n \in 0..Len(Victims(file, kind)) : BytesOf(Shrunk(file, kind, n)) <= DgDay}
\* How many may go for the record to fit in the day.
Fitting(file, kind) ==
    {n \in 0..Len(Victims(file, kind)) : BytesOf(Shrunk(file, kind, n)) + Size(kind) <= DgDay}

AppendUncounted(file, kind) ==
    IF Fitting(file, kind) = {} THEN {[file |-> file, dropped |-> 1, kept |-> 0]}
    ELSE LET n == CHOOSE n \in Fitting(file, kind) : \A m \in Fitting(file, kind) : n <= m
         IN {[file |-> Append(Shrunk(file, kind, n), kind), dropped |-> 0, kept |-> 0]}

\* What the file becomes, and how many records are counted as dropped for it: those that make
\* room, also when it is not enough or the file cannot be replaced and they are kept, and the
\* record itself when it is not written; none but this one when the file cannot be read.
AppendBounded(file, kind) ==
    IF Fitting(file, kind) = {}
    THEN {[file |-> file, dropped |-> n + 1, kept |-> n] : n \in {0, Len(Victims(file, kind))}}
    ELSE LET n == CHOOSE n \in Fitting(file, kind) : \A m \in Fitting(file, kind) : n <= m
         IN {[file |-> Append(Shrunk(file, kind, n), kind), dropped |-> n, kept |-> 0],
             [file |-> Shrunk(file, kind, n), dropped |-> n + 1, kept |-> 0],
             [file |-> file, dropped |-> n + 1, kept |-> n], [file |-> file, dropped |-> 1, kept |-> 0]}

\* sync_dropped: the folder's count, and what is left to be synced. stats.json may not be writable;
\* and read_dropped takes one it cannot read or understand for 0, which is then overwritten, so
\* that the counts in it are forgotten.
Syncs(dropped) ==
    {[stats |-> dgStats, left |-> dropped, forgotten |-> 0]}
    \cup {[stats |-> read + dropped, left |-> 0, forgotten |-> dgStats - read] :
             read \in IF dropped = 0 THEN {dgStats} ELSE {dgStats, 0}}
Synced(i, sync) == dgStats' = sync.stats /\ dgUnsynced' = [dgUnsynced EXCEPT ![i] = sync.left]

DgWrite(i) ==
    /\ dgHand[i] # <<>> /\ dgHand' = [dgHand EXCEPT ![i] = <<>>]
    /\ \E result \in AppendBounded(dgFile, dgHand[i][1]) :
       \E sync \in Syncs(dgUnsynced[i] + result.dropped) :
          /\ dgFile' = result.file /\ Synced(i, sync)
          /\ dgBooked' = dgBooked + result.kept - sync.forgotten
    /\ UNCHANGED <<dgPending, dgFlags, dgWriter, dgStarting, dgStale, dgOffered, DgCounts,
                   dgReported>>

\* A memory sample soon after another one is not saved, and not counted.
DgSkipSample(i) ==
    /\ dgHand[i] = <<"sample">> /\ dgHand' = [dgHand EXCEPT ![i] = <<>>]
    /\ \E sync \in Syncs(dgUnsynced[i]) :
          Synced(i, sync) /\ dgBooked' = dgBooked - 1 - sync.forgotten
    /\ UNCHANGED <<dgPending, dgFlags, dgWriter, dgStarting, dgFile, dgStale, dgOffered, DgCounts,
                   dgReported>>

\* The lock was not to be had: all that waits is dropped but the first failures, for which the
\* lock is tried once more.
DgBacklog(i) ==
    LET backlog == dgHand[i] \o dgPending[i]
        failures == SelectSeq(backlog, HighValue)
        rescued == SubSeq(failures, 1, IF Len(failures) < DgRescued THEN Len(failures) ELSE DgRescued)
        dropped == dgUnsynced[i] + Len(backlog) - Len(rescued)
    IN /\ dgHand[i] # <<>> /\ dgHand' = [dgHand EXCEPT ![i] = <<>>]
       /\ dgPending' = [dgPending EXCEPT ![i] = <<>>]
       /\ \/ /\ Len(rescued) = 0 /\ UNCHANGED dgFile
             /\ \E sync \in Syncs(dropped) : Synced(i, sync) /\ dgBooked' = dgBooked - sync.forgotten
          \/ /\ Len(rescued) = 1
             /\ \E result \in AppendBounded(dgFile, rescued[1]) :
                \E sync \in Syncs(dropped + result.dropped) :
                   /\ dgFile' = result.file /\ Synced(i, sync)
                   /\ dgBooked' = dgBooked + result.kept - sync.forgotten
          \/ /\ dgUnsynced' = [dgUnsynced EXCEPT ![i] = dropped + Len(rescued)]
             /\ UNCHANGED <<dgFile, dgStats, dgBooked>>
       /\ UNCHANGED <<dgFlags, dgWriter, dgStarting, dgStale, dgOffered, DgCounts, dgReported>>

DgWriterEnds(i) ==
    /\ dgWriter[i] = "running" /\ dgHand[i] = <<>> /\ dgPending[i] = <<>> /\ dgFlags[i].stopping
    /\ dgWriter' = [dgWriter EXCEPT ![i] = "ended"]
    /\ UNCHANGED <<dgPending, dgFlags, dgHand, dgUnsynced, dgStarting, DgFolder, dgOffered,
                   DgCounts, dgBooked, dgReported>>

-----------------------------------------------------------------------------
(* Stopping, clearing and dying.                                           *)

\* stop, once the writer can be told...
DgStop(i) ==
    /\ dgFlags[i].running /\ ~dgFlags[i].stopping
    /\ dgFlags' = [dgFlags EXCEPT ![i].stopping = TRUE]
    /\ dgPending' = [dgPending EXCEPT ![i] = Append(@, "routine")]
    /\ dgBooked' = dgBooked + 1
    /\ UNCHANGED <<dgHand, dgWriter, dgUnsynced, dgStarting, DgFolder, dgOffered, DgCounts,
                   dgReported>>

\* ... and after it has ended. What the last sync does not save, or the lock that is not had does
\* not let it save, is gone with the process.
DgStopped(i) ==
    /\ dgFlags[i].stopping /\ dgWriter[i] = "ended"
    /\ dgFlags' = [dgFlags EXCEPT ![i] = [NewProcess EXCEPT !.accepting = FALSE]]
    /\ \E sync \in Syncs(dgUnsynced[i]) :
          Synced(i, [sync EXCEPT !.left = 0]) /\ dgBooked' = dgBooked - sync.left - sync.forgotten
    /\ UNCHANGED <<dgPending, dgHand, dgWriter, dgStarting, dgFile, dgStale, dgOffered, DgCounts,
                   dgReported>>

DgStopIdle(i) ==
    /\ ~dgFlags[i].running /\ ~dgFlags[i].starting /\ dgFlags[i].accepting
    /\ dgFlags' = [dgFlags EXCEPT ![i] = [NewProcess EXCEPT !.accepting = FALSE]]
    /\ dgPending' = [dgPending EXCEPT ![i] = <<>>]
    /\ UNCHANGED <<dgHand, dgWriter, dgUnsynced, dgStarting, DgFolder, dgOffered, DgCounts,
                   dgBooked, dgReported>>

\* flush: nothing waits and nothing is being written.
Flushed(i) == dgFlags[i].running /\ dgPending[i] = <<>> /\ dgHand[i] = <<>>

\* clear: the day file, then stats.json, then the counters; the markers of dead processes go
\* with them, unreported.
DgClear(i) ==
    /\ Flushed(i) /\ dgCleared < DgClears /\ dgCleared' = dgCleared + 1
    /\ dgFile' = <<>> /\ dgStale' = 0
    /\ \/ /\ dgStats' = 0 /\ dgUnsynced' = [dgUnsynced EXCEPT ![i] = 0]
          /\ dgBooked' = dgBooked - Len(dgFile) - dgStats - dgUnsynced[i]
       \/ /\ UNCHANGED <<dgStats, dgUnsynced>> /\ dgBooked' = dgBooked - Len(dgFile)
    /\ UNCHANGED <<dgPending, dgFlags, dgHand, dgWriter, dgStarting, dgOffered, dgKilled,
                   dgReported>>

\* Killed anywhere: what was in memory is gone; the next start of the application is a new process.
DgKill(i) ==
    /\ dgFlags[i].starting \/ dgFlags[i].running
    /\ dgKilled < DgCrashes /\ dgKilled' = dgKilled + 1
    /\ dgStale' = dgStale + (IF dgFlags[i].marker THEN 1 ELSE 0)
    /\ dgBooked' = IF dgFlags[i].running
                     THEN dgBooked - Len(dgPending[i]) - Len(dgHand[i]) - dgUnsynced[i]
                     ELSE dgBooked
    /\ dgPending' = [dgPending EXCEPT ![i] = <<>>] /\ dgHand' = [dgHand EXCEPT ![i] = <<>>]
    /\ dgFlags' = [dgFlags EXCEPT ![i] = NewProcess]
    /\ dgWriter' = [dgWriter EXCEPT ![i] = "none"]
    /\ dgUnsynced' = [dgUnsynced EXCEPT ![i] = 0] /\ dgStarting' = [dgStarting EXCEPT ![i] = 0]
    /\ UNCHANGED <<dgFile, dgStats, dgOffered, dgCleared, dgReported>>

DgNext ==
    \E i \in DgProcesses :
        \/ \E kind \in {"routine", "sample", "failure"} : DgRecord(i, kind)
        \/ DgBegin(i) \/ DgStartFails(i) \/ DgMark(i) \/ DgRun(i)
        \/ DgTake(i) \/ DgWrite(i) \/ DgSkipSample(i) \/ DgBacklog(i) \/ DgWriterEnds(i)
        \/ DgStop(i) \/ DgStopped(i) \/ DgStopIdle(i) \/ DgClear(i) \/ DgKill(i)

DgSpec == DgInit /\ [][DgNext]_dgVars

-----------------------------------------------------------------------------
(* Properties.                                                             *)

SumOver(Number(_), processes) == MapThenSumSet(Number, processes)

\* A record that a running process has taken over waits, is being written, is in the day file, or
\* is counted as dropped, in memory or in the folder, whatever two processes do to the folder and
\* however the queue, the file and the lock fail.  Only four things take records or counts away
\* unseen: a process that is killed, a clear, a stop whose last sync fails (its own count in
\* memory), and a sync over a stats.json that cannot be read (the folder's count).  And a process
\* that was killed is reported once at most, one that has stopped never, however the starts of
\* others interleave.
DgNothingVanishes ==
    LET running == {i \in DgProcesses : dgFlags[i].running}
        waiting == SumOver(LAMBDA i : Len(dgPending[i]) + Len(dgHand[i]), running)
        counted == dgStats + SumOver(LAMBDA i : dgUnsynced[i], running)
    IN /\ dgBooked = waiting + Len(dgFile) + counted
       /\ dgReported + dgStale + SumOver(LAMBDA i : dgStarting[i], DgProcesses) <= dgKilled

=============================================================================
