------------------------------- MODULE HostTrust -------------------------------
(***************************************************************************)
(* The approval of an SSH host key (driver-api/src/ssh_trust.rs and        *)
(* ssh_trust_store.rs, core/src/ssh_trust.rs): the approved key is         *)
(* appended to a known hosts file the user selected.  The file is opened,  *)
(* locked, read and written by a blocking worker, which goes on when the   *)
(* waiting approval has timed out or the engine has stopped; one atomic    *)
(* state decides whether it may still append.  Other programs write the    *)
(* file without the lock.  All records are those of one host.              *)
(***************************************************************************)
EXTENDS Integers, Sequences

CONSTANTS
    HtApprovals,
    HtKeys,
    HtForeign,      \* bound: records appended by other programs
    HtNobody        \* owns no lock and signs the records of others

ASSUME HtAssumption == HtNobody \notin HtApprovals

VARIABLES
    htFile,         \* the records, with who wrote them; a broken one has no key
    htLock,
    htKey,          \* per approval: the approved key
    htState,        \* per approval: ApprovalState
    htWaiter,       \* per approval: "idle", "waiting" or what it has reported
    htStage,        \* per approval: where the operation is
    htSeen          \* per approval: Prepared::original

htVars == <<htFile, htLock, htKey, htState, htWaiter, htStage, htSeen>>

NoKey == "broken"
Records == [key : HtKeys \cup {NoKey}, by : HtApprovals \cup {HtNobody}]
\* What a worker of the blocking pool does; between them the lookup runs in the waiting approval.
Blocking == {"opening", "comparing", "beginning", "writing", "completing"}

HtTypeOK ==
    /\ htFile \in Seq(Records) /\ htLock \in HtApprovals \cup {HtNobody}
    /\ htKey \in [HtApprovals -> HtKeys]
    /\ htState \in [HtApprovals -> {"open", "appending", "complete", "cancelled"}]
    /\ htWaiter \in [HtApprovals -> {"idle", "waiting", "approved", "unknown", "failed", "silent"}]
    /\ htStage \in [HtApprovals -> Blocking \cup {"none", "validating", "looking"}]
    /\ htSeen \in [HtApprovals -> Seq(Records)]

HtInit ==
    /\ htFile = <<>> /\ htLock = HtNobody
    /\ htKey \in [HtApprovals -> HtKeys]
    /\ htState = [i \in HtApprovals |-> "open"] /\ htWaiter = [i \in HtApprovals |-> "idle"]
    /\ htStage = [i \in HtApprovals |-> "none"] /\ htSeen = [i \in HtApprovals |-> <<>>]

Stage(i, stage) == htStage' = [htStage EXCEPT ![i] = stage]
\* The file and with it the lock are closed.
Unlocked(i) == IF htLock = i THEN HtNobody ELSE htLock
\* The operation is over: its worker ends, and the approval reports if it still waits.
Ends(i, report) ==
    /\ Stage(i, "none") /\ htLock' = Unlocked(i)
    /\ htWaiter' = [htWaiter EXCEPT ![i] = IF @ = "waiting" THEN report ELSE @]
    /\ htSeen' = [htSeen EXCEPT ![i] = <<>>]

HtSubmit(i) ==
    /\ htWaiter[i] = "idle" /\ htWaiter' = [htWaiter EXCEPT ![i] = "waiting"]
    /\ Stage(i, "validating")
    /\ UNCHANGED <<htFile, htLock, htKey, htState, htSeen>>

\* The fingerprint is not the expected one, or is not that of the key.
HtInvalid(i) ==
    /\ htStage[i] = "validating" /\ Ends(i, "failed")
    /\ UNCHANGED <<htFile, htKey, htState>>

HtValid(i) ==
    /\ htStage[i] = "validating" /\ Stage(i, "opening")
    /\ UNCHANGED <<htFile, htLock, htKey, htState, htWaiter, htSeen>>

\* prepare: ensure_open, the lock, and the records as they are.
HtPrepare(i) ==
    /\ htStage[i] = "opening" /\ htState[i] = "open" /\ htLock = HtNobody
    /\ htSeen' = [htSeen EXCEPT ![i] = htFile]
    /\ IF htWaiter[i] = "waiting" THEN htLock' = i /\ Stage(i, "looking")
       ELSE htLock' = htLock /\ Stage(i, "none")
    /\ UNCHANGED <<htFile, htKey, htState, htWaiter>>

\* The file is not what it has to be, or the approval was cancelled while it waited for the lock.
HtNotPrepared(i) ==
    /\ htStage[i] = "opening" /\ Ends(i, "failed")
    /\ UNCHANGED <<htFile, htKey, htState>>

\* The records of the host in what was read: the same key is there already, another one is never
\* replaced, none at all is appended.
HtLook(i) ==
    LET keys == {htSeen[i][n].key : n \in DOMAIN htSeen[i]}
    IN /\ htStage[i] = "looking"
       /\ \/ keys = {} /\ Stage(i, "comparing") /\ UNCHANGED <<htLock, htWaiter, htSeen>>
          \/ keys = {htKey[i]} /\ Ends(i, "approved")
          \/ keys \notin {{}, {htKey[i]}} /\ Ends(i, "failed")
          \/ Ends(i, "failed")
       /\ UNCHANGED <<htFile, htKey, htState>>

\* Under the lock, before anything is written.
HtCompare(i) ==
    /\ htStage[i] = "comparing"
    /\ \/ /\ htFile = htSeen[i] /\ htState[i] = "open" /\ Stage(i, "beginning")
          /\ UNCHANGED <<htLock, htWaiter, htSeen>>
       \/ (htFile # htSeen[i] \/ htState[i] # "open") /\ Ends(i, "failed")
    /\ UNCHANGED <<htFile, htKey, htState>>

\* begin_append
HtBegin(i) ==
    /\ htStage[i] = "beginning"
    /\ \/ /\ htState[i] = "open" /\ htState' = [htState EXCEPT ![i] = "appending"]
          /\ Stage(i, "writing") /\ UNCHANGED <<htLock, htWaiter, htSeen>>
       \/ htState[i] # "open" /\ htState' = htState /\ Ends(i, "failed")
    /\ UNCHANGED <<htFile, htKey>>

\* The record is written and synced; or an error leaves nothing, a part or all of it
\* (a part without the whole name of the host is as nothing).
HtWrite(i) ==
    /\ htStage[i] = "writing"
    /\ \/ /\ htFile' = Append(htFile, [key |-> htKey[i], by |-> i]) /\ Stage(i, "completing")
          /\ UNCHANGED <<htLock, htWaiter, htSeen>>
       \/ /\ \E key \in {htKey[i], NoKey} :
                htFile' \in {htFile, Append(htFile, [key |-> key, by |-> i])}
          /\ Ends(i, "unknown")
    /\ UNCHANGED <<htKey, htState>>

HtComplete(i) ==
    /\ htStage[i] = "completing" /\ htState' = [htState EXCEPT ![i] = "complete"]
    /\ Ends(i, "approved")
    /\ UNCHANGED <<htFile, htKey>>

\* The waiting future is dropped; what a worker does goes on, the rest is over.
Abandoned(i, report) ==
    /\ htWaiter' = [htWaiter EXCEPT ![i] = report]
    /\ IF htStage[i] \in Blocking THEN UNCHANGED <<htStage, htLock, htSeen>>
       ELSE Stage(i, "none") /\ htLock' = Unlocked(i) /\ htSeen' = [htSeen EXCEPT ![i] = <<>>]

\* ApprovalState::cancel
Cancelled(i) == htState' = [htState EXCEPT ![i] = IF @ = "open" THEN "cancelled" ELSE @]

\* As it would be if the deadline did not cancel the worker.
HtTimeoutAlone(i) ==
    /\ htWaiter[i] = "waiting"
    /\ Abandoned(i, CASE htState[i] = "appending" -> "unknown" [] htState[i] = "complete" -> "approved"
                      [] OTHER -> "failed")
    /\ UNCHANGED <<htFile, htKey, htState>>

\* The deadline of an approval; an append that has begun is not called back.
HtTimeout(i) ==
    /\ htWaiter[i] = "waiting" /\ Cancelled(i)
    /\ Abandoned(i, CASE htState[i] = "appending" -> "unknown" [] htState[i] = "complete" -> "approved"
                      [] OTHER -> "failed")
    /\ UNCHANGED <<htFile, htKey>>

\* The engine stops: the guard cancels, and nothing is reported.
HtShutdown(i) ==
    /\ htWaiter[i] = "waiting" /\ Cancelled(i) /\ Abandoned(i, "silent")
    /\ UNCHANGED <<htFile, htKey>>

\* ssh itself, or an editor.
HtOther(key) ==
    /\ Len(SelectSeq(htFile, LAMBDA record : record.by = HtNobody)) < HtForeign
    /\ htFile' = Append(htFile, [key |-> key, by |-> HtNobody])
    /\ UNCHANGED <<htLock, htKey, htState, htWaiter, htStage, htSeen>>

HtNext ==
    \/ \E i \in HtApprovals :
          \/ HtSubmit(i) \/ HtInvalid(i) \/ HtValid(i) \/ HtPrepare(i) \/ HtNotPrepared(i) \/ HtLook(i)
          \/ HtCompare(i) \/ HtBegin(i) \/ HtWrite(i) \/ HtComplete(i) \/ HtTimeout(i) \/ HtShutdown(i)
    \/ \E key \in HtKeys : HtOther(key)

HtSpec == HtInit /\ [][HtNext]_htVars

-----------------------------------------------------------------------------
(* Properties.                                                             *)

By(i) == {n \in DOMAIN htFile : htFile[n].by = i}

\* An approval that is reported as approved is in the file; one that is reported as failed, by an
\* error, a deadline or the end of the engine before an append began, is not there and is never
\* written later by a worker that was slow.  Two approvals never both write: the second finds the
\* record of the first, and either agrees with it or is refused.
HtSaysTheTruth ==
    /\ \A i \in HtApprovals :
          /\ htWaiter[i] = "approved" => \E n \in DOMAIN htFile : htFile[n].key = htKey[i]
          /\ htWaiter[i] = "failed" \/ htState[i] \in {"open", "cancelled"} =>
                By(i) = {} /\ htStage[i] \notin {"writing", "completing"}
    /\ \A i, j \in HtApprovals : i # j => By(i) = {} \/ By(j) = {}
=============================================================================
