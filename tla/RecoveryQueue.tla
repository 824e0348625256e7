---------------------------- MODULE RecoveryQueue ----------------------------
(***************************************************************************)
(* Requests for the saved workspace, the history and the preferences       *)
(* (core/src/recovery.rs).  One of them at a time is with the storage      *)
(* worker; the others wait in the engine, and the next one goes out when   *)
(* the engine's caller reads the answer (core/src/lib.rs, try_event).  The *)
(* worker's channel and the event channel are shared with everything else  *)
(* the storage worker does (core/src/profiles.rs).                         *)
(*                                                                         *)
(* Requests are numbered in the order in which they were accepted.         *)
(***************************************************************************)
EXTENDS Integers, Sequences, FiniteSets

CONSTANTS
    RqRequests,     \* bound: requests accepted
    RqOtherJobs,    \* bound: jobs of other kinds
    RqWaiting,      \* MAX_WAITING_RECOVERY_REQUESTS
    RqBytes,        \* MAX_WAITING_RECOVERY_BYTES: large requests cost 2, small ones 0
    RqJobs,         \* the capacity of the storage worker's channel
    RqEvents        \* the capacity of the event channel

ASSUME RqAssumption == RqRequests \in Nat

VARIABLES
    rqInFlight, rqWaiting, rqBytes, rqFailed,   \* Queue
    rqJobs,         \* the storage worker's channel: request numbers, 0 for other jobs
    rqWorker,       \* the answer the worker waits to send, if any
    rqGone,         \* the worker's thread has ended
    rqEvents,       \* the event channel
    rqCost,         \* the cost of each accepted request
    rqAnswers,      \* what the caller has read
    rqOthers,       \* other jobs so far
    rqShutdown,     \* Engine::initiate_shutdown
    rqAdvancing     \* the caller is in advance_recovery, under the queue's lock

rqVars == <<rqInFlight, rqWaiting, rqBytes, rqFailed, rqJobs, rqWorker, rqEvents, rqCost,
            rqAnswers, rqOthers, rqShutdown, rqAdvancing, rqGone>>

Other == 0
\* An answer: to which request, and whether it failed.
Answer == [number : Other..RqRequests, failed : BOOLEAN]

RqTypeOK ==
    /\ {rqInFlight, rqShutdown, rqAdvancing, rqGone} \subseteq BOOLEAN
    /\ rqOthers \in 0..RqOtherJobs
    /\ rqWaiting \in Seq(1..RqRequests) /\ Len(rqWaiting) <= RqWaiting
    /\ rqBytes \in 0..RqBytes /\ rqCost \in Seq({0, 2})
    /\ rqJobs \in Seq(0..RqRequests) /\ Len(rqJobs) <= RqJobs
    /\ rqWorker \in Seq(Answer) /\ Len(rqWorker) <= 1
    /\ rqEvents \in Seq(Answer) /\ Len(rqEvents) <= RqEvents
    /\ rqFailed \in Seq(Answer) /\ rqAnswers \in Seq(1..RqRequests)

RqInit ==
    /\ rqInFlight = FALSE /\ rqWaiting = <<>> /\ rqBytes = 0 /\ rqFailed = <<>>
    /\ rqJobs = <<>> /\ rqWorker = <<>> /\ rqGone = FALSE /\ rqEvents = <<>> /\ rqCost = <<>>
    /\ rqAnswers = <<>> /\ rqOthers = 0 /\ rqShutdown = FALSE
    /\ rqAdvancing = FALSE

-----------------------------------------------------------------------------
\* try_send: refused when the channel is full, or the worker is gone.
RqCanSend(jobs) == Len(jobs) < RqJobs /\ ~rqGone

RqNumber == Len(rqCost) + 1

\* submit_recovery behind a request that is with the worker; a full queue refuses.
RqWait(cost) ==
    /\ rqInFlight /\ Len(rqWaiting) < RqWaiting /\ cost <= RqBytes - rqBytes
    /\ rqBytes' = rqBytes + cost /\ rqWaiting' = Append(rqWaiting, RqNumber)
    /\ UNCHANGED <<rqJobs, rqInFlight>>

\* submit_recovery with no request at the worker; a full channel refuses.
RqSend ==
    /\ ~rqInFlight /\ RqCanSend(rqJobs)
    /\ rqJobs' = Append(rqJobs, RqNumber) /\ rqInFlight' = TRUE
    /\ UNCHANGED <<rqWaiting, rqBytes>>

RqSubmit(cost) ==
    /\ ~rqShutdown /\ ~rqAdvancing /\ RqNumber <= RqRequests /\ rqCost' = Append(rqCost, cost)
    /\ RqWait(cost) \/ RqSend
    /\ UNCHANGED <<rqFailed, rqWorker, rqEvents, rqAnswers, rqOthers, rqShutdown, rqAdvancing, rqGone>>

\* A profile command, a history write or a navigator cache job.
RqOtherJob ==
    /\ RqCanSend(rqJobs) /\ rqOthers < RqOtherJobs /\ rqOthers' = rqOthers + 1
    /\ rqJobs' = Append(rqJobs, Other)
    /\ UNCHANGED <<rqInFlight, rqWaiting, rqBytes, rqFailed, rqWorker, rqEvents, rqCost,
                   rqAnswers, rqShutdown, rqAdvancing, rqGone>>

\* The worker's loop and execute: the storage operation succeeds or fails.  A job of another
\* kind may end without an event.
RqWork ==
    /\ rqWorker = <<>> /\ ~rqShutdown /\ rqJobs # <<>> /\ rqJobs' = Tail(rqJobs)
    /\ \/ \E failed \in BOOLEAN :
            rqWorker' = <<[number |-> Head(rqJobs), failed |-> failed]>>
       \/ Head(rqJobs) = Other /\ UNCHANGED rqWorker
    /\ UNCHANGED <<rqInFlight, rqWaiting, rqBytes, rqFailed, rqEvents, rqCost, rqAnswers,
                   rqOthers, rqShutdown, rqAdvancing, rqGone>>

\* The answer waits for room in the event channel.
RqReply ==
    /\ rqWorker # <<>> /\ ~rqShutdown /\ Len(rqEvents) < RqEvents
    /\ rqEvents' = rqEvents \o rqWorker /\ rqWorker' = <<>>
    /\ UNCHANGED <<rqInFlight, rqWaiting, rqBytes, rqFailed, rqJobs, rqCost, rqAnswers,
                   rqOthers, rqShutdown, rqAdvancing, rqGone>>

\* The worker looks at the shutdown first; what it held or had not received is dropped.
RqStop ==
    /\ rqShutdown /\ ~rqGone /\ rqGone' = TRUE /\ rqWorker' = <<>> /\ rqJobs' = <<>>
    /\ UNCHANGED <<rqInFlight, rqWaiting, rqBytes, rqFailed, rqEvents, rqCost, rqAnswers,
                   rqOthers, rqShutdown, rqAdvancing>>

RqShutdown ==
    /\ ~rqShutdown /\ rqShutdown' = TRUE
    /\ UNCHANGED <<rqInFlight, rqWaiting, rqBytes, rqFailed, rqJobs, rqWorker, rqEvents, rqCost,
                   rqAnswers, rqOthers, rqAdvancing, rqGone>>

-----------------------------------------------------------------------------
(* The caller of the engine reads events; &mut self keeps submissions out until it is done. *)

RqIsResponseUnlessFailed(event) == event.number # Other /\ ~event.failed
\* try_event: the events that end a request, RecoveryFailed among them.
RqIsResponse(event) == event.number # Other

\* try_event: failures kept by the engine come first and do not advance the queue.
RqTakeFailure ==
    /\ ~rqAdvancing /\ rqFailed # <<>> /\ rqFailed' = Tail(rqFailed)
    /\ rqAnswers' = Append(rqAnswers, Head(rqFailed).number)
    /\ UNCHANGED <<rqInFlight, rqWaiting, rqBytes, rqJobs, rqWorker, rqEvents, rqCost, rqOthers,
                   rqShutdown, rqAdvancing, rqGone>>

RqTakeEvent ==
    /\ ~rqAdvancing /\ rqFailed = <<>> /\ rqEvents # <<>>
    /\ rqEvents' = Tail(rqEvents) /\ rqAdvancing' = RqIsResponse(Head(rqEvents))
    /\ rqAnswers' = IF Head(rqEvents).number = Other THEN rqAnswers
                    ELSE Append(rqAnswers, Head(rqEvents).number)
    /\ UNCHANGED <<rqInFlight, rqWaiting, rqBytes, rqFailed, rqJobs, rqWorker, rqCost, rqOthers,
                   rqShutdown, rqGone>>

RqPop ==
    /\ rqAdvancing /\ rqWaiting # <<>> /\ rqWaiting' = Tail(rqWaiting)
    /\ rqBytes' = rqBytes - rqCost[Head(rqWaiting)]

\* advance_recovery: the next request goes to the worker ...
RqPass ==
    /\ RqPop /\ RqCanSend(rqJobs)
    /\ rqJobs' = Append(rqJobs, Head(rqWaiting)) /\ rqAdvancing' = FALSE
    /\ UNCHANGED <<rqInFlight, rqFailed, rqWorker, rqEvents, rqCost, rqAnswers, rqOthers,
                   rqShutdown, rqGone>>

RqFailLast ==
    /\ RqPop /\ ~RqCanSend(rqJobs)
    /\ rqFailed' = <<[number |-> Head(rqWaiting), failed |-> TRUE]>> \o rqFailed
    /\ UNCHANGED <<rqInFlight, rqJobs, rqWorker, rqEvents, rqCost, rqAnswers, rqOthers,
                   rqShutdown, rqAdvancing, rqGone>>

\* ... or fails, and the one behind it is tried ...
RqFail ==
    /\ RqPop /\ ~RqCanSend(rqJobs)
    /\ rqFailed' = Append(rqFailed, [number |-> Head(rqWaiting), failed |-> TRUE])
    /\ UNCHANGED <<rqInFlight, rqJobs, rqWorker, rqEvents, rqCost, rqAnswers, rqOthers,
                   rqShutdown, rqAdvancing, rqGone>>

\* ... until none is left.
RqRest ==
    /\ rqAdvancing /\ rqWaiting = <<>> /\ rqAdvancing' = FALSE /\ rqInFlight' = FALSE
    /\ UNCHANGED <<rqWaiting, rqBytes, rqFailed, rqJobs, rqWorker, rqEvents, rqCost, rqAnswers,
                   rqOthers, rqShutdown, rqGone>>

RqRead == RqTakeFailure \/ RqTakeEvent \/ RqPass \/ RqFail \/ RqRest

RqNext ==
    \/ \E cost \in {0, 2} : RqSubmit(cost)
    \/ RqOtherJob \/ RqWork \/ RqReply \/ RqStop \/ RqShutdown \/ RqRead

\* The worker's thread keeps running, and the caller keeps reading events.
RqFairness ==
    /\ WF_rqVars(RqWork) /\ WF_rqVars(RqReply) /\ WF_rqVars(RqStop) /\ WF_rqVars(RqRead)

RqSpec == RqInit /\ [][RqNext]_rqVars /\ RqFairness

-----------------------------------------------------------------------------
RqOutstanding ==
    {n \in 1..RqRequests :
        \/ \E i \in DOMAIN rqJobs : rqJobs[i] = n
        \/ \E i \in DOMAIN rqWorker : rqWorker[i].number = n
        \/ \E i \in DOMAIN rqEvents : rqEvents[i].number = n}

\* The large ones among the requests that wait.
RqLarge == {n \in DOMAIN rqCost : rqCost[n] = 2 /\ \E i \in DOMAIN rqWaiting : rqWaiting[i] = n}

\* Requests are answered in the order in which they were accepted, none twice and none skipped,
\* also when the shared channel was full and some of them failed in the engine
\* (recovery.rs: "answered in submission order within a count and byte budget").  While the
\* engine lives, the queue says that a request is with the worker exactly while one is, never
\* more than one, nothing waits behind nobody, and the byte budget is what waits.
RqAnsweredInOrder ==
    /\ \A i \in DOMAIN rqAnswers : rqAnswers[i] = i
    /\ ~rqGone =>
        /\ Cardinality(RqOutstanding) <= 1
        /\ ~rqAdvancing => (rqInFlight <=> RqOutstanding # {})
        /\ ~rqInFlight => rqWaiting = <<>>
        /\ rqBytes = 2 * Cardinality(RqLarge)

\* Every accepted request is answered unless the engine is shut down, whatever else keeps the
\* storage worker and its channel busy: time and again none is outstanding.
RqAnswered == []<>(Len(rqAnswers) = Len(rqCost) \/ rqShutdown)
=============================================================================
