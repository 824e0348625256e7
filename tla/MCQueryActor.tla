---------------------------- MODULE MCQueryActor ----------------------------
(* Small instances of QueryActor: one connection with one or two queries.  *)
EXTENDS QueryActor, TLC

CONSTANTS q1, q2

Alike == Permutations({q1, q2})

\* For the liveness properties: one statement or one object, one command, and a further result set
\* of a result that it has read.  The caller either disconnects, or shuts the engine down while a
\* statement may be running.
OneWayOut ==
    /\ halted' => (open /\ q2 \notin issued')
    /\ (open /\ ~open' /\ events' = events) => ~halted
    /\ (cancelled' # cancelled /\ released' = released) => sent = 0
    /\ (sent = 1 /\ sent' = 2) => (shown' # shown /\ cancelled = {} /\ ~halted)
LiveNext ==
    \/ CallerStep /\ OneWayOut
    \/ ForwardShutdown \/ Driven \/ Awaited
LiveSpec ==
    /\ Init /\ [][LiveNext]_vars
    /\ WF_vars(Driven) /\ WF_vars(ForwardShutdown) /\ WF_vars(Execute)
=============================================================================
