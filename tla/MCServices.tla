----------------------------- MODULE MCServices -----------------------------
(* Instances of the parts that work beside the connection actors, one of them *)
(* in each behaviour; a part that is not checked is never started, and its    *)
(* fairness then asks for nothing.                                            *)
EXTENDS HandleArena, PageMemory, RecoveryQueue, CatalogRoute, UpdateHelper, UpdateSession

CONSTANTS
    Parts,              \* the parts to be checked
    a, b, q1, q2, p1, p2, r1, r2

VARIABLE part
mcVars == <<part, vars, memoryVars, rqVars, crVars, uhVars, usVars>>

\* What the route of a connection starts with matters to one part only.
MCInit ==
    /\ part \in Parts /\ Init /\ MemoryInit /\ RqInit /\ CrInit /\ UhInit /\ UsInit
    /\ part # "catalog" => crRoute = [second |-> TRUE, transaction |-> FALSE]

MCNext ==
    /\ \/ part = "arena" /\ Next /\ UNCHANGED <<memoryVars, rqVars, crVars, uhVars, usVars>>
       \/ part = "memory" /\ MemoryNext /\ UNCHANGED <<vars, rqVars, crVars, uhVars, usVars>>
       \/ part = "recovery" /\ RqNext /\ UNCHANGED <<vars, memoryVars, crVars, uhVars, usVars>>
       \/ part = "catalog" /\ CrNext /\ UNCHANGED <<vars, memoryVars, rqVars, uhVars, usVars>>
       \/ part = "helper" /\ UhNext /\ UNCHANGED <<vars, memoryVars, rqVars, crVars, usVars>>
       \/ part = "updates" /\ UsNext /\ UNCHANGED <<vars, memoryVars, rqVars, crVars, uhVars>>
    /\ UNCHANGED part

MCSpec ==
    /\ MCInit /\ [][MCNext]_mcVars
    /\ MemoryFairness /\ RqFairness /\ CrFairness

\* The states of all parts are of their types.
ServicesTypeOK == TypeOK /\ MemoryTypeOK /\ RqTypeOK /\ CrTypeOK /\ UhTypeOK /\ UsTypeOK
=============================================================================
