------------------------------ MODULE MCRecords ------------------------------
(* Instances of the parts that write down what happened: the actor of a      *)
(* connection with its history tickets, for two statements and for a         *)
(* statement beside an object, and the diagnostics that two processes share. *)
(* One of the parts acts in each behaviour.                                  *)
EXTENDS MCQueryActor, DiagnosticsLog

CONSTANTS q3, d1, d2

VARIABLE part

recordsVars == <<vars, dgVars, part>>

RecordsInit == part \in {"statements", "objects", "diagnostics"} /\ Init /\ DgInit

\* Two statements, one after the other or the one instead of the other; and a statement beside an
\* object, which alone is released.
Asked(ops) == \A i \in DOMAIN commands' : commands'[i].op \in ops
TwoStatements ==
    /\ (q2 \in issued' => q1 \in issued') /\ q3 \notin issued'
    /\ Asked({"Execute", "NextResult", "Release"}) /\ ~halted'
BesideAnObject ==
    /\ issued' \subseteq {q1, q3} /\ released' \subseteq {q3}
    /\ Asked((QueryOps \cup SessionOps) \ {"NextResult"}) /\ (open /\ ~open' => events' # events)

RecordsNext ==
    \/ part = "statements" /\ Next /\ TwoStatements /\ UNCHANGED <<dgVars, part>>
    \/ part = "objects" /\ Next /\ BesideAnObject /\ UNCHANGED <<dgVars, part>>
    \/ part = "diagnostics" /\ DgNext /\ UNCHANGED <<vars, part>>

RecordsSpec == RecordsInit /\ [][RecordsNext]_recordsVars

\* The processes are alike.
Processes == Permutations({d1, d2})

\* The states of all parts are of their types.
RecordsTypeOK == IF part = "diagnostics" THEN DgTypeOK ELSE TypeOK
=============================================================================
