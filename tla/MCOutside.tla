------------------------------ MODULE MCOutside ------------------------------
(* Instances of the parts that deal with what lies outside of the engine:    *)
(* the sessions of the database servers, an exported file and the stored     *)
(* result behind it, SSH masters and listeners, a known hosts file, and the  *)
(* window that shows pages.  One of the parts acts in each behaviour.        *)
EXTENDS MCDrivers, ExportStream, SshSharing, HostTrust, PageTransfer, TLC

CONSTANTS
    Parts,              \* the parts to be checked, beside the drivers
    r1, r2, r3, k1, k2, k3, a1, a2, a3, h1, h2

outVars == <<mcVars, xpVars, shVars, htVars, ptVars>>

\* Who asks for what, but for names: two connections share a key and one has another key of its
\* kind, or they share a listener; and one approval of three is of another key.
OutInit ==
    /\ driver \in Drivers \cup Parts /\ MyInit /\ PgInit /\ SqInit
    /\ XpInit /\ ShInit /\ HtInit /\ PtInit
    /\ driver # "export" => xpCursor = [state |-> "open", next |-> 0]
    /\ shKey = (r1 :> k1 @@ r2 :> k1 @@ r3 :> k2) \/ (driver = "sharing" /\ shKey = (r1 :> k3 @@ r2 :> k3 @@ r3 :> k1))
    /\ htKey = (a1 :> h1 @@ a2 :> h1 @@ a3 :> h2)

\* Exports and approvals come to an end; the sessions end as well, and the others go on.
OutNext ==
    \/ MCNext /\ UNCHANGED <<xpVars, shVars, htVars, ptVars>>
    \/ /\ \/ driver = "export" /\ XpNext /\ UNCHANGED <<shVars, htVars, ptVars>>
          \/ driver = "sharing" /\ ShNext /\ UNCHANGED <<xpVars, htVars, ptVars>>
          \/ driver = "trust" /\ HtNext /\ UNCHANGED <<xpVars, shVars, ptVars>>
          \/ driver = "window" /\ PtNext /\ UNCHANGED <<xpVars, shVars, htVars>>
       /\ UNCHANGED mcVars

OutSpec == OutInit /\ [][OutNext]_outVars

\* The middle character of an exported value has one byte.
MCWidths == <<2, 1, 2>>

\* The states of all parts are of their types.
OutsideTypeOK ==
    CASE driver \in Drivers -> SessionsTypeOK
      [] driver = "export" -> XpTypeOK
      [] driver = "sharing" -> ShTypeOK
      [] driver = "trust" -> HtTypeOK
      [] driver = "window" -> PtTypeOK
=============================================================================
