---------------------------- MODULE UpdateHelper ----------------------------
(***************************************************************************)
(* Replacing the AppImage (update/src/install.rs, linux_helper.rs,         *)
(* readiness.rs): the application verifies the staged file once more and   *)
(* starts a helper, which waits for it to exit, exchanges the two files,   *)
(* starts the new application, and takes the exchange back unless that one *)
(* confirms its start and stays alive.                                     *)
(*                                                                         *)
(* The helper may be killed between any two steps, and the staged file may *)
(* be damaged until it is exchanged.  Nobody else renames files in the     *)
(* directory (linux_helper.rs:194-196 says that it must be trusted).       *)
(***************************************************************************)
EXTENDS Integers

VARIABLES
    uhTarget, uhStaged,     \* what the two paths hold
    uhParent,               \* the old application runs
    uhAt,                   \* what the installation does next
    uhApp,                  \* the new application
    uhIdentified,           \* its environment names the readiness file
    uhStopped,              \* the helper knows that it has exited
    uhOutcome               \* what the user is told

uhVars == <<uhTarget, uhStaged, uhParent, uhAt, uhApp, uhIdentified, uhStopped, uhOutcome>>

Running == {"starting", "ready"}
\* The errors that say that the previous version is in place.
PreviousVersion == {"LaunchFailed", "UnsafePackage", "ProcessStateUnknown", "StartupUnverified",
                    "ReplacementFailed", "ReplacementInvalid", "PreviousRestored"}

UhTypeOK ==
    /\ uhTarget \in {"old", "new", "damaged"} /\ uhStaged \in {"old", "new", "damaged", "none"}
    /\ uhAt \in {"launch", "prepare", "wait", "check", "exchange", "verify", "start", "identify",
                 "watch", "stop", "roll back", "clean", "end"}
    /\ uhApp \in {"none", "exited"} \cup Running
    /\ {uhParent, uhIdentified, uhStopped} \subseteq BOOLEAN
    /\ uhOutcome \in {"none", "updated", "ManualRestoreNeeded"} \cup PreviousVersion

UhInit ==
    /\ uhTarget = "old" /\ uhStaged = "new" /\ uhParent = TRUE /\ uhAt = "launch"
    /\ uhApp = "none" /\ uhIdentified = FALSE /\ uhStopped = FALSE /\ uhOutcome = "none"

UhEnd(outcome) == uhAt' = "end" /\ uhOutcome' = outcome
UhGo(from, to) == uhAt = from /\ uhAt' = to /\ UNCHANGED uhOutcome
UhFiles == <<uhTarget, uhStaged>>
UhNewApp == <<uhApp, uhIdentified, uhStopped>>

-----------------------------------------------------------------------------
\* launch_prepared_install: verified again, kept, and handed to the helper; the file of a failed
\* launch is removed.
UhLaunch ==
    /\ uhAt = "launch" /\ UNCHANGED <<uhTarget, uhParent, UhNewApp>>
    /\ \/ uhStaged = "new" /\ UhGo("launch", "prepare") /\ UNCHANGED uhStaged
       \/ uhStaged = "new" /\ uhStaged' = "none" /\ UhEnd("LaunchFailed")
       \/ uhStaged # "new" /\ uhStaged' = "none" /\ UhEnd("UnsafePackage")

\* prepare_linux_helper, in the new process, and the two process handles.
UhPrepare ==
    /\ uhAt = "prepare" /\ UNCHANGED <<UhFiles, uhParent, UhNewApp>>
    /\ \/ uhStaged = "new" /\ UhGo("prepare", "wait")
       \/ uhStaged # "new" /\ UhEnd("UnsafePackage")
       \/ uhStaged = "new" /\ UhEnd("ProcessStateUnknown")

\* 900 rounds of 100 ms, then the readiness path: the parent must have exited.
UhWait ==
    /\ uhAt = "wait" /\ UNCHANGED <<UhFiles, uhParent, UhNewApp>>
    /\ \/ ~uhParent /\ UhGo("wait", "check")
       \/ uhParent /\ UhEnd("ReplacementFailed")
       \/ uhOutcome' \in {"ProcessStateUnknown", "StartupUnverified"} /\ uhAt' = "end"

UhCheck ==
    /\ uhAt = "check" /\ UNCHANGED <<UhFiles, uhParent, UhNewApp>>
    /\ IF uhStaged = "new" THEN UhGo("check", "exchange") ELSE UhEnd("ReplacementFailed")

UhSwap == uhTarget' = uhStaged /\ uhStaged' = uhTarget

UhExchange ==
    /\ uhAt = "exchange" /\ UNCHANGED <<uhParent, UhNewApp>>
    /\ \/ UhSwap /\ UhGo("exchange", "verify")
       \/ UNCHANGED UhFiles /\ UhEnd("ReplacementFailed")

\* verify_update_file on the target; rollback_exchange may fail too.
UhVerify ==
    /\ uhAt = "verify" /\ UNCHANGED <<uhParent, UhNewApp>>
    /\ \/ uhTarget = "new" /\ UhGo("verify", "start") /\ UNCHANGED UhFiles
       \/ uhTarget # "new" /\ UhSwap /\ UhEnd("ReplacementInvalid")
       \/ uhTarget # "new" /\ UNCHANGED UhFiles /\ UhEnd("ManualRestoreNeeded")

UhStart ==
    /\ uhAt = "start" /\ UNCHANGED <<UhFiles, uhParent, uhIdentified>>
    /\ \/ UhGo("start", "identify") /\ uhApp' = "starting" /\ UNCHANGED uhStopped
       \/ UhGo("start", "roll back") /\ uhStopped' = TRUE /\ UNCHANGED uhApp

\* has_readiness_environment, for 5 s.
UhIdentify ==
    /\ uhAt = "identify" /\ UNCHANGED <<UhFiles, uhParent, uhApp, uhStopped>>
    /\ \/ uhApp \in Running /\ UhGo("identify", "watch") /\ uhIdentified' = TRUE
       \/ UhGo("identify", "stop") /\ UNCHANGED uhIdentified

\* wait_for_update_readiness: the marker seen for 2 s while the process lives, within 60 s.
UhWatch ==
    /\ uhAt = "watch" /\ UNCHANGED <<UhFiles, uhParent, UhNewApp>>
    /\ \/ uhApp = "ready" /\ UhGo("watch", "clean")
       \/ UhGo("watch", "stop")

UhStopAnyway ==
    /\ UhGo("stop", "roll back") /\ uhStopped' = TRUE
    /\ UNCHANGED <<UhFiles, uhParent, uhApp, uhIdentified>>

\* stop_process, only of a process that is surely the new application; it may survive.
UhStop ==
    /\ UhGo("stop", "roll back") /\ UNCHANGED <<UhFiles, uhParent, uhIdentified>>
    /\ \/ uhApp = "exited" /\ uhStopped' = TRUE /\ UNCHANGED uhApp
       \/ uhApp \in Running /\ uhIdentified /\ uhStopped' = TRUE /\ uhApp' = "exited"
       \/ uhApp \in Running /\ UNCHANGED <<uhStopped, uhApp>>

\* rollback_exchange, and the new version is removed.
UhRollBack ==
    /\ uhAt = "roll back" /\ UNCHANGED <<uhParent, UhNewApp>>
    /\ \/ uhStopped /\ uhTarget' = uhStaged /\ uhStaged' = "none" /\ UhEnd("PreviousRestored")
       \/ UNCHANGED UhFiles /\ UhEnd("ManualRestoreNeeded")

\* The old version is removed.
UhClean ==
    /\ uhAt = "clean" /\ uhStaged' = "none" /\ UhEnd("updated")
    /\ UNCHANGED <<uhTarget, uhParent, UhNewApp>>

-----------------------------------------------------------------------------
UhDamage ==
    /\ uhStaged = "new" /\ uhAt \in {"launch", "prepare", "wait", "check", "exchange"}
    /\ uhStaged' = "damaged"
    /\ UNCHANGED <<uhTarget, uhParent, uhAt, UhNewApp, uhOutcome>>

UhCrash ==
    /\ uhAt \notin {"launch", "end"} /\ UhEnd("none")
    /\ UNCHANGED <<UhFiles, uhParent, UhNewApp>>

UhParentExits ==
    /\ uhParent /\ uhAt # "launch" /\ uhParent' = FALSE
    /\ UNCHANGED <<UhFiles, uhAt, UhNewApp, uhOutcome>>

\* write_update_readiness_file
UhAppReady ==
    /\ uhApp = "starting" /\ uhApp' = "ready"
    /\ UNCHANGED <<UhFiles, uhParent, uhAt, uhIdentified, uhStopped, uhOutcome>>

UhAppExits ==
    /\ uhApp \in Running /\ uhApp' = "exited"
    /\ UNCHANGED <<UhFiles, uhParent, uhAt, uhIdentified, uhStopped, uhOutcome>>

UhStep ==
    \/ UhLaunch \/ UhPrepare \/ UhWait \/ UhCheck \/ UhExchange \/ UhVerify \/ UhStart
    \/ UhIdentify \/ UhWatch \/ UhStop \/ UhRollBack \/ UhClean

UhNext == UhStep \/ UhDamage \/ UhCrash \/ UhParentExits \/ UhAppReady \/ UhAppExits

UhSpec == UhInit /\ [][UhNext]_uhVars

-----------------------------------------------------------------------------
\* Until the new application has confirmed its start the old one can be started or put back by
\* hand, wherever the helper is killed, and a damaged file is only in place between the exchange
\* and its verification, or where a failed rollback left it and the user is told.  What the user
\* is told is so: an error that says the previous version is in place comes with that version in
\* place and no new one running, the others with the version to restore, success with the new
\* version in place.
UhSaysTheTruth ==
    /\ uhOutcome # "updated" => "old" \in {uhTarget, uhStaged}
    /\ uhTarget = "damaged" => uhStaged = "old" /\ uhApp = "none"
    /\ uhOutcome \in PreviousVersion => uhTarget = "old" /\ uhApp \notin Running
    /\ uhOutcome = "ManualRestoreNeeded" => uhStaged = "old"
    /\ uhOutcome = "updated" => uhTarget = "new"
=============================================================================
