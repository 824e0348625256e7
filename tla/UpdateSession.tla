---------------------------- MODULE UpdateSession ----------------------------
(***************************************************************************)
(* Checking for, downloading and starting to install an update: the Qt     *)
(* controller (desktop/app/updater_windows_linux.cpp), the session it      *)
(* drives from worker threads (bridge/src/update.rs) and the network       *)
(* service under it (update/src/network.rs).                               *)
(*                                                                         *)
(* Versions are numbers; the application is version 0, and every published *)
(* one is authentic.  Dialogs run nested event loops: while some are open  *)
(* the 24 h timer may start a check, answers of the workers arrive and the *)
(* window may be closed for an installation that was confirmed.  The       *)
(* dialog opened last is answered first; an offer that comes up over the   *)
(* progress of a download waits for its end (a bound: the user may be      *)
(* quicker).                                                               *)
(***************************************************************************)
EXTENDS Integers, Sequences

CONSTANTS
    UsVersions,     \* bound: versions that are published
    UsChecks        \* bound: checks

ASSUME UsAssumption == UsVersions \in Nat /\ UsChecks \in Nat

VARIABLES
    usFeed, usChecks,
    usCheck,        \* checking_, and the worker's check: its baseline, then the version found
    usDialogs,      \* the open offers and install prompts, the last one on top
    usRestart,      \* updateInstall_: the version confirmed while the window closes, or 0
    usUi,           \* record_, readyToInstall_, downloading_ and cancelled_
    usWorker,       \* the worker of a download, and its version
    usInstaller,    \* installing_ and its worker: the version asked about, and the one taken
    usSession,      \* available and staged
    usCancelled,    \* the current cancellation token
    usLaunched,     \* the version the user confirmed, and the one the installer got
    usOverlap       \* what became of the download that was accepted last: a check had "found"
                    \* another version before it began, or it was accepted too "late", after an
                    \* installation was confirmed; the code keeps no such record

usVars == <<usFeed, usChecks, usCheck, usDialogs, usRestart, usUi, usWorker, usInstaller, usSession,
            usCancelled, usLaunched, usOverlap>>

Versions == 0..UsVersions
UsSteps == {"idle", "download", "receive", "verified", "staged", "failed", "discard", "discarded"}
UsInstallSteps == {"idle", "install", "prepare", "launched", "not launched", "invalid"}

UsTypeOK ==
    /\ usFeed \in Versions /\ usChecks \in 0..UsChecks /\ usRestart \in Versions
    /\ usCheck \in [at : {"no", "asking", "answered"}, version : Versions]
    /\ usDialogs \in Seq([kind : {"offer", "prompt"}, version : Versions])
    /\ usUi \in [record : Versions, ready : BOOLEAN, downloading : BOOLEAN, cancelled : BOOLEAN]
    /\ usWorker \in [at : UsSteps, version : Versions]
    /\ usInstaller \in [at : UsInstallSteps, asked : Versions, version : Versions]
    /\ usSession \in [available : Versions, staged : Versions] /\ usCancelled \in BOOLEAN
    /\ usLaunched \in [asked : Versions, installed : Versions]
    /\ usOverlap \in {"no", "found", "late"}

NoCheck == [at |-> "no", version |-> 0]
NoWorker == [at |-> "idle", version |-> 0]
NoInstaller == [at |-> "idle", asked |-> 0, version |-> 0]

UsInit ==
    /\ usFeed = 0 /\ usChecks = 0 /\ usCheck = NoCheck /\ usDialogs = <<>> /\ usRestart = 0
    /\ usUi = [record |-> 0, ready |-> FALSE, downloading |-> FALSE, cancelled |-> FALSE]
    /\ usWorker = NoWorker /\ usInstaller = NoInstaller
    /\ usSession = [available |-> 0, staged |-> 0] /\ usCancelled = FALSE
    /\ usLaunched = [asked |-> 0, installed |-> 0] /\ usOverlap = "no"

UsPublish ==
    /\ usFeed < UsVersions /\ usFeed' = usFeed + 1
    /\ UNCHANGED <<usChecks, usCheck, usDialogs, usRestart, usUi, usWorker, usInstaller, usSession,
                   usCancelled, usLaunched, usOverlap>>

-----------------------------------------------------------------------------
(* Checks.                                                                 *)

Installing == usInstaller.at # "idle"

\* checkForUpdates, update_session_begin_check: a new token.
UsBeginCheck ==
    /\ usCheck.at = "no" /\ ~usUi.downloading /\ ~Installing
    /\ usChecks < UsChecks /\ usChecks' = usChecks + 1
    /\ usCheck' = [at |-> "asking", version |-> IF usUi.ready THEN usUi.record ELSE 0]
    /\ usCancelled' = FALSE
    /\ UNCHANGED <<usFeed, usDialogs, usRestart, usUi, usWorker, usInstaller, usSession, usLaunched,
                   usOverlap>>

\* update_session_check, on a worker: what it finds is available from now on, also when its token
\* is cancelled after the last byte.
UsFound ==
    /\ usCheck.at = "asking" /\ usFeed > usCheck.version
    /\ usSession' = [usSession EXCEPT !.available = usFeed]
    /\ usCheck' = [at |-> "answered", version |-> usFeed]
    /\ UNCHANGED <<usFeed, usChecks, usDialogs, usRestart, usUi, usWorker, usInstaller, usCancelled,
                   usLaunched, usOverlap>>

UsChecked(dialogs) ==
    /\ usCheck' = NoCheck /\ usDialogs' = dialogs
    /\ UNCHANGED <<usFeed, usChecks, usRestart, usUi, usWorker, usInstaller, usSession, usCancelled,
                   usLaunched, usOverlap>>

\* Nothing newer, no answer, a cancelled token.
UsNothingFound == usCheck.at = "asking" /\ UsChecked(usDialogs)

Dialog(kind, version) == [kind |-> kind, version |-> version]
UsOffer ==
    usCheck.at = "answered" /\ UsChecked(Append(usDialogs, Dialog("offer", usCheck.version)))

\* The dialog on top, when the progress of a download does not cover it.
OnTop(kind) ==
    usDialogs # <<>> /\ ~usUi.downloading /\ usDialogs[Len(usDialogs)].kind = kind
Top == usDialogs[Len(usDialogs)].version
Below == SubSeq(usDialogs, 1, Len(usDialogs) - 1)

\* An offer that is declined, a prompt that is refused.
UsDecline ==
    /\ \E kind \in {"offer", "prompt"} : OnTop(kind)
    /\ usDialogs' = Below
    /\ UNCHANGED <<usFeed, usChecks, usCheck, usRestart, usUi, usWorker, usInstaller, usSession,
                   usCancelled, usLaunched, usOverlap>>

\* The offered version is recorded and download() started, whatever else goes on.
UsAccept ==
    /\ OnTop("offer") /\ usDialogs' = Below
    /\ usUi' = [record |-> Top, ready |-> FALSE, downloading |-> TRUE, cancelled |-> FALSE]
    /\ usWorker' = [at |-> "download", version |-> 0]
    /\ usOverlap' = IF usRestart = 0 /\ ~Installing THEN "no" ELSE "late"
    /\ UNCHANGED <<usFeed, usChecks, usCheck, usRestart, usInstaller, usSession, usCancelled,
                   usLaunched>>

-----------------------------------------------------------------------------
(* Downloads.                                                              *)

UsWork(from, to, version) ==
    /\ usWorker.at = from /\ usWorker' = [at |-> to, version |-> version]
    /\ UNCHANGED <<usFeed, usChecks, usCheck, usDialogs, usRestart, usUi, usInstaller, usCancelled,
                   usLaunched>>

\* update_session_download: the version available now; the staged one goes.
UsDownload ==
    /\ UsWork("download", "receive", usSession.available)
    /\ usSession' = [usSession EXCEPT !.staged = 0]
    /\ usOverlap' = IF usOverlap = "no" /\ usSession.available # usUi.record THEN "found" ELSE usOverlap

\* UpdateNetworkService::download: verified, and the token looked at for the last time.
UsVerify ==
    /\ ~usCancelled /\ UsWork("receive", "verified", usWorker.version)
    /\ UNCHANGED <<usSession, usOverlap>>

\* Cancelled, no answer, not the signed bytes: the temporary file is gone.
UsDownloadFails == UsWork("receive", "failed", 0) /\ UNCHANGED <<usSession, usOverlap>>

UsStage ==
    /\ UsWork("verified", "staged", usWorker.version)
    /\ usSession' = [usSession EXCEPT !.staged = usWorker.version] /\ UNCHANGED usOverlap

\* The progress dialog is rejected; a late one finds the download done.
UsCancel ==
    /\ usUi.downloading /\ ~usUi.cancelled /\ usWorker.at \notin {"discard", "discarded"}
    /\ usUi' = [usUi EXCEPT !.cancelled = TRUE] /\ usCancelled' = TRUE
    /\ UNCHANGED <<usFeed, usChecks, usCheck, usDialogs, usRestart, usWorker, usInstaller, usSession,
                   usLaunched, usOverlap>>

\* The finished slot: a download that succeeded although it was cancelled is discarded, on a
\* worker, before the controller is free again ...
UsCancelledLate ==
    usUi.cancelled /\ UsWork("staged", "discard", 0) /\ UNCHANGED <<usSession, usOverlap>>

UsDiscard ==
    /\ UsWork("discard", "discarded", 0)
    /\ usSession' = [usSession EXCEPT !.staged = 0] /\ UNCHANGED usOverlap

UsFinished(ready, dialogs) ==
    /\ usUi' = [usUi EXCEPT !.downloading = FALSE, !.ready = ready] /\ usWorker' = NoWorker
    /\ usDialogs' = dialogs
    /\ UNCHANGED <<usFeed, usChecks, usCheck, usRestart, usInstaller, usSession, usCancelled,
                   usLaunched, usOverlap>>

\* promptToInstall, over whatever is open.
Prompted == Append(usDialogs, Dialog("prompt", usUi.record))

\* ... a failed one is over, and a successful one can be installed.
UsDownloadOver ==
    \/ usWorker.at \in {"failed", "discarded"} /\ UsFinished(usUi.ready, usDialogs)
    \/ usWorker.at = "staged" /\ ~usUi.cancelled /\ UsFinished(TRUE, Prompted)

-----------------------------------------------------------------------------
(* Installation.                                                           *)

UsAsked(dialogs, restart) ==
    /\ usDialogs' = dialogs /\ usRestart' = restart
    /\ UNCHANGED <<usFeed, usChecks, usCheck, usUi, usWorker, usInstaller, usSession, usCancelled,
                   usLaunched, usOverlap>>

UsAskAvailable ==
    /\ usUi.ready /\ usDialogs = <<>> /\ ~usUi.downloading /\ ~Installing
    /\ UsAsked(<<Dialog("prompt", usSession.available)>>, usRestart)

\* The menu of a window that is enabled and covered by no dialog.
UsAsk ==
    /\ usUi.ready /\ usDialogs = <<>> /\ ~usUi.downloading /\ ~Installing
    /\ UsAsked(Prompted, usRestart)

\* requestInstall, requestUpdateRestart: the window closes, unless it does already.
UsConfirm ==
    /\ OnTop("prompt")
    /\ \E restart \in (IF usUi.ready /\ ~Installing THEN {Top} ELSE {})
                      \cup (IF usUi.ready /\ ~Installing /\ usRestart = 0 THEN {} ELSE {usRestart}) :
          UsAsked(Below, restart)

\* The window's own questions about open work.
UsRefuse == usRestart # 0 /\ UsAsked(usDialogs, 0)

\* The window has closed its work; whatever else goes on.
UsBeginInstall ==
    /\ usRestart # 0 /\ ~Installing /\ usRestart' = 0
    /\ usInstaller' = [at |-> "install", asked |-> usRestart, version |-> 0]
    /\ UNCHANGED <<usFeed, usChecks, usCheck, usDialogs, usUi, usWorker, usSession, usCancelled,
                   usLaunched, usOverlap>>

UsInstallWork(from, to, version, staged) ==
    /\ usInstaller.at = from
    /\ usInstaller' = [usInstaller EXCEPT !.at = to, !.version = version]
    /\ usSession' = [usSession EXCEPT !.staged = staged]
    /\ UNCHANGED <<usFeed, usChecks, usCheck, usDialogs, usRestart, usUi, usWorker, usCancelled,
                   usLaunched, usOverlap>>

\* update_session_install: takes the staged update, prepares it and launches it; one that could
\* not be prepared is put back, over whatever is staged by then, unless the package is at fault.
UsTake ==
    UsInstallWork("install", IF usSession.staged = 0 THEN "invalid" ELSE "prepare", usSession.staged, 0)

UsPrepared ==
    \/ UsInstallWork("prepare", "launched", usInstaller.version, usSession.staged)
    \/ \E to \in {"not launched", "invalid"} : UsInstallWork("prepare", to, 0, usSession.staged)
    \/ UsInstallWork("prepare", "not launched", 0, usInstaller.version)

\* The finished slot: the application quits, or a faulty update is no longer offered.
UsInstalled ==
    /\ usInstaller.at \in {"launched", "not launched", "invalid"} /\ usInstaller' = NoInstaller
    /\ usUi' = [usUi EXCEPT !.ready = @ /\ usInstaller.at # "invalid"]
    /\ usLaunched' = [asked |-> usInstaller.asked, installed |-> usInstaller.version]
    /\ UNCHANGED <<usFeed, usChecks, usCheck, usDialogs, usRestart, usWorker, usSession, usCancelled,
                   usOverlap>>

\* Nothing happens after the application has quit.
UsNext ==
    /\ usLaunched.installed = 0
    /\ \/ UsPublish \/ UsBeginCheck \/ UsFound \/ UsNothingFound \/ UsOffer \/ UsDecline \/ UsAccept
       \/ UsDownload \/ UsVerify \/ UsDownloadFails \/ UsStage \/ UsCancel \/ UsCancelledLate
       \/ UsDiscard \/ UsDownloadOver \/ UsAsk \/ UsConfirm \/ UsRefuse \/ UsBeginInstall \/ UsTake
       \/ UsPrepared \/ UsInstalled

UsSpec == UsInit /\ [][UsNext]_usVars

-----------------------------------------------------------------------------
\* The installer gets the update whose download the user accepted last, although checks, offers and
\* prompts overlap and downloads fail or are cancelled, however late: that is the version the user was
\* asked about, unless an older prompt had been left open under it.  And a staged file is one the user
\* can still install.  What the code allows besides is said here too.  When a check finds another
\* version after the offer came up and before the download begins, the newer one is downloaded
\* under the older name: then, and under an older prompt, the installer gets a newer version than the
\* user was asked about, never an older one.  Nothing is promised of a download that is accepted
\* when an installation has been confirmed and not yet ended, until the next one is accepted.
UsInstallsWhatWasAsked ==
    usOverlap # "late" =>
        /\ usLaunched.installed # 0 =>
              /\ usLaunched.installed >= usLaunched.asked
              /\ usOverlap = "no" => usLaunched.installed = usUi.record
        /\ (usSession.staged # 0 /\ ~usUi.downloading) =>
              /\ usUi.ready /\ usSession.staged >= usUi.record
              /\ usOverlap = "no" => usSession.staged = usUi.record
=============================================================================
