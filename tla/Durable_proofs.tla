---------------------------- MODULE Durable_proofs ----------------------------
(***************************************************************************)
(* What is on disk after failures and restarts.  What the user is told of  *)
(* an installation is so, wherever the helper is killed and whatever       *)
(* happens to the staged file; what is installed is what the user          *)
(* accepted, or newer, but never older than what was asked about; and the  *)
(* profiles of any number of application instances, with secrets kept in a *)
(* second store, are one book in which a request takes effect at once or   *)
(* not at all.                                                             *)
(***************************************************************************)
EXTENDS UpdateHelper, UpdateSession, ProfileStore, FiniteSetTheorems, TLAPS

(***************************************************************************)
(* The helper.  The stages fall into those before the exchange, the        *)
(* verification, and those in which the new file is known to be in place.  *)
(***************************************************************************)
BeforeExchange == {"launch", "prepare", "wait", "check", "exchange"}
InPlace == {"start", "identify", "watch", "stop", "roll back", "clean"}

FilesByStage ==
    /\ uhAt \in BeforeExchange => /\ uhTarget = "old" /\ uhStaged \in {"new", "damaged"}
                                  /\ uhApp = "none"
    /\ uhAt = "verify" => /\ uhStaged = "old" /\ uhTarget \in {"new", "damaged"}
                          /\ uhApp = "none"
    /\ uhAt \in InPlace => uhTarget = "new" /\ uhStaged = "old"
    /\ uhAt = "start" => uhApp = "none"

\* Nothing is said before the end, and the helper knows of an exit only when there was one.
SaidAtTheEnd ==
    /\ uhAt # "end" => uhOutcome = "none"
    /\ uhStopped => uhAt \in {"roll back", "end"} /\ uhApp \notin Running

UhInv == UhTypeOK /\ FilesByStage /\ SaidAtTheEnd /\ UhSaysTheTruth

LEMMA HelperInit == ASSUME UhInit PROVE UhInv
  BY DEF UhInit, UhInv, UhTypeOK, FilesByStage, SaidAtTheEnd, UhSaysTheTruth, BeforeExchange,
         InPlace, Running, PreviousVersion

\* The steps up to the exchange.
LEMMA HelperPrepares ==
    ASSUME UhInv, UhLaunch \/ UhPrepare \/ UhWait \/ UhCheck \/ UhDamage
    PROVE  UhInv'
  <1> USE DEF UhEnd, UhGo, UhFiles, UhNewApp
  <1>1. CASE UhLaunch
    <2>1. UhTypeOK'
      BY <1>1 DEF UhInv, UhTypeOK, Running, PreviousVersion, UhLaunch
    <2>2. FilesByStage'
      BY <1>1 DEF UhInv, UhTypeOK, FilesByStage, BeforeExchange, InPlace, UhLaunch
    <2>3. SaidAtTheEnd'
      BY <1>1 DEF UhInv, UhTypeOK, FilesByStage, SaidAtTheEnd, InPlace, Running, UhLaunch
    <2>4. UhSaysTheTruth'
      BY <1>1 DEF UhInv, UhTypeOK, FilesByStage, SaidAtTheEnd, UhSaysTheTruth, BeforeExchange,
         InPlace, Running, PreviousVersion, UhLaunch
    <2> QED
      BY <2>1, <2>2, <2>3, <2>4 DEF UhInv
  <1>2. CASE UhPrepare
    <2>1. UhTypeOK'
      BY <1>2 DEF UhInv, UhTypeOK, Running, PreviousVersion, UhPrepare
    <2>2. FilesByStage'
      BY <1>2 DEF UhInv, UhTypeOK, FilesByStage, BeforeExchange, InPlace, UhPrepare
    <2>3. SaidAtTheEnd'
      BY <1>2 DEF UhInv, UhTypeOK, FilesByStage, SaidAtTheEnd, InPlace, Running, UhPrepare
    <2>4. UhSaysTheTruth'
      BY <1>2 DEF UhInv, UhTypeOK, FilesByStage, SaidAtTheEnd, UhSaysTheTruth, BeforeExchange,
         InPlace, Running, PreviousVersion, UhPrepare
    <2> QED
      BY <2>1, <2>2, <2>3, <2>4 DEF UhInv
  <1>3. CASE UhWait
    <2>1. UhTypeOK'
      BY <1>3 DEF UhInv, UhTypeOK, Running, PreviousVersion, UhWait
    <2>2. FilesByStage'
      BY <1>3 DEF UhInv, UhTypeOK, FilesByStage, BeforeExchange, InPlace, UhWait
    <2>3. SaidAtTheEnd'
      BY <1>3 DEF UhInv, UhTypeOK, FilesByStage, SaidAtTheEnd, InPlace, Running, UhWait
    <2>4. UhSaysTheTruth'
      BY <1>3 DEF UhInv, UhTypeOK, FilesByStage, SaidAtTheEnd, UhSaysTheTruth, BeforeExchange,
         InPlace, Running, PreviousVersion, UhWait
    <2> QED
      BY <2>1, <2>2, <2>3, <2>4 DEF UhInv
  <1>4. CASE UhCheck
    <2>1. UhTypeOK'
      BY <1>4 DEF UhInv, UhTypeOK, Running, PreviousVersion, UhCheck
    <2>2. FilesByStage'
      BY <1>4 DEF UhInv, UhTypeOK, FilesByStage, BeforeExchange, InPlace, UhCheck
    <2>3. SaidAtTheEnd'
      BY <1>4 DEF UhInv, UhTypeOK, FilesByStage, SaidAtTheEnd, InPlace, Running, UhCheck
    <2>4. UhSaysTheTruth'
      BY <1>4 DEF UhInv, UhTypeOK, FilesByStage, SaidAtTheEnd, UhSaysTheTruth, BeforeExchange,
         InPlace, Running, PreviousVersion, UhCheck
    <2> QED
      BY <2>1, <2>2, <2>3, <2>4 DEF UhInv
  <1>5. CASE UhDamage
    <2>1. UhTypeOK'
      BY <1>5 DEF UhInv, UhTypeOK, Running, PreviousVersion, UhDamage
    <2>2. FilesByStage'
      BY <1>5 DEF UhInv, UhTypeOK, FilesByStage, BeforeExchange, InPlace, UhDamage
    <2>3. SaidAtTheEnd'
      BY <1>5 DEF UhInv, UhTypeOK, FilesByStage, SaidAtTheEnd, InPlace, Running, UhDamage
    <2>4. UhSaysTheTruth'
      BY <1>5 DEF UhInv, UhTypeOK, FilesByStage, SaidAtTheEnd, UhSaysTheTruth, BeforeExchange,
         InPlace, Running, PreviousVersion, UhDamage
    <2> QED
      BY <2>1, <2>2, <2>3, <2>4 DEF UhInv
  <1> QED
    BY <1>1, <1>2, <1>3, <1>4, <1>5

\* The exchange, its verification and the two ends of an installation.
LEMMA HelperMoves ==
    ASSUME UhInv, UhExchange \/ UhVerify \/ UhRollBack \/ UhClean
    PROVE  UhInv'
  <1> USE DEF UhEnd, UhGo, UhFiles, UhNewApp
  <1>1. CASE UhExchange
    <2>1. UhTypeOK'
      BY <1>1 DEF UhInv, UhTypeOK, FilesByStage, BeforeExchange, InPlace, Running,
         PreviousVersion,
         UhExchange, UhSwap
    <2>2. FilesByStage'
      BY <1>1 DEF UhInv, UhTypeOK, FilesByStage, BeforeExchange, InPlace, UhExchange, UhSwap
    <2>3. SaidAtTheEnd'
      BY <1>1 DEF UhInv, UhTypeOK, FilesByStage, SaidAtTheEnd, InPlace, Running, UhExchange,
         UhSwap
    <2>4. UhSaysTheTruth'
      BY <1>1 DEF UhInv, UhTypeOK, FilesByStage, SaidAtTheEnd, UhSaysTheTruth, BeforeExchange,
         InPlace, Running, PreviousVersion, UhExchange, UhSwap
    <2> QED
      BY <2>1, <2>2, <2>3, <2>4 DEF UhInv
  <1>2. CASE UhVerify
    <2>1. UhTypeOK'
      BY <1>2 DEF UhInv, UhTypeOK, FilesByStage, BeforeExchange, InPlace, Running,
         PreviousVersion,
         UhVerify, UhSwap
    <2>2. FilesByStage'
      BY <1>2 DEF UhInv, UhTypeOK, FilesByStage, BeforeExchange, InPlace, UhVerify, UhSwap
    <2>3. SaidAtTheEnd'
      BY <1>2 DEF UhInv, UhTypeOK, FilesByStage, SaidAtTheEnd, InPlace, Running, UhVerify, UhSwap
    <2>4. UhSaysTheTruth'
      BY <1>2 DEF UhInv, UhTypeOK, FilesByStage, SaidAtTheEnd, UhSaysTheTruth, BeforeExchange,
         InPlace, Running, PreviousVersion, UhVerify, UhSwap
    <2> QED
      BY <2>1, <2>2, <2>3, <2>4 DEF UhInv
  <1>3. CASE UhRollBack
    <2>1. UhTypeOK'
      BY <1>3 DEF UhInv, UhTypeOK, FilesByStage, BeforeExchange, InPlace, Running,
         PreviousVersion,
         UhRollBack
    <2>2. FilesByStage'
      BY <1>3 DEF UhInv, UhTypeOK, FilesByStage, BeforeExchange, InPlace, UhRollBack
    <2>3. SaidAtTheEnd'
      BY <1>3 DEF UhInv, UhTypeOK, FilesByStage, SaidAtTheEnd, InPlace, Running, UhRollBack
    <2>4. UhSaysTheTruth'
      BY <1>3 DEF UhInv, UhTypeOK, FilesByStage, SaidAtTheEnd, UhSaysTheTruth, BeforeExchange,
         InPlace, Running, PreviousVersion, UhRollBack
    <2> QED
      BY <2>1, <2>2, <2>3, <2>4 DEF UhInv
  <1>4. CASE UhClean
    <2>1. UhTypeOK'
      BY <1>4 DEF UhInv, UhTypeOK, FilesByStage, BeforeExchange, InPlace, Running,
         PreviousVersion,
         UhClean
    <2>2. FilesByStage'
      BY <1>4 DEF UhInv, UhTypeOK, FilesByStage, BeforeExchange, InPlace, UhClean
    <2>3. SaidAtTheEnd'
      BY <1>4 DEF UhInv, UhTypeOK, FilesByStage, SaidAtTheEnd, InPlace, Running, UhClean
    <2>4. UhSaysTheTruth'
      BY <1>4 DEF UhInv, UhTypeOK, FilesByStage, SaidAtTheEnd, UhSaysTheTruth, BeforeExchange,
         InPlace, Running, PreviousVersion, UhClean
    <2> QED
      BY <2>1, <2>2, <2>3, <2>4 DEF UhInv
  <1> QED
    BY <1>1, <1>2, <1>3, <1>4

\* The steps that start, watch and stop the new application.
LEMMA HelperWatches ==
    ASSUME UhInv, UhStart \/ UhIdentify \/ UhWatch \/ UhStop
    PROVE  UhInv'
  <1> USE DEF UhEnd, UhGo, UhFiles, UhNewApp
  <1>1. CASE UhStart
    <2>1. UhTypeOK'
      BY <1>1 DEF UhInv, UhTypeOK, Running, PreviousVersion, UhStart
    <2>2. FilesByStage'
      BY <1>1 DEF UhInv, UhTypeOK, FilesByStage, BeforeExchange, InPlace, UhStart
    <2>3. SaidAtTheEnd'
      <3>1. ~uhStopped /\ uhApp = "none"
        BY <1>1 DEF UhInv, FilesByStage, SaidAtTheEnd, UhStart
      <3>2. uhStopped' => uhAt' = "roll back" /\ uhApp' \notin Running
        BY <1>1, <3>1 DEF Running, UhStart
      <3> QED
        BY <1>1, <3>2 DEF UhInv, SaidAtTheEnd, UhStart
    <2>4. UhSaysTheTruth'
      BY <1>1 DEF UhInv, UhTypeOK, FilesByStage, SaidAtTheEnd, UhSaysTheTruth, BeforeExchange,
         InPlace, Running, PreviousVersion, UhStart
    <2> QED
      BY <2>1, <2>2, <2>3, <2>4 DEF UhInv
  <1>2. CASE UhIdentify
    <2>1. UhTypeOK'
      BY <1>2 DEF UhInv, UhTypeOK, Running, PreviousVersion, UhIdentify
    <2>2. FilesByStage'
      BY <1>2 DEF UhInv, UhTypeOK, FilesByStage, BeforeExchange, InPlace, UhIdentify
    <2>3. SaidAtTheEnd'
      BY <1>2 DEF UhInv, UhTypeOK, FilesByStage, SaidAtTheEnd, InPlace, Running, UhIdentify
    <2>4. UhSaysTheTruth'
      BY <1>2 DEF UhInv, UhTypeOK, FilesByStage, SaidAtTheEnd, UhSaysTheTruth, BeforeExchange,
         InPlace, Running, PreviousVersion, UhIdentify
    <2> QED
      BY <2>1, <2>2, <2>3, <2>4 DEF UhInv
  <1>3. CASE UhWatch
    <2>1. UhTypeOK'
      BY <1>3 DEF UhInv, UhTypeOK, Running, PreviousVersion, UhWatch
    <2>2. FilesByStage'
      BY <1>3 DEF UhInv, UhTypeOK, FilesByStage, BeforeExchange, InPlace, UhWatch
    <2>3. SaidAtTheEnd'
      BY <1>3 DEF UhInv, UhTypeOK, FilesByStage, SaidAtTheEnd, InPlace, Running, UhWatch
    <2>4. UhSaysTheTruth'
      BY <1>3 DEF UhInv, UhTypeOK, FilesByStage, SaidAtTheEnd, UhSaysTheTruth, BeforeExchange,
         InPlace, Running, PreviousVersion, UhWatch
    <2> QED
      BY <2>1, <2>2, <2>3, <2>4 DEF UhInv
  <1>4. CASE UhStop
    <2>1. UhTypeOK'
      BY <1>4 DEF UhInv, UhTypeOK, Running, PreviousVersion, UhStop
    <2>2. FilesByStage'
      BY <1>4 DEF UhInv, UhTypeOK, FilesByStage, BeforeExchange, InPlace, UhStop
    <2>3. SaidAtTheEnd'
      <3>1. ~uhStopped
        BY <1>4 DEF UhInv, FilesByStage, SaidAtTheEnd, UhStop
      <3>2. uhStopped' => uhAt' = "roll back" /\ uhApp' \notin Running
        BY <1>4, <3>1 DEF Running, UhStop
      <3> QED
        BY <1>4, <3>2 DEF UhInv, SaidAtTheEnd, UhStop
    <2>4. UhSaysTheTruth'
      BY <1>4 DEF UhInv, UhTypeOK, FilesByStage, SaidAtTheEnd, UhSaysTheTruth, BeforeExchange,
         InPlace, Running, PreviousVersion, UhStop
    <2> QED
      BY <2>1, <2>2, <2>3, <2>4 DEF UhInv
  <1> QED
    BY <1>1, <1>2, <1>3, <1>4

\* What the helper does not do: it is killed, and the applications live and exit.
LEMMA HelperOutside ==
    ASSUME UhInv, UhCrash \/ UhParentExits \/ UhAppReady \/ UhAppExits \/ UNCHANGED uhVars
    PROVE  UhInv'
  <1> USE DEF UhEnd, UhGo, UhFiles, UhNewApp
  <1>1. CASE UhCrash
    <2>1. UhTypeOK'
      BY <1>1 DEF UhInv, UhTypeOK, Running, PreviousVersion, UhCrash
    <2>2. FilesByStage'
      BY <1>1 DEF UhInv, UhTypeOK, FilesByStage, BeforeExchange, InPlace, UhCrash
    <2>3. SaidAtTheEnd'
      BY <1>1 DEF UhInv, UhTypeOK, FilesByStage, SaidAtTheEnd, InPlace, Running, UhCrash
    <2>4. UhSaysTheTruth'
      BY <1>1 DEF UhInv, UhTypeOK, FilesByStage, SaidAtTheEnd, UhSaysTheTruth, BeforeExchange,
         InPlace, Running, PreviousVersion, UhCrash
    <2> QED
      BY <2>1, <2>2, <2>3, <2>4 DEF UhInv
  <1>2. CASE UhParentExits
    <2>1. UhTypeOK'
      BY <1>2 DEF UhInv, UhTypeOK, Running, PreviousVersion, UhParentExits
    <2>2. FilesByStage'
      BY <1>2 DEF UhInv, UhTypeOK, FilesByStage, BeforeExchange, InPlace, UhParentExits
    <2>3. SaidAtTheEnd'
      BY <1>2 DEF UhInv, UhTypeOK, FilesByStage, SaidAtTheEnd, InPlace, Running, UhParentExits
    <2>4. UhSaysTheTruth'
      BY <1>2 DEF UhInv, UhTypeOK, FilesByStage, SaidAtTheEnd, UhSaysTheTruth, BeforeExchange,
         InPlace, Running, PreviousVersion, UhParentExits
    <2> QED
      BY <2>1, <2>2, <2>3, <2>4 DEF UhInv
  <1>3. CASE UhAppReady
    <2>1. UhTypeOK'
      BY <1>3 DEF UhInv, UhTypeOK, Running, PreviousVersion, UhAppReady
    <2>2. FilesByStage'
      BY <1>3 DEF UhInv, UhTypeOK, FilesByStage, BeforeExchange, InPlace, Running, UhAppReady
    <2>3. SaidAtTheEnd'
      BY <1>3 DEF UhInv, UhTypeOK, FilesByStage, SaidAtTheEnd, InPlace, Running, UhAppReady
    <2>4. UhSaysTheTruth'
      BY <1>3 DEF UhInv, UhTypeOK, FilesByStage, SaidAtTheEnd, UhSaysTheTruth, BeforeExchange,
         InPlace, Running, PreviousVersion, UhAppReady
    <2> QED
      BY <2>1, <2>2, <2>3, <2>4 DEF UhInv
  <1>4. CASE UhAppExits
    <2>1. UhTypeOK'
      BY <1>4 DEF UhInv, UhTypeOK, Running, PreviousVersion, UhAppExits
    <2>2. FilesByStage'
      BY <1>4 DEF UhInv, UhTypeOK, FilesByStage, BeforeExchange, InPlace, Running, UhAppExits
    <2>3. SaidAtTheEnd'
      BY <1>4 DEF UhInv, UhTypeOK, FilesByStage, SaidAtTheEnd, InPlace, Running, UhAppExits
    <2>4. UhSaysTheTruth'
      BY <1>4 DEF UhInv, UhTypeOK, FilesByStage, SaidAtTheEnd, UhSaysTheTruth, BeforeExchange,
         InPlace, Running, PreviousVersion, UhAppExits
    <2> QED
      BY <2>1, <2>2, <2>3, <2>4 DEF UhInv
  <1>5. CASE UNCHANGED uhVars
    <2>1. UhTypeOK'
      BY <1>5 DEF UhInv, UhTypeOK, Running, PreviousVersion, uhVars
    <2>2. FilesByStage'
      BY <1>5 DEF UhInv, UhTypeOK, FilesByStage, BeforeExchange, InPlace, uhVars
    <2>3. SaidAtTheEnd'
      BY <1>5 DEF UhInv, UhTypeOK, FilesByStage, SaidAtTheEnd, InPlace, Running, uhVars
    <2>4. UhSaysTheTruth'
      BY <1>5 DEF UhInv, UhTypeOK, FilesByStage, SaidAtTheEnd, UhSaysTheTruth, BeforeExchange,
         InPlace, Running, PreviousVersion, uhVars
    <2> QED
      BY <2>1, <2>2, <2>3, <2>4 DEF UhInv
  <1> QED
    BY <1>1, <1>2, <1>3, <1>4, <1>5

\* Until the new application has confirmed its start the previous one can be started or put
\* back, a damaged file is in place only where the user is told or about to be, and every
\* outcome the user reads describes the two files and the process (update/src/linux_helper.rs).
THEOREM HelperSaysTheTruth == UhSpec => []UhSaysTheTruth
  <1>1. UhInit => UhInv
    BY HelperInit
  <1>2. UhInv /\ [UhNext]_uhVars => UhInv'
    BY HelperPrepares, HelperMoves, HelperWatches, HelperOutside DEF UhNext, UhStep
  <1>3. UhInv => UhSaysTheTruth
    BY DEF UhInv
  <1> QED
    BY <1>1, <1>2, <1>3, PTL DEF UhSpec

-----------------------------------------------------------------------------
(***************************************************************************)
(* The session.  Whatever was found, offered, recorded or downloaded is    *)
(* available still or has been surpassed (SessionAvailable).  And unless a *)
(* download was accepted too late, the file that is received, staged or    *)
(* taken by the installer answers every question the user is or was asked: *)
(* it is no older than what is recorded, confirmed or prompted for, and    *)
(* the recorded version itself when no check came in between.              *)
(***************************************************************************)
USE UsAssumption

Dialogs == [kind : {"offer", "prompt"}, version : Versions]
AllUpTo(dialogs, v) == \A i \in 1..Len(dialogs) : dialogs[i].version <= v
PromptsUpTo(dialogs, v) ==
    \A i \in 1..Len(dialogs) : dialogs[i].kind = "prompt" => dialogs[i].version <= v

SessionFree == usUi.downloading <=> usWorker.at # "idle"

SessionAvailable ==
    /\ usSession.available <= usFeed
    /\ usCheck.at = "answered" => usCheck.version <= usSession.available
    /\ AllUpTo(usDialogs, usSession.available)
    /\ usUi.record <= usSession.available /\ usRestart <= usSession.available
    /\ usWorker.version <= usSession.available

Answers(v) ==
    /\ usUi.record <= v /\ usRestart <= v /\ PromptsUpTo(usDialogs, v)
    /\ usOverlap = "no" => v = usUi.record

\* The file of a download, and the staged one.
SessionFiles ==
    /\ usUi.downloading => usRestart = 0 /\ ~Installing /\ ~usUi.ready
    /\ usWorker.at \in {"receive", "verified", "staged"} => Answers(usWorker.version)
    /\ usWorker.at \in {"receive", "verified", "failed", "discarded"} => usSession.staged = 0
    /\ usWorker.at = "staged" => usSession.staged = usWorker.version
    /\ (usSession.staged # 0 /\ ~usUi.downloading) => usUi.ready /\ Answers(usSession.staged)

\* The file the installer has, or will take.
SessionInstallation ==
    /\ (usInstaller.at = "install" /\ usSession.staged # 0) =>
          usInstaller.asked <= usSession.staged
    /\ usInstaller.at = "prepare" => usUi.ready /\ usSession.staged = 0
    /\ usInstaller.at \in {"prepare", "launched"} =>
          Answers(usInstaller.version) /\ usInstaller.asked <= usInstaller.version
    /\ usInstaller.at \in {"not launched", "invalid"} => usInstaller.version = 0
    /\ usInstaller.at = "invalid" => usSession.staged = 0
    /\ usLaunched.installed # 0 =>
          /\ usLaunched.installed >= usLaunched.asked
          /\ usOverlap = "no" => usLaunched.installed = usUi.record

UsInv ==
    /\ UsTypeOK /\ SessionFree /\ SessionAvailable
    /\ usOverlap # "late" => SessionFiles /\ SessionInstallation

LEMMA ZeroVersion == 0 \in Versions /\ \A v \in Versions : v \in Int /\ 0 <= v
  BY DEF Versions

\* A dialog is opened over the others, and the one on top is answered.
LEMMA Opened ==
    ASSUME NEW dialogs \in Seq(Dialogs), NEW d \in Dialogs, NEW v \in Versions
    PROVE  /\ Append(dialogs, d) \in Seq(Dialogs)
           /\ (AllUpTo(dialogs, v) /\ d.version <= v) => AllUpTo(Append(dialogs, d), v)
           /\ (PromptsUpTo(dialogs, v) /\ (d.kind = "prompt" => d.version <= v)) =>
                 PromptsUpTo(Append(dialogs, d), v)
  <1>1. /\ Append(dialogs, d) \in Seq(Dialogs) /\ Len(dialogs) \in Nat
        /\ Len(Append(dialogs, d)) = Len(dialogs) + 1
        /\ Append(dialogs, d)[Len(dialogs) + 1] = d
        /\ \A i \in 1..Len(dialogs) : Append(dialogs, d)[i] = dialogs[i]
    OBVIOUS
  <1>2. ASSUME NEW i \in 1..(Len(dialogs) + 1) PROVE i = Len(dialogs) + 1 \/ i \in 1..Len(dialogs)
    BY <1>1
  <1> DEFINE longer == Append(dialogs, d)
  <1>3. ASSUME AllUpTo(dialogs, v), d.version <= v PROVE AllUpTo(longer, v)
    <2> SUFFICES ASSUME NEW i \in 1..(Len(dialogs) + 1) PROVE longer[i].version <= v
      BY <1>1 DEF AllUpTo
    <2> QED
      BY <1>1, <1>2, <1>3, Zenon DEF AllUpTo
  <1>4. ASSUME PromptsUpTo(dialogs, v), d.kind = "prompt" => d.version <= v
        PROVE  PromptsUpTo(longer, v)
    <2> SUFFICES ASSUME NEW i \in 1..(Len(dialogs) + 1)
                 PROVE  longer[i].kind = "prompt" => longer[i].version <= v
      BY <1>1 DEF PromptsUpTo
    <2> QED
      BY <1>1, <1>2, <1>4, Zenon DEF PromptsUpTo
  <1> QED
    BY <1>1, <1>3, <1>4

LEMMA Answered ==
    ASSUME NEW dialogs \in Seq(Dialogs), dialogs # <<>>, NEW v \in Versions
    PROVE  /\ SubSeq(dialogs, 1, Len(dialogs) - 1) \in Seq(Dialogs)
           /\ dialogs[Len(dialogs)].version \in Versions
           /\ AllUpTo(dialogs, v) => /\ AllUpTo(SubSeq(dialogs, 1, Len(dialogs) - 1), v)
                                     /\ dialogs[Len(dialogs)].version <= v
           /\ PromptsUpTo(dialogs, v) =>
                 /\ PromptsUpTo(SubSeq(dialogs, 1, Len(dialogs) - 1), v)
                 /\ dialogs[Len(dialogs)].kind = "prompt" => dialogs[Len(dialogs)].version <= v
  <1> DEFINE below == SubSeq(dialogs, 1, Len(dialogs) - 1)
  <1>1. Len(dialogs) \in Nat /\ Len(dialogs) # 0
    OBVIOUS
  <1>2. Len(dialogs) \in 1..Len(dialogs) /\ \A i \in 1..(Len(dialogs) - 1) : i \in 1..Len(dialogs)
    BY <1>1
  <1>3. /\ below \in Seq(Dialogs) /\ Len(below) = Len(dialogs) - 1
        /\ \A i \in 1..(Len(dialogs) - 1) : below[i] = dialogs[i]
    <2>1. Len(dialogs) - 1 \in 0..Len(dialogs)
      BY <1>1
    <2>2. below \in Seq(Dialogs)
      BY <2>1
    <2>3. Len(below) = Len(dialogs) - 1
      <3> DEFINE k == Len(dialogs) - 1
      <3>1. k \in Nat /\ k <= Len(dialogs)
        BY <1>1
      <3>2. Len(SubSeq(dialogs, 1, k)) = k
        <4> HIDE DEF k
        <4>1. k = 0 \/ 1 <= k
          BY <3>1
        <4> QED
          BY <3>1, <4>1
      <3> QED
        BY <3>2
    <2>4. \A i \in 1..(Len(dialogs) - 1) : below[i] = dialogs[i]
      BY <1>1
    <2> QED
      BY <2>2, <2>3, <2>4
  <1>4. dialogs[Len(dialogs)] \in Dialogs
    BY <1>2
  <1>5. AllUpTo(dialogs, v) => AllUpTo(below, v) /\ dialogs[Len(dialogs)].version <= v
    BY <1>2, <1>3, Zenon DEF AllUpTo
  <1>6. PromptsUpTo(dialogs, v) =>
           /\ PromptsUpTo(below, v)
           /\ dialogs[Len(dialogs)].kind = "prompt" => dialogs[Len(dialogs)].version <= v
    BY <1>2, <1>3, Zenon DEF PromptsUpTo
  <1>7. dialogs[Len(dialogs)].version \in Versions
    BY <1>4 DEF Dialogs
  <1> QED
    BY <1>3, <1>5, <1>6, <1>7, Zenon

\* What is available only grows.
LEMMA UpToMore ==
    ASSUME NEW dialogs \in Seq(Dialogs), NEW v \in Versions, NEW w \in Versions, v <= w
    PROVE  /\ AllUpTo(dialogs, v) => AllUpTo(dialogs, w) /\ PromptsUpTo(dialogs, v)
           /\ PromptsUpTo(dialogs, v) => PromptsUpTo(dialogs, w)
  <1>1. ASSUME NEW i \in 1..Len(dialogs) PROVE dialogs[i].version \in Int
    <2>1. dialogs[i] \in Dialogs
      OBVIOUS
    <2> QED
      BY <2>1, ZeroVersion DEF Dialogs
  <1>2. v \in Int /\ w \in Int
    BY ZeroVersion
  <1> QED
    BY <1>1, <1>2 DEF AllUpTo, PromptsUpTo

LEMMA SessionNumbers ==
    ASSUME UsTypeOK
    PROVE  /\ usFeed \in Versions /\ usUi.record \in Versions /\ usRestart \in Versions
           /\ usSession.available \in Versions /\ usSession.staged \in Versions
           /\ usWorker.version \in Versions /\ usCheck.version \in Versions
           /\ usInstaller.version \in Versions /\ usInstaller.asked \in Versions
           /\ usDialogs \in Seq(Dialogs)
  BY DEF UsTypeOK, Dialogs

\* A dialog that comes up over the open ones, and the one on top when it is answered.
LEMMA Opening ==
    ASSUME UsTypeOK, SessionAvailable, NEW kind \in {"offer", "prompt"}, NEW version \in Versions,
           version <= usSession.available, usDialogs' = Append(usDialogs, Dialog(kind, version))
    PROVE  /\ usDialogs' \in Seq(Dialogs) /\ AllUpTo(usDialogs', usSession.available)
           /\ \A v \in Versions :
                 (PromptsUpTo(usDialogs, v) /\ (kind = "prompt" => version <= v)) =>
                    PromptsUpTo(usDialogs', v)
  <1>1. usDialogs \in Seq(Dialogs) /\ usSession.available \in Versions
    BY SessionNumbers
  <1>2. PICK d \in Dialogs : d = Dialog(kind, version) /\ d.kind = kind /\ d.version = version
    BY DEF Dialog, Dialogs
  <1>3. \A v \in Versions :
           /\ Append(usDialogs, d) \in Seq(Dialogs)
           /\ (AllUpTo(usDialogs, v) /\ d.version <= v) => AllUpTo(Append(usDialogs, d), v)
           /\ (PromptsUpTo(usDialogs, v) /\ (d.kind = "prompt" => d.version <= v)) =>
                 PromptsUpTo(Append(usDialogs, d), v)
    BY <1>1, Opened, Zenon
  <1> QED
    BY <1>1, <1>2, <1>3, Zenon DEF SessionAvailable

LEMMA Closing ==
    ASSUME UsTypeOK, SessionAvailable, usDialogs # <<>>, usDialogs' = Below
    PROVE  /\ usDialogs' \in Seq(Dialogs) /\ AllUpTo(usDialogs', usSession.available)
           /\ Top \in Versions /\ Top <= usSession.available
           /\ \A v \in Versions :
                 PromptsUpTo(usDialogs, v) =>
                    /\ PromptsUpTo(usDialogs', v)
                    /\ usDialogs[Len(usDialogs)].kind = "prompt" => Top <= v
  <1>1. usDialogs \in Seq(Dialogs) /\ usSession.available \in Versions
    BY SessionNumbers
  <1>2. \A v \in Versions :
           /\ Below \in Seq(Dialogs) /\ Top \in Versions
           /\ AllUpTo(usDialogs, v) => AllUpTo(Below, v) /\ Top <= v
           /\ PromptsUpTo(usDialogs, v) =>
                 /\ PromptsUpTo(Below, v)
                 /\ usDialogs[Len(usDialogs)].kind = "prompt" => Top <= v
    BY <1>1, Answered, Zenon DEF Below, Top
  <1> QED
    BY <1>1, <1>2, Zenon DEF SessionAvailable

LEMMA SessionInit == ASSUME UsInit PROVE UsInv
  <1>1. usDialogs \in Seq(Dialogs) /\ Len(usDialogs) = 0
    BY DEF UsInit
  <1>2. UsTypeOK
    <2>1. usChecks \in 0..UsChecks /\ usCheck \in [at : {"no", "asking", "answered"}, version : Versions]
      BY ZeroVersion DEF UsInit, NoCheck
    <2>2. /\ usUi \in [record : Versions, ready : BOOLEAN, downloading : BOOLEAN, cancelled : BOOLEAN]
          /\ usWorker \in [at : UsSteps, version : Versions]
          /\ usInstaller \in [at : UsInstallSteps, asked : Versions, version : Versions]
      BY ZeroVersion DEF UsInit, NoWorker, NoInstaller, UsSteps, UsInstallSteps
    <2>3. /\ usSession \in [available : Versions, staged : Versions] /\ usCancelled \in BOOLEAN
          /\ usLaunched \in [asked : Versions, installed : Versions]
          /\ usFeed \in Versions /\ usRestart \in Versions /\ usOverlap \in {"no", "found", "late"}
      BY ZeroVersion DEF UsInit
    <2> QED
      BY <1>1, <2>1, <2>2, <2>3 DEF UsTypeOK, Dialogs
  <1>3. SessionFree /\ SessionAvailable
    BY <1>1 DEF UsInit, SessionFree, SessionAvailable, AllUpTo, NoCheck, NoWorker
  <1>4. SessionFiles /\ SessionInstallation
    BY DEF UsInit, SessionFiles, SessionInstallation, Installing, NoWorker, NoInstaller
  <1> QED
    BY <1>2, <1>3, <1>4 DEF UsInv

\* Checks and offers.
LEMMA SessionChecks ==
    ASSUME UsInv, usLaunched.installed = 0,
           UsPublish \/ UsBeginCheck \/ UsFound \/ UsNothingFound \/ UsOffer \/ UsDecline \/ UsAccept
    PROVE  UsInv'
  <1>1. CASE UsPublish
    <2>1. UsTypeOK /\ SessionAvailable
      BY DEF UsInv
    <2>2. UsTypeOK'
      <3>1. usFeed' \in Versions
        BY <1>1, ZeroVersion DEF UsInv, UsTypeOK, Versions, UsPublish
      <3> QED
        BY <1>1, <3>1 DEF UsInv, UsTypeOK, UsPublish
    <2>3. SessionFree'
      BY <1>1 DEF UsInv, UsTypeOK, SessionFree, UsPublish
    <2>4. SessionAvailable'
      BY <1>1, <2>1, SessionNumbers DEF UsInv, SessionAvailable, Versions, UsPublish
    <2>5. usOverlap' # "late" => SessionFiles'
      BY <1>1, <2>1, SessionNumbers DEF UsInv, UsTypeOK, SessionFree, SessionAvailable,
         SessionFiles, Answers, Installing, UsPublish
    <2>6. usOverlap' # "late" => SessionInstallation'
      BY <1>1, <2>1, SessionNumbers DEF UsInv, UsTypeOK, SessionFree, SessionAvailable,
         SessionFiles, SessionInstallation, Answers, Installing, UsPublish
    <2> QED
      BY <2>2, <2>3, <2>4, <2>5, <2>6 DEF UsInv
  <1>2. CASE UsBeginCheck
    <2>1. UsTypeOK /\ SessionAvailable
      BY DEF UsInv
    <2>2. UsTypeOK'
      <3>1. usChecks' \in 0..UsChecks
        BY <1>2, ZeroVersion DEF UsInv, UsTypeOK, UsBeginCheck
      <3>2. usCheck' \in [at : {"no", "asking", "answered"}, version : Versions]
        BY <1>2, ZeroVersion DEF UsInv, UsTypeOK, UsBeginCheck
      <3> QED
        BY <1>2, <3>1, <3>2 DEF UsInv, UsTypeOK, UsBeginCheck
    <2>3. SessionFree'
      BY <1>2 DEF UsInv, UsTypeOK, SessionFree, UsBeginCheck
    <2>4. SessionAvailable'
      BY <1>2, <2>1, SessionNumbers DEF UsInv, SessionAvailable, Versions, UsBeginCheck
    <2>5. usOverlap' # "late" => SessionFiles'
      BY <1>2, <2>1, SessionNumbers DEF UsInv, UsTypeOK, SessionFree, SessionAvailable,
         SessionFiles, Answers, Installing, UsBeginCheck
    <2>6. usOverlap' # "late" => SessionInstallation'
      BY <1>2, <2>1, SessionNumbers DEF UsInv, UsTypeOK, SessionFree, SessionAvailable,
         SessionFiles, SessionInstallation, Answers, Installing, UsBeginCheck
    <2> QED
      BY <2>2, <2>3, <2>4, <2>5, <2>6 DEF UsInv
  <1>3. CASE UsFound
    <2>1. UsTypeOK /\ SessionAvailable
      BY DEF UsInv
    <2>2. UsTypeOK'
      <3>1. usSession' \in [available : Versions, staged : Versions]
        BY <1>3, ZeroVersion DEF UsInv, UsTypeOK, UsFound
      <3>2. usCheck' \in [at : {"no", "asking", "answered"}, version : Versions]
        BY <1>3, ZeroVersion DEF UsInv, UsTypeOK, UsFound
      <3> QED
        BY <1>3, <3>1, <3>2 DEF UsInv, UsTypeOK, UsFound
    <2>3. SessionFree'
      BY <1>3 DEF UsInv, UsTypeOK, SessionFree, UsFound
    <2>4. SessionAvailable'
      <3>1. /\ usSession.available <= usFeed /\ usFeed \in Versions /\ usSession.available \in Versions
            /\ usSession'.available = usFeed /\ usCheck'.version = usFeed
            /\ UNCHANGED <<usFeed, usDialogs, usUi, usRestart, usWorker>>
        BY <1>3, <2>1, SessionNumbers DEF UsFound, SessionAvailable, UsTypeOK
      <3>2. AllUpTo(usDialogs, usFeed)
        BY <3>1, <2>1, SessionNumbers, UpToMore DEF SessionAvailable
      <3> QED
        BY <3>1, <3>2, <2>1, SessionNumbers DEF SessionAvailable, Versions
    <2>5. usOverlap' # "late" => SessionFiles'
      BY <1>3, <2>1, SessionNumbers DEF UsInv, UsTypeOK, SessionFree, SessionAvailable,
         SessionFiles, Answers, Installing, UsFound
    <2>6. usOverlap' # "late" => SessionInstallation'
      BY <1>3, <2>1, SessionNumbers DEF UsInv, UsTypeOK, SessionFree, SessionAvailable,
         SessionFiles, SessionInstallation, Answers, Installing, UsFound
    <2> QED
      BY <2>2, <2>3, <2>4, <2>5, <2>6 DEF UsInv
  <1>4. CASE UsNothingFound
    <2>1. UsTypeOK /\ SessionAvailable
      BY DEF UsInv
    <2>2. UsTypeOK'
      <3>1. usCheck' \in [at : {"no", "asking", "answered"}, version : Versions]
        BY <1>4, ZeroVersion DEF UsInv, UsTypeOK, UsNothingFound, UsChecked, NoCheck
      <3> QED
        BY <1>4, <3>1 DEF UsInv, UsTypeOK, UsNothingFound, UsChecked, NoCheck
    <2>3. SessionFree'
      BY <1>4 DEF UsInv, UsTypeOK, SessionFree, UsNothingFound, UsChecked, NoCheck
    <2>4. SessionAvailable'
      BY <1>4, <2>1, SessionNumbers DEF UsInv, SessionAvailable, Versions, UsNothingFound,
         UsChecked, NoCheck
    <2>5. usOverlap' # "late" => SessionFiles'
      BY <1>4, <2>1, SessionNumbers DEF UsInv, UsTypeOK, SessionFree, SessionAvailable,
         SessionFiles, Answers, Installing, UsNothingFound, UsChecked, NoCheck
    <2>6. usOverlap' # "late" => SessionInstallation'
      BY <1>4, <2>1, SessionNumbers DEF UsInv, UsTypeOK, SessionFree, SessionAvailable,
         SessionFiles, SessionInstallation, Answers, Installing, UsNothingFound, UsChecked,
         NoCheck
    <2> QED
      BY <2>2, <2>3, <2>4, <2>5, <2>6 DEF UsInv
  <1>5. CASE UsOffer
    <2>1. /\ usDialogs' \in Seq(Dialogs) /\ AllUpTo(usDialogs', usSession.available)
          /\ \A v \in Versions :
                PromptsUpTo(usDialogs, v) => PromptsUpTo(usDialogs', v)
      <3>1. /\ usCheck.version \in Versions /\ usCheck.version <= usSession.available
            /\ usDialogs' = Append(usDialogs, Dialog("offer", usCheck.version))
        BY <1>5, SessionNumbers DEF UsInv, SessionAvailable, UsOffer, UsChecked
      <3>2. UsTypeOK /\ SessionAvailable /\ "offer" \in {"offer", "prompt"} /\ "offer" # "prompt"
        BY DEF UsInv
      <3> QED
        BY ONLY <3>1, <3>2, Opening, Zenon
    <2>2. UsTypeOK /\ SessionAvailable
      BY DEF UsInv
    <2>3. UsTypeOK'
      <3>1. usCheck' \in [at : {"no", "asking", "answered"}, version : Versions]
        BY <1>5, <2>1, ZeroVersion DEF UsInv, UsTypeOK, UsOffer, UsChecked, NoCheck
      <3> QED
        BY <1>5, <2>1, <3>1 DEF UsInv, UsTypeOK, Dialogs, UsOffer, UsChecked, NoCheck
    <2>4. SessionFree'
      BY <1>5 DEF UsInv, UsTypeOK, SessionFree, UsOffer, UsChecked, NoCheck
    <2>5. SessionAvailable'
      BY <1>5, <2>1, <2>2, SessionNumbers DEF UsInv, SessionAvailable, Versions, UsOffer,
         UsChecked, NoCheck
    <2>6. usOverlap' # "late" => SessionFiles'
      BY <1>5, <2>1, <2>2, SessionNumbers DEF UsInv, UsTypeOK, SessionFree, SessionAvailable,
         SessionFiles, Answers, Installing, UsOffer, UsChecked, NoCheck
    <2>7. usOverlap' # "late" => SessionInstallation'
      BY <1>5, <2>1, <2>2, SessionNumbers DEF UsInv, UsTypeOK, SessionFree, SessionAvailable,
         SessionFiles, SessionInstallation, Answers, Installing, UsOffer, UsChecked, NoCheck
    <2> QED
      BY <2>3, <2>4, <2>5, <2>6, <2>7 DEF UsInv
  <1>6. CASE UsDecline
    <2>1. /\ usDialogs' \in Seq(Dialogs) /\ AllUpTo(usDialogs', usSession.available)
          /\ Top \in Versions /\ Top <= usSession.available
          /\ \A v \in Versions :
                PromptsUpTo(usDialogs, v) =>
                   /\ PromptsUpTo(usDialogs', v)
                   /\ usDialogs[Len(usDialogs)].kind = "prompt" => Top <= v
      <3>1. usDialogs # <<>> /\ usDialogs' = Below
        BY <1>6 DEF UsDecline, OnTop
      <3> QED
        BY <3>1, Closing DEF UsInv
    <2>2. UsTypeOK /\ SessionAvailable
      BY DEF UsInv
    <2>3. UsTypeOK'
      BY <1>6, <2>1 DEF UsInv, UsTypeOK, Dialogs, UsDecline, OnTop
    <2>4. SessionFree'
      BY <1>6 DEF UsInv, UsTypeOK, SessionFree, UsDecline, OnTop
    <2>5. SessionAvailable'
      BY <1>6, <2>1, <2>2, SessionNumbers DEF UsInv, SessionAvailable, Versions, UsDecline, OnTop
    <2>6. usOverlap' # "late" => SessionFiles'
      BY <1>6, <2>1, <2>2, SessionNumbers DEF UsInv, UsTypeOK, SessionFree, SessionAvailable,
         SessionFiles, Answers, Installing, UsDecline, OnTop
    <2>7. usOverlap' # "late" => SessionInstallation'
      BY <1>6, <2>1, <2>2, SessionNumbers DEF UsInv, UsTypeOK, SessionFree, SessionAvailable,
         SessionFiles, SessionInstallation, Answers, Installing, UsDecline, OnTop
    <2> QED
      BY <2>3, <2>4, <2>5, <2>6, <2>7 DEF UsInv
  <1>7. CASE UsAccept
    <2>1. /\ usDialogs' \in Seq(Dialogs) /\ AllUpTo(usDialogs', usSession.available)
          /\ Top \in Versions /\ Top <= usSession.available
          /\ \A v \in Versions :
                PromptsUpTo(usDialogs, v) =>
                   /\ PromptsUpTo(usDialogs', v)
                   /\ usDialogs[Len(usDialogs)].kind = "prompt" => Top <= v
      <3>1. usDialogs # <<>> /\ usDialogs' = Below
        BY <1>7 DEF UsAccept, OnTop
      <3> QED
        BY <3>1, Closing DEF UsInv
    <2>2. UsTypeOK /\ SessionAvailable
      BY DEF UsInv
    <2>3. UsTypeOK'
      <3>1. usUi' \in [record : Versions, ready : BOOLEAN, downloading : BOOLEAN, cancelled : BOOLEAN]
        BY <1>7, <2>1, ZeroVersion DEF UsInv, UsTypeOK, UsAccept, OnTop
      <3>2. usWorker' \in [at : UsSteps, version : Versions]
        BY <1>7, <2>1, ZeroVersion DEF UsInv, UsTypeOK, UsSteps, UsAccept, OnTop
      <3>3. usOverlap' \in {"no", "found", "late"}
        BY <1>7, <2>1, ZeroVersion DEF UsInv, UsTypeOK, UsAccept, OnTop
      <3> QED
        BY <1>7, <2>1, <3>1, <3>2, <3>3 DEF UsInv, UsTypeOK, Dialogs, UsAccept, OnTop
    <2>4. SessionFree'
      BY <1>7 DEF UsInv, UsTypeOK, SessionFree, UsAccept, OnTop
    <2>5. SessionAvailable'
      BY <1>7, <2>1, <2>2, SessionNumbers DEF UsInv, SessionAvailable, Versions, UsAccept, OnTop
    <2>6. usOverlap' # "late" => SessionFiles'
      BY <1>7, <2>1, <2>2, SessionNumbers DEF UsInv, UsTypeOK, SessionFree, SessionAvailable,
         SessionFiles, Answers, Installing, UsAccept, OnTop
    <2>7. usOverlap' # "late" => SessionInstallation'
      BY <1>7, <2>1, <2>2, SessionNumbers DEF UsInv, UsTypeOK, SessionFree, SessionAvailable,
         SessionFiles, SessionInstallation, Answers, Installing, UsAccept, OnTop
    <2> QED
      BY <2>3, <2>4, <2>5, <2>6, <2>7 DEF UsInv
  <1> QED
    BY <1>1, <1>2, <1>3, <1>4, <1>5, <1>6, <1>7

\* Downloads.
LEMMA SessionDownloads ==
    ASSUME UsInv,
           UsDownload \/ UsVerify \/ UsDownloadFails \/ UsStage \/ UsCancel \/ UsCancelledLate \/
           UsDiscard \/ UsDownloadOver
    PROVE  UsInv'
  <1>1. CASE UsDownload
    <2>1. UsTypeOK /\ SessionAvailable
      BY DEF UsInv
    <2>2. UsTypeOK'
      <3>1. usWorker' \in [at : UsSteps, version : Versions]
        BY <1>1, ZeroVersion DEF UsInv, UsTypeOK, UsSteps, UsDownload, UsWork
      <3>2. usSession' \in [available : Versions, staged : Versions]
        BY <1>1, ZeroVersion DEF UsInv, UsTypeOK, UsDownload, UsWork
      <3>3. usOverlap' \in {"no", "found", "late"}
        BY <1>1, ZeroVersion DEF UsInv, UsTypeOK, UsDownload, UsWork
      <3> QED
        BY <1>1, <3>1, <3>2, <3>3 DEF UsInv, UsTypeOK, UsDownload, UsWork
    <2>3. SessionFree'
      BY <1>1 DEF UsInv, UsTypeOK, SessionFree, UsDownload, UsWork
    <2>4. SessionAvailable'
      BY <1>1, <2>1, SessionNumbers DEF UsInv, SessionAvailable, Versions, UsDownload, UsWork
    <2>5. usOverlap' # "late" => SessionFiles'
      <3>1. /\ usWorker.at = "download" /\ usWorker'.at = "receive"
            /\ usWorker'.version = usSession.available /\ usSession'.staged = 0
            /\ usOverlap # "late" <=> usOverlap' # "late"
            /\ usOverlap' = "no" => usSession.available = usUi.record
            /\ UNCHANGED <<usDialogs, usUi, usRestart, usInstaller>>
        BY <1>1, <2>1 DEF UsDownload, UsWork, UsTypeOK
      <3>2. PromptsUpTo(usDialogs, usSession.available)
        BY <2>1, SessionNumbers, UpToMore DEF SessionAvailable, Versions
      <3>3. Answers(usWorker.version)'
        BY <3>1, <3>2, <2>1 DEF SessionAvailable, Answers
      <3> QED
        BY <3>1, <3>3, <2>1 DEF UsInv, SessionFree, SessionFiles, Installing
    <2>6. usOverlap' # "late" => SessionInstallation'
      BY <1>1, <2>1, SessionNumbers DEF UsInv, UsTypeOK, SessionFree, SessionAvailable,
         SessionFiles, SessionInstallation, Answers, Installing, UsDownload, UsWork
    <2> QED
      BY <2>2, <2>3, <2>4, <2>5, <2>6 DEF UsInv
  <1>2. CASE UsVerify
    <2>1. UsTypeOK /\ SessionAvailable
      BY DEF UsInv
    <2>2. UsTypeOK'
      <3>1. usWorker' \in [at : UsSteps, version : Versions]
        BY <1>2, ZeroVersion DEF UsInv, UsTypeOK, UsSteps, UsVerify, UsWork
      <3> QED
        BY <1>2, <3>1 DEF UsInv, UsTypeOK, UsVerify, UsWork
    <2>3. SessionFree'
      BY <1>2 DEF UsInv, UsTypeOK, SessionFree, UsVerify, UsWork
    <2>4. SessionAvailable'
      BY <1>2, <2>1, SessionNumbers DEF UsInv, SessionAvailable, Versions, UsVerify, UsWork
    <2>5. usOverlap' # "late" => SessionFiles'
      BY <1>2, <2>1, SessionNumbers DEF UsInv, UsTypeOK, SessionFree, SessionAvailable,
         SessionFiles, Answers, Installing, UsVerify, UsWork
    <2>6. usOverlap' # "late" => SessionInstallation'
      BY <1>2, <2>1, SessionNumbers DEF UsInv, UsTypeOK, SessionFree, SessionAvailable,
         SessionFiles, SessionInstallation, Answers, Installing, UsVerify, UsWork
    <2> QED
      BY <2>2, <2>3, <2>4, <2>5, <2>6 DEF UsInv
  <1>3. CASE UsDownloadFails
    <2>1. UsTypeOK /\ SessionAvailable
      BY DEF UsInv
    <2>2. UsTypeOK'
      <3>1. usWorker' \in [at : UsSteps, version : Versions]
        BY <1>3, ZeroVersion DEF UsInv, UsTypeOK, UsSteps, UsDownloadFails, UsWork
      <3> QED
        BY <1>3, <3>1 DEF UsInv, UsTypeOK, UsDownloadFails, UsWork
    <2>3. SessionFree'
      BY <1>3 DEF UsInv, UsTypeOK, SessionFree, UsDownloadFails, UsWork
    <2>4. SessionAvailable'
      BY <1>3, <2>1, SessionNumbers DEF UsInv, SessionAvailable, Versions, UsDownloadFails, UsWork
    <2>5. usOverlap' # "late" => SessionFiles'
      BY <1>3, <2>1, SessionNumbers DEF UsInv, UsTypeOK, SessionFree, SessionAvailable,
         SessionFiles, Answers, Installing, UsDownloadFails, UsWork
    <2>6. usOverlap' # "late" => SessionInstallation'
      BY <1>3, <2>1, SessionNumbers DEF UsInv, UsTypeOK, SessionFree, SessionAvailable,
         SessionFiles, SessionInstallation, Answers, Installing, UsDownloadFails, UsWork
    <2> QED
      BY <2>2, <2>3, <2>4, <2>5, <2>6 DEF UsInv
  <1>4. CASE UsStage
    <2>1. UsTypeOK /\ SessionAvailable
      BY DEF UsInv
    <2>2. UsTypeOK'
      <3>1. usWorker' \in [at : UsSteps, version : Versions]
        BY <1>4, ZeroVersion DEF UsInv, UsTypeOK, UsSteps, UsStage, UsWork
      <3>2. usSession' \in [available : Versions, staged : Versions]
        BY <1>4, ZeroVersion DEF UsInv, UsTypeOK, UsStage, UsWork
      <3> QED
        BY <1>4, <3>1, <3>2 DEF UsInv, UsTypeOK, UsStage, UsWork
    <2>3. SessionFree'
      BY <1>4 DEF UsInv, UsTypeOK, SessionFree, UsStage, UsWork
    <2>4. SessionAvailable'
      BY <1>4, <2>1, SessionNumbers DEF UsInv, SessionAvailable, Versions, UsStage, UsWork
    <2>5. usOverlap' # "late" => SessionFiles'
      BY <1>4, <2>1, SessionNumbers DEF UsInv, UsTypeOK, SessionFree, SessionAvailable,
         SessionFiles, Answers, Installing, UsStage, UsWork
    <2>6. usOverlap' # "late" => SessionInstallation'
      BY <1>4, <2>1, SessionNumbers DEF UsInv, UsTypeOK, SessionFree, SessionAvailable,
         SessionFiles, SessionInstallation, Answers, Installing, UsStage, UsWork
    <2> QED
      BY <2>2, <2>3, <2>4, <2>5, <2>6 DEF UsInv
  <1>5. CASE UsCancel
    <2>1. UsTypeOK /\ SessionAvailable
      BY DEF UsInv
    <2>2. UsTypeOK'
      <3>1. usUi' \in [record : Versions, ready : BOOLEAN, downloading : BOOLEAN, cancelled : BOOLEAN]
        BY <1>5, ZeroVersion DEF UsInv, UsTypeOK, UsCancel
      <3> QED
        BY <1>5, <3>1 DEF UsInv, UsTypeOK, UsCancel
    <2>3. SessionFree'
      BY <1>5 DEF UsInv, UsTypeOK, SessionFree, UsCancel
    <2>4. SessionAvailable'
      BY <1>5, <2>1, SessionNumbers DEF UsInv, SessionAvailable, Versions, UsCancel
    <2>5. usOverlap' # "late" => SessionFiles'
      BY <1>5, <2>1, SessionNumbers DEF UsInv, UsTypeOK, SessionFree, SessionAvailable,
         SessionFiles, Answers, Installing, UsCancel
    <2>6. usOverlap' # "late" => SessionInstallation'
      BY <1>5, <2>1, SessionNumbers DEF UsInv, UsTypeOK, SessionFree, SessionAvailable,
         SessionFiles, SessionInstallation, Answers, Installing, UsCancel
    <2> QED
      BY <2>2, <2>3, <2>4, <2>5, <2>6 DEF UsInv
  <1>6. CASE UsCancelledLate
    <2>1. UsTypeOK /\ SessionAvailable
      BY DEF UsInv
    <2>2. UsTypeOK'
      <3>1. usWorker' \in [at : UsSteps, version : Versions]
        BY <1>6, ZeroVersion DEF UsInv, UsTypeOK, UsSteps, UsCancelledLate, UsWork
      <3> QED
        BY <1>6, <3>1 DEF UsInv, UsTypeOK, UsCancelledLate, UsWork
    <2>3. SessionFree'
      BY <1>6 DEF UsInv, UsTypeOK, SessionFree, UsCancelledLate, UsWork
    <2>4. SessionAvailable'
      BY <1>6, <2>1, SessionNumbers DEF UsInv, SessionAvailable, Versions, UsCancelledLate, UsWork
    <2>5. usOverlap' # "late" => SessionFiles'
      BY <1>6, <2>1, SessionNumbers DEF UsInv, UsTypeOK, SessionFree, SessionAvailable,
         SessionFiles, Answers, Installing, UsCancelledLate, UsWork
    <2>6. usOverlap' # "late" => SessionInstallation'
      BY <1>6, <2>1, SessionNumbers DEF UsInv, UsTypeOK, SessionFree, SessionAvailable,
         SessionFiles, SessionInstallation, Answers, Installing, UsCancelledLate, UsWork
    <2> QED
      BY <2>2, <2>3, <2>4, <2>5, <2>6 DEF UsInv
  <1>7. CASE UsDiscard
    <2>1. UsTypeOK /\ SessionAvailable
      BY DEF UsInv
    <2>2. UsTypeOK'
      <3>1. usWorker' \in [at : UsSteps, version : Versions]
        BY <1>7, ZeroVersion DEF UsInv, UsTypeOK, UsSteps, UsDiscard, UsWork
      <3>2. usSession' \in [available : Versions, staged : Versions]
        BY <1>7, ZeroVersion DEF UsInv, UsTypeOK, UsDiscard, UsWork
      <3> QED
        BY <1>7, <3>1, <3>2 DEF UsInv, UsTypeOK, UsDiscard, UsWork
    <2>3. SessionFree'
      BY <1>7 DEF UsInv, UsTypeOK, SessionFree, UsDiscard, UsWork
    <2>4. SessionAvailable'
      BY <1>7, <2>1, SessionNumbers DEF UsInv, SessionAvailable, Versions, UsDiscard, UsWork
    <2>5. usOverlap' # "late" => SessionFiles'
      BY <1>7, <2>1, SessionNumbers DEF UsInv, UsTypeOK, SessionFree, SessionAvailable,
         SessionFiles, Answers, Installing, UsDiscard, UsWork
    <2>6. usOverlap' # "late" => SessionInstallation'
      BY <1>7, <2>1, SessionNumbers DEF UsInv, UsTypeOK, SessionFree, SessionAvailable,
         SessionFiles, SessionInstallation, Answers, Installing, UsDiscard, UsWork
    <2> QED
      BY <2>2, <2>3, <2>4, <2>5, <2>6 DEF UsInv
  <1>8. CASE UsDownloadOver
    <2>1. /\ UsTypeOK /\ SessionFree /\ SessionAvailable
          /\ usOverlap # "late" => SessionFiles /\ SessionInstallation
      BY DEF UsInv
    <2>2. /\ usWorker' = [at |-> "idle", version |-> 0] /\ usUi'.record = usUi.record /\ ~usUi'.downloading
          /\ usWorker.at \in {"failed", "discarded", "staged"}
          /\ usUi' \in [record : Versions, ready : BOOLEAN, downloading : BOOLEAN, cancelled : BOOLEAN]
          /\ usWorker.at = "staged" => usUi'.ready
          /\ UNCHANGED <<usFeed, usChecks, usCheck, usRestart, usInstaller, usSession, usCancelled,
                         usLaunched, usOverlap>>
      BY <1>8, <2>1 DEF UsDownloadOver, UsFinished, NoWorker, UsTypeOK
    <2>3. /\ usDialogs' \in Seq(Dialogs) /\ AllUpTo(usDialogs', usSession.available)
          /\ \A v \in Versions : (PromptsUpTo(usDialogs, v) /\ usUi.record <= v) => PromptsUpTo(usDialogs', v)
      <3>1. CASE usDialogs' = usDialogs
        BY <3>1, <2>1, SessionNumbers DEF SessionAvailable
      <3>2. CASE usDialogs' = Append(usDialogs, Dialog("prompt", usUi.record))
        <4>1. usUi.record \in Versions /\ usUi.record <= usSession.available /\ "prompt" \in {"offer", "prompt"}
          BY <2>1, SessionNumbers DEF SessionAvailable
        <4> QED
          BY ONLY <4>1, <3>2, <2>1, Opening, Zenon
      <3> QED
        BY <1>8, <3>1, <3>2 DEF UsDownloadOver, UsFinished, Prompted
    <2>4. UsTypeOK'
      <3>1. usWorker' \in [at : UsSteps, version : Versions]
        BY <2>2, ZeroVersion DEF UsSteps
      <3> QED
        BY <3>1, <2>1, <2>2, <2>3 DEF UsTypeOK, Dialogs
    <2>5. SessionFree' /\ SessionAvailable'
      BY <2>1, <2>2, <2>3, SessionNumbers DEF SessionFree, SessionAvailable, Versions
    <2>6. usOverlap' # "late" => SessionFiles'
      <3> SUFFICES ASSUME usOverlap # "late" PROVE SessionFiles'
        BY <2>2
      <3>1. usUi.downloading /\ SessionFiles
        BY <2>1, <2>2 DEF SessionFree
      <3>2. usSession.staged # 0 => usWorker.at = "staged" /\ usSession.staged = usWorker.version
        BY <3>1, <2>2 DEF SessionFiles
      <3>3. usWorker.at = "staged" => Answers(usSession.staged)
        BY <3>1 DEF SessionFiles
      <3>4. usWorker.at = "staged" => Answers(usSession.staged)'
        BY <3>3, <2>1, <2>2, <2>3, SessionNumbers DEF Answers
      <3> QED
        BY <3>2, <3>4, <2>2 DEF SessionFiles
    <2>7. usOverlap' # "late" => SessionInstallation'
      <3> SUFFICES ASSUME usOverlap # "late" PROVE SessionInstallation'
        BY <2>2
      <3>1. usInstaller'.at = "idle" /\ SessionInstallation
        BY <2>1, <2>2 DEF SessionFree, SessionFiles, Installing
      <3> QED
        BY <3>1, <2>2 DEF SessionInstallation
    <2> QED
      BY <2>4, <2>5, <2>6, <2>7 DEF UsInv
  <1> QED
    BY <1>1, <1>2, <1>3, <1>4, <1>5, <1>6, <1>7, <1>8

\* Prompts and the installation.
LEMMA SessionInstalls ==
    ASSUME UsInv,
           UsAsk \/ UsConfirm \/ UsRefuse \/ UsBeginInstall \/ UsTake \/ UsPrepared \/ UsInstalled \/
           UNCHANGED usVars
    PROVE  UsInv'
  <1>1. CASE UsAsk
    <2>1. /\ usDialogs' \in Seq(Dialogs) /\ AllUpTo(usDialogs', usSession.available)
          /\ \A v \in Versions :
                (PromptsUpTo(usDialogs, v) /\ usUi.record <= v) => PromptsUpTo(usDialogs', v)
      <3>1. /\ usUi.record \in Versions /\ usUi.record <= usSession.available
            /\ usDialogs' = Append(usDialogs, Dialog("prompt", usUi.record))
        BY <1>1, SessionNumbers DEF UsInv, SessionAvailable, UsAsk, UsAsked, Prompted
      <3>2. UsTypeOK /\ SessionAvailable /\ "prompt" \in {"offer", "prompt"}
        BY DEF UsInv
      <3> QED
        BY ONLY <3>1, <3>2, Opening, Zenon
    <2>2. UsTypeOK /\ SessionAvailable
      BY DEF UsInv
    <2>3. UsTypeOK'
      BY <1>1, <2>1 DEF UsInv, UsTypeOK, Dialogs, UsAsk, UsAsked
    <2>4. SessionFree'
      BY <1>1 DEF UsInv, UsTypeOK, SessionFree, UsAsk, UsAsked
    <2>5. SessionAvailable'
      BY <1>1, <2>1, <2>2, SessionNumbers DEF UsInv, SessionAvailable, Versions, UsAsk, UsAsked
    <2>6. usOverlap' # "late" => SessionFiles'
      BY <1>1, <2>1, <2>2, SessionNumbers DEF UsInv, UsTypeOK, SessionFree, SessionAvailable,
         SessionFiles, Answers, Installing, UsAsk, UsAsked
    <2>7. usOverlap' # "late" => SessionInstallation'
      BY <1>1, <2>1, <2>2, SessionNumbers DEF UsInv, UsTypeOK, SessionFree, SessionAvailable,
         SessionFiles, SessionInstallation, Answers, Installing, UsAsk, UsAsked
    <2> QED
      BY <2>3, <2>4, <2>5, <2>6, <2>7 DEF UsInv
  <1>2. CASE UsConfirm
    <2>1. /\ usDialogs' \in Seq(Dialogs) /\ AllUpTo(usDialogs', usSession.available)
          /\ Top \in Versions /\ Top <= usSession.available
          /\ \A v \in Versions :
                PromptsUpTo(usDialogs, v) =>
                   /\ PromptsUpTo(usDialogs', v)
                   /\ usDialogs[Len(usDialogs)].kind = "prompt" => Top <= v
      <3>1. usDialogs # <<>> /\ usDialogs' = Below
        BY <1>2 DEF UsConfirm, UsAsked, OnTop
      <3> QED
        BY <3>1, Closing DEF UsInv
    <2>2. UsTypeOK /\ SessionAvailable
      BY DEF UsInv
    <2>3. UsTypeOK'
      <3>1. usRestart' \in Versions
        BY <1>2, <2>1, ZeroVersion DEF UsInv, UsTypeOK, UsConfirm, UsAsked, OnTop
      <3> QED
        BY <1>2, <2>1, <3>1 DEF UsInv, UsTypeOK, Dialogs, UsConfirm, UsAsked, OnTop
    <2>4. SessionFree'
      BY <1>2 DEF UsInv, UsTypeOK, SessionFree, UsConfirm, UsAsked, OnTop
    <2>5. SessionAvailable'
      BY <1>2, <2>1, <2>2, SessionNumbers DEF UsInv, SessionAvailable, Versions, UsConfirm,
         UsAsked, OnTop
    <2>6. usOverlap' # "late" => SessionFiles'
      BY <1>2, <2>1, <2>2, SessionNumbers DEF UsInv, UsTypeOK, SessionFree, SessionAvailable,
         SessionFiles, Answers, Installing, UsConfirm, UsAsked, OnTop
    <2>7. usOverlap' # "late" => SessionInstallation'
      BY <1>2, <2>1, <2>2, SessionNumbers DEF UsInv, UsTypeOK, SessionFree, SessionAvailable,
         SessionFiles, SessionInstallation, Answers, Installing, UsConfirm, UsAsked, OnTop
    <2> QED
      BY <2>3, <2>4, <2>5, <2>6, <2>7 DEF UsInv
  <1>3. CASE UsRefuse
    <2>1. UsTypeOK /\ SessionAvailable
      BY DEF UsInv
    <2>2. UsTypeOK'
      <3>1. usRestart' \in Versions
        BY <1>3, ZeroVersion DEF UsInv, UsTypeOK, UsRefuse, UsAsked
      <3> QED
        BY <1>3, <3>1 DEF UsInv, UsTypeOK, UsRefuse, UsAsked
    <2>3. SessionFree'
      BY <1>3 DEF UsInv, UsTypeOK, SessionFree, UsRefuse, UsAsked
    <2>4. SessionAvailable'
      BY <1>3, <2>1, SessionNumbers DEF UsInv, SessionAvailable, Versions, UsRefuse, UsAsked
    <2>5. usOverlap' # "late" => SessionFiles'
      BY <1>3, <2>1, SessionNumbers DEF UsInv, UsTypeOK, SessionFree, SessionAvailable,
         SessionFiles, Answers, Installing, Versions, UsRefuse, UsAsked
    <2>6. usOverlap' # "late" => SessionInstallation'
      <3>1. /\ usRestart' = 0 /\ usInstaller' = usInstaller /\ usSession' = usSession
            /\ usUi' = usUi /\ usDialogs' = usDialogs /\ usOverlap' = usOverlap /\ usLaunched' = usLaunched
        BY <1>3 DEF UsRefuse, UsAsked
      <3>2. Answers(usInstaller.version) => Answers(usInstaller.version)'
        BY <3>1, <2>1, SessionNumbers, ZeroVersion DEF Answers
      <3> QED
        BY <3>1, <3>2 DEF UsInv, SessionInstallation
    <2> QED
      BY <2>2, <2>3, <2>4, <2>5, <2>6 DEF UsInv
  <1>4. CASE UsBeginInstall
    <2>1. UsTypeOK /\ SessionAvailable
      BY DEF UsInv
    <2>2. UsTypeOK'
      <3>1. usRestart' \in Versions
        BY <1>4, ZeroVersion DEF UsInv, UsTypeOK, UsBeginInstall
      <3>2. usInstaller' \in [at : UsInstallSteps, asked : Versions, version : Versions]
        BY <1>4, ZeroVersion DEF UsInv, UsTypeOK, UsInstallSteps, UsBeginInstall
      <3> QED
        BY <1>4, <3>1, <3>2 DEF UsInv, UsTypeOK, UsBeginInstall
    <2>3. SessionFree'
      BY <1>4 DEF UsInv, UsTypeOK, SessionFree, UsBeginInstall
    <2>4. SessionAvailable'
      BY <1>4, <2>1, SessionNumbers DEF UsInv, SessionAvailable, Versions, UsBeginInstall
    <2>5. usOverlap' # "late" => SessionFiles'
      BY <1>4, <2>1, SessionNumbers DEF UsInv, UsTypeOK, SessionFree, SessionAvailable,
         SessionFiles, Answers, Installing, Versions, UsBeginInstall
    <2>6. usOverlap' # "late" => SessionInstallation'
      BY <1>4, <2>1, SessionNumbers DEF UsInv, UsTypeOK, SessionFree, SessionAvailable,
         SessionFiles, SessionInstallation, Answers, Installing, Versions, UsBeginInstall
    <2> QED
      BY <2>2, <2>3, <2>4, <2>5, <2>6 DEF UsInv
  <1>5. CASE UsTake
    <2>1. UsTypeOK /\ SessionAvailable
      BY DEF UsInv
    <2>2. UsTypeOK'
      <3>1. usInstaller' \in [at : UsInstallSteps, asked : Versions, version : Versions]
        BY <1>5, ZeroVersion DEF UsInv, UsTypeOK, UsInstallSteps, UsTake, UsInstallWork
      <3>2. usSession' \in [available : Versions, staged : Versions]
        BY <1>5, ZeroVersion DEF UsInv, UsTypeOK, UsTake, UsInstallWork
      <3> QED
        BY <1>5, <3>1, <3>2 DEF UsInv, UsTypeOK, UsTake, UsInstallWork
    <2>3. SessionFree'
      BY <1>5 DEF UsInv, UsTypeOK, SessionFree, UsTake, UsInstallWork
    <2>4. SessionAvailable'
      BY <1>5, <2>1, SessionNumbers DEF UsInv, SessionAvailable, Versions, UsTake, UsInstallWork
    <2>5. usOverlap' # "late" => SessionFiles'
      BY <1>5, <2>1, SessionNumbers DEF UsInv, UsTypeOK, SessionFree, SessionAvailable,
         SessionFiles, Answers, Installing, UsTake, UsInstallWork
    <2>6. usOverlap' # "late" => SessionInstallation'
      BY <1>5, <2>1, SessionNumbers DEF UsInv, UsTypeOK, SessionFree, SessionAvailable,
         SessionFiles, SessionInstallation, Answers, Installing, UsTake, UsInstallWork
    <2> QED
      BY <2>2, <2>3, <2>4, <2>5, <2>6 DEF UsInv
  <1>6. CASE UsPrepared
    <2>1. /\ UsTypeOK /\ SessionFree /\ SessionAvailable
          /\ usOverlap # "late" => SessionFiles /\ SessionInstallation
      BY DEF UsInv
    <2>2. PICK to \in {"launched", "not launched", "invalid"}, version \in Versions, staged \in Versions :
             /\ UsInstallWork("prepare", to, version, staged)
             /\ version = IF to = "launched" THEN usInstaller.version ELSE 0
             /\ staged = usSession.staged \/ (to = "not launched" /\ staged = usInstaller.version)
      BY <1>6, <2>1, SessionNumbers, ZeroVersion DEF UsPrepared
    <2>3. /\ usInstaller.at = "prepare" /\ usInstaller'.at = to /\ usInstaller'.version = version
          /\ usInstaller'.asked = usInstaller.asked
          /\ usSession'.staged = staged /\ usSession'.available = usSession.available
          /\ usInstaller' \in [at : UsInstallSteps, asked : Versions, version : Versions]
          /\ usSession' \in [available : Versions, staged : Versions]
          /\ UNCHANGED <<usFeed, usChecks, usCheck, usDialogs, usRestart, usUi, usWorker, usCancelled,
                         usLaunched, usOverlap>>
      BY <2>1, <2>2 DEF UsInstallWork, UsTypeOK, UsInstallSteps
    <2>4. UsTypeOK' /\ SessionFree' /\ SessionAvailable'
      BY <2>1, <2>3 DEF UsTypeOK, SessionFree, SessionAvailable
    <2>5. usOverlap' # "late" => SessionFiles' /\ SessionInstallation'
      <3> SUFFICES ASSUME usOverlap # "late" PROVE SessionFiles' /\ SessionInstallation'
        BY <2>3
      <3>1. /\ usUi.ready /\ ~usUi.downloading /\ usSession.staged = 0 /\ usWorker.at = "idle"
            /\ Answers(usInstaller.version) /\ usInstaller.asked <= usInstaller.version
            /\ SessionInstallation
        BY <2>1, <2>3 DEF SessionFree, SessionFiles, SessionInstallation, Installing
      <3>2. /\ to = "launched" => version = usInstaller.version
            /\ to # "launched" => version = 0
            /\ staged # 0 => to = "not launched" /\ staged = usInstaller.version
        BY <2>2, <3>1
      <3>3. SessionFiles'
        BY <3>1, <3>2, <2>3 DEF SessionFiles, Answers
      <3>4. SessionInstallation'
        BY <3>1, <3>2, <2>2, <2>3 DEF SessionInstallation, Answers
      <3> QED
        BY <3>3, <3>4
    <2> QED
      BY <2>4, <2>5 DEF UsInv
  <1>7. CASE UsInstalled
    <2>1. /\ UsTypeOK /\ SessionFree /\ SessionAvailable
          /\ usOverlap # "late" => SessionFiles /\ SessionInstallation
      BY DEF UsInv
    <2>2. /\ usInstaller.at \in {"launched", "not launched", "invalid"} /\ usInstaller'.at = "idle"
          /\ usUi'.ready \in BOOLEAN /\ (usUi'.ready <=> usUi.ready /\ usInstaller.at # "invalid")
          /\ usUi'.record = usUi.record /\ usUi'.downloading = usUi.downloading
          /\ usUi' \in [record : Versions, ready : BOOLEAN, downloading : BOOLEAN, cancelled : BOOLEAN]
          /\ usLaunched' = [asked |-> usInstaller.asked, installed |-> usInstaller.version]
          /\ UNCHANGED <<usFeed, usChecks, usCheck, usDialogs, usRestart, usWorker, usSession, usCancelled,
                         usOverlap>>
      BY <1>7, <2>1 DEF UsInstalled, NoInstaller, UsTypeOK
    <2>3. UsTypeOK'
      <3>1. usInstaller' \in [at : UsInstallSteps, asked : Versions, version : Versions]
        BY <1>7, ZeroVersion DEF UsInstalled, NoInstaller, UsInstallSteps
      <3>2. usLaunched' \in [asked : Versions, installed : Versions]
        BY <2>1, <2>2, SessionNumbers
      <3> QED
        BY <2>1, <2>2, <3>1, <3>2 DEF UsTypeOK
    <2>4. SessionFree' /\ SessionAvailable'
      BY <2>1, <2>2 DEF SessionFree, SessionAvailable
    <2>5. usOverlap' # "late" => SessionFiles' /\ SessionInstallation'
      <3> SUFFICES ASSUME usOverlap # "late" PROVE SessionFiles' /\ SessionInstallation'
        BY <2>2
      <3>1. SessionFiles /\ SessionInstallation /\ ~usUi.downloading /\ usWorker.at = "idle"
        BY <2>1, <2>2 DEF SessionFree, SessionFiles, Installing
      <3>2. SessionFiles'
        BY <2>2, <3>1 DEF SessionFiles, SessionInstallation, Answers
      <3>3. SessionInstallation'
        <4>1. /\ usInstaller.at = "launched" => Answers(usInstaller.version) /\ usInstaller.asked <= usInstaller.version
              /\ usInstaller.at # "launched" => usInstaller.version = 0
          BY <2>2, <3>1 DEF SessionInstallation
        <4>2. usInstaller.version # 0 => /\ usInstaller.asked <= usInstaller.version
                                         /\ usOverlap = "no" => usInstaller.version = usUi.record
          BY <2>2, <4>1 DEF Answers
        <4>3. usLaunched'.installed = usInstaller.version /\ usLaunched'.asked = usInstaller.asked
          BY <2>2
        <4>4. usInstaller.asked \in Int /\ usInstaller.version \in Int
          BY <2>1, SessionNumbers, ZeroVersion
        <4> QED
          BY <2>2, <4>2, <4>3, <4>4 DEF SessionInstallation
      <3> QED
        BY <3>2, <3>3
    <2> QED
      BY <2>3, <2>4, <2>5 DEF UsInv
  <1>8. CASE UNCHANGED usVars
    <2>1. UsTypeOK /\ SessionAvailable
      BY DEF UsInv
    <2>2. UsTypeOK'
      BY <1>8 DEF UsInv, UsTypeOK, usVars
    <2>3. SessionFree'
      BY <1>8 DEF UsInv, UsTypeOK, SessionFree, usVars
    <2>4. SessionAvailable'
      BY <1>8, <2>1, SessionNumbers DEF UsInv, SessionAvailable, Versions, usVars
    <2>5. usOverlap' # "late" => SessionFiles'
      BY <1>8, <2>1, SessionNumbers DEF UsInv, UsTypeOK, SessionFree, SessionAvailable,
         SessionFiles, Answers, Installing, usVars
    <2>6. usOverlap' # "late" => SessionInstallation'
      BY <1>8, <2>1, SessionNumbers DEF UsInv, UsTypeOK, SessionFree, SessionAvailable,
         SessionFiles, SessionInstallation, Answers, Installing, usVars
    <2> QED
      BY <2>2, <2>3, <2>4, <2>5, <2>6 DEF UsInv
  <1> QED
    BY <1>1, <1>2, <1>3, <1>4, <1>5, <1>6, <1>7, <1>8

\* The installer gets the update whose download the user accepted last, or, when a check found a
\* newer one before the download began or an older prompt was left open, a newer one than the user was
\* asked about, never an older; and a staged file can still be installed.  This holds through
\* overlapping checks, offers and prompts, and cancelled and failed downloads, unless the download was
\* accepted after an installation had been confirmed (desktop/app/updater_windows_linux.cpp,
\* bridge/src/update.rs).
THEOREM InstallsWhatWasAsked == UsSpec => []UsInstallsWhatWasAsked
  <1>1. UsInit => UsInv
    BY SessionInit
  <1>2. UsInv /\ [UsNext]_usVars => UsInv'
    BY SessionChecks, SessionDownloads, SessionInstalls DEF UsNext
  <1>3. UsInv => UsInstallsWhatWasAsked
    BY DEF UsInv, SessionFiles, SessionInstallation, Answers, UsInstallsWhatWasAsked
  <1> QED
    BY <1>1, <1>2, <1>3, PTL DEF UsSpec

-----------------------------------------------------------------------------
(***************************************************************************)
(* The profiles.  PsInv says of the stores that they agree and share       *)
(* nothing, and of each worker, by the step it is at, what of the stores   *)
(* it may rely on (Knows) and for which request it works (Serves).  Only   *)
(* the holder of the lock is between two steps.                            *)
(***************************************************************************)
PsShape ==
    /\ profiles \in [Ids -> Profile \cup {Absent}]
    /\ journal \subseteq References
    /\ keychain \in [References -> Secrets \cup {NoSecret}]
    /\ workers \in [Instances -> Worker]

Busy(i) == workers[i].step \notin {"down", "opened", "idle"}
PreviousOf(profile) == IF profile = Absent THEN NoReferences ELSE profile.references

\* A worker that has not been asked for anything yet has failed in nothing.
Resting(w) == w.step \in {"down", "opened"} => w.ok /\ w.answer = Silent

\* The reference that the row to be saved has in a slot is what the job asks for.
AsAsked(w, s) ==
    LET usable == Usable[w.job.configuration]  update == w.job.updates[s] IN
    /\ s \notin usable \/ update = Clear => w.references[s] = NoReference
    /\ s \in usable /\ update = Keep => w.references[s] = w.previous[s]
    /\ s \in usable /\ update \notin {Keep, Clear} =>
          w.references[s] \in w.created /\ keychain[w.references[s]] = update

\* While a save is prepared, the row it saves is the one it has read; what it has created is in the
\* store, in one slot of its row each, and in no saved row.
Preparing(w) ==
    /\ w.job \in Jobs /\ w.job.kind = "save" /\ w.previous = PreviousOf(profiles[w.job.id])
    /\ w.todo \subseteq Usable[w.job.configuration]
    /\ w.created \subseteq Stored \ Referenced
    /\ \A s \in Slots \ w.todo : AsAsked(w, s)
    /\ \A s \in w.todo : s # w.slot => w.references[s] = NoReference
    /\ \A s, t \in Slots : s # t => w.references[s] # w.references[t] \/ w.references[s] = NoReference
    /\ \A r \in w.created : \E s \in Slots \ w.todo : w.references[s] = r
\* The item that is put has a name of its own, which the journal knows.
Putting(w) ==
    /\ w.slot \in w.todo /\ w.job.updates[w.slot] \notin {Keep, Clear}
    /\ w.references[w.slot] \in journal \ (Referenced \cup Stored)
Deleting(w) ==
    /\ w.pending \cap Referenced = {}
    /\ w.deleted # NoReference => w.deleted \notin Referenced \cup Stored

Knows(w) ==
    /\ w.step \in {"prepare", "put", "withdraw", "commit"} => Preparing(w)
    /\ w.step \in {"prepare", "commit"} => w.slot = NoSlot
    /\ w.step \in {"put", "withdraw"} => Putting(w)
    /\ w.step = "commit" => w.todo = {}
    /\ w.step = "acknowledge" => w.pending \subseteq Referenced
    /\ w.step \in {"sweep", "discard"} => Deleting(w)
    /\ w.step \notin {"sweep", "discard"} => w.deleted = NoReference
    /\ w.step = "sweep" /\ ~w.failed => Stored \ Referenced \subseteq w.pending
\* What a worker does for which job, and whether it can still succeed.
Serves(w) ==
    /\ w.step \in {"locked", "prepare", "put", "withdraw", "commit", "acknowledge", "discard"} => w.job # NoJob
    /\ w.step \in {"acknowledge", "discard"} => w.job.kind = "save"
    /\ w.step = "locked" => w.references = NoReferences /\ w.created = {} /\ w.slot = NoSlot
    /\ w.step \in {"locked", "prepare", "put", "withdraw", "commit", "acknowledge", "sweep"} => w.ok
    /\ w.step = "discard" => ~w.ok
    /\ w.step \notin {"down", "opened", "idle"} => w.answer = Silent
    /\ w.step \in {"down", "opened", "idle"} => w.job = NoJob

PsInv ==
    /\ PsShape /\ StoresAgree /\ NothingShared
    /\ \A i \in Instances :
          /\ Busy(i) => lock = i
          /\ Resting(workers[i]) /\ Knows(workers[i]) /\ Serves(workers[i])

-----------------------------------------------------------------------------
ReferencedIn(ps) == UNION {ReferencesOf(ps[id]) : id \in Ids}
StoredIn(kc) == {r \in References : kc[r] # NoSecret}

LEMMA ReferencedIs ==
    ASSUME NEW ps, NEW r
    PROVE  r \in ReferencedIn(ps) <=>
              /\ r # NoReference
              /\ \E p \in Ids, s \in Slots : ps[p] # Absent /\ ps[p].references[s] = r
  BY DEF ReferencedIn, ReferencesOf

LEMMA StoresAre ==
    /\ Referenced = ReferencedIn(profiles) /\ Referenced' = ReferencedIn(profiles')
    /\ Stored = StoredIn(keychain) /\ Stored' = StoredIn(keychain')
  BY DEF Referenced, ReferencedIn, Stored, StoredIn

LEMMA StoresStay ==
    ASSUME UNCHANGED Stores
    PROVE  UNCHANGED <<profiles, journal, keychain, Referenced, Stored>>
  <1>1. UNCHANGED <<profiles, journal, keychain>>
    BY DEF Stores
  <1> QED
    BY <1>1, StoresAre

\* What is said of a worker that does nothing for anybody does not depend on the stores.
LEMMA Aside ==
    ASSUME NEW i, ~Busy(i), Knows(workers[i]), workers'[i] = workers[i]
    PROVE  Knows(workers[i])'
  <1>1. workers[i].step \in {"down", "opened", "idle"} /\ workers[i].deleted = NoReference
    BY DEF Busy, Knows
  <1> QED
    BY <1>1 DEF Knows

WorkerInv(i) ==
    /\ Busy(i) => lock = i
    /\ Resting(workers[i]) /\ Knows(workers[i]) /\ Serves(workers[i])
StoresInv ==
    /\ profiles \in [Ids -> Profile \cup {Absent}]
    /\ journal \subseteq References
    /\ keychain \in [References -> Secrets \cup {NoSecret}]
    /\ StoresAgree /\ NothingShared

\* One worker moves and the others, if they are busy, see no change.
LEMMA OneMoves ==
    ASSUME PsInv, NEW i \in Instances, StoresInv', WorkerInv(i)',
           workers'[i] \in Worker, workers' = [workers EXCEPT ![i] = workers'[i]],
           \A j \in Instances \ {i} : Busy(j) => lock' = j /\ UNCHANGED Stores
    PROVE  PsInv'
  <1>1. PsShape'
    BY DEF PsInv, PsShape, StoresInv
  <1>2. ASSUME NEW j \in Instances, j # i
        PROVE  WorkerInv(j)'
    <2>1. workers'[j] = workers[j]
      BY <1>2 DEF PsInv, PsShape
    <2>2. Busy(j)' <=> Busy(j)
      BY <2>1 DEF Busy
    <2>3. Resting(workers[j])' /\ Serves(workers[j])'
      BY <2>1 DEF PsInv, Resting, Serves
    <2>4. Knows(workers[j])'
      <3>1. CASE Busy(j)
        <4>1. Knows(workers[j])
          BY DEF PsInv
        <4>2. UNCHANGED <<profiles, journal, keychain, Referenced, Stored>>
          BY <1>2, <3>1, StoresStay
        <4> QED
          BY <2>1, <4>1, <4>2 DEF Knows, Preparing, Putting, Deleting, AsAsked, PreviousOf
      <3>2. CASE ~Busy(j)
        BY <2>1, <3>2, Aside DEF PsInv
      <3> QED
        BY <3>1, <3>2
    <2> QED
      BY <1>2, <2>2, <2>3, <2>4 DEF WorkerInv
  <1> QED
    BY <1>1, <1>2 DEF PsInv, StoresInv, WorkerInv

LEMMA SetIs ==
    ASSUME PsInv, NEW i \in Instances, NEW v, Set(i, v)
    PROVE  workers'[i] = v
  BY DEF Set, PsInv, PsShape

LEMMA Parts ==
    ASSUME PsInv, NEW i \in Instances
    PROVE  /\ StoresInv /\ WorkerInv(i) /\ workers[i] \in Worker
           /\ Busy(i) \/ lock = Free => \A j \in Instances \ {i} : ~Busy(j)
  <1>1. StoresInv /\ WorkerInv(i) /\ workers[i] \in Worker
    BY DEF PsInv, PsShape, StoresInv, WorkerInv
  <1>2. ASSUME Busy(i) \/ lock = Free, NEW j \in Instances \ {i}
        PROVE  ~Busy(j)
    BY <1>2, NamesAssumption DEF PsInv
  <1> QED
    BY <1>1, <1>2

\* The stores that stay as they are stay in agreement.
LEMMA StoresInvStays ==
    ASSUME StoresInv, UNCHANGED Stores
    PROVE  StoresInv'
  <1>1. UNCHANGED <<profiles, journal, keychain, Referenced, Stored>>
    BY StoresStay
  <1> QED
    BY <1>1 DEF StoresInv, StoresAgree, NothingShared

\* A worker that moves between steps at which it is not busy, or has the lock...
LEMMA AsideMove ==
    ASSUME PsInv, NEW i \in Instances, NEW v, Set(i, v), workers'[i] \in Worker, WorkerInv(i)',
           UNCHANGED Stores, lock' = lock
    PROVE  PsInv'
  <1>1. StoresInv'
    BY Parts, StoresInvStays
  <1>2. \A j \in Instances \ {i} : Busy(j) => lock' = j /\ UNCHANGED Stores
    BY DEF PsInv
  <1>3. workers' = [workers EXCEPT ![i] = workers'[i]]
    BY SetIs DEF Set
  <1> QED
    BY <1>1, <1>2, <1>3, OneMoves

\* ... or takes it, works under it or gives it back.
LEMMA LockedMove ==
    ASSUME PsInv, NEW i \in Instances, NEW v, Set(i, v), workers'[i] \in Worker, WorkerInv(i)',
           StoresInv', Busy(i) \/ lock = Free
    PROVE  PsInv'
  <1>1. \A j \in Instances \ {i} : ~Busy(j)
    BY Parts
  <1>2. workers' = [workers EXCEPT ![i] = workers'[i]]
    BY SetIs DEF Set
  <1> QED
    BY <1>1, <1>2, OneMoves

-----------------------------------------------------------------------------
(***************************************************************************)
(* The steps that change no store.                                         *)
(***************************************************************************)
LEMMA StepTyped ==
    ASSUME NEW w \in Worker, NEW step \in Steps
    PROVE  [w EXCEPT !.step = step] \in Worker
  BY Zenon DEF Worker

LEMMA FailTyped ==
    ASSUME NEW w \in Worker, NEW p \in SUBSET References
    PROVE  [w EXCEPT !.pending = p, !.failed = TRUE] \in Worker
  BY Zenon DEF Worker

LEMMA StartStep == ASSUME PsInv, NEW i \in Instances, Start(i) PROVE PsInv'
  <1>1. StoresInv /\ WorkerInv(i) /\ workers[i] \in Worker
    BY Parts
  <1>2. UNCHANGED Stores /\ lock' = lock /\ Set(i, [workers[i] EXCEPT !.step = "opened"])
    BY DEF Start, Goto
  <1>3. workers'[i] = [workers[i] EXCEPT !.step = "opened"]
    BY <1>2, SetIs
  <1>4. workers'[i] \in Worker
    BY <1>1, <1>3, StepTyped DEF Steps
  <1>5. WorkerInv(i)'
    BY <1>1, <1>3 DEF Start, At, WorkerInv, Busy, Resting, Blank, Knows, Serves, Worker
  <1> QED
    BY <1>1, <1>2, <1>4, <1>5, AsideMove

LEMMA SkipSweepStep == ASSUME PsInv, NEW i \in Instances, SkipSweep(i) PROVE PsInv'
  <1>1. StoresInv /\ WorkerInv(i) /\ workers[i] \in Worker
    BY Parts
  <1>2. UNCHANGED Stores /\ lock' = lock /\ Set(i, [workers[i] EXCEPT !.step = "idle"])
    BY DEF SkipSweep, Goto
  <1>3. workers'[i] = [workers[i] EXCEPT !.step = "idle"]
    BY <1>2, SetIs
  <1>4. workers'[i] \in Worker
    BY <1>1, <1>3, StepTyped DEF Steps
  <1>5. WorkerInv(i)'
    BY <1>1, <1>3 DEF SkipSweep, At, WorkerInv, Busy, Resting, Knows, Serves, Worker
  <1> QED
    BY <1>1, <1>2, <1>4, <1>5, AsideMove

LEMMA BlankTyped ==
    ASSUME NEW step \in Steps, NEW job \in Jobs \cup {NoJob}, NEW answer \in {Silent, Succeeded, Failed}
    PROVE  /\ Blank(step) \in Worker
           /\ [Blank(step) EXCEPT !.job = job] \in Worker
           /\ [Blank(step) EXCEPT !.answer = answer] \in Worker
  <1>1. NoReferences \in [Slots -> References \cup {NoReference}]
    BY DEF NoReferences
  <1>2. Blank(step) \in Worker
    BY <1>1 DEF Blank, Worker
  <1>3. \A w \in Worker : [w EXCEPT !.job = job] \in Worker
    BY Zenon DEF Worker
  <1>4. \A w \in Worker : [w EXCEPT !.answer = answer] \in Worker
    BY Zenon DEF Worker
  <1> QED
    BY <1>2, <1>3, <1>4, Zenon

LEMMA SweepTyped ==
    ASSUME NEW w \in Worker, NEW p \in SUBSET References
    PROVE  [w EXCEPT !.step = "sweep", !.pending = p, !.failed = FALSE] \in Worker
  BY Zenon DEF Worker, Steps

LEMMA DiscardTyped ==
    ASSUME NEW w \in Worker
    PROVE  Discard(w) \in Worker
  <1>1. NoReferences \in [Slots -> References \cup {NoReference}]
    BY DEF NoReferences
  <1> QED
    BY <1>1, Zenon DEF Worker, Steps, Discard

\* The journal is swept: what is stored and in no profile is deleted, and nothing else is.
LEMMA Sweeps ==
    ASSUME NEW i \in Instances, StoresInv', lock' = i, workers[i] \in Worker,
           workers'[i] = Sweep(workers[i]), workers[i].deleted = NoReference,
           workers[i].ok, workers[i].answer = Silent
    PROVE  WorkerInv(i)' /\ workers'[i] \in Worker
  <1>1. workers'[i] = [workers[i] EXCEPT !.step = "sweep", !.pending = journal' \ Referenced', !.failed = FALSE]
    BY DEF Sweep
  <1>2. journal' \subseteq References /\ Stored' \subseteq Referenced' \cup journal'
    BY DEF StoresInv, StoresAgree
  <1>3. journal' \ Referenced' \in SUBSET References
    BY <1>2
  <1>4. workers'[i] \in Worker
    BY <1>1, <1>3, SweepTyped
  <1>5. /\ workers'[i].step = "sweep" /\ workers'[i].pending = journal' \ Referenced'
        /\ workers'[i].deleted = NoReference /\ workers'[i].ok /\ workers'[i].answer = Silent
    BY <1>1 DEF Worker
  <1>6. Knows(workers[i])'
    BY <1>2, <1>5 DEF Knows, Deleting
  <1> QED
    BY <1>4, <1>5, <1>6 DEF WorkerInv, Busy, Resting, Serves

\* What a failed save has created is in no profile.
LEMMA Discards ==
    ASSUME PsInv, NEW i \in Instances, lock' = i, profiles' = profiles,
           workers[i].step \in {"prepare", "put", "withdraw", "commit"},
           workers'[i] = Discard(workers[i])
    PROVE  WorkerInv(i)' /\ workers'[i] \in Worker
  <1> DEFINE w == workers[i]
  <1>1. w \in Worker /\ Preparing(w) /\ w.deleted = NoReference /\ w.answer = Silent
    BY Parts DEF WorkerInv, Knows, Serves
  <1>2. Referenced' = Referenced
    BY StoresAre
  <1>3. workers'[i] = [w EXCEPT !.step = "discard", !.pending = w.created, !.ok = FALSE,
            !.created = {}, !.references = NoReferences, !.previous = NoReferences, !.todo = {},
            !.slot = NoSlot]
    BY DEF Discard
  <1>5. workers'[i] \in Worker
    BY <1>1, DiscardTyped
  <1>6. /\ workers'[i].step = "discard" /\ workers'[i].pending = w.created /\ ~workers'[i].ok
        /\ workers'[i].deleted = NoReference /\ workers'[i].answer = Silent /\ workers'[i].job = w.job
    BY <1>1, <1>3 DEF Worker
  <1>7. w.created \cap Referenced = {} /\ w.job.kind = "save" /\ w.job # NoJob
    BY <1>1, NamesAssumption DEF Preparing
  <1>8. Knows(workers[i])'
    BY <1>2, <1>6, <1>7 DEF Knows, Deleting
  <1> QED
    BY <1>5, <1>6, <1>7, <1>8 DEF WorkerInv, Busy, Resting, Serves

LEMMA FirstSweepStep == ASSUME PsInv, NEW i \in Instances, FirstSweep(i) PROVE PsInv'
  <1>1. StoresInv /\ WorkerInv(i) /\ workers[i] \in Worker
    BY Parts
  <1>2. UNCHANGED Stores /\ lock = Free /\ lock' = i /\ Set(i, Sweep(workers[i]))
    BY DEF FirstSweep
  <1>3. workers'[i] = Sweep(workers[i])
    BY <1>2, SetIs
  <1>4. workers[i].deleted = NoReference /\ workers[i].ok /\ workers[i].answer = Silent
    BY <1>1 DEF FirstSweep, At, WorkerInv, Knows, Resting
  <1> QED
    BY <1>1, <1>2, <1>3, <1>4, StoresInvStays, Sweeps, LockedMove

LEMMA SweepAgainStep == ASSUME PsInv, NEW i \in Instances, Acknowledged(i) \/ List(i) PROVE PsInv'
  <1>1. StoresInv /\ WorkerInv(i) /\ workers[i] \in Worker
    BY Parts
  <1>2. UNCHANGED Stores /\ lock' = lock /\ Set(i, Sweep(workers[i]))
    BY DEF Acknowledged, List
  <1>3. workers'[i] = Sweep(workers[i])
    BY <1>2, SetIs
  <1>4. workers[i].step \in {"acknowledge", "locked"}
    BY DEF Acknowledged, List, At
  <1>5. Busy(i) /\ lock = i /\ workers[i].deleted = NoReference /\ workers[i].ok /\ workers[i].answer = Silent
    BY <1>1, <1>4 DEF WorkerInv, Knows, Serves, Busy
  <1> QED
    BY <1>1, <1>2, <1>3, <1>5, StoresInvStays, Sweeps, LockedMove

LEMMA DiscardStep == ASSUME PsInv, NEW i \in Instances, QueueItemFails(i) \/ CommitFails(i) PROVE PsInv'
  <1>1. StoresInv /\ WorkerInv(i) /\ workers[i] \in Worker
    BY Parts
  <1>2. UNCHANGED Stores /\ lock' = lock /\ Set(i, Discard(workers[i]))
    BY DEF QueueItemFails, CommitFails
  <1>3. workers'[i] = Discard(workers[i])
    BY <1>2, SetIs
  <1>4. workers[i].step \in {"prepare", "commit"}
    BY DEF QueueItemFails, CommitFails, At
  <1>5. Busy(i) /\ lock = i /\ profiles' = profiles
    BY <1>1, <1>2, <1>4 DEF WorkerInv, Busy, Stores
  <1> QED
    BY <1>1, <1>2, <1>3, <1>4, <1>5, StoresInvStays, Discards, LockedMove

LEMMA TakeStep ==
    ASSUME PsInv, NEW i \in Instances, NEW job \in Jobs, Take(i, job)
    PROVE  PsInv'
  <1>1. StoresInv
    BY Parts
  <1>2. UNCHANGED Stores /\ lock = Free /\ lock' = i /\ Set(i, [Blank("locked") EXCEPT !.job = job])
    BY DEF Take
  <1>4. workers'[i] = [Blank("locked") EXCEPT !.job = job]
    BY <1>2, SetIs
  <1>5. /\ workers'[i].step = "locked" /\ workers'[i].job = job /\ workers'[i].references = NoReferences
        /\ workers'[i].created = {} /\ workers'[i].slot = NoSlot /\ workers'[i].ok
        /\ workers'[i].deleted = NoReference /\ workers'[i].answer = Silent
    BY <1>4 DEF Blank
  <1>6. workers'[i] \in Worker
    BY <1>4, BlankTyped DEF Steps
  <1>7. WorkerInv(i)'
    BY <1>2, <1>5, NamesAssumption DEF WorkerInv, Busy, Resting, Knows, Serves
  <1> QED
    BY <1>1, <1>2, <1>6, <1>7, StoresInvStays, LockedMove

LEMMA RefuseStep == ASSUME PsInv, NEW i \in Instances, Refuse(i) PROVE PsInv'
  <1>1. StoresInv /\ WorkerInv(i) /\ workers[i] \in Worker /\ workers[i].step = "locked"
    BY Parts DEF Refuse, At
  <1>2. UNCHANGED Stores /\ lock' = lock /\ Set(i, [workers[i] EXCEPT !.step = "reply", !.ok = FALSE])
    BY DEF Refuse, Refused
  <1>3. workers'[i] = [workers[i] EXCEPT !.step = "reply", !.ok = FALSE]
    BY <1>2, SetIs
  <1>4. workers'[i] \in Worker
    BY <1>1, <1>3, Zenon DEF Worker, Steps
  <1>5. WorkerInv(i)'
    BY <1>1, <1>2, <1>3 DEF WorkerInv, Busy, Resting, Knows, Serves, Worker
  <1> QED
    BY <1>1, <1>2, <1>4, <1>5, AsideMove

LEMMA SweptStep == ASSUME PsInv, NEW i \in Instances, Swept(i) PROVE PsInv'
  <1>1. /\ StoresInv /\ WorkerInv(i) /\ workers[i] \in Worker
        /\ workers[i].step \in {"sweep", "discard"} /\ workers[i].deleted = NoReference
    BY Parts DEF Swept
  <1>2. UNCHANGED Stores /\ lock' = lock /\ Set(i, [workers[i] EXCEPT !.step = "reply"])
    BY DEF Swept, Goto
  <1>3. workers'[i] = [workers[i] EXCEPT !.step = "reply"]
    BY <1>2, SetIs
  <1>4. workers'[i] \in Worker
    BY <1>1, <1>3, StepTyped DEF Steps
  <1>5. WorkerInv(i)'
    BY <1>1, <1>2, <1>3 DEF WorkerInv, Busy, Resting, Knows, Serves, Worker
  <1> QED
    BY <1>1, <1>2, <1>4, <1>5, AsideMove

LEMMA ReplyStep == ASSUME PsInv, NEW i \in Instances, Reply(i) PROVE PsInv'
  <1>1. StoresInv /\ WorkerInv(i) /\ workers[i].step = "reply"
    BY Parts DEF Reply, At
  <1>2. PICK answer \in {Silent, Succeeded, Failed} :
            UNCHANGED Stores /\ Set(i, [Blank("idle") EXCEPT !.answer = answer])
    BY DEF Reply
  <1>3. workers'[i] = [Blank("idle") EXCEPT !.answer = answer]
    BY <1>2, SetIs
  <1>5. workers'[i] \in Worker
    BY <1>3, BlankTyped DEF Steps
  <1>6. workers'[i].step = "idle" /\ workers'[i].deleted = NoReference /\ workers'[i].job = NoJob
    BY <1>3 DEF Blank
  <1>7. WorkerInv(i)'
    BY <1>6 DEF WorkerInv, Busy, Resting, Knows, Serves
  <1>8. Busy(i)
    BY <1>1 DEF Busy
  <1> QED
    BY <1>1, <1>2, <1>5, <1>7, <1>8, StoresInvStays, LockedMove

LEMMA CrashStep == ASSUME PsInv, NEW i \in Instances, Crash(i) PROVE PsInv'
  <1>1. StoresInv
    BY Parts
  <1>2. UNCHANGED Stores /\ Set(i, Blank("down")) /\ lock' = IF lock = i THEN Free ELSE lock
    BY DEF Crash
  <1>3. workers'[i] = Blank("down") /\ workers' = [workers EXCEPT ![i] = workers'[i]]
    BY <1>2, SetIs DEF Set
  <1>5. workers'[i] \in Worker
    BY <1>3, BlankTyped DEF Steps
  <1>6. /\ workers'[i].step = "down" /\ workers'[i].deleted = NoReference /\ workers'[i].job = NoJob
        /\ workers'[i].ok /\ workers'[i].answer = Silent
    BY <1>3 DEF Blank
  <1>7. WorkerInv(i)'
    BY <1>6 DEF WorkerInv, Busy, Resting, Knows, Serves
  <1>8. \A j \in Instances \ {i} : Busy(j) => lock' = j /\ UNCHANGED Stores
    BY <1>2 DEF PsInv
  <1> QED
    BY <1>1, <1>2, <1>3, <1>5, <1>7, <1>8, StoresInvStays, OneMoves

LEMMA DeleteItemFailsStep == ASSUME PsInv, NEW i \in Instances, DeleteItemFails(i) PROVE PsInv'
  <1>1. /\ StoresInv /\ WorkerInv(i) /\ workers[i] \in Worker
        /\ workers[i].step \in {"sweep", "discard"} /\ workers[i].deleted = NoReference
    BY Parts DEF DeleteItemFails
  <1>2. PICK r \in workers[i].pending : /\ UNCHANGED Stores /\ lock' = lock
            /\ Set(i, [workers[i] EXCEPT !.pending = @ \ {r}, !.failed = TRUE])
    BY DEF DeleteItemFails
  <1>3. PICK p \in SUBSET References : p = workers[i].pending \ {r}
    BY <1>1 DEF Worker
  <1>4. workers'[i] = [workers[i] EXCEPT !.pending = p, !.failed = TRUE]
    BY <1>2, <1>3, SetIs
  <1>5. workers'[i] \in Worker
    <2>1. [workers[i] EXCEPT !.pending = p, !.failed = TRUE] \in Worker
      BY <1>1, <1>3, FailTyped, Zenon
    <2> QED
      BY <1>4, <2>1, Zenon
  <1>6. /\ workers'[i].step = workers[i].step /\ workers'[i].pending \subseteq workers[i].pending
        /\ workers'[i].deleted = NoReference /\ workers'[i].failed /\ workers'[i].job = workers[i].job
        /\ workers'[i].ok = workers[i].ok /\ workers'[i].answer = workers[i].answer
    BY <1>1, <1>3, <1>4 DEF Worker
  <1>7. UNCHANGED <<Referenced, Stored>>
    BY <1>2, StoresStay
  <1>8. Knows(workers[i])'
    BY <1>1, <1>6, <1>7 DEF WorkerInv, Knows, Deleting
  <1>9. WorkerInv(i)'
    BY <1>1, <1>2, <1>6, <1>8 DEF WorkerInv, Busy, Resting, Serves
  <1> QED
    BY <1>2, <1>5, <1>9, AsideMove

LEMMA ForgetFailsStep == ASSUME PsInv, NEW i \in Instances, ForgetFails(i) PROVE PsInv'
  <1>1. /\ StoresInv /\ WorkerInv(i) /\ workers[i] \in Worker
        /\ workers[i].step \in {"sweep", "discard"}
    BY Parts DEF ForgetFails
  <1>2. PICK p \in SUBSET References, failed \in BOOLEAN :
            /\ UNCHANGED Stores /\ lock' = lock
            /\ p = (IF workers[i].step = "sweep" THEN {} ELSE workers[i].pending)
            /\ failed = (workers[i].step = "sweep" \/ workers[i].failed)
            /\ Set(i, [workers[i] EXCEPT !.deleted = NoReference, !.failed = failed, !.pending = p])
    <2>1. (IF workers[i].step = "sweep" THEN {} ELSE workers[i].pending) \in SUBSET References
      BY <1>1 DEF Worker
    <2>2. (workers[i].step = "sweep" \/ workers[i].failed) \in BOOLEAN
      OBVIOUS
    <2> QED
      BY <2>1, <2>2, <1>1 DEF ForgetFails
  <1>4. workers'[i] = [workers[i] EXCEPT !.deleted = NoReference, !.failed = failed, !.pending = p]
    BY <1>2, SetIs
  <1>5. workers'[i] \in Worker
    BY <1>1, <1>4, Zenon DEF Worker, Steps
  <1>6. /\ workers'[i].step = workers[i].step /\ workers'[i].pending \subseteq workers[i].pending
        /\ workers'[i].deleted = NoReference /\ workers'[i].job = workers[i].job
        /\ workers'[i].ok = workers[i].ok /\ workers'[i].answer = workers[i].answer
        /\ workers'[i].failed = failed /\ (workers[i].step = "sweep" => workers'[i].failed)
    BY <1>1, <1>2, <1>4 DEF Worker
  <1>7. UNCHANGED <<Referenced, Stored>>
    BY <1>2, StoresStay
  <1>8. Knows(workers[i])'
    BY <1>1, <1>6, <1>7 DEF WorkerInv, Knows, Deleting
  <1>9. WorkerInv(i)'
    BY <1>1, <1>2, <1>6, <1>8 DEF WorkerInv, Busy, Resting, Serves
  <1> QED
    BY <1>2, <1>5, <1>9, AsideMove

-----------------------------------------------------------------------------
(***************************************************************************)
(* A save is prepared, slot by slot.                                       *)
(***************************************************************************)
LEMMA PreviousTyped ==
    ASSUME StoresInv, NEW id \in Ids
    PROVE  PreviousOf(profiles[id]) \in [Slots -> References \cup {NoReference}]
  <1>1. profiles[id] \in Profile \cup {Absent}
    BY DEF StoresInv
  <1>2. NoReferences \in [Slots -> References \cup {NoReference}]
    BY DEF NoReferences
  <1> QED
    BY <1>1, <1>2 DEF PreviousOf, Profile

LEMMA BeginSaveStep == ASSUME PsInv, NEW i \in Instances, BeginSave(i) PROVE PsInv'
  <1> DEFINE w == workers[i]
  <1>1. /\ StoresInv /\ WorkerInv(i) /\ w \in Worker /\ w.step = "locked"
        /\ w.job \in Jobs /\ w.job.kind = "save"
    BY Parts DEF BeginSave, At, WorkerInv, Serves, Worker
  <1>2. w.job.id \in Ids /\ w.job.configuration \in Configurations
    BY <1>1 DEF Jobs
  <1>3. PICK p \in [Slots -> References \cup {NoReference}] : p = PreviousOf(profiles[w.job.id])
    BY <1>1, <1>2, PreviousTyped
  <1>4. PICK d \in SUBSET Slots : d = Usable[w.job.configuration]
    BY <1>2, UsableAssumption
  <1>5. /\ UNCHANGED Stores /\ lock' = lock
        /\ Set(i, [w EXCEPT !.step = "prepare", !.previous = p, !.todo = d])
    BY <1>3, <1>4 DEF BeginSave, PreviousOf
  <1>6. workers'[i] = [w EXCEPT !.step = "prepare", !.previous = p, !.todo = d]
    BY <1>5, SetIs
  <1>7. workers'[i] \in Worker
    BY <1>1, <1>6, Zenon DEF Worker, Steps
  <1>8. /\ workers'[i].step = "prepare" /\ workers'[i].job = w.job /\ workers'[i].previous = p
        /\ workers'[i].todo = d /\ workers'[i].references = NoReferences
        /\ workers'[i].created = {} /\ workers'[i].slot = NoSlot /\ workers'[i].ok
        /\ workers'[i].deleted = NoReference /\ workers'[i].answer = Silent
    BY <1>1, <1>6 DEF Worker, WorkerInv, Knows, Serves
  <1>9. profiles' = profiles
    BY <1>5 DEF Stores
  <1>10. \A s \in Slots : NoReferences[s] = NoReference
    BY DEF NoReferences
  <1>11. Preparing(workers[i])'
    BY <1>1, <1>3, <1>4, <1>8, <1>9, <1>10 DEF Preparing, AsAsked
  <1>12. WorkerInv(i)'
    BY <1>1, <1>5, <1>8, <1>11, NamesAssumption DEF WorkerInv, Busy, Resting, Knows, Serves
  <1> QED
    BY <1>5, <1>7, <1>12, AsideMove

LEMMA PreparingStays ==
    ASSUME NEW i, Preparing(workers[i]),
           UNCHANGED <<profiles, keychain, Referenced, Stored>>,
           workers'[i].job = workers[i].job, workers'[i].previous = workers[i].previous,
           workers'[i].todo = workers[i].todo, workers'[i].references = workers[i].references,
           workers'[i].created = workers[i].created, workers'[i].slot = workers[i].slot
    PROVE  Preparing(workers[i])'
  <1>1. ASSUME NEW s, AsAsked(workers[i], s)
        PROVE  AsAsked(workers[i], s)'
    BY <1>1 DEF AsAsked
  <1>2. \A s \in Slots \ workers'[i].todo : AsAsked(workers[i], s)'
    BY <1>1 DEF Preparing
  <1>3. \A s \in workers'[i].todo : s # workers'[i].slot => workers'[i].references[s] = NoReference
    BY DEF Preparing
  <1>4. \A s, t \in Slots : s # t => workers'[i].references[s] # workers'[i].references[t]
                                     \/ workers'[i].references[s] = NoReference
    BY DEF Preparing
  <1>5. \A r \in workers'[i].created : \E s \in Slots \ workers'[i].todo : workers'[i].references[s] = r
    BY DEF Preparing
  <1>6. /\ workers'[i].job \in Jobs /\ workers'[i].job.kind = "save"
        /\ workers'[i].previous = PreviousOf(profiles'[workers'[i].job.id])
        /\ workers'[i].todo \subseteq Usable[workers'[i].job.configuration]
        /\ workers'[i].created \subseteq Stored' \ Referenced'
    BY DEF Preparing
  <1> QED
    BY <1>2, <1>3, <1>4, <1>5, <1>6 DEF Preparing

LEMMA PreparedStep == ASSUME PsInv, NEW i \in Instances, Prepared(i) PROVE PsInv'
  <1> DEFINE w == workers[i]
  <1>1. StoresInv /\ WorkerInv(i) /\ w \in Worker /\ w.step = "prepare" /\ w.todo = {}
    BY Parts DEF Prepared, At
  <1>2. UNCHANGED Stores /\ lock' = lock /\ Set(i, [w EXCEPT !.step = "commit"])
    BY DEF Prepared, Goto
  <1>3. workers'[i] = [w EXCEPT !.step = "commit"]
    BY <1>2, SetIs
  <1>4. workers'[i] \in Worker
    BY <1>1, <1>3, StepTyped DEF Steps
  <1>5. /\ workers'[i].step = "commit" /\ workers'[i].job = w.job /\ workers'[i].previous = w.previous
        /\ workers'[i].todo = w.todo /\ workers'[i].references = w.references
        /\ workers'[i].created = w.created /\ workers'[i].slot = w.slot /\ workers'[i].ok = w.ok
        /\ workers'[i].deleted = w.deleted /\ workers'[i].answer = w.answer
    BY <1>1, <1>3 DEF Worker
  <1>6. UNCHANGED <<profiles, journal, keychain, Referenced, Stored>>
    BY <1>2, StoresStay
  <1>7. Preparing(w)
    BY <1>1 DEF WorkerInv, Knows
  <1>8. Preparing(workers[i])'
    BY <1>5, <1>6, <1>7, PreparingStays
  <1>9. WorkerInv(i)'
    BY <1>1, <1>2, <1>5, <1>8 DEF WorkerInv, Busy, Resting, Knows, Serves
  <1> QED
    BY <1>2, <1>4, <1>9, AsideMove

LEMMA PutItemFailsStep == ASSUME PsInv, NEW i \in Instances, PutItemFails(i) PROVE PsInv'
  <1> DEFINE w == workers[i]
  <1>1. StoresInv /\ WorkerInv(i) /\ w \in Worker /\ w.step = "put"
    BY Parts DEF PutItemFails, At
  <1>2. UNCHANGED Stores /\ lock' = lock /\ Set(i, [w EXCEPT !.step = "withdraw"])
    BY DEF PutItemFails, Goto
  <1>3. workers'[i] = [w EXCEPT !.step = "withdraw"]
    BY <1>2, SetIs
  <1>4. workers'[i] \in Worker
    BY <1>1, <1>3, StepTyped DEF Steps
  <1>5. /\ workers'[i].step = "withdraw" /\ workers'[i].job = w.job /\ workers'[i].previous = w.previous
        /\ workers'[i].todo = w.todo /\ workers'[i].references = w.references
        /\ workers'[i].created = w.created /\ workers'[i].slot = w.slot /\ workers'[i].ok = w.ok
        /\ workers'[i].deleted = w.deleted /\ workers'[i].answer = w.answer
    BY <1>1, <1>3 DEF Worker
  <1>6. UNCHANGED <<profiles, journal, keychain, Referenced, Stored>>
    BY <1>2, StoresStay
  <1>7. Preparing(w) /\ Putting(w)
    BY <1>1 DEF WorkerInv, Knows
  <1>8. Preparing(workers[i])'
    BY <1>5, <1>6, <1>7, PreparingStays
  <1>9. Putting(workers[i])'
    BY <1>5, <1>6, <1>7 DEF Putting
  <1>10. WorkerInv(i)'
    BY <1>1, <1>2, <1>5, <1>8, <1>9 DEF WorkerInv, Busy, Resting, Knows, Serves
  <1> QED
    BY <1>2, <1>4, <1>10, AsideMove

\* What the row had before is in the store, each reference in one slot.
LEMMA PreviousFacts ==
    ASSUME StoresInv, NEW id \in Ids
    PROVE  /\ \A s \in Slots : LET p == PreviousOf(profiles[id]) IN
                  p[s] = NoReference \/ p[s] \in Referenced
           /\ \A s, t \in Slots : LET p == PreviousOf(profiles[id]) IN
                  s # t => p[s] # p[t] \/ p[s] = NoReference
           /\ \A s \in Slots, q \in Ids : LET p == PreviousOf(profiles[id]) IN
                  \A t \in Slots : q # id /\ profiles[q] # Absent =>
                      p[s] # profiles[q].references[t] \/ p[s] = NoReference
  <1>1. CASE profiles[id] = Absent
    BY <1>1 DEF PreviousOf, NoReferences
  <1>2. CASE profiles[id] # Absent
    <2>1. PreviousOf(profiles[id]) = profiles[id].references
      BY <1>2 DEF PreviousOf
    <2>2. \A s \in Slots : profiles[id].references[s] = NoReference \/ profiles[id].references[s] \in Referenced
      BY <1>2, StoresAre, ReferencedIs
    <2>3. \A s, t \in Slots : s # t => <<id, s>> # <<id, t>>
      OBVIOUS
    <2>4. \A s, t \in Slots : \A q \in Ids : q # id => <<id, s>> # <<q, t>>
      OBVIOUS
    <2>5. \A s, t \in Slots : s # t =>
              profiles[id].references[s] # profiles[id].references[t] \/ profiles[id].references[s] = NoReference
      BY <1>2, <2>3 DEF StoresInv, NothingShared
    <2>6. \A s, t \in Slots : \A q \in Ids : q # id /\ profiles[q] # Absent =>
              profiles[id].references[s] # profiles[q].references[t] \/ profiles[id].references[s] = NoReference
      BY <1>2, <2>4 DEF StoresInv, NothingShared
    <2> QED
      BY <2>1, <2>2, <2>5, <2>6
  <1> QED
    BY <1>1, <1>2

\* A reference of the row to be saved is the row's own or one that the save has created.
LEMMA OldOrNew ==
    ASSUME NEW w, NEW s, AsAsked(w, s)
    PROVE  w.references[s] = NoReference \/ w.references[s] = w.previous[s] \/ w.references[s] \in w.created
  BY DEF AsAsked

LEMMA KeepOrClearStep == ASSUME PsInv, NEW i \in Instances, KeepOrClear(i) PROVE PsInv'
  <1> DEFINE w == workers[i]
  <1>1. StoresInv /\ WorkerInv(i) /\ w \in Worker /\ w.step = "prepare" /\ Preparing(w) /\ w.slot = NoSlot
    BY Parts DEF KeepOrClear, At, WorkerInv, Knows
  <1>2. PICK s \in w.todo :
            /\ w.job.updates[s] \in {Keep, Clear}
            /\ Set(i, [w EXCEPT !.todo = @ \ {s},
                    !.references[s] = IF w.job.updates[s] = Keep THEN w.previous[s] ELSE NoReference])
    BY DEF KeepOrClear
  <1>3. UNCHANGED Stores /\ lock' = lock
    BY DEF KeepOrClear
  <1>4. s \in Slots
    BY <1>1, <1>2 DEF Worker
  <1>5. PICK d \in SUBSET Slots : d = w.todo \ {s}
    BY <1>1 DEF Worker
  <1>6. PICK x \in References \cup {NoReference} :
            x = IF w.job.updates[s] = Keep THEN w.previous[s] ELSE NoReference
    BY <1>1, <1>4 DEF Worker
  <1>7. PICK q \in [Slots -> References \cup {NoReference}] : q = [w.references EXCEPT ![s] = x]
    BY <1>1 DEF Worker
  <1>8. workers'[i] = [w EXCEPT !.todo = d, !.references = q]
    BY <1>2, <1>5, <1>6, <1>7, SetIs
  <1>9. workers'[i] \in Worker
    BY <1>1, <1>8, Zenon DEF Worker, Steps
  <1>10. /\ workers'[i].step = "prepare" /\ workers'[i].job = w.job /\ workers'[i].previous = w.previous
         /\ workers'[i].todo = d /\ workers'[i].references = q
         /\ workers'[i].created = w.created /\ workers'[i].slot = w.slot /\ workers'[i].ok = w.ok
         /\ workers'[i].deleted = w.deleted /\ workers'[i].answer = w.answer
    BY <1>1, <1>8 DEF Worker
  <1>11. UNCHANGED <<profiles, journal, keychain, Referenced, Stored>>
    BY <1>3, StoresStay
  <1>12. Preparing(workers[i])'
    <2>1. w.todo \subseteq Usable[w.job.configuration] /\ w.created \subseteq Stored \ Referenced
      BY <1>1 DEF Preparing
    <2>2. \A t \in Slots : t # s => q[t] = w.references[t]
      BY <1>1, <1>7 DEF Worker
    <2>3. q[s] = x
      BY <1>1, <1>4, <1>7 DEF Worker
    <2>4. \A t \in Slots \ w.todo : AsAsked(w, t)
      BY <1>1 DEF Preparing
    <2>5. ASSUME NEW t \in Slots \ d
          PROVE  AsAsked(workers[i], t)'
      <3>1. CASE t = s
        BY <1>2, <1>6, <1>10, <2>1, <2>3, <3>1, NamesAssumption DEF AsAsked
      <3>2. CASE t # s
        BY <1>5, <1>10, <1>11, <2>2, <2>4, <3>2 DEF AsAsked
      <3> QED
        BY <3>1, <3>2
    <2>6. \A t \in w.todo : w.references[t] = NoReference
      BY <1>1, NamesAssumption DEF Preparing, Worker
    <2>7. \A t \in d : t # s /\ q[t] = NoReference
      BY <1>5, <2>2, <2>6
    <2>8. x = NoReference \/ x = w.previous[s]
      BY <1>6
    <2>9. \A t \in Slots : t # s => q[t] # x \/ x = NoReference
      <3> SUFFICES ASSUME NEW t \in Slots, t # s, x # NoReference
                   PROVE  w.references[t] # x
        BY <2>2
      <3>1. CASE t \in w.todo
        BY <2>6, <3>1
      <3>2. CASE t \notin w.todo
        <4>1. w.references[t] = NoReference \/ w.references[t] = w.previous[t] \/ w.references[t] \in w.created
          BY <2>4, <3>2, OldOrNew
        <4>2. w.job.id \in Ids /\ w.previous = PreviousOf(profiles[w.job.id])
          BY <1>1 DEF Preparing, Jobs
        <4>3. w.previous[s] # w.previous[t] \/ w.previous[s] = NoReference
          BY <1>1, <1>4, <4>2, PreviousFacts
        <4>4. w.previous[s] = NoReference \/ w.previous[s] \in Referenced
          BY <1>1, <1>4, <4>2, PreviousFacts
        <4> QED
          BY <2>1, <2>8, <4>1, <4>3, <4>4
      <3> QED
        BY <3>1, <3>2
    <2>10. \A t, u \in Slots : t # u => q[t] # q[u] \/ q[t] = NoReference
      <3>1. \A t, u \in Slots : t # u => w.references[t] # w.references[u] \/ w.references[t] = NoReference
        BY <1>1 DEF Preparing
      <3> QED
        BY <2>2, <2>3, <2>9, <3>1
    <2>11. \A r \in w.created : \E t \in Slots \ d : q[t] = r
      <3>1. \A r \in w.created : \E t \in Slots \ w.todo : w.references[t] = r
        BY <1>1 DEF Preparing
      <3> QED
        BY <1>2, <1>5, <2>2, <3>1
    <2>12. /\ workers'[i].job \in Jobs /\ workers'[i].job.kind = "save"
           /\ workers'[i].previous = PreviousOf(profiles'[workers'[i].job.id])
      BY <1>1, <1>10, <1>11 DEF Preparing
    <2>13. d \subseteq Usable[w.job.configuration]
      BY <1>5, <2>1
    <2> QED
      BY <1>10, <1>11, <2>1, <2>5, <2>7, <2>10, <2>11, <2>12, <2>13 DEF Preparing
  <1>13. WorkerInv(i)'
    BY <1>1, <1>3, <1>10, <1>12 DEF WorkerInv, Busy, Resting, Knows, Serves
  <1> QED
    BY <1>2, <1>3, <1>9, <1>13, AsideMove

LEMMA QueueItemStep == ASSUME PsInv, NEW i \in Instances, QueueItem(i) PROVE PsInv'
  <1> DEFINE w == workers[i]
  <1>1. StoresInv /\ WorkerInv(i) /\ w \in Worker /\ w.step = "prepare" /\ Preparing(w) /\ w.slot = NoSlot
    BY Parts DEF QueueItem, At, WorkerInv, Knows
  <1>2. PICK s \in w.todo, r \in Fresh :
            /\ w.job.updates[s] \notin {Keep, Clear} /\ journal' = journal \cup {r}
            /\ Set(i, [w EXCEPT !.step = "put", !.slot = s, !.references[s] = r])
    BY DEF QueueItem
  <1>3. profiles' = profiles /\ keychain' = keychain /\ lock' = lock
    BY DEF QueueItem
  <1>4. s \in Slots /\ s # NoSlot
    BY <1>1, <1>2, NamesAssumption DEF Worker
  <1>5. /\ r \in References /\ r \notin Referenced /\ r \notin Stored
        /\ \A t \in Slots : w.references[t] # r
    BY <1>2 DEF Fresh
  <1>6. PICK q \in [Slots -> References \cup {NoReference}] : q = [w.references EXCEPT ![s] = r]
    BY <1>1, <1>5 DEF Worker
  <1>7. workers'[i] = [w EXCEPT !.step = "put", !.slot = s, !.references = q]
    BY <1>2, <1>6, SetIs
  <1>8. workers'[i] \in Worker
    BY <1>1, <1>4, <1>7, Zenon DEF Worker, Steps
  <1>9. /\ workers'[i].step = "put" /\ workers'[i].job = w.job /\ workers'[i].previous = w.previous
        /\ workers'[i].todo = w.todo /\ workers'[i].references = q
        /\ workers'[i].created = w.created /\ workers'[i].slot = s /\ workers'[i].ok = w.ok
        /\ workers'[i].deleted = w.deleted /\ workers'[i].answer = w.answer
    BY <1>1, <1>7 DEF Worker
  <1>10. Referenced' = Referenced /\ Stored' = Stored
    BY <1>3, StoresAre
  <1>11. StoresInv'
    BY <1>1, <1>2, <1>3, <1>5, <1>10 DEF StoresInv, StoresAgree, NothingShared
  <1>12. q[s] = r /\ \A t \in Slots : t # s => q[t] = w.references[t]
    BY <1>1, <1>4, <1>6 DEF Worker
  <1>13. Preparing(workers[i])'
    <2>1. ASSUME NEW t \in Slots \ w.todo
          PROVE  AsAsked(workers[i], t)'
      <3>1. AsAsked(w, t) /\ t # s
        BY <1>1, <1>2, <2>1 DEF Preparing
      <3> QED
        BY <1>3, <1>9, <1>12, <3>1 DEF AsAsked
    <2>2. \A t \in w.todo : t # s => q[t] = NoReference
      <3>1. \A t \in w.todo : t \in Slots /\ t # NoSlot /\ w.references[t] = NoReference
        BY <1>1, NamesAssumption DEF Preparing, Worker
      <3> QED
        BY <1>12, <3>1
    <2>3. \A t, u \in Slots : t # u => q[t] # q[u] \/ q[t] = NoReference
      <3>1. \A t, u \in Slots : t # u => w.references[t] # w.references[u] \/ w.references[t] = NoReference
        BY <1>1 DEF Preparing
      <3> QED
        BY <1>5, <1>12, <3>1
    <2>4. \A x \in w.created : \E t \in Slots \ w.todo : q[t] = x
      <3>1. \A x \in w.created : \E t \in Slots \ w.todo : w.references[t] = x
        BY <1>1 DEF Preparing
      <3> QED
        BY <1>2, <1>12, <3>1
    <2>5. /\ workers'[i].job \in Jobs /\ workers'[i].job.kind = "save"
          /\ workers'[i].previous = PreviousOf(profiles'[workers'[i].job.id])
          /\ w.todo \subseteq Usable[w.job.configuration]
          /\ w.created \subseteq Stored' \ Referenced'
      BY <1>1, <1>3, <1>9, <1>10 DEF Preparing
    <2> QED
      BY <1>9, <2>1, <2>2, <2>3, <2>4, <2>5 DEF Preparing
  <1>14. Putting(workers[i])'
    BY <1>2, <1>5, <1>9, <1>10, <1>12 DEF Putting
  <1>15. WorkerInv(i)'
    BY <1>1, <1>3, <1>9, <1>13, <1>14 DEF WorkerInv, Busy, Resting, Knows, Serves
  <1>16. Busy(i)
    BY <1>1 DEF Busy
  <1> QED
    BY <1>2, <1>8, <1>11, <1>15, <1>16, LockedMove

LEMMA PutItemStep == ASSUME PsInv, NEW i \in Instances, PutItem(i) PROVE PsInv'
  <1> DEFINE w == workers[i]
             s == w.slot
             r == w.references[w.slot]
  <1>1. StoresInv /\ WorkerInv(i) /\ w \in Worker /\ w.step = "put" /\ Preparing(w) /\ Putting(w)
    BY Parts DEF PutItem, At, WorkerInv, Knows
  <1>2. s \in w.todo /\ s \in Slots /\ w.job.updates[s] \notin {Keep, Clear}
    BY <1>1 DEF Putting, Worker
  <1>3. w.job.updates[s] \in Secrets
    BY <1>1, <1>2 DEF Preparing, Jobs, Updates
  <1>4. r \in journal /\ r \notin Referenced /\ r \notin Stored /\ r \in References
    BY <1>1 DEF Putting, StoresInv
  <1>5. profiles' = profiles /\ journal' = journal /\ lock' = lock
        /\ keychain' = [keychain EXCEPT ![r] = w.job.updates[s]]
        /\ Set(i, [w EXCEPT !.step = "prepare", !.slot = NoSlot, !.todo = @ \ {s},
                   !.created = @ \cup {r}])
    BY DEF PutItem
  <1>6. /\ keychain' \in [References -> Secrets \cup {NoSecret}] /\ keychain'[r] = w.job.updates[s]
        /\ \A x \in References : x # r => keychain'[x] = keychain[x]
    BY <1>1, <1>3, <1>4, <1>5 DEF StoresInv
  <1>7. Stored' = Stored \cup {r}
    BY <1>3, <1>4, <1>6, NamesAssumption DEF Stored
  <1>8. Referenced' = Referenced
    BY <1>5, StoresAre
  <1>9. StoresInv'
    <2>1. StoresAgree'
      <3>1. Referenced \subseteq Stored /\ Stored \subseteq Referenced \cup journal
        BY <1>1 DEF StoresInv, StoresAgree
      <3> QED
        BY <1>4, <1>5, <1>7, <1>8, <3>1 DEF StoresAgree
    <2>2. NothingShared'
      BY <1>1, <1>5 DEF StoresInv, NothingShared
    <2> QED
      BY <1>1, <1>5, <1>6, <2>1, <2>2 DEF StoresInv
  <1>10. PICK d \in SUBSET Slots : d = w.todo \ {s}
    BY <1>1 DEF Worker
  <1>11. PICK c \in SUBSET References : c = w.created \cup {r}
    BY <1>1, <1>4 DEF Worker
  <1>12. workers'[i] = [w EXCEPT !.step = "prepare", !.slot = NoSlot, !.todo = d, !.created = c]
    BY <1>5, <1>10, <1>11, SetIs
  <1>13. workers'[i] \in Worker
    BY <1>1, <1>12, Zenon DEF Worker, Steps
  <1>14. /\ workers'[i].step = "prepare" /\ workers'[i].job = w.job /\ workers'[i].previous = w.previous
         /\ workers'[i].todo = d /\ workers'[i].references = w.references
         /\ workers'[i].created = c /\ workers'[i].slot = NoSlot /\ workers'[i].ok = w.ok
         /\ workers'[i].deleted = w.deleted /\ workers'[i].answer = w.answer
    BY <1>1, <1>12 DEF Worker
  <1>15. Preparing(workers[i])'
    <2>1. ASSUME NEW t \in Slots \ d
          PROVE  AsAsked(workers[i], t)'
      <3>1. CASE t = s
        <4>1. s \in Usable[w.job.configuration]
          BY <1>1, <1>2 DEF Preparing
        <4> QED
          BY <1>2, <1>6, <1>11, <1>14, <3>1, <4>1 DEF AsAsked
      <3>2. CASE t # s
        <4>1. AsAsked(w, t) /\ w.references[t] # r
          <5>1. t \in Slots \ w.todo
            BY <1>10, <2>1, <3>2
          <5>2. r # NoReference
            BY <1>4, NamesAssumption
          <5> QED
            BY <1>1, <1>2, <3>2, <5>1, <5>2 DEF Preparing
        <4>2. w.created \subseteq References
          BY <1>1 DEF Worker
        <4> QED
          BY <1>6, <1>11, <1>14, <4>1, <4>2 DEF AsAsked
      <3> QED
        BY <3>1, <3>2
    <2>2. \A t \in d : w.references[t] = NoReference
      BY <1>1, <1>10 DEF Preparing
    <2>3. \A t, u \in Slots : t # u => w.references[t] # w.references[u] \/ w.references[t] = NoReference
      BY <1>1 DEF Preparing
    <2>4. \A x \in c : \E t \in Slots \ d : w.references[t] = x
      <3>1. \A x \in w.created : \E t \in Slots \ w.todo : w.references[t] = x
        BY <1>1 DEF Preparing
      <3>2. \A x \in w.created : \E t \in Slots \ d : w.references[t] = x
        BY <1>10, <3>1
      <3>3. s \in Slots \ d /\ w.references[s] = r
        BY <1>2, <1>10
      <3> QED
        BY <1>11, <3>2, <3>3
    <2>5. /\ workers'[i].job \in Jobs /\ workers'[i].job.kind = "save"
          /\ workers'[i].previous = PreviousOf(profiles'[workers'[i].job.id])
      BY <1>1, <1>5, <1>14 DEF Preparing
    <2>6. d \subseteq Usable[w.job.configuration]
      BY <1>1, <1>10 DEF Preparing
    <2>7. c \subseteq Stored' \ Referenced'
      BY <1>1, <1>4, <1>7, <1>8, <1>11 DEF Preparing
    <2> QED
      BY <1>14, <2>1, <2>2, <2>3, <2>4, <2>5, <2>6, <2>7 DEF Preparing
  <1>16. WorkerInv(i)'
    BY <1>1, <1>5, <1>14, <1>15 DEF WorkerInv, Busy, Resting, Knows, Serves
  <1>17. Busy(i)
    BY <1>1 DEF Busy
  <1> QED
    BY <1>5, <1>9, <1>13, <1>16, <1>17, LockedMove

LEMMA WithdrawStep == ASSUME PsInv, NEW i \in Instances, Withdraw(i) PROVE PsInv'
  <1> DEFINE w == workers[i]
  <1>1. StoresInv /\ WorkerInv(i) /\ w \in Worker /\ w.step = "withdraw" /\ Putting(w)
    BY Parts DEF Withdraw, At, WorkerInv, Knows
  <1>2. /\ profiles' = profiles /\ keychain' = keychain /\ lock' = lock /\ Set(i, Discard(w))
        /\ journal' = journal \ {w.references[w.slot]} \/ journal' = journal
    BY DEF Withdraw, Forgotten
  <1>3. workers'[i] = Discard(w)
    BY <1>2, SetIs
  <1>4. Referenced' = Referenced /\ Stored' = Stored
    BY <1>2, StoresAre
  <1>5. StoresInv'
    BY <1>1, <1>2, <1>4 DEF StoresInv, StoresAgree, NothingShared, Putting
  <1>6. Busy(i) /\ lock = i
    BY <1>1 DEF WorkerInv, Busy
  <1> QED
    BY <1>1, <1>2, <1>3, <1>5, <1>6, Discards, LockedMove

-----------------------------------------------------------------------------
(***************************************************************************)
(* The rows change.                                                        *)
(***************************************************************************)
LEMMA CommitStep == ASSUME PsInv, NEW i \in Instances, Commit(i) PROVE PsInv'
  <1> DEFINE w == workers[i]
             id == w.job.id
             row == [configuration |-> w.job.configuration, references |-> w.references]
  <1>1. /\ StoresInv /\ WorkerInv(i) /\ w \in Worker /\ w.step = "commit"
        /\ Preparing(w) /\ w.todo = {} /\ w.slot = NoSlot
    BY Parts DEF Commit, At, WorkerInv, Knows
  <1>2. w.job.kind = "save" /\ id \in Ids /\ w.job.configuration \in Configurations
    BY <1>1 DEF Preparing, Jobs
  <1>3. /\ profiles' = [profiles EXCEPT ![id] = row] /\ keychain' = keychain /\ lock' = lock
        /\ journal' = journal \cup (ReferencesOf(profiles[id]) \ {w.references[s] : s \in Slots})
        /\ Set(i, [w EXCEPT !.step = "acknowledge", !.pending = w.created, !.created = {},
                   !.previous = NoReferences])
    BY DEF Commit
  <1>4. row \in Profile
    BY <1>1, <1>2 DEF Profile, Worker
  <1>5. row # Absent
    BY <1>4, NamesAssumption
  <1>6. /\ profiles' \in [Ids -> Profile \cup {Absent}] /\ profiles'[id] = row
        /\ \A p \in Ids : p # id => profiles'[p] = profiles[p]
    BY <1>1, <1>2, <1>3, <1>4 DEF StoresInv
  <1>7. \A s \in Slots : w.references[s] = NoReference \/ w.references[s] = w.previous[s]
                         \/ w.references[s] \in w.created
    BY <1>1, OldOrNew DEF Preparing
  <1>8. w.previous = PreviousOf(profiles[id]) /\ w.created \subseteq Stored \ Referenced
    BY <1>1 DEF Preparing
  <1>9. Stored' = Stored
    BY <1>3, StoresAre
  <1>10. \A r : r \in Referenced <=> /\ r # NoReference
              /\ \E p \in Ids, s \in Slots : profiles[p] # Absent /\ profiles[p].references[s] = r
    BY StoresAre, ReferencedIs
  <1>11. \A r : r \in Referenced' <=> /\ r # NoReference
              /\ \E p \in Ids, s \in Slots : profiles'[p] # Absent /\ profiles'[p].references[s] = r
    BY StoresAre, ReferencedIs
  <1>12. \A s \in Slots : w.references[s] = NoReference \/ w.references[s] \in Referenced'
    BY <1>2, <1>5, <1>6, <1>11
  <1>13. \A s \in Slots : w.references[s] = NoReference \/ w.references[s] \in Stored
    <2>1. \A s \in Slots : w.previous[s] = NoReference \/ w.previous[s] \in Referenced
      BY <1>1, <1>2, <1>8, PreviousFacts
    <2>2. Referenced \subseteq Stored
      BY <1>1 DEF StoresInv, StoresAgree
    <2> QED
      BY <1>7, <1>8, <2>1, <2>2
  <1>14. Referenced' \subseteq Stored'
    <2> SUFFICES ASSUME NEW r \in Referenced'
                 PROVE  r \in Stored
      BY <1>9
    <2>1. r # NoReference
      BY <1>11
    <2>2. PICK p \in Ids, s \in Slots : profiles'[p] # Absent /\ profiles'[p].references[s] = r
      BY <1>11
    <2>3. CASE p = id
      BY <1>6, <1>13, <2>1, <2>2, <2>3
    <2>4. CASE p # id
      <3>1. r \in Referenced
        BY <1>6, <1>10, <2>1, <2>2, <2>4
      <3> QED
        BY <1>1, <3>1 DEF StoresInv, StoresAgree
    <2> QED
      BY <2>3, <2>4
  <1>15. Stored' \subseteq Referenced' \cup journal'
    <2> SUFFICES ASSUME NEW r \in Stored, r \notin journal'
                 PROVE  r \in Referenced'
      BY <1>9
    <2>1. r \in Referenced
      BY <1>1, <1>3 DEF StoresInv, StoresAgree
    <2>2. PICK p \in Ids, s \in Slots : profiles[p] # Absent /\ profiles[p].references[s] = r
      BY <1>10, <2>1
    <2>3. CASE p = id
      <3>1. r \in ReferencesOf(profiles[id])
        BY <1>10, <2>1, <2>2, <2>3 DEF ReferencesOf
      <3>2. PICK t \in Slots : w.references[t] = r
        BY <1>3, <3>1
      <3> QED
        BY <1>10, <1>12, <2>1, <3>2
    <2>4. CASE p # id
      BY <1>6, <1>10, <1>11, <2>1, <2>2, <2>4
    <2> QED
      BY <2>3, <2>4
  <1>16. journal' \subseteq References
    <2>1. \A s \in Slots : w.previous[s] \in References \cup {NoReference}
      BY <1>1 DEF Worker
    <2>2. ReferencesOf(profiles[id]) \subseteq References
      <3>1. profiles[id] = Absent \/ profiles[id] \in Profile
        BY <1>1, <1>2 DEF StoresInv
      <3> QED
        BY <3>1 DEF ReferencesOf, Profile
    <2> QED
      BY <1>1, <1>3, <2>2 DEF StoresInv
  <1>17. NothingShared'
    <2>1. \A s, t \in Slots : s # t => w.references[s] # w.references[t] \/ w.references[s] = NoReference
      BY <1>1 DEF Preparing
    <2>2. ASSUME NEW q \in Ids, q # id, profiles[q] # Absent, NEW s \in Slots, NEW t \in Slots
          PROVE  w.references[s] # profiles[q].references[t] \/ w.references[s] = NoReference
      <3>1. CASE w.references[s] \in w.created
        BY <1>8, <1>10, <2>2, <3>1
      <3>2. CASE w.references[s] = w.previous[s]
        BY <1>1, <1>2, <1>8, <2>2, <3>2, PreviousFacts
      <3> QED
        BY <1>7, <3>1, <3>2
    <2> SUFFICES ASSUME NEW p \in Ids, NEW q \in Ids, NEW s \in Slots, NEW t \in Slots,
                        profiles'[p] # Absent, profiles'[q] # Absent, p # q \/ s # t
                 PROVE  profiles'[p].references[s] # profiles'[q].references[t]
                        \/ profiles'[p].references[s] = NoReference
      BY DEF NothingShared
    <2>3. CASE p = id /\ q = id
      BY <1>6, <2>1, <2>3
    <2>4. CASE p = id /\ q # id
      BY <1>6, <2>2, <2>4
    <2>5. CASE p # id /\ q = id
      BY <1>6, <2>2, <2>5
    <2>6. CASE p # id /\ q # id
      <3>1. profiles'[p] = profiles[p] /\ profiles'[q] = profiles[q] /\ <<p, s>> # <<q, t>>
        BY <1>6, <2>6
      <3> QED
        BY <1>1, <3>1 DEF StoresInv, NothingShared
    <2> QED
      BY <2>3, <2>4, <2>5, <2>6
  <1>18. StoresInv'
    BY <1>1, <1>3, <1>6, <1>14, <1>15, <1>16, <1>17 DEF StoresInv, StoresAgree
  <1>19. workers'[i] = [w EXCEPT !.step = "acknowledge", !.pending = w.created, !.created = {},
                   !.previous = NoReferences]
    BY <1>3, SetIs
  <1>20. workers'[i] \in Worker
    <2>1. NoReferences \in [Slots -> References \cup {NoReference}]
      BY DEF NoReferences
    <2>2. ASSUME NEW v \in Worker
          PROVE  [v EXCEPT !.step = "acknowledge", !.pending = v.created, !.created = {},
                           !.previous = NoReferences] \in Worker
      BY <2>1, Zenon DEF Worker, Steps
    <2> QED
      BY <1>1, <1>19, <2>2
  <1>21. /\ workers'[i].step = "acknowledge" /\ workers'[i].job = w.job /\ workers'[i].pending = w.created
         /\ workers'[i].ok = w.ok /\ workers'[i].deleted = w.deleted /\ workers'[i].answer = w.answer
    BY <1>1, <1>19 DEF Worker
  <1>22. w.created \subseteq Referenced'
    <2>1. \A r \in w.created : \E s \in Slots : w.references[s] = r
      BY <1>1 DEF Preparing
    <2>2. NoReference \notin w.created
      BY <1>1, NamesAssumption DEF Worker
    <2> QED
      BY <1>12, <2>1, <2>2
  <1>23. WorkerInv(i)'
    BY <1>1, <1>2, <1>3, <1>21, <1>22 DEF WorkerInv, Busy, Resting, Knows, Serves
  <1>24. Busy(i)
    BY <1>1 DEF Busy
  <1> QED
    BY <1>3, <1>18, <1>20, <1>23, <1>24, LockedMove

LEMMA AcknowledgeStep == ASSUME PsInv, NEW i \in Instances, Acknowledge(i) PROVE PsInv'
  <1> DEFINE w == workers[i]
  <1>1. StoresInv /\ WorkerInv(i) /\ w \in Worker /\ w.step = "acknowledge"
    BY Parts DEF Acknowledge, At
  <1>2. PICK r \in w.pending : /\ journal' = journal \ {r} \/ journal' = journal
                               /\ Set(i, [w EXCEPT !.pending = @ \ {r}])
    BY DEF Acknowledge, Forgotten
  <1>3. profiles' = profiles /\ keychain' = keychain /\ lock' = lock
    BY DEF Acknowledge
  <1>4. Referenced' = Referenced /\ Stored' = Stored
    BY <1>3, StoresAre
  <1>5. r \in Referenced
    BY <1>1, <1>2 DEF WorkerInv, Knows
  <1>6. StoresInv'
    BY <1>1, <1>2, <1>3, <1>4, <1>5 DEF StoresInv, StoresAgree, NothingShared
  <1>7. PICK p \in SUBSET References : p = w.pending \ {r}
    BY <1>1 DEF Worker
  <1>8. workers'[i] = [w EXCEPT !.pending = p]
    BY <1>2, <1>7, SetIs
  <1>9. workers'[i] \in Worker
    BY <1>1, <1>8, Zenon DEF Worker, Steps
  <1>10. /\ workers'[i].step = "acknowledge" /\ workers'[i].job = w.job /\ workers'[i].pending = p
         /\ workers'[i].ok = w.ok /\ workers'[i].deleted = w.deleted /\ workers'[i].answer = w.answer
    BY <1>1, <1>8 DEF Worker
  <1>11. WorkerInv(i)'
    BY <1>1, <1>3, <1>4, <1>7, <1>10 DEF WorkerInv, Busy, Resting, Knows, Serves
  <1>12. Busy(i)
    BY <1>1 DEF Busy
  <1> QED
    BY <1>2, <1>6, <1>9, <1>11, <1>12, LockedMove

LEMMA DuplicateStep == ASSUME PsInv, NEW i \in Instances, Duplicate(i) PROVE PsInv'
  <1> DEFINE w == workers[i]
             id == w.job.id
             row == [profiles[w.job.source] EXCEPT !.references = NoReferences]
  <1>1. /\ StoresInv /\ WorkerInv(i) /\ w \in Worker /\ w.step = "locked" /\ w.job.kind = "duplicate"
        /\ w.job \in Jobs
    BY Parts DEF Duplicate, At, WorkerInv, Serves, Worker
  <1>2. id \in Ids /\ w.job.source \in Ids
    BY <1>1 DEF Jobs
  <1>3. /\ profiles[w.job.source] # Absent /\ profiles[id] = Absent
        /\ profiles' = [profiles EXCEPT ![id] = row]
        /\ journal' = journal /\ keychain' = keychain /\ lock' = lock
        /\ Set(i, [w EXCEPT !.step = "reply"])
    BY DEF Duplicate, Goto
  <1>4. row \in Profile /\ row.references = NoReferences
    <2>1. profiles[w.job.source] \in Profile
      BY <1>1, <1>2, <1>3 DEF StoresInv
    <2>2. NoReferences \in [Slots -> References \cup {NoReference}]
      BY DEF NoReferences
    <2> QED
      BY <2>1, <2>2 DEF Profile
  <1>5. /\ profiles' \in [Ids -> Profile \cup {Absent}] /\ profiles'[id] = row
        /\ \A p \in Ids : p # id => profiles'[p] = profiles[p]
    BY <1>1, <1>2, <1>3, <1>4 DEF StoresInv
  <1>6. \A s \in Slots : profiles'[id].references[s] = NoReference
    BY <1>4, <1>5 DEF NoReferences
  <1>7. Referenced' = Referenced
    <2>1. \A r : r \in Referenced <=> /\ r # NoReference
              /\ \E p \in Ids, s \in Slots : profiles[p] # Absent /\ profiles[p].references[s] = r
      BY StoresAre, ReferencedIs
    <2>2. \A r : r \in Referenced' <=> /\ r # NoReference
              /\ \E p \in Ids, s \in Slots : profiles'[p] # Absent /\ profiles'[p].references[s] = r
      BY StoresAre, ReferencedIs
    <2>3. ASSUME NEW r, r # NoReference, NEW p \in Ids, NEW s \in Slots
          PROVE  (profiles[p] # Absent /\ profiles[p].references[s] = r) <=>
                 (profiles'[p] # Absent /\ profiles'[p].references[s] = r)
      <3>1. CASE p = id
        BY <1>3, <1>6, <2>3, <3>1
      <3>2. CASE p # id
        BY <1>5, <3>2
      <3> QED
        BY <3>1, <3>2
    <2>4. ASSUME NEW r
          PROVE  r \in Referenced' <=> r \in Referenced
      BY <2>1, <2>2, <2>3
    <2> QED
      BY <2>4
  <1>8. Stored' = Stored
    BY <1>3, StoresAre
  <1>9. NothingShared'
    <2> SUFFICES ASSUME NEW p \in Ids, NEW q \in Ids, NEW s \in Slots, NEW t \in Slots,
                        profiles'[p] # Absent, profiles'[q] # Absent, <<p, s>> # <<q, t>>
                 PROVE  profiles'[p].references[s] # profiles'[q].references[t]
                        \/ profiles'[p].references[s] = NoReference
      BY DEF NothingShared
    <2>1. CASE p = id \/ q = id
      BY <1>6, <2>1
    <2>2. CASE p # id /\ q # id
      BY <1>1, <1>5, <2>2 DEF StoresInv, NothingShared
    <2> QED
      BY <2>1, <2>2
  <1>10. StoresInv'
    BY <1>1, <1>3, <1>5, <1>7, <1>8, <1>9 DEF StoresInv, StoresAgree
  <1>11. workers'[i] = [w EXCEPT !.step = "reply"]
    BY <1>3, SetIs
  <1>12. workers'[i] \in Worker
    BY <1>1, <1>11, Zenon DEF Worker, Steps
  <1>13. WorkerInv(i)'
    BY <1>1, <1>3, <1>11 DEF WorkerInv, Busy, Resting, Knows, Serves, Worker
  <1>14. Busy(i)
    BY <1>1 DEF Busy
  <1> QED
    BY <1>3, <1>10, <1>12, <1>13, <1>14, LockedMove

LEMMA DeleteStep == ASSUME PsInv, NEW i \in Instances, Delete(i) PROVE PsInv'
  <1> DEFINE w == workers[i]
             id == w.job.id
  <1>1. /\ StoresInv /\ WorkerInv(i) /\ w \in Worker /\ w.step = "locked" /\ w.job.kind = "delete"
        /\ w.job \in Jobs
    BY Parts DEF Delete, At, WorkerInv, Serves, Worker
  <1>2. id \in Ids
    BY <1>1 DEF Jobs
  <1>3. /\ profiles' = [profiles EXCEPT ![id] = Absent]
        /\ journal' = journal \cup ReferencesOf(profiles[id]) /\ keychain' = keychain /\ lock' = lock
        /\ Set(i, Sweep(w))
    BY DEF Delete
  <1>4. /\ profiles' \in [Ids -> Profile \cup {Absent}] /\ profiles'[id] = Absent
        /\ \A p \in Ids : p # id => profiles'[p] = profiles[p]
    BY <1>1, <1>2, <1>3 DEF StoresInv
  <1>5. \A r : r \in Referenced <=> /\ r # NoReference
            /\ \E p \in Ids, s \in Slots : profiles[p] # Absent /\ profiles[p].references[s] = r
    BY StoresAre, ReferencedIs
  <1>6. \A r : r \in Referenced' <=> /\ r # NoReference
            /\ \E p \in Ids, s \in Slots : profiles'[p] # Absent /\ profiles'[p].references[s] = r
    BY StoresAre, ReferencedIs
  <1>7. Stored' = Stored
    BY <1>3, StoresAre
  <1>8. Referenced' \subseteq Referenced
    BY <1>4, <1>5, <1>6
  <1>9. Referenced \subseteq Referenced' \cup ReferencesOf(profiles[id])
    <2> SUFFICES ASSUME NEW r \in Referenced, r \notin ReferencesOf(profiles[id])
                 PROVE  r \in Referenced'
      OBVIOUS
    <2>1. PICK p \in Ids, s \in Slots : profiles[p] # Absent /\ profiles[p].references[s] = r
      BY <1>5
    <2>2. p # id
      BY <1>5, <2>1 DEF ReferencesOf
    <2> QED
      BY <1>4, <1>5, <1>6, <2>1, <2>2
  <1>10. ReferencesOf(profiles[id]) \subseteq References
    <2>1. profiles[id] = Absent \/ profiles[id] \in Profile
      BY <1>1, <1>2 DEF StoresInv
    <2> QED
      BY <2>1 DEF ReferencesOf, Profile
  <1>11. NothingShared'
    BY <1>1, <1>4 DEF StoresInv, NothingShared
  <1>12. StoresInv'
    BY <1>1, <1>3, <1>4, <1>7, <1>8, <1>9, <1>10, <1>11 DEF StoresInv, StoresAgree
  <1>13. workers'[i] = Sweep(w)
    BY <1>3, SetIs
  <1>14. Busy(i) /\ lock = i /\ w.deleted = NoReference /\ w.ok /\ w.answer = Silent
    BY <1>1 DEF WorkerInv, Knows, Serves, Busy
  <1> QED
    BY <1>1, <1>3, <1>12, <1>13, <1>14, Sweeps, LockedMove

-----------------------------------------------------------------------------
(***************************************************************************)
(* Items are deleted.                                                      *)
(***************************************************************************)
LEMMA DeleteItemStep == ASSUME PsInv, NEW i \in Instances, DeleteItem(i) PROVE PsInv'
  <1> DEFINE w == workers[i]
  <1>1. /\ StoresInv /\ WorkerInv(i) /\ w \in Worker /\ w.step \in {"sweep", "discard"}
        /\ Deleting(w)
    BY Parts DEF DeleteItem, WorkerInv, Knows
  <1>2. PICK r \in w.pending : /\ keychain' = [keychain EXCEPT ![r] = NoSecret]
                               /\ Set(i, [w EXCEPT !.pending = @ \ {r}, !.deleted = r])
    BY DEF DeleteItem
  <1>3. profiles' = profiles /\ journal' = journal /\ lock' = lock
    BY DEF DeleteItem
  <1>4. r \in References /\ r \notin Referenced
    BY <1>1, <1>2 DEF Deleting, Worker
  <1>5. Referenced' = Referenced
    BY <1>3, StoresAre
  <1>6. Stored' = Stored \ {r} /\ keychain' \in [References -> Secrets \cup {NoSecret}]
    BY <1>1, <1>2, <1>4 DEF Stored, StoresInv
  <1>7. StoresInv'
    BY <1>1, <1>3, <1>4, <1>5, <1>6 DEF StoresInv, StoresAgree, NothingShared
  <1>8. PICK p \in SUBSET References : p = w.pending \ {r}
    BY <1>1 DEF Worker
  <1>9. workers'[i] = [w EXCEPT !.pending = p, !.deleted = r]
    BY <1>2, <1>8, SetIs
  <1>10. workers'[i] \in Worker
    BY <1>1, <1>4, <1>9, Zenon DEF Worker, Steps
  <1>11. /\ workers'[i].step = w.step /\ workers'[i].job = w.job /\ workers'[i].pending = p
         /\ workers'[i].ok = w.ok /\ workers'[i].deleted = r /\ workers'[i].answer = w.answer
         /\ workers'[i].failed = w.failed
    BY <1>1, <1>9 DEF Worker
  <1>12. Deleting(workers[i])'
    BY <1>1, <1>4, <1>5, <1>6, <1>8, <1>11 DEF Deleting
  <1>13. w.step = "sweep" /\ ~w.failed => Stored' \ Referenced' \subseteq p
    BY <1>1, <1>5, <1>6, <1>8 DEF WorkerInv, Knows
  <1>14. WorkerInv(i)'
    BY <1>1, <1>3, <1>11, <1>12, <1>13 DEF WorkerInv, Busy, Resting, Knows, Serves
  <1>15. Busy(i)
    BY <1>1 DEF Busy
  <1> QED
    BY <1>2, <1>7, <1>10, <1>14, <1>15, LockedMove

LEMMA ForgetStep == ASSUME PsInv, NEW i \in Instances, Forget(i) PROVE PsInv'
  <1> DEFINE w == workers[i]
  <1>1. /\ StoresInv /\ WorkerInv(i) /\ w \in Worker /\ w.step \in {"sweep", "discard"}
        /\ Deleting(w) /\ w.deleted # NoReference
    BY Parts DEF Forget, WorkerInv, Knows
  <1>2. /\ journal' = journal \ {w.deleted} /\ Set(i, [w EXCEPT !.deleted = NoReference])
        /\ profiles' = profiles /\ keychain' = keychain /\ lock' = lock
    BY DEF Forget, Forgotten
  <1>3. Referenced' = Referenced /\ Stored' = Stored
    BY <1>2, StoresAre
  <1>4. w.deleted \notin Stored
    BY <1>1 DEF Deleting
  <1>5. StoresInv'
    BY <1>1, <1>2, <1>3, <1>4 DEF StoresInv, StoresAgree, NothingShared
  <1>6. workers'[i] = [w EXCEPT !.deleted = NoReference]
    BY <1>2, SetIs
  <1>7. workers'[i] \in Worker
    BY <1>1, <1>6, Zenon DEF Worker, Steps
  <1>8. /\ workers'[i].step = w.step /\ workers'[i].job = w.job /\ workers'[i].pending = w.pending
        /\ workers'[i].ok = w.ok /\ workers'[i].deleted = NoReference /\ workers'[i].answer = w.answer
        /\ workers'[i].failed = w.failed
    BY <1>1, <1>6 DEF Worker
  <1>9. Deleting(workers[i])'
    BY <1>1, <1>3, <1>8 DEF Deleting
  <1>10. WorkerInv(i)'
    BY <1>1, <1>2, <1>3, <1>8, <1>9 DEF WorkerInv, Busy, Resting, Knows, Serves
  <1>11. Busy(i)
    BY <1>1 DEF Busy
  <1> QED
    BY <1>2, <1>5, <1>7, <1>10, <1>11, LockedMove

-----------------------------------------------------------------------------
LEMMA PsStarts == Init => PsInv
  <1> SUFFICES ASSUME Init PROVE PsInv
    OBVIOUS
  <1>2. Blank("down") \in Worker
    BY BlankTyped DEF Steps
  <1>3. PsShape
    BY <1>2 DEF Init, PsShape
  <1>4. Referenced = {} /\ Stored = {}
    <2>1. ASSUME NEW r PROVE r \notin Referenced
      BY StoresAre, ReferencedIs DEF Init
    <2>2. Stored = {}
      BY DEF Init, Stored
    <2> QED
      BY <2>1, <2>2
  <1>5. StoresAgree /\ NothingShared
    BY <1>4 DEF Init, StoresAgree, NothingShared
  <1>6. ASSUME NEW i \in Instances
        PROVE  WorkerInv(i)
    <2>1. /\ workers[i].step = "down" /\ workers[i].deleted = NoReference /\ workers[i].job = NoJob
          /\ workers[i].ok /\ workers[i].answer = Silent
      BY DEF Init, Blank
    <2> QED
      BY <2>1 DEF WorkerInv, Busy, Resting, Knows, Serves
  <1> QED
    BY <1>3, <1>5, <1>6 DEF PsInv, WorkerInv

LEMMA PsStays == ASSUME PsInv, UNCHANGED vars PROVE PsInv'
  <1>1. UNCHANGED <<profiles, journal, keychain>> /\ lock' = lock /\ workers' = workers
    BY DEF vars
  <1>2. Referenced' = Referenced /\ Stored' = Stored
    BY <1>1, StoresAre
  <1>3. PsShape' /\ StoresAgree' /\ NothingShared'
    BY <1>1, <1>2 DEF PsInv, PsShape, StoresAgree, NothingShared
  <1>4. ASSUME NEW i \in Instances
        PROVE  (Busy(i) => lock = i)' /\ Resting(workers[i])' /\ Knows(workers[i])' /\ Serves(workers[i])'
    BY <1>1, <1>2 DEF PsInv, Busy, Resting, Serves, Knows, Preparing, Putting, Deleting, AsAsked, PreviousOf
  <1> QED
    BY <1>3, <1>4 DEF PsInv

LEMMA PsStep == PsInv /\ [Next]_vars => PsInv'
  <1> SUFFICES ASSUME PsInv, Next PROVE PsInv'
    BY PsStays
  <1>1. PICK i \in Instances :
            \/ Start(i) \/ FirstSweep(i) \/ SkipSweep(i) \/ BeginSave(i) \/ Refuse(i)
            \/ \E job \in Jobs : Take(i, job)
            \/ KeepOrClear(i) \/ QueueItem(i) \/ QueueItemFails(i) \/ PutItem(i) \/ PutItemFails(i)
            \/ Withdraw(i) \/ Prepared(i) \/ Commit(i) \/ CommitFails(i) \/ Acknowledge(i)
            \/ Acknowledged(i) \/ Duplicate(i) \/ Delete(i) \/ List(i) \/ DeleteItem(i)
            \/ DeleteItemFails(i) \/ Forget(i) \/ ForgetFails(i) \/ Swept(i) \/ Reply(i) \/ Crash(i)
    BY DEF Next
  <1>2. CASE \/ Start(i) \/ FirstSweep(i) \/ SkipSweep(i) \/ BeginSave(i) \/ Refuse(i)
             \/ \E job \in Jobs : Take(i, job)
    BY <1>2, StartStep, FirstSweepStep, SkipSweepStep, BeginSaveStep, RefuseStep, TakeStep
  <1>3. CASE \/ KeepOrClear(i) \/ QueueItem(i) \/ QueueItemFails(i) \/ PutItem(i) \/ PutItemFails(i)
             \/ Withdraw(i) \/ Prepared(i)
    BY <1>3, KeepOrClearStep, QueueItemStep, DiscardStep, PutItemStep, PutItemFailsStep, WithdrawStep,
       PreparedStep
  <1>4. CASE \/ Commit(i) \/ CommitFails(i) \/ Acknowledge(i) \/ Acknowledged(i) \/ Duplicate(i)
             \/ Delete(i) \/ List(i)
    BY <1>4, CommitStep, DiscardStep, AcknowledgeStep, SweepAgainStep, DuplicateStep, DeleteStep
  <1>5. CASE \/ DeleteItem(i) \/ DeleteItemFails(i) \/ Forget(i) \/ ForgetFails(i) \/ Swept(i)
             \/ Reply(i) \/ Crash(i)
    BY <1>5, DeleteItemStep, DeleteItemFailsStep, ForgetStep, ForgetFailsStep, SweptStep, ReplyStep,
       CrashStep
  <1> QED
    BY <1>1, <1>2, <1>3, <1>4, <1>5

\* What every worker knows of the two stores stays so while it has the lock, wherever a step
\* fails, an instance crashes or another one cleans up: the row it is about to save is made of
\* items that are in the credential store and in no other row, and what it is about to delete
\* is in no row.
THEOREM PsInvariant == Spec => []PsInv
  BY PsStarts, PsStep, PTL DEF Spec

\* No saved profile loses its secret and no secret is left behind unknown to the journal
\* (profiles.rs and credentials.rs: save, delete, cleanup), for any number of instances, profiles
\* and items, whatever fails or stops on the way.
THEOREM ProfilesKeepTheirSecrets == Spec => []StoresAgree
  <1>1. PsInv => StoresAgree
    BY DEF PsInv
  <1> QED
    BY <1>1, PsInvariant, PTL

\* No item of the credential store is in two rows or in two slots of a row: a duplicate gets none
\* and a new name is never one that is still in use, so deleting a profile's secret takes no other's.
THEOREM SecretsAreNotShared == Spec => []NothingShared
  <1>1. PsInv => NothingShared
    BY DEF PsInv
  <1> QED
    BY <1>1, PsInvariant, PTL

\* A cleanup ends with Swept and with nothing else.
LEMMA SweptEndsIt ==
    ASSUME PsInv, Next, NEW i \in Instances, At(i, "sweep"), workers'[i].step = "reply"
    PROVE  Swept(i)
  <1>1. PICK k \in Instances :
            \/ Start(k) \/ FirstSweep(k) \/ SkipSweep(k) \/ BeginSave(k) \/ Refuse(k)
            \/ \E job \in Jobs : Take(k, job)
            \/ KeepOrClear(k) \/ QueueItem(k) \/ QueueItemFails(k) \/ PutItem(k) \/ PutItemFails(k)
            \/ Withdraw(k) \/ Prepared(k) \/ Commit(k) \/ CommitFails(k) \/ Acknowledge(k)
            \/ Acknowledged(k) \/ Duplicate(k) \/ Delete(k) \/ List(k) \/ DeleteItem(k)
            \/ DeleteItemFails(k) \/ Forget(k) \/ ForgetFails(k) \/ Swept(k) \/ Reply(k) \/ Crash(k)
    BY DEF Next
  <1>2. PICK v : Set(k, v)
    BY <1>1 DEF Start, FirstSweep, SkipSweep, BeginSave, Refuse, Take, KeepOrClear, QueueItem, QueueItemFails,
       PutItem, PutItemFails, Withdraw, Prepared, Commit, CommitFails, Acknowledge, Acknowledged, Duplicate,
       Delete, List, DeleteItem, DeleteItemFails, Forget, ForgetFails, Swept, Reply, Crash, Goto
  <1>3. k = i
    <2>1. k # i => workers'[i] = workers[i]
      BY <1>2 DEF Set, PsInv, PsShape
    <2> QED
      BY <2>1 DEF At
  <1>4. workers[i].step = "sweep" /\ workers[i] \in Worker
    BY DEF At, PsInv, PsShape
  <1>5. CASE DeleteItem(i) \/ DeleteItemFails(i) \/ Forget(i) \/ ForgetFails(i)
    <2>1. workers'[i].step = "sweep"
      <3>1. CASE DeleteItem(i)
        <4>1. PICK r \in workers[i].pending :
                  Set(i, [workers[i] EXCEPT !.pending = @ \ {r}, !.deleted = r])
          BY <3>1 DEF DeleteItem
        <4>2. workers'[i] = [workers[i] EXCEPT !.pending = @ \ {r}, !.deleted = r]
          BY <4>1, SetIs
        <4> QED
          BY <1>4, <4>2 DEF Worker
      <3>2. CASE DeleteItemFails(i)
        <4>1. PICK r \in workers[i].pending :
                  Set(i, [workers[i] EXCEPT !.pending = @ \ {r}, !.failed = TRUE])
          BY <3>2 DEF DeleteItemFails
        <4>2. workers'[i] = [workers[i] EXCEPT !.pending = @ \ {r}, !.failed = TRUE]
          BY <4>1, SetIs
        <4> QED
          BY <1>4, <4>2 DEF Worker
      <3>3. CASE Forget(i)
        <4>1. Set(i, [workers[i] EXCEPT !.deleted = NoReference])
          BY <3>3 DEF Forget
        <4>2. workers'[i] = [workers[i] EXCEPT !.deleted = NoReference]
          BY <4>1, SetIs
        <4> QED
          BY <1>4, <4>2 DEF Worker
      <3>4. CASE ForgetFails(i)
        <4>1. PICK failed, p : Set(i, [workers[i] EXCEPT !.deleted = NoReference, !.failed = failed, !.pending = p])
          BY <3>4 DEF ForgetFails
        <4>2. workers'[i] = [workers[i] EXCEPT !.deleted = NoReference, !.failed = failed, !.pending = p]
          BY <4>1, SetIs
        <4> QED
          BY <1>4, <4>2 DEF Worker
      <3> QED
        BY <1>5, <3>1, <3>2, <3>3, <3>4
    <2> QED
      BY <2>1
  <1>6. CASE Crash(i)
    BY <1>6, SetIs DEF Crash, Blank
  <1> QED
    BY <1>1, <1>3, <1>4, <1>5, <1>6 DEF Start, FirstSweep, SkipSweep, BeginSave, Refuse, Take, KeepOrClear,
       QueueItem, QueueItemFails, PutItem, PutItemFails, Withdraw, Prepared, Commit, CommitFails, Acknowledge,
       Acknowledged, Duplicate, Delete, List, Reply, At

\* A cleanup that reports no failure leaves in the credential store exactly what the rows name:
\* nothing can be created between its reading of the journal and its last deletion.
THEOREM CleanupsAreComplete == Spec => CleanupIsComplete
  <1>1. PsInv /\ [Next]_vars =>
            [\A i \in Instances :
                (At(i, "sweep") /\ workers'[i].step = "reply" /\ ~workers[i].failed) =>
                    Stored' = Referenced']_vars
    <2> SUFFICES ASSUME PsInv, Next, NEW i \in Instances,
                        At(i, "sweep"), workers'[i].step = "reply", ~workers[i].failed
                 PROVE  Stored' = Referenced'
      OBVIOUS
    <2>1. Swept(i)
      BY SweptEndsIt
    <2>2. workers[i].pending = {} /\ UNCHANGED Stores
      BY <2>1 DEF Swept
    <2>3. Stored' = Stored /\ Referenced' = Referenced
      BY <2>2, StoresStay
    <2>4. Stored \ Referenced = {} /\ Referenced \subseteq Stored
      BY <2>2 DEF PsInv, Knows, At, StoresAgree
    <2> QED
      BY <2>3, <2>4
  <1> QED
    BY <1>1, PsInvariant, PTL DEF Spec, CleanupIsComplete

-----------------------------------------------------------------------------
(***************************************************************************)
(* The two stores are one book.                                            *)
(***************************************************************************)
Pend == [i \in Instances |-> PendingOf(workers[i])]

LEMMA BookStays ==
    ASSUME PsInv, profiles' = profiles, \A r \in Referenced : keychain'[r] = keychain[r]
    PROVE  BookOf' = BookOf
  <1>1. \A r : r \in Referenced <=> /\ r # NoReference
            /\ \E p \in Ids, s \in Slots : profiles[p] # Absent /\ profiles[p].references[s] = r
    BY StoresAre, ReferencedIs
  <1>2. ASSUME NEW id \in Ids, profiles[id] # Absent
        PROVE  SecretsOf(profiles[id])' = SecretsOf(profiles[id])
    <2>1. \A s \in Slots : profiles[id].references[s] # NoReference =>
              keychain'[profiles[id].references[s]] = keychain[profiles[id].references[s]]
      BY <1>1, <1>2
    <2> QED
      BY <2>1 DEF SecretsOf
  <1> QED
    BY <1>2 DEF BookOf

LEMMA PendMoves ==
    ASSUME PsInv, NEW i \in Instances, NEW v, Set(i, v)
    PROVE  /\ workers'[i] = v
           /\ Pend' = [Pend EXCEPT ![i] = PendingOf(workers'[i])]
           /\ \A j \in Instances \ {i} : Pend'[j] = Pend[j]
           /\ Pend'[i] = PendingOf(workers'[i]) /\ Pend[i] = PendingOf(workers[i])
  <1>1. workers'[i] = v /\ \A j \in Instances : j # i => workers'[j] = workers[j]
    BY DEF Set, PsInv, PsShape
  <1> QED
    BY <1>1 DEF Pend

\* Nothing of a step is to be seen when the job, the answer and what took effect stay.
LEMMA Unseen ==
    ASSUME PsInv, NEW i \in Instances, NEW v, Set(i, v), BookOf' = BookOf,
           workers'[i].job = workers[i].job, workers'[i].answer = workers[i].answer,
           \/ workers[i].job = NoJob \/ workers[i].job.kind = "list"
           \/ Applied(workers'[i]) = Applied(workers[i])
    PROVE  BookOf' = BookOf /\ Pend' = Pend
  <1>1. PendingOf(workers'[i]) = PendingOf(workers[i])
    BY DEF PendingOf
  <1>2. Pend' = [Pend EXCEPT ![i] = Pend[i]]
    BY <1>1, PendMoves
  <1>3. Pend' = Pend
    BY <1>2 DEF Pend
  <1> QED
    BY <1>3

LEMMA UnseenStart ==
    ASSUME PsInv, NEW i \in Instances, Start(i) \/ SkipSweep(i) \/ FirstSweep(i)
    PROVE  BookOf' = BookOf /\ Pend' = Pend
  <1>1. workers[i].step \in {"down", "opened"} /\ workers[i] \in Worker
    BY DEF Start, SkipSweep, FirstSweep, At, PsInv, PsShape
  <1>2. workers[i].job = NoJob
    BY <1>1 DEF PsInv, Serves
  <1>3. UNCHANGED Stores
    BY DEF Start, SkipSweep, FirstSweep
  <1>4. BookOf' = BookOf
    BY <1>3, BookStays DEF Stores
  <1>5. CASE Start(i) \/ SkipSweep(i)
    <2>1. PICK step : Set(i, [workers[i] EXCEPT !.step = step])
      BY <1>5 DEF Start, SkipSweep, Goto
    <2>w. workers'[i] = [workers[i] EXCEPT !.step = step]
      BY <2>1, SetIs
    <2>2. workers'[i].job = workers[i].job /\ workers'[i].answer = workers[i].answer
      BY <1>1, <2>w DEF Worker
    <2> QED
      BY <1>2, <1>4, <2>1, <2>2, Unseen
  <1>6. CASE FirstSweep(i)
    <2>1. Set(i, Sweep(workers[i]))
      BY <1>6 DEF FirstSweep
    <2>w. workers'[i] = Sweep(workers[i])
      BY <2>1, SetIs
    <2>2. workers'[i].job = workers[i].job /\ workers'[i].answer = workers[i].answer
      BY <1>1, <2>w DEF Worker, Sweep
    <2> QED
      BY <1>2, <1>4, <2>1, <2>2, Unseen
  <1> QED
    BY <1>5, <1>6

\* What is prepared, or failed, has had no effect.
LEMMA UnseenSave ==
    ASSUME PsInv, NEW i \in Instances,
           \/ BeginSave(i) \/ KeepOrClear(i) \/ QueueItem(i) \/ QueueItemFails(i) \/ PutItem(i)
           \/ PutItemFails(i) \/ Withdraw(i) \/ Prepared(i) \/ CommitFails(i)
    PROVE  BookOf' = BookOf /\ Pend' = Pend
  <1> DEFINE w == workers[i]
  <1>1. /\ w \in Worker /\ w.step \in {"locked", "prepare", "put", "withdraw", "commit"}
        /\ w.job.kind = "save"
    <2>1. w \in Worker /\ Knows(w)
      BY DEF PsInv, PsShape
    <2>2. \/ w.step = "locked" /\ w.job.kind = "save"
          \/ w.step \in {"prepare", "put", "withdraw", "commit"}
      BY DEF BeginSave, KeepOrClear, QueueItem, QueueItemFails, PutItem, PutItemFails, Withdraw, Prepared,
             CommitFails, At
    <2> QED
      BY <2>1, <2>2 DEF Knows, Preparing
  <1>2. profiles' = profiles
    BY DEF BeginSave, KeepOrClear, QueueItem, QueueItemFails, PutItem, PutItemFails, Withdraw, Prepared,
           CommitFails, Stores
  <1>3. \A r \in Referenced : keychain'[r] = keychain[r]
    <2>1. CASE PutItem(i)
      <3>1. w.references[w.slot] \notin Referenced
        BY <2>1 DEF PutItem, At, PsInv, Knows, Putting
      <3>2. keychain' = [keychain EXCEPT ![w.references[w.slot]] = w.job.updates[w.slot]]
        BY <2>1 DEF PutItem
      <3>3. \A r \in Referenced : r \in References
        BY DEF PsInv, StoresAgree, Stored
      <3> QED
        BY <3>1, <3>2, <3>3 DEF PsInv, PsShape
    <2>2. CASE ~PutItem(i)
      BY <2>2 DEF BeginSave, KeepOrClear, QueueItem, QueueItemFails, PutItemFails, Withdraw, Prepared,
             CommitFails, Stores
    <2> QED
      BY <2>1, <2>2
  <1>4. BookOf' = BookOf
    BY <1>2, <1>3, BookStays
  <1>5. PICK v : Set(i, v)
    BY DEF BeginSave, KeepOrClear, QueueItem, QueueItemFails, PutItem, PutItemFails, Withdraw, Prepared,
           CommitFails, Goto
  <1>6. /\ workers'[i].job = w.job /\ workers'[i].answer = w.answer
        /\ workers'[i].step \in {"prepare", "put", "withdraw", "commit", "discard"}
    <2>1. CASE BeginSave(i)
      <3>1. PICK p, d : Set(i, [w EXCEPT !.step = "prepare", !.previous = p, !.todo = d])
        BY <2>1 DEF BeginSave
      <3>2. workers'[i] = [w EXCEPT !.step = "prepare", !.previous = p, !.todo = d]
        BY <3>1, SetIs
      <3> QED
        BY <1>1, <3>2 DEF Worker
    <2>2. CASE KeepOrClear(i)
      <3>1. PICK d, q : Set(i, [w EXCEPT !.todo = d, !.references = q]) /\ w.step = "prepare"
        <4>1. PICK s \in w.todo :
                Set(i, [w EXCEPT !.todo = @ \ {s},
                    !.references[s] = IF w.job.updates[s] = Keep THEN w.previous[s] ELSE NoReference])
          BY <2>2 DEF KeepOrClear
        <4>2. w.step = "prepare"
          BY <2>2 DEF KeepOrClear, At
        <4> QED
          BY <4>1, <4>2
      <3>2. workers'[i] = [w EXCEPT !.todo = d, !.references = q]
        BY <3>1, SetIs
      <3> QED
        BY <1>1, <3>1, <3>2 DEF Worker
    <2>3. CASE QueueItem(i)
      <3>1. PICK s, q : Set(i, [w EXCEPT !.step = "put", !.slot = s, !.references = q])
        <4>1. PICK s \in w.todo, r \in Fresh :
                Set(i, [w EXCEPT !.step = "put", !.slot = s, !.references[s] = r])
          BY <2>3 DEF QueueItem
        <4> QED
          BY <4>1
      <3>2. workers'[i] = [w EXCEPT !.step = "put", !.slot = s, !.references = q]
        BY <3>1, SetIs
      <3> QED
        BY <1>1, <3>2 DEF Worker
    <2>4. CASE QueueItemFails(i) \/ CommitFails(i) \/ Withdraw(i)
      <3>1. Set(i, Discard(w))
        BY <2>4 DEF QueueItemFails, CommitFails, Withdraw
      <3>2. workers'[i] = Discard(w)
        BY <3>1, SetIs
      <3> QED
        BY <1>1, <3>2 DEF Worker, Discard
    <2>5. CASE PutItem(i)
      <3>1. PICK d, c : Set(i, [w EXCEPT !.step = "prepare", !.slot = NoSlot, !.todo = d, !.created = c])
        BY <2>5 DEF PutItem
      <3>2. workers'[i] = [w EXCEPT !.step = "prepare", !.slot = NoSlot, !.todo = d, !.created = c]
        BY <3>1, SetIs
      <3> QED
        BY <1>1, <3>2 DEF Worker
    <2>6. CASE PutItemFails(i) \/ Prepared(i)
      <3>1. PICK step \in {"withdraw", "commit"} : Set(i, [w EXCEPT !.step = step])
        BY <2>6 DEF PutItemFails, Prepared, Goto
      <3>2. workers'[i] = [w EXCEPT !.step = step]
        BY <3>1, SetIs
      <3> QED
        BY <1>1, <3>1, <3>2 DEF Worker
    <2> QED
      BY <2>1, <2>2, <2>3, <2>4, <2>5, <2>6
  <1>7. Applied(w) = FALSE
    BY <1>1 DEF Applied
  <1>8. Applied(workers'[i]) = FALSE
    BY <1>1, <1>6 DEF Applied
  <1> QED
    BY <1>4, <1>5, <1>6, <1>7, <1>8, Unseen

\* What follows the transaction does not change what took effect.
LEMMA UnseenCleanup ==
    ASSUME PsInv, NEW i \in Instances,
           \/ Acknowledge(i) \/ Acknowledged(i) \/ DeleteItem(i) \/ DeleteItemFails(i)
           \/ Forget(i) \/ ForgetFails(i) \/ Swept(i)
    PROVE  BookOf' = BookOf /\ Pend' = Pend
  <1> DEFINE w == workers[i]
  <1>1. w \in Worker /\ w.step \in {"acknowledge", "sweep", "discard"} /\ Knows(w) /\ Serves(w)
    BY DEF PsInv, PsShape, Acknowledge, Acknowledged, DeleteItem, DeleteItemFails, Forget, ForgetFails,
           Swept, At
  <1>2. profiles' = profiles
    BY DEF Acknowledge, Acknowledged, DeleteItem, DeleteItemFails, Forget, ForgetFails, Swept, Stores
  <1>3. \A r \in Referenced : keychain'[r] = keychain[r]
    <2>1. CASE DeleteItem(i)
      <3>1. PICK r \in w.pending : keychain' = [keychain EXCEPT ![r] = NoSecret]
        BY <2>1 DEF DeleteItem
      <3>2. r \notin Referenced
        BY <1>1, <2>1 DEF DeleteItem, Knows, Deleting
      <3>3. \A x \in Referenced : x \in References
        BY DEF PsInv, StoresAgree, Stored
      <3> QED
        BY <3>1, <3>2, <3>3 DEF PsInv, PsShape
    <2>2. CASE ~DeleteItem(i)
      BY <2>2 DEF Acknowledge, Acknowledged, DeleteItemFails, Forget, ForgetFails, Swept, Stores
    <2> QED
      BY <2>1, <2>2
  <1>4. BookOf' = BookOf
    BY <1>2, <1>3, BookStays
  <1>5. PICK v : Set(i, v)
    BY DEF Acknowledge, Acknowledged, DeleteItem, DeleteItemFails, Forget, ForgetFails, Swept, Goto
  <1>6. /\ workers'[i].job = w.job /\ workers'[i].answer = w.answer /\ workers'[i].ok = w.ok
        /\ \/ workers'[i].step = w.step
           \/ w.step = "acknowledge" /\ workers'[i].step = "sweep"
           \/ w.step # "acknowledge" /\ workers'[i].step = "reply"
    <2>1. CASE Acknowledge(i)
      <3>1. PICK p : Set(i, [w EXCEPT !.pending = p])
        <4>1. PICK r \in w.pending : Set(i, [w EXCEPT !.pending = @ \ {r}])
          BY <2>1 DEF Acknowledge
        <4> QED
          BY <4>1
      <3>2. workers'[i] = [w EXCEPT !.pending = p]
        BY <3>1, SetIs
      <3> QED
        BY <1>1, <3>2 DEF Worker
    <2>2. CASE Acknowledged(i)
      <3>1. Set(i, Sweep(w)) /\ w.step = "acknowledge"
        BY <2>2 DEF Acknowledged, At
      <3>2. workers'[i] = Sweep(w)
        BY <3>1, SetIs
      <3> QED
        BY <1>1, <3>1, <3>2 DEF Worker, Sweep
    <2>3. CASE DeleteItem(i)
      <3>1. PICK r, p : Set(i, [w EXCEPT !.pending = p, !.deleted = r])
        <4>1. PICK r \in w.pending : Set(i, [w EXCEPT !.pending = @ \ {r}, !.deleted = r])
          BY <2>3 DEF DeleteItem
        <4> QED
          BY <4>1
      <3>2. workers'[i] = [w EXCEPT !.pending = p, !.deleted = r]
        BY <3>1, SetIs
      <3> QED
        BY <1>1, <3>2 DEF Worker
    <2>4. CASE DeleteItemFails(i)
      <3>1. PICK p : Set(i, [w EXCEPT !.pending = p, !.failed = TRUE])
        <4>1. PICK r \in w.pending : Set(i, [w EXCEPT !.pending = @ \ {r}, !.failed = TRUE])
          BY <2>4 DEF DeleteItemFails
        <4> QED
          BY <4>1
      <3>2. workers'[i] = [w EXCEPT !.pending = p, !.failed = TRUE]
        BY <3>1, SetIs
      <3> QED
        BY <1>1, <3>2 DEF Worker
    <2>5. CASE Forget(i)
      <3>1. Set(i, [w EXCEPT !.deleted = NoReference])
        BY <2>5 DEF Forget
      <3>2. workers'[i] = [w EXCEPT !.deleted = NoReference]
        BY <3>1, SetIs
      <3> QED
        BY <1>1, <3>2 DEF Worker
    <2>6. CASE ForgetFails(i)
      <3>1. PICK f, p : Set(i, [w EXCEPT !.deleted = NoReference, !.failed = f, !.pending = p])
        BY <2>6 DEF ForgetFails
      <3>2. workers'[i] = [w EXCEPT !.deleted = NoReference, !.failed = f, !.pending = p]
        BY <3>1, SetIs
      <3> QED
        BY <1>1, <3>2 DEF Worker
    <2>7. CASE Swept(i)
      <3>1. Set(i, [w EXCEPT !.step = "reply"]) /\ w.step # "acknowledge"
        BY <2>7 DEF Swept, Goto
      <3>2. workers'[i] = [w EXCEPT !.step = "reply"]
        BY <3>1, SetIs
      <3> QED
        BY <1>1, <3>1, <3>2 DEF Worker
    <2> QED
      BY <2>1, <2>2, <2>3, <2>4, <2>5, <2>6, <2>7
  <1>7. w.job = NoJob \/ Applied(workers'[i]) = Applied(w)
    <2>1. CASE w.step \in {"acknowledge", "sweep"}
      <3>1. w.ok
        BY <1>1, <2>1 DEF Serves
      <3>2. w.step = "acknowledge" => w.job.kind = "save"
        BY <1>1 DEF Serves
      <3>3. Applied(w) = TRUE
        BY <2>1, <3>2 DEF Applied
      <3>4. Applied(workers'[i]) = TRUE
        BY <1>6, <2>1, <3>1, <3>2 DEF Applied
      <3> QED
        BY <3>3, <3>4
    <2>2. CASE w.step = "discard"
      <3>1. w.ok = FALSE /\ w.job.kind = "save"
        BY <1>1, <2>2 DEF Serves, Worker
      <3>2. Applied(w) = FALSE
        BY <2>2, <3>1 DEF Applied
      <3>3. Applied(workers'[i]) = FALSE
        BY <1>6, <2>2, <3>1 DEF Applied
      <3> QED
        BY <3>2, <3>3
    <2> QED
      BY <1>1, <2>1, <2>2
  <1> QED
    BY <1>4, <1>5, <1>6, <1>7, Unseen

LEMMA UnseenRefusal ==
    ASSUME PsInv, NEW i \in Instances, Refuse(i) \/ List(i)
    PROVE  BookOf' = BookOf /\ Pend' = Pend
  <1> DEFINE w == workers[i]
  <1>1. w \in Worker /\ w.step = "locked"
    BY DEF PsInv, PsShape, Refuse, List, At
  <1>2. BookOf' = BookOf
    BY BookStays DEF Refuse, List, Stores
  <1>3. CASE List(i)
    <2>1. Set(i, Sweep(w)) /\ w.job.kind = "list"
      BY <1>3 DEF List
    <2>2. workers'[i] = Sweep(w)
      BY <2>1, SetIs
    <2>3. workers'[i].job = w.job /\ workers'[i].answer = w.answer
      BY <1>1, <2>2 DEF Worker, Sweep
    <2> QED
      BY <1>2, <2>1, <2>3, Unseen
  <1>4. CASE Refuse(i)
    <2>1. Set(i, [w EXCEPT !.step = "reply", !.ok = FALSE])
      BY <1>4 DEF Refuse, Refused
    <2>2. workers'[i] = [w EXCEPT !.step = "reply", !.ok = FALSE]
      BY <2>1, SetIs
    <2>3. /\ workers'[i].job = w.job /\ workers'[i].answer = w.answer
          /\ workers'[i].step = "reply" /\ workers'[i].ok = FALSE
      BY <1>1, <2>2 DEF Worker
    <2>4. Applied(w) = FALSE
      BY <1>1 DEF Applied
    <2>5. Applied(workers'[i]) = FALSE
      BY <2>3 DEF Applied
    <2> QED
      BY <1>2, <2>1, <2>3, <2>4, <2>5, Unseen
  <1> QED
    BY <1>3, <1>4

\* A request that waits for its answer is none of the answers.
LEMMA RequestIsSeen ==
    ASSUME NEW w, w.job \in Jobs, w.job.kind # "list", Applied(w) \in BOOLEAN
    PROVE  /\ PendingOf(w) = [request |-> w.job, applied |-> Applied(w)]
           /\ PendingOf(w) \notin {Silent, Succeeded, Failed}
           /\ w.job \in Book!Requests
  <1>1. w.job # NoJob
    BY NamesAssumption
  <1>2. PendingOf(w) = [request |-> w.job, applied |-> Applied(w)]
    BY <1>1 DEF PendingOf
  <1>3. PendingOf(w) \in [request : Jobs, applied : BOOLEAN]
    BY <1>2
  <1>4. PendingOf(w) \notin {Silent, Succeeded, Failed}
    BY <1>3, NamesAssumption
  <1>5. w.job \in Book!Requests
    BY DEF Jobs, Updates, Book!Requests, Book!Updates
  <1> QED
    BY <1>2, <1>4, <1>5

LEMMA TakeIsAsked ==
    ASSUME PsInv, NEW i \in Instances, NEW job \in Jobs, Take(i, job)
    PROVE  Book!Ask(i) \/ Book!Abandon(i)
  <1> DEFINE v == workers'[i]
  <1>1. Set(i, [Blank("locked") EXCEPT !.job = job]) /\ workers[i].step = "idle"
    BY DEF Take, At
  <1>2. v = [Blank("locked") EXCEPT !.job = job]
    BY <1>1, SetIs
  <1>3. v.step = "locked" /\ v.job = job
    BY <1>2 DEF Blank
  <1>4. BookOf' = BookOf
    BY BookStays DEF Take, Stores
  <1>5. workers[i].job = NoJob /\ workers[i] \in Worker
    BY <1>1 DEF PsInv, PsShape, Serves
  <1>6. PendingOf(workers[i]) \in {Silent, Succeeded, Failed}
    BY <1>5 DEF PendingOf, Worker
  <1>7. /\ Pend' = [Pend EXCEPT ![i] = PendingOf(v)] /\ \A j \in Instances \ {i} : Pend'[j] = Pend[j]
        /\ Pend'[i] = PendingOf(v) /\ Pend[i] = PendingOf(workers[i])
    BY <1>1, PendMoves
  <1>8. CASE job.kind = "list"
    <2>1. PendingOf(v) = Silent
      BY <1>3, <1>8, NamesAssumption DEF PendingOf
    <2>2. Pend' = [Pend EXCEPT ![i] = Silent]
      BY <1>7, <2>1
    <2>3. Book!Abandon(i)
      BY <1>4, <2>2 DEF Pend, Book!Abandon
    <2> QED
      BY <2>3
  <1>9. CASE job.kind # "list"
    <2>1. Applied(v) = FALSE
      BY <1>3 DEF Applied
    <2>2. PendingOf(v) = [request |-> job, applied |-> FALSE] /\ PendingOf(v) \notin {Silent, Succeeded, Failed}
          /\ job \in Book!Requests
      BY <1>3, <1>9, <2>1, RequestIsSeen
    <2>3. ~Pend'[i].applied /\ Pend'[i].request = job
      BY <1>7, <2>2
    <2>4. Book!Ask(i)
      BY <1>4, <1>6, <1>7, <2>2, <2>3 DEF Pend, Book!Ask, Book!Asking
    <2> QED
      BY <2>4
  <1> QED
    BY <1>8, <1>9

LEMMA CrashIsAbandoned ==
    ASSUME PsInv, NEW i \in Instances, Crash(i)
    PROVE  Book!Abandon(i)
  <1>1. Set(i, Blank("down"))
    BY DEF Crash
  <1>2. workers'[i] = Blank("down")
    BY <1>1, SetIs
  <1>3. PendingOf(workers'[i]) = Silent
    BY <1>2 DEF Blank, PendingOf
  <1>4. Pend' = [Pend EXCEPT ![i] = Silent]
    BY <1>1, <1>3, PendMoves
  <1>5. BookOf' = BookOf
    BY BookStays DEF Crash, Stores
  <1> QED
    BY <1>4, <1>5 DEF Pend, Book!Abandon

\* The answer is that of the book; a list, or the first cleanup, has none.
LEMMA ReplyIsAnswered ==
    ASSUME PsInv, NEW i \in Instances, Reply(i)
    PROVE  Book!Answer(i) \/ (BookOf' = BookOf /\ Pend' = Pend)
  <1> DEFINE w == workers[i]
             answer == IF w.job = NoJob \/ w.job.kind = "list" THEN Silent
                       ELSE IF w.ok THEN Succeeded ELSE Failed
  <1>1. Set(i, [Blank("idle") EXCEPT !.answer = answer]) /\ w.step = "reply" /\ w \in Worker
    BY DEF Reply, At, PsInv, PsShape
  <1>2. workers'[i] = [Blank("idle") EXCEPT !.answer = answer]
    BY <1>1, SetIs
  <1>3. workers'[i].job = NoJob /\ workers'[i].answer = answer
    BY <1>2 DEF Blank
  <1>4. PendingOf(workers'[i]) = answer
    BY <1>3 DEF PendingOf
  <1>5. BookOf' = BookOf
    BY BookStays DEF Reply, Stores
  <1>6. Pend' = [Pend EXCEPT ![i] = answer] /\ Pend[i] = PendingOf(w)
    BY <1>1, <1>4, PendMoves
  <1>7. CASE w.job = NoJob \/ w.job.kind = "list"
    <2>1. w.answer = Silent
      BY <1>1 DEF PsInv, Serves
    <2>2. PendingOf(w) = Silent /\ answer = Silent
      BY <1>7, <2>1 DEF PendingOf
    <2>3. Pend' = Pend
      BY <1>6, <2>2 DEF Pend
    <2> QED
      BY <1>5, <2>3
  <1>8. CASE ~(w.job = NoJob \/ w.job.kind = "list")
    <2>1. Applied(w) = w.ok
      BY <1>1 DEF Applied, Worker
    <2>2. w.job \in Jobs /\ w.ok \in BOOLEAN
      BY <1>1, <1>8 DEF Worker
    <2>3. PendingOf(w) = [request |-> w.job, applied |-> w.ok] /\ PendingOf(w) \notin {Silent, Succeeded, Failed}
      BY <1>8, <2>1, <2>2, RequestIsSeen
    <2>4. answer = IF Pend[i].applied THEN Succeeded ELSE Failed
      BY <1>6, <1>8, <2>3
    <2>5. Pend' = [Pend EXCEPT ![i] = IF Pend[i].applied THEN Succeeded ELSE Failed]
      BY <1>6, <2>4
    <2>6. Book!Answer(i)
      BY <1>5, <1>6, <2>3, <2>5 DEF Pend, Book!Answer, Book!Asking
    <2> QED
      BY <2>6
  <1> QED
    BY <1>7, <1>8

LEMMA EffectIsApplied ==
    ASSUME PsInv, NEW i \in Instances, NEW v, Set(i, v),
           workers[i].job \in Jobs, workers[i].job.kind # "list", workers'[i].job = workers[i].job,
           Applied(workers[i]) = FALSE, Applied(workers'[i]) = TRUE,
           Book!Effect(workers[i].job, BookOf')
    PROVE  Book!Apply(i)
  <1> DEFINE job == workers[i].job
  <1>1. PendingOf(workers[i]) = [request |-> job, applied |-> FALSE]
        /\ PendingOf(workers[i]) \notin {Silent, Succeeded, Failed}
    BY RequestIsSeen
  <1>2. PendingOf(workers'[i]) = [request |-> job, applied |-> TRUE]
    BY RequestIsSeen
  <1>3. Pend' = [Pend EXCEPT ![i] = PendingOf(workers'[i])] /\ Pend[i] = PendingOf(workers[i])
    BY PendMoves
  <1>4. [Pend[i] EXCEPT !.applied = TRUE] = PendingOf(workers'[i])
    <2>1. ASSUME NEW x \in [request : Jobs, applied : BOOLEAN], NEW y \in [request : Jobs, applied : BOOLEAN],
                 y.request = x.request, y.applied = TRUE
          PROVE  [x EXCEPT !.applied = TRUE] = y
      BY <2>1
    <2>2. PICK x \in [request : Jobs, applied : BOOLEAN] : x = [request |-> job, applied |-> FALSE]
      OBVIOUS
    <2>3. PICK y \in [request : Jobs, applied : BOOLEAN] : y = [request |-> job, applied |-> TRUE]
      OBVIOUS
    <2>4. [x EXCEPT !.applied = TRUE] = y
      BY <2>1, <2>2, <2>3
    <2>5. Pend[i] = x /\ PendingOf(workers'[i]) = y
      BY <1>1, <1>2, <1>3, <2>2, <2>3, Zenon
    <2> QED
      BY <2>4, <2>5, Zenon
  <1>5. Pend' = [Pend EXCEPT ![i].applied = TRUE]
    BY <1>3, <1>4
  <1>6. Pend[i] \notin {Silent, Succeeded, Failed} /\ ~Pend[i].applied /\ Pend[i].request = job
    BY <1>1, <1>3
  <1> QED
    BY <1>5, <1>6 DEF Pend, Book!Apply, Book!Asking

LEMMA BookShows ==
    ASSUME PsInv, NEW id \in Ids
    PROVE  /\ profiles[id] = Absent => BookOf[id] = Absent
           /\ profiles[id] # Absent =>
                 /\ BookOf[id] = [configuration |-> profiles[id].configuration,
                                  secrets |-> SecretsOf(profiles[id])]
                 /\ BookOf[id] # Absent
  <1>1. CASE profiles[id] # Absent
    <2>1. profiles[id] \in Profile
      BY <1>1 DEF PsInv, PsShape
    <2>2. SecretsOf(profiles[id]) \in [Slots -> Secrets \cup {NoSecret}]
      BY <2>1 DEF PsInv, PsShape, SecretsOf, Profile
    <2>3. BookOf[id] = [configuration |-> profiles[id].configuration, secrets |-> SecretsOf(profiles[id])]
      BY <1>1 DEF BookOf
    <2>4. profiles[id].configuration \in Configurations
      BY <2>1 DEF Profile
    <2> QED
      BY <1>1, <2>2, <2>3, <2>4, NamesAssumption
  <1>2. CASE profiles[id] = Absent
    BY <1>2 DEF BookOf
  <1> QED
    BY <1>1, <1>2

LEMMA DeleteIsApplied ==
    ASSUME PsInv, NEW i \in Instances, Delete(i)
    PROVE  Book!Apply(i)
  <1> DEFINE w == workers[i]
             id == w.job.id
  <1>1. /\ Set(i, Sweep(w)) /\ w.step = "locked" /\ w.job.kind = "delete" /\ w \in Worker /\ w.job \in Jobs
    BY DEF Delete, At, PsInv, PsShape, Serves, Worker
  <1>2. workers'[i] = Sweep(w)
    BY <1>1, SetIs
  <1>3. workers'[i].job = w.job /\ workers'[i].step = "sweep"
    BY <1>1, <1>2 DEF Worker, Sweep
  <1>4. Applied(w) = FALSE
    BY <1>1 DEF Applied
  <1>5. Applied(workers'[i]) = TRUE
    BY <1>1, <1>3 DEF Applied
  <1>6. id \in Ids
    BY <1>1 DEF Jobs
  <1>7. profiles' = [profiles EXCEPT ![id] = Absent] /\ keychain' = keychain
    BY DEF Delete
  <1>8. profiles'[id] = Absent /\ \A p \in Ids : p # id => profiles'[p] = profiles[p]
    BY <1>6, <1>7 DEF PsInv, PsShape
  <1>9. BookOf' = [BookOf EXCEPT ![id] = Absent]
    BY <1>6, <1>7, <1>8 DEF BookOf, SecretsOf
  <1>10. Book!Effect(w.job, BookOf')
    BY <1>1, <1>9 DEF Book!Effect
  <1> QED
    BY <1>1, <1>3, <1>4, <1>5, <1>10, EffectIsApplied

LEMMA DuplicateIsApplied ==
    ASSUME PsInv, NEW i \in Instances, Duplicate(i)
    PROVE  Book!Apply(i)
  <1> DEFINE w == workers[i]
  <1>1. /\ Set(i, [w EXCEPT !.step = "reply"]) /\ w.step = "locked" /\ w.job.kind = "duplicate"
        /\ w \in Worker /\ w.job \in Jobs /\ w.ok
    BY DEF Duplicate, Goto, At, PsInv, PsShape, Serves, Worker
  <1>2. workers'[i] = [w EXCEPT !.step = "reply"]
    BY <1>1, SetIs
  <1>3. workers'[i].job = w.job /\ workers'[i].step = "reply" /\ workers'[i].ok
    BY <1>1, <1>2 DEF Worker
  <1>4. Applied(w) = FALSE
    BY <1>1 DEF Applied
  <1>5. Applied(workers'[i]) = TRUE
    BY <1>1, <1>3 DEF Applied
  <1>6. PICK id \in Ids, source \in Ids, row \in {[profiles[w.job.source] EXCEPT !.references = NoReferences]} :
            /\ id = w.job.id /\ source = w.job.source
            /\ row = [profiles[source] EXCEPT !.references = NoReferences]
    BY <1>1 DEF Jobs
  <1>7. /\ profiles[source] # Absent /\ profiles[id] = Absent
        /\ profiles' = [profiles EXCEPT ![id] = row] /\ keychain' = keychain
    BY <1>6 DEF Duplicate
  <1>8. profiles'[id] = row /\ \A p \in Ids : p # id => profiles'[p] = profiles[p]
    BY <1>6, <1>7 DEF PsInv, PsShape
  <1>9. /\ row \in Profile /\ row.references = NoReferences
        /\ row.configuration = profiles[source].configuration
    <2>1. profiles[source] \in Profile
      BY <1>6, <1>7 DEF PsInv, PsShape
    <2>2. NoReferences \in [Slots -> References \cup {NoReference}]
      BY DEF NoReferences
    <2> QED
      BY <1>6, <2>1, <2>2 DEF Profile
  <1>10. row # Absent
    BY <1>9, NamesAssumption
  <1>11. SecretsOf(row)' = [s \in Slots |-> NoSecret]
    BY <1>9 DEF SecretsOf, NoReferences
  <1>12. BookOf[source] = [configuration |-> row.configuration, secrets |-> SecretsOf(profiles[source])]
         /\ BookOf[source] # Absent /\ BookOf[id] = Absent
    BY <1>6, <1>7, <1>9, BookShows
  <1>13. Book!Blank(BookOf[source]) = [configuration |-> row.configuration, secrets |-> [s \in Slots |-> NoSecret]]
    BY <1>12 DEF Book!Blank
  <1>14. BookOf'[id] = Book!Blank(BookOf[source])
    <2>1. BookOf'[id] = [configuration |-> row.configuration, secrets |-> SecretsOf(row)']
      BY <1>6, <1>8, <1>10 DEF BookOf
    <2> QED
      BY <1>11, <1>13, <2>1
  <1>15. \A p \in Ids : p # id => BookOf'[p] = BookOf[p]
    BY <1>7, <1>8 DEF BookOf, SecretsOf
  <1>16. BookOf' = [BookOf EXCEPT ![id] = Book!Blank(BookOf[source])]
    BY <1>14, <1>15 DEF BookOf
  <1>17. Book!Effect(w.job, BookOf')
    BY <1>1, <1>6, <1>12, <1>16 DEF Book!Effect
  <1> QED
    BY <1>1, <1>3, <1>4, <1>5, <1>17, EffectIsApplied

LEMMA CommitIsApplied ==
    ASSUME PsInv, NEW i \in Instances, Commit(i)
    PROVE  Book!Apply(i)
  <1> DEFINE w == workers[i]
  <1>1. /\ w.step = "commit" /\ w \in Worker /\ Preparing(w) /\ w.todo = {}
    BY DEF Commit, At, PsInv, PsShape, Knows
  <1>2. /\ w.job \in Jobs /\ w.job.kind = "save" /\ w.job.id \in Ids /\ w.job.configuration \in Configurations
        /\ w.job.updates \in [Slots -> Secrets \cup {Keep, Clear}]
    BY <1>1 DEF Preparing, Jobs, Updates
  <1>0. PICK id \in Ids, q \in {w.references},
                  row \in {[configuration |-> w.job.configuration, references |-> w.references]} :
            id = w.job.id /\ q = w.references /\ row = [configuration |-> w.job.configuration, references |-> q]
    BY <1>2
  <1>3. /\ profiles' = [profiles EXCEPT ![id] = row] /\ keychain' = keychain
        /\ Set(i, [w EXCEPT !.step = "acknowledge", !.pending = w.created, !.created = {},
                   !.previous = NoReferences])
    BY <1>0 DEF Commit
  <1>4. workers'[i] = [w EXCEPT !.step = "acknowledge", !.pending = w.created, !.created = {},
                   !.previous = NoReferences]
    BY <1>3, SetIs
  <1>5. workers'[i].job = w.job /\ workers'[i].step = "acknowledge"
    BY <1>1, <1>4 DEF Worker
  <1>6. Applied(w) = FALSE
    BY <1>1, <1>2 DEF Applied
  <1>7. Applied(workers'[i]) = TRUE
    BY <1>2, <1>5 DEF Applied
  <1>8. profiles'[id] = row /\ \A p \in Ids : p # id => profiles'[p] = profiles[p]
    BY <1>2, <1>3 DEF PsInv, PsShape
  <1>9. row # Absent
    <2>1. row \in Profile
      BY <1>0, <1>1, <1>2 DEF Profile, Worker
    <2> QED
      BY <2>1, NamesAssumption
  <1>10. ASSUME NEW s \in Slots
         PROVE  (IF q[s] = NoReference THEN NoSecret ELSE keychain[q[s]])
                = (IF s \notin Usable[w.job.configuration] \/ w.job.updates[s] = Clear THEN NoSecret
                   ELSE IF w.job.updates[s] = Keep THEN Book!SecretOf(id, s) ELSE w.job.updates[s])
    <2>1. AsAsked(w, s) /\ q = w.references
      BY <1>0, <1>1 DEF Preparing
    <2>2. CASE s \notin Usable[w.job.configuration] \/ w.job.updates[s] = Clear
      BY <2>1, <2>2 DEF AsAsked
    <2>3. CASE s \in Usable[w.job.configuration] /\ w.job.updates[s] = Keep
      <3>1. w.references[s] = w.previous[s] /\ w.previous = PreviousOf(profiles[id])
        BY <1>0, <1>1, <2>1, <2>3 DEF AsAsked, Preparing
      <3>2. CASE profiles[id] = Absent
        <4>1. w.references[s] = NoReference
          BY <3>1, <3>2 DEF PreviousOf, NoReferences
        <4>2. BookOf[id] = Absent
          BY <1>2, <3>2, BookShows
        <4>3. Book!SecretOf(id, s) = NoSecret
          BY <4>2 DEF Book!SecretOf
        <4> QED
          BY <2>1, <2>3, <4>1, <4>3, NamesAssumption
      <3>3. CASE profiles[id] # Absent
        <4>1. w.references[s] = profiles[id].references[s]
          BY <3>1, <3>3 DEF PreviousOf
        <4>2. PICK c, x : /\ BookOf[id] # Absent /\ x = SecretsOf(profiles[id])
                          /\ BookOf[id] = [configuration |-> c, secrets |-> x]
          BY <1>2, <3>3, BookShows
        <4>3. Book!SecretOf(id, s) = SecretsOf(profiles[id])[s]
          BY <4>2 DEF Book!SecretOf
        <4>4. SecretsOf(profiles[id])[s] = IF w.references[s] = NoReference THEN NoSecret
                                           ELSE keychain[w.references[s]]
          BY <4>1 DEF SecretsOf
        <4> QED
          BY <2>1, <2>3, <4>3, <4>4, NamesAssumption
      <3> QED
        BY <3>2, <3>3
    <2>4. CASE s \in Usable[w.job.configuration] /\ w.job.updates[s] \notin {Keep, Clear}
      <3>1. w.references[s] \in w.created /\ keychain[w.references[s]] = w.job.updates[s]
        BY <2>1, <2>4 DEF AsAsked
      <3>2. w.references[s] # NoReference
        BY <1>1, <3>1, NamesAssumption DEF Worker
      <3> QED
        BY <2>1, <2>4, <3>1, <3>2
    <2> QED
      BY <2>2, <2>3, <2>4
  <1>11. SecretsOf(row)' = [s \in Slots |->
            IF q[s] = NoReference THEN NoSecret ELSE keychain[q[s]]]
    BY <1>0, <1>3 DEF SecretsOf
  <1>12. BookOf'[id] = Book!Updated(w.job)
    <2>1. BookOf'[id] = [configuration |-> w.job.configuration, secrets |-> SecretsOf(row)']
      BY <1>0, <1>8, <1>9 DEF BookOf
    <2> QED
      BY <1>0, <1>10, <1>11, <2>1 DEF Book!Updated
  <1>13. \A p \in Ids : p # id => BookOf'[p] = BookOf[p]
    BY <1>3, <1>8 DEF BookOf, SecretsOf
  <1>14. BookOf' = [BookOf EXCEPT ![id] = Book!Updated(w.job)]
    BY <1>12, <1>13 DEF BookOf
  <1>15. Book!Effect(w.job, BookOf')
    BY <1>0, <1>2, <1>14 DEF Book!Effect
  <1> QED
    BY <1>2, <1>3, <1>5, <1>6, <1>7, <1>15, EffectIsApplied

LEMMA OneBookStep ==
    PsInv /\ [Next]_vars => [Book!BookNext]_(Book!bookVars)
  <1>1. CASE UNCHANGED vars
    BY <1>1 DEF vars, BookOf, SecretsOf, Book!bookVars
  <1>2. ASSUME PsInv, Next
        PROVE  (\E i \in Instances : Book!Ask(i) \/ Book!Apply(i) \/ Book!Answer(i) \/ Book!Abandon(i))
               \/ (BookOf' = BookOf /\ Pend' = Pend)
    <2>1. PICK i \in Instances :
            \/ Start(i) \/ FirstSweep(i) \/ SkipSweep(i) \/ BeginSave(i) \/ Refuse(i)
            \/ \E job \in Jobs : Take(i, job)
            \/ KeepOrClear(i) \/ QueueItem(i) \/ QueueItemFails(i) \/ PutItem(i) \/ PutItemFails(i)
            \/ Withdraw(i) \/ Prepared(i) \/ Commit(i) \/ CommitFails(i) \/ Acknowledge(i)
            \/ Acknowledged(i) \/ Duplicate(i) \/ Delete(i) \/ List(i) \/ DeleteItem(i)
            \/ DeleteItemFails(i) \/ Forget(i) \/ ForgetFails(i) \/ Swept(i) \/ Reply(i) \/ Crash(i)
      BY <1>2 DEF Next
    <2>2. CASE \/ Start(i) \/ FirstSweep(i) \/ SkipSweep(i) \/ Refuse(i) \/ List(i)
               \/ BeginSave(i) \/ KeepOrClear(i) \/ QueueItem(i) \/ QueueItemFails(i) \/ PutItem(i)
               \/ PutItemFails(i) \/ Withdraw(i) \/ Prepared(i) \/ CommitFails(i)
               \/ Acknowledge(i) \/ Acknowledged(i) \/ DeleteItem(i) \/ DeleteItemFails(i)
               \/ Forget(i) \/ ForgetFails(i) \/ Swept(i)
      BY <1>2, <2>2, UnseenStart, UnseenRefusal, UnseenSave, UnseenCleanup
    <2>3. CASE \/ \E job \in Jobs : Take(i, job)
               \/ Commit(i) \/ Duplicate(i) \/ Delete(i) \/ Reply(i) \/ Crash(i)
      BY <1>2, <2>3, TakeIsAsked, CommitIsApplied, DuplicateIsApplied, DeleteIsApplied, ReplyIsAnswered,
         CrashIsAbandoned
    <2> QED
      BY <2>1, <2>2, <2>3
  <1>3. ASSUME PsInv, Next
        PROVE  [Book!BookNext]_(Book!bookVars)
    BY <1>2, <1>3 DEF Book!BookNext, Book!bookVars, Pend
  <1> QED
    BY <1>1, <1>3

\* The two stores, their journal and their lock behave as one book of profiles: a request takes
\* effect in the one step that commits its row or not at all, its answer says which, and a crash
\* or a cleanup is not to be seen.
THEOREM ProfilesAreOneBook == Spec => BehavesAsOneBook
  <1>1. Init => Book!BookInit
    BY DEF Init, Blank, BookOf, PendingOf, Book!BookInit
  <1> QED
    BY <1>1, PsInvariant, OneBookStep, PTL DEF Spec, BehavesAsOneBook, Book!BookSpec

-----------------------------------------------------------------------------
(***************************************************************************)
(* The journal stays within its bound.                                     *)
(***************************************************************************)
JournalInv == IsFiniteSet(journal) /\ Cardinality(journal) <= MaxJournal

LEMMA FewReferences ==
    ASSUME NEW profile
    PROVE  IsFiniteSet(ReferencesOf(profile))
  <1>1. CASE profile = Absent
    BY <1>1, FS_EmptySet DEF ReferencesOf
  <1>2. CASE profile # Absent
    <2>1. IsFiniteSet({profile.references[s] : s \in Slots})
      <3> DEFINE T == {profile.references[s] : s \in Slots}
                 f == [s \in Slots |-> profile.references[s]]
      <3>1. f \in Surjection(Slots, T)
        BY DEF Surjection
      <3> QED
        BY <3>1, BoundsAssumption, FS_Surjection
    <2> QED
      BY <1>2, <2>1, FS_Subset DEF ReferencesOf
  <1> QED
    BY <1>1, <1>2

LEMMA JournalStep == JournalInv /\ [Next]_vars => JournalInv'
  <1> SUFFICES ASSUME JournalInv, [Next]_vars
               PROVE  JournalInv'
    OBVIOUS
  <1>1. CASE journal' = journal
    BY <1>1 DEF JournalInv
  <1>2. ASSUME NEW r, journal' = journal \ {r}
        PROVE  JournalInv'
    <2>1. IsFiniteSet(journal') /\ Cardinality(journal') <= Cardinality(journal)
      BY <1>2, FS_Subset DEF JournalInv
    <2>2. Cardinality(journal) \in Nat /\ Cardinality(journal') \in Nat
      BY <2>1, FS_CardinalityType DEF JournalInv
    <2> QED
      BY <2>1, <2>2, BoundsAssumption DEF JournalInv
  <1>3. ASSUME NEW refs, IsFiniteSet(refs), HasRoom(refs), journal' = journal \cup refs
        PROVE  JournalInv'
    <2>1. IsFiniteSet(journal')
      BY <1>3, FS_Union DEF JournalInv
    <2> QED
      BY <1>3, <2>1 DEF JournalInv, HasRoom
  <1>4. CASE UNCHANGED vars
    BY <1>1, <1>4 DEF vars
  <1>5. CASE Next
    <2>1. PICK i \in Instances :
            \/ Start(i) \/ FirstSweep(i) \/ SkipSweep(i) \/ BeginSave(i) \/ Refuse(i)
            \/ \E job \in Jobs : Take(i, job)
            \/ KeepOrClear(i) \/ QueueItem(i) \/ QueueItemFails(i) \/ PutItem(i) \/ PutItemFails(i)
            \/ Withdraw(i) \/ Prepared(i) \/ Commit(i) \/ CommitFails(i) \/ Acknowledge(i)
            \/ Acknowledged(i) \/ Duplicate(i) \/ Delete(i) \/ List(i) \/ DeleteItem(i)
            \/ DeleteItemFails(i) \/ Forget(i) \/ ForgetFails(i) \/ Swept(i) \/ Reply(i) \/ Crash(i)
      BY <1>5 DEF Next
    <2>2. CASE QueueItem(i)
      <3>1. PICK r : HasRoom({r}) /\ journal' = journal \cup {r}
        BY <2>2 DEF QueueItem
      <3> QED
        BY <1>3, <3>1, FS_Singleton
    <2>3. CASE Commit(i)
      <3>1. PICK refs : /\ refs = ReferencesOf(profiles[workers[i].job.id])
                                   \ {workers[i].references[s] : s \in Slots}
                        /\ HasRoom(refs) /\ journal' = journal \cup refs
        BY <2>3 DEF Commit
      <3>2. IsFiniteSet(refs)
        BY <3>1, FewReferences, FS_Subset
      <3> QED
        BY <1>3, <3>1, <3>2
    <2>4. CASE Delete(i)
      <3>1. PICK refs : /\ refs = ReferencesOf(profiles[workers[i].job.id])
                        /\ HasRoom(refs) /\ journal' = journal \cup refs
        BY <2>4 DEF Delete
      <3> QED
        BY <1>3, <3>1, FewReferences
    <2>5. CASE Withdraw(i) \/ Acknowledge(i) \/ Forget(i)
      <3>1. (\E r : journal' = journal \ {r}) \/ journal' = journal
        BY <2>5 DEF Withdraw, Acknowledge, Forget, Forgotten
      <3> QED
        BY <1>1, <1>2, <3>1
    <2>6. CASE \/ Start(i) \/ FirstSweep(i) \/ SkipSweep(i) \/ BeginSave(i) \/ Refuse(i)
               \/ \E job \in Jobs : Take(i, job)
               \/ KeepOrClear(i) \/ QueueItemFails(i) \/ PutItem(i) \/ PutItemFails(i)
               \/ Prepared(i) \/ CommitFails(i)
               \/ Acknowledged(i) \/ Duplicate(i) \/ List(i) \/ DeleteItem(i)
               \/ DeleteItemFails(i) \/ ForgetFails(i) \/ Swept(i) \/ Reply(i) \/ Crash(i)
      <3>1. journal' = journal
        BY <2>6 DEF Start, FirstSweep, SkipSweep, BeginSave, Refuse, Take, KeepOrClear, QueueItemFails,
           PutItem, PutItemFails, Prepared, CommitFails, Acknowledged, Duplicate, List, DeleteItem,
           DeleteItemFails, ForgetFails, Swept, Reply, Crash, Stores
      <3> QED
        BY <1>1, <3>1
    <2> QED
      BY <2>1, <2>2, <2>3, <2>4, <2>5, <2>6
  <1> QED
    BY <1>4, <1>5

LockInv == lock \in Instances \cup {Free}

LEMMA LockStep == LockInv /\ [Next]_vars => LockInv'
  <1> SUFFICES ASSUME LockInv, [Next]_vars PROVE LockInv'
    OBVIOUS
  <1>1. CASE UNCHANGED vars
    BY <1>1 DEF vars, LockInv
  <1>2. CASE Next
    <2>1. PICK i \in Instances :
            \/ Start(i) \/ FirstSweep(i) \/ SkipSweep(i) \/ BeginSave(i) \/ Refuse(i)
            \/ \E job \in Jobs : Take(i, job)
            \/ KeepOrClear(i) \/ QueueItem(i) \/ QueueItemFails(i) \/ PutItem(i) \/ PutItemFails(i)
            \/ Withdraw(i) \/ Prepared(i) \/ Commit(i) \/ CommitFails(i) \/ Acknowledge(i)
            \/ Acknowledged(i) \/ Duplicate(i) \/ Delete(i) \/ List(i) \/ DeleteItem(i)
            \/ DeleteItemFails(i) \/ Forget(i) \/ ForgetFails(i) \/ Swept(i) \/ Reply(i) \/ Crash(i)
      BY <1>2 DEF Next
    <2>2. CASE FirstSweep(i) \/ (\E job \in Jobs : Take(i, job)) \/ Reply(i) \/ Crash(i)
      <3>1. lock' = lock \/ lock' = i \/ lock' = Free
        BY <2>2 DEF FirstSweep, Take, Reply, Crash
      <3> QED
        BY <3>1 DEF LockInv
    <2>3. CASE \/ Start(i) \/ SkipSweep(i) \/ BeginSave(i) \/ Refuse(i)
               \/ KeepOrClear(i) \/ QueueItem(i) \/ QueueItemFails(i) \/ PutItem(i) \/ PutItemFails(i)
               \/ Withdraw(i) \/ Prepared(i) \/ Commit(i) \/ CommitFails(i) \/ Acknowledge(i)
               \/ Acknowledged(i) \/ Duplicate(i) \/ Delete(i) \/ List(i) \/ DeleteItem(i)
               \/ DeleteItemFails(i) \/ Forget(i) \/ ForgetFails(i) \/ Swept(i)
      <3>1. lock' = lock
        BY <2>3 DEF Start, SkipSweep, BeginSave, Refuse, KeepOrClear, QueueItem, QueueItemFails, PutItem,
           PutItemFails, Withdraw, Prepared, Commit, CommitFails, Acknowledge, Acknowledged, Duplicate,
           Delete, List, DeleteItem, DeleteItemFails, Forget, ForgetFails, Swept
      <3> QED
        BY <3>1 DEF LockInv
    <2> QED
      BY <2>1, <2>2, <2>3
  <1> QED
    BY <1>1, <1>2

\* The journal never grows beyond its bound, in whatever order its entries are written and
\* acknowledged (record_orphaned_credentials refuses), and all else has its type.
THEOREM ProfilesTypeCorrect == Spec => []TypeOK
  <1>1. Init => JournalInv /\ LockInv
    BY FS_EmptySet, BoundsAssumption DEF Init, JournalInv, LockInv
  <1>2. PsInv /\ JournalInv /\ LockInv => TypeOK
    <2> SUFFICES ASSUME PsInv, JournalInv, LockInv
                 PROVE  TypeOK
      OBVIOUS
    <2>1. ASSUME NEW i \in Instances
          PROVE  workers[i] \in Worker
      BY DEF PsInv, PsShape
    <2> QED
      BY <2>1 DEF PsInv, PsShape, JournalInv, LockInv, TypeOK, Worker
  <1>3. Spec => []LockInv
    BY <1>1, LockStep, PTL DEF Spec
  <1>4. Spec => []JournalInv
    BY <1>1, JournalStep, PTL DEF Spec
  <1> QED
    BY <1>2, <1>3, <1>4, PsInvariant, PTL
==============================================================================
