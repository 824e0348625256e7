---------------------------- MODULE ProfileStore ----------------------------
(***************************************************************************)
(* The metadata worker of the application instances that share one         *)
(* metadata file (core/src/profiles.rs, storage/src/lib.rs,                *)
(* credentials/src/lib.rs).  A profile is a row of the file; its secrets   *)
(* are items of the system's credential store, named by references the row *)
(* holds.  The two stores cannot be written together: a journal table in   *)
(* the file names every item that may have to be deleted.  One sidecar     *)
(* lock orders the workers.  Any write may fail and an instance may stop   *)
(* between any two of them.                                                *)
(***************************************************************************)
EXTENDS Naturals, FiniteSets

CONSTANTS
    Instances, Ids, Slots, Secrets, Configurations,
    References,         \* reference names: a UUID is fresh when nothing knows it
    Usable,             \* inline_target, credential_hop_ids: slots a configuration may use
    MaxProfiles,        \* MAX_PROFILES
    MaxJournal,         \* 4096 pending deletions
    Absent, NoSecret, NoReference, NoSlot, Keep, Clear, NoJob, Free,
    Silent, Succeeded, Failed

VARIABLES
    profiles,           \* connection_profiles
    journal,            \* pending_credential_cleanup
    keychain,           \* the credential store: a secret under each reference
    lock,               \* the .credentials.lock file: the instance that holds it
    workers             \* the thread of each instance
vars == <<profiles, journal, keychain, lock, workers>>

ASSUME UsableAssumption == Usable \in [Configurations -> SUBSET Slots]
ASSUME BoundsAssumption == IsFiniteSet(Slots) /\ MaxJournal \in Nat

Updates == [Slots -> Secrets \cup {Keep, Clear}]
Jobs ==
         [kind : {"save"}, id : Ids, configuration : Configurations, updates : Updates]
    \cup [kind : {"duplicate"}, source : Ids, id : Ids]
    \cup [kind : {"delete"}, id : Ids]
    \cup [kind : {"list"}]

\* profile_save_with_secrets refuses a secret for a slot the configuration has not.
Acceptable(job) ==
    job.kind = "save" =>
        \A s \in Slots \ Usable[job.configuration] : job.updates[s] \in {Keep, Clear}

Profile == [configuration : Configurations, references : [Slots -> References \cup {NoReference}]]
Steps == {"down", "opened", "idle", "locked", "prepare", "put", "withdraw", "commit",
          "acknowledge", "discard", "sweep", "forget", "reply"}

Worker == [
    step : Steps,
    job : Jobs \cup {NoJob},
    previous : [Slots -> References \cup {NoReference}],
    references : [Slots -> References \cup {NoReference}],   \* of the row to be saved
    todo : SUBSET Slots,            \* slots prepare_credential_update has still to see
    slot : Slots \cup {NoSlot},      \* the slot whose item is being put
    created : SUBSET References,    \* created
    pending : SUBSET References,    \* what cleanup, or the discarding, has still to delete
    deleted : References \cup {NoReference},    \* deleted, not yet acknowledged
    failed : BOOLEAN,               \* some deletion of this cleanup failed
    ok : BOOLEAN,                   \* the answer so far
    answer : {Silent, Succeeded, Failed}]

\* What stands for nothing is nothing of the kind.
ASSUME NamesAssumption ==
    /\ NoReference \notin References /\ Free \notin Instances /\ NoSlot \notin Slots
    /\ Keep \notin Secrets /\ Clear \notin Secrets /\ NoSecret \notin Secrets /\ Keep # Clear
    /\ Absent \notin Profile /\ NoJob \notin Jobs
    /\ Absent \notin [configuration : Configurations, secrets : [Slots -> Secrets \cup {NoSecret}]]
    /\ \A x \in {Silent, Succeeded, Failed} : x \notin [request : Jobs, applied : BOOLEAN]

NoReferences == [s \in Slots |-> NoReference]
Blank(step) == [step |-> step, job |-> NoJob, previous |-> NoReferences,
    references |-> NoReferences, todo |-> {}, slot |-> NoSlot,
    created |-> {}, pending |-> {}, deleted |-> NoReference, failed |-> FALSE, ok |-> TRUE,
    answer |-> Silent]

TypeOK ==
    /\ profiles \in [Ids -> Profile \cup {Absent}]
    /\ journal \subseteq References /\ Cardinality(journal) <= MaxJournal
    /\ keychain \in [References -> Secrets \cup {NoSecret}]
    /\ lock \in Instances \cup {Free}
    /\ \A i \in Instances : LET w == workers[i] IN
        /\ w.step \in Steps /\ w.job \in Jobs \cup {NoJob} /\ w.slot \in Slots \cup {NoSlot}
        /\ w.todo \subseteq Slots /\ w.created \subseteq References /\ w.pending \subseteq References
        /\ {w.failed, w.ok} \subseteq BOOLEAN /\ w.answer \in {Silent, Succeeded, Failed}

Init ==
    /\ profiles = [id \in Ids |-> Absent]
    /\ journal = {} /\ keychain = [r \in References |-> NoSecret] /\ lock = Free
    /\ workers = [i \in Instances |-> Blank("down")]

-----------------------------------------------------------------------------
ReferencesOf(profile) ==
    IF profile = Absent THEN {}
    ELSE {profile.references[s] : s \in Slots} \ {NoReference}
Referenced == UNION {ReferencesOf(profiles[id]) : id \in Ids}
Stored == {r \in References : keychain[r] # NoSecret}

\* uuid::Uuid::new_v4(): nothing has the name, nor is about to use it.
Fresh == References \ (Referenced \cup journal \cup Stored
    \cup UNION {UNION {workers[i].created, workers[i].pending,
                       {workers[i].references[s] : s \in Slots},
                       {workers[i].deleted}} : i \in Instances})

Set(i, w) == workers' = [workers EXCEPT ![i] = w]
Goto(i, step) == Set(i, [workers[i] EXCEPT !.step = step])
At(i, step) == workers[i].step = step
Stores == <<profiles, journal, keychain>>

Forgotten(r) == journal' = journal \ {r}
HasRoomOffByOne(refs) == Cardinality(journal) <= MaxJournal
\* enqueue_cleanup: whether the journal has room, and what it becomes.
HasRoom(refs) == Cardinality(journal \cup refs) <= MaxJournal

\* cleanup deletes the journalled items no profile refers to.
Sweep(w) == [w EXCEPT !.step = "sweep", !.pending = journal' \ Referenced', !.failed = FALSE]
\* discard_created_credentials deletes what this save has made, and the save fails.
Discard(w) == [w EXCEPT !.step = "discard", !.pending = w.created, !.ok = FALSE,
    !.created = {}, !.references = NoReferences, !.previous = NoReferences, !.todo = {},
    !.slot = NoSlot]
Refused(w) == [w EXCEPT !.step = "reply", !.ok = FALSE]

-----------------------------------------------------------------------------
\* open_storage when the thread starts; a file that does not open is tried again.
Start(i) ==
    /\ At(i, "down") /\ Goto(i, "opened")
    /\ UNCHANGED <<Stores, lock>>

\* acquire_lock, then the first cleanup; a lock that cannot be had skips it.
FirstSweep(i) ==
    /\ At(i, "opened") /\ lock = Free /\ lock' = i
    /\ UNCHANGED Stores
    /\ Set(i, Sweep(workers[i]))

SkipSweep(i) ==
    /\ At(i, "opened") /\ Goto(i, "idle")
    /\ UNCHANGED <<Stores, lock>>

TakeUnlocked(i, job) ==
    /\ At(i, "idle") /\ Acceptable(job)
    /\ lock' = i
    /\ Set(i, [Blank("locked") EXCEPT !.job = job])
    /\ UNCHANGED Stores

\* commands.recv(), then acquire_lock: a lock that is contended is tried again and again,
\* and nothing the worker does depends on when it received the command...
Take(i, job) ==
    /\ At(i, "idle") /\ Acceptable(job)
    /\ lock = Free /\ lock' = i
    /\ Set(i, [Blank("locked") EXCEPT !.job = job])
    /\ UNCHANGED Stores

\* ... and one that cannot be had, or a file that cannot be read, ends the command.
Refuse(i) ==
    /\ At(i, "locked") /\ Set(i, Refused(workers[i]))
    /\ UNCHANGED <<Stores, lock>>

BeginSave(i) == LET w == workers[i] IN
    /\ At(i, "locked") /\ w.job.kind = "save"
    /\ LET old == profiles[w.job.id]
           previous == IF old = Absent THEN NoReferences ELSE old.references
       IN Set(i, [w EXCEPT !.step = "prepare", !.previous = previous,
                           !.todo = Usable[w.job.configuration]])
    /\ UNCHANGED <<Stores, lock>>

KeepForgets(i) == LET w == workers[i] IN
    /\ At(i, "prepare")
    /\ \E s \in w.todo :
        /\ w.job.updates[s] \in {Keep, Clear}
        /\ Set(i, [w EXCEPT !.todo = @ \ {s}, !.references[s] = NoReference])
    /\ UNCHANGED <<Stores, lock>>

\* prepare_credential_update, of a slot that needs no new item...
KeepOrClear(i) == LET w == workers[i] IN
    /\ At(i, "prepare")
    /\ \E s \in w.todo :
        /\ w.job.updates[s] \in {Keep, Clear}
        /\ Set(i, [w EXCEPT !.todo = @ \ {s},
                !.references[s] = IF w.job.updates[s] = Keep THEN w.previous[s] ELSE NoReference])
    /\ UNCHANGED <<Stores, lock>>

\* ... and of one that does: the journal has the reference before the item exists.
QueueItem(i) == LET w == workers[i] IN
    /\ At(i, "prepare")
    /\ \E s \in w.todo : \E r \in Fresh :
        /\ w.job.updates[s] \notin {Keep, Clear}
        /\ HasRoom({r}) /\ journal' = journal \cup {r}
        /\ Set(i, [w EXCEPT !.step = "put", !.slot = s, !.references[s] = r])
    /\ UNCHANGED <<profiles, keychain, lock>>

QueueItemFails(i) == LET w == workers[i] IN
    /\ At(i, "prepare")
    /\ \E s \in w.todo : w.job.updates[s] \notin {Keep, Clear}
    /\ Set(i, Discard(w))
    /\ UNCHANGED <<Stores, lock>>

PutItem(i) == LET w == workers[i]  r == w.references[w.slot] IN
    /\ At(i, "put")
    /\ keychain' = [keychain EXCEPT ![r] = w.job.updates[w.slot]]
    /\ Set(i, [w EXCEPT !.step = "prepare", !.slot = NoSlot, !.todo = @ \ {w.slot},
                   !.created = @ \cup {r}])
    /\ UNCHANGED <<profiles, journal, lock>>

\* A put that fails leaves no item: its journal entry is taken back...
PutItemFails(i) ==
    /\ At(i, "put") /\ Goto(i, "withdraw")
    /\ UNCHANGED <<Stores, lock>>

\* ... or stays, when that fails too.
Withdraw(i) == LET w == workers[i] IN
    /\ At(i, "withdraw")
    /\ Forgotten(w.references[w.slot]) \/ UNCHANGED journal
    /\ Set(i, Discard(w))
    /\ UNCHANGED <<profiles, keychain, lock>>

Prepared(i) ==
    /\ At(i, "prepare") /\ workers[i].todo = {} /\ Goto(i, "commit")
    /\ UNCHANGED <<Stores, lock>>

CommitForgets(i) == LET w == workers[i] IN
    /\ At(i, "commit")
    /\ profiles' = [profiles EXCEPT ![w.job.id] =
            [configuration |-> w.job.configuration, references |-> w.references]]
    /\ Set(i, [w EXCEPT !.step = "acknowledge", !.pending = w.created, !.created = {},
                   !.previous = NoReferences])
    /\ UNCHANGED <<journal, keychain, lock>>

\* Storage::save_profile: one transaction writes the row and journals the references
\* it no longer holds.
Commit(i) == LET w == workers[i]  left == ReferencesOf(profiles[w.job.id]) IN
    /\ At(i, "commit")
    /\ profiles[w.job.id] # Absent
        \/ Cardinality({id \in Ids : profiles[id] # Absent}) < MaxProfiles
    /\ profiles' = [profiles EXCEPT ![w.job.id] =
            [configuration |-> w.job.configuration, references |-> w.references]]
    /\ LET gone == left \ {w.references[s] : s \in Slots} IN
        HasRoom(gone) /\ journal' = journal \cup gone
    /\ Set(i, [w EXCEPT !.step = "acknowledge", !.pending = w.created, !.created = {},
                   !.previous = NoReferences])
    /\ UNCHANGED <<keychain, lock>>

CommitFails(i) ==
    /\ At(i, "commit") /\ Set(i, Discard(workers[i]))
    /\ UNCHANGED <<Stores, lock>>

\* What was created is now referred to; an entry that stays does no harm.
Acknowledge(i) == LET w == workers[i] IN
    /\ At(i, "acknowledge")
    /\ \E r \in w.pending :
        /\ Forgotten(r) \/ UNCHANGED journal
        /\ Set(i, [w EXCEPT !.pending = @ \ {r}])
    /\ UNCHANGED <<profiles, keychain, lock>>

\* Then, as after a deletion and before a list, the journal is swept.
Acknowledged(i) ==
    /\ At(i, "acknowledge") /\ workers[i].pending = {}
    /\ UNCHANGED <<Stores, lock>>
    /\ Set(i, Sweep(workers[i]))

DuplicateShares(i) == LET w == workers[i] IN
    /\ At(i, "locked") /\ w.job.kind = "duplicate"
    /\ profiles[w.job.source] # Absent /\ profiles[w.job.id] = Absent
    /\ profiles' = [profiles EXCEPT ![w.job.id] = profiles[w.job.source]]
    /\ Goto(i, "reply")
    /\ UNCHANGED <<journal, keychain, lock>>

Duplicate(i) == LET w == workers[i] IN
    /\ At(i, "locked") /\ w.job.kind = "duplicate"
    /\ profiles[w.job.source] # Absent /\ profiles[w.job.id] = Absent
    /\ Cardinality({id \in Ids : profiles[id] # Absent}) < MaxProfiles
    /\ profiles' = [profiles EXCEPT ![w.job.id] =
            [profiles[w.job.source] EXCEPT !.references = NoReferences]]
    /\ Goto(i, "reply")
    /\ UNCHANGED <<journal, keychain, lock>>

\* Storage::delete_profile, of a row that exists or not.
Delete(i) == LET w == workers[i]  gone == ReferencesOf(profiles[w.job.id]) IN
    /\ At(i, "locked") /\ w.job.kind = "delete"
    /\ HasRoom(gone) /\ journal' = journal \cup gone
    /\ profiles' = [profiles EXCEPT ![w.job.id] = Absent]
    /\ Set(i, Sweep(w))
    /\ UNCHANGED <<keychain, lock>>

List(i) ==
    /\ At(i, "locked") /\ workers[i].job.kind = "list"
    /\ UNCHANGED <<Stores, lock>>
    /\ Set(i, Sweep(workers[i]))

\* CredentialStore::delete, of an item that is there or not.
DeleteItem(i) == LET w == workers[i] IN
    /\ w.step \in {"sweep", "discard"} /\ w.deleted = NoReference
    /\ \E r \in w.pending :
        /\ keychain' = [keychain EXCEPT ![r] = NoSecret]
        /\ Set(i, [w EXCEPT !.pending = @ \ {r}, !.deleted = r])
    /\ UNCHANGED <<profiles, journal, lock>>

DeleteItemFails(i) == LET w == workers[i] IN
    /\ w.step \in {"sweep", "discard"} /\ w.deleted = NoReference
    /\ \E r \in w.pending : Set(i, [w EXCEPT !.pending = @ \ {r}, !.failed = TRUE])
    /\ UNCHANGED <<Stores, lock>>

\* acknowledge_credential_cleanup of what was deleted...
Forget(i) == LET w == workers[i] IN
    /\ w.step \in {"sweep", "discard"} /\ w.deleted # NoReference
    /\ Forgotten(w.deleted)
    /\ Set(i, [w EXCEPT !.deleted = NoReference])
    /\ UNCHANGED <<profiles, keychain, lock>>

\* ... whose failure ends a cleanup, and is ignored by the discarding.
ForgetFails(i) == LET w == workers[i] IN
    /\ w.step \in {"sweep", "discard"} /\ w.deleted # NoReference
    /\ Set(i, [w EXCEPT !.deleted = NoReference,
                        !.failed = (w.step = "sweep") \/ @,
                        !.pending = IF w.step = "sweep" THEN {} ELSE @])
    /\ UNCHANGED <<Stores, lock>>

\* A cleanup that fails is a warning of the answer, not its failure.
Swept(i) == LET w == workers[i] IN
    /\ w.step \in {"sweep", "discard"} /\ w.pending = {} /\ w.deleted = NoReference
    /\ Goto(i, "reply")
    /\ UNCHANGED <<Stores, lock>>

\* The guard is dropped and the event sent.  The first cleanup of a thread has none.
Reply(i) == LET w == workers[i] IN
    /\ At(i, "reply")
    /\ lock' = IF lock = i THEN Free ELSE lock
    /\ Set(i, [Blank("idle") EXCEPT
            !.answer = IF w.job = NoJob \/ w.job.kind = "list" THEN Silent
                       ELSE IF w.ok THEN Succeeded ELSE Failed])
    /\ UNCHANGED Stores

\* The process ends: the system releases its lock.
Crash(i) ==
    /\ ~At(i, "down") /\ Set(i, Blank("down"))
    /\ lock' = IF lock = i THEN Free ELSE lock
    /\ UNCHANGED Stores

Next == \E i \in Instances :
    \/ Start(i) \/ FirstSweep(i) \/ SkipSweep(i) \/ BeginSave(i) \/ Refuse(i)
    \/ \E job \in Jobs : Take(i, job)
    \/ KeepOrClear(i) \/ QueueItem(i) \/ QueueItemFails(i) \/ PutItem(i) \/ PutItemFails(i)
    \/ Withdraw(i) \/ Prepared(i) \/ Commit(i) \/ CommitFails(i) \/ Acknowledge(i)
    \/ Acknowledged(i) \/ Duplicate(i) \/ Delete(i) \/ List(i) \/ DeleteItem(i) \/ DeleteItemFails(i) \/ Forget(i) \/ ForgetFails(i)
    \/ Swept(i) \/ Reply(i) \/ Crash(i)

Spec == Init /\ [][Next]_vars

-----------------------------------------------------------------------------
\* Every reference a saved profile holds names an item that exists, and every item is in use
\* or written down for deletion: whatever failed or stopped on the way, or another instance
\* was cleaning up meanwhile, no profile loses its secret and no secret is left behind.
StoresAgree == Referenced \subseteq Stored /\ Stored \subseteq Referenced \cup journal

\* No item belongs to two profiles, or to two slots: deleting one's secret would take
\* the other's.
NothingShared ==
    \A p, q \in Ids : \A s, t \in Slots :
        (profiles[p] # Absent /\ profiles[q] # Absent /\ <<p, s>> # <<q, t>>) =>
            \/ profiles[p].references[s] # profiles[q].references[t]
            \/ profiles[p].references[s] = NoReference

\* A cleanup that reports no failure leaves exactly the items that profiles use.
CleanupIsComplete == [][\A i \in Instances :
    (At(i, "sweep") /\ workers'[i].step = "reply" /\ ~workers[i].failed) =>
        Stored' = Referenced']_vars

-----------------------------------------------------------------------------
\* The book behind the two stores.
SecretsOf(profile) ==
    [s \in Slots |-> IF profile.references[s] = NoReference THEN NoSecret
                     ELSE keychain[profile.references[s]]]
BookOf == [id \in Ids |-> IF profiles[id] = Absent THEN Absent
    ELSE [configuration |-> profiles[id].configuration, secrets |-> SecretsOf(profiles[id])]]

\* A request has taken effect when its transaction is committed.
Applied(w) == CASE w.job.kind = "save" -> w.step \in {"acknowledge", "sweep"} \/ (w.step = "reply" /\ w.ok)
                [] OTHER -> w.step = "sweep" \/ (w.step = "reply" /\ w.ok)
PendingOf(w) ==
    IF w.job = NoJob THEN w.answer
    ELSE IF w.job.kind = "list" THEN Silent
    ELSE [request |-> w.job, applied |-> Applied(w)]

Book == INSTANCE ProfileBook WITH
    book <- BookOf, pending <- [i \in Instances |-> PendingOf(workers[i])]

\* Two stores, a journal and a lock behave as one book: a request takes effect at once
\* or not at all, its answer says which, and a crash or a cleanup is not to be seen.
BehavesAsOneBook == Book!BookSpec
=============================================================================
