----------------------------- MODULE ProfileBook -----------------------------
(***************************************************************************)
(* What saving, copying and deleting connection profiles promises to the   *)
(* application instances that share them.  There is one book of profiles;  *)
(* a profile has a configuration and, in some slots, a secret.  A request  *)
(* takes effect at once or not at all, and its answer says which.  The     *)
(* metadata file, the system's credential store, the journal between them  *)
(* and the steps of the worker are not to be seen here.                    *)
(***************************************************************************)
EXTENDS Naturals

CONSTANTS
    Instances,          \* application processes
    Ids,                \* profile ids
    Slots,              \* what a secret can be saved for
    Secrets,
    Configurations,     \* drivers and transports
    Usable,             \* the slots a configuration may have a secret in
    Absent, NoSecret, Keep, Clear,
    Silent, Succeeded, Failed   \* an instance that asks for nothing: its last answer

VARIABLES
    book,               \* the profile of each id, or Absent
    pending             \* each instance's request and whether it took effect, or its answer
bookVars == <<book, pending>>

\* What is asked for: a configuration, and for each slot a secret, Keep or Clear.
Updates == [Slots -> Secrets \cup {Keep, Clear}]
Requests ==
         [kind : {"save"}, id : Ids, configuration : Configurations, updates : Updates]
    \cup [kind : {"duplicate"}, source : Ids, id : Ids]
    \cup [kind : {"delete"}, id : Ids]

SecretOf(id, slot) == IF book[id] = Absent THEN NoSecret ELSE book[id].secrets[slot]

Updated(r) ==
    [configuration |-> r.configuration,
     secrets |-> [s \in Slots |->
        IF s \notin Usable[r.configuration] \/ r.updates[s] = Clear THEN NoSecret
        ELSE IF r.updates[s] = Keep THEN SecretOf(r.id, s) ELSE r.updates[s]]]

Blank(profile) == [profile EXCEPT !.secrets = [s \in Slots |-> NoSecret]]

Asking(i) == pending[i] \notin {Silent, Succeeded, Failed}

BookInit ==
    /\ book = [id \in Ids |-> Absent]
    /\ pending = [i \in Instances |-> Silent]

Ask(i) ==
    /\ ~Asking(i) /\ Asking(i)' /\ ~pending'[i].applied
    /\ pending'[i].request \in Requests
    /\ \A j \in Instances \ {i} : pending'[j] = pending[j]
    /\ UNCHANGED book

Effect(r, b) ==
    \/ r.kind = "save" /\ b = [book EXCEPT ![r.id] = Updated(r)]
    \/ /\ r.kind = "duplicate" /\ book[r.source] # Absent /\ book[r.id] = Absent
       /\ b = [book EXCEPT ![r.id] = Blank(book[r.source])]
    \/ r.kind = "delete" /\ b = [book EXCEPT ![r.id] = Absent]

Apply(i) ==
    /\ Asking(i) /\ ~pending[i].applied
    /\ Effect(pending[i].request, book')
    /\ pending' = [pending EXCEPT ![i].applied = TRUE]

\* A request that took effect is answered with success, another one with failure.
Answer(i) ==
    /\ Asking(i)
    /\ pending' = [pending EXCEPT ![i] = IF @.applied THEN Succeeded ELSE Failed]
    /\ UNCHANGED book

\* An instance that stops leaves its request without an answer.
Abandon(i) ==
    /\ pending' = [pending EXCEPT ![i] = Silent]
    /\ UNCHANGED book

BookNext == \E i \in Instances :
    Ask(i) \/ Apply(i) \/ Answer(i) \/ Abandon(i)

BookSpec == BookInit /\ [][BookNext]_bookVars
=============================================================================
