--------------------------- MODULE SessionPromise ---------------------------
(***************************************************************************)
(* What the connection actor relies on when it sends statements through a  *)
(* driver (driver-api/src/driver.rs, Connection and ResultCursor),         *)
(* whatever the driver's own threads, sockets, cursors and cancellations   *)
(* do.  The effect of a statement waits in the open transaction or is      *)
(* saved; nothing is saved that nobody asked to save, and what the driver  *)
(* says of a statement is so.                                              *)
(***************************************************************************)
CONSTANTS Effects       \* one for each statement that writes

VARIABLES
    work,               \* effects of the open transaction
    saved,              \* effects that stay
    undone,             \* effects that were taken back
    want,               \* what is asked to be saved: "nothing", "one" statement or "all"
    said                \* the last thing the driver said of a statement
promiseVars == <<work, saved, undone, want, said>>

Sayings == [of : SUBSET Effects, done : BOOLEAN, own : BOOLEAN]
Silence == [of |-> {}, done |-> FALSE, own |-> FALSE]

PromiseInit ==
    /\ work = {} /\ saved = {} /\ undone = {}
    /\ want = "nothing" /\ said = Silence

New(effect) == effect \notin work \cup saved \cup undone

Perform ==
    /\ \E e \in Effects : New(e) /\ work' = work \cup {e}
    /\ UNCHANGED <<saved, undone>>

\* An automatic transaction saves its one statement, at once or when its result ends...
SaveOne ==
    /\ want = "one"
    /\ \E e \in Effects : (New(e) \/ e \in work) /\ work \subseteq {e} /\ saved' = saved \cup {e}
    /\ work' = {} /\ UNCHANGED undone

\* ... and the work of a manual one is saved by a commit alone.
SaveAll ==
    /\ want = "all"
    /\ saved' = saved \cup work /\ work' = {} /\ UNCHANGED undone

\* A rollback, a failed transaction or statement, a lost connection.
TakeBack ==
    /\ work' \subseteq work /\ undone' = undone \cup (work \ work') /\ UNCHANGED saved

Same == UNCHANGED <<work, saved, undone>>

\* A statement said to be done was performed, and is saved if it was a transaction of its
\* own; one said not to be done has left nothing behind.
True(s) ==
    IF s.done THEN s.of \subseteq saved' \cup (IF s.own THEN {} ELSE work' \cup undone')
    ELSE s.of \cap (work' \cup saved') = {}

PromiseNext ==
    /\ Perform \/ SaveOne \/ SaveAll \/ TakeBack \/ Same
    /\ said' = said \/ (said' \in Sayings /\ True(said'))

PromiseSpec == PromiseInit /\ [][PromiseNext]_promiseVars
=============================================================================
