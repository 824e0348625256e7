------------------------- MODULE EngineQueues_proofs -------------------------
(***************************************************************************)
(* The engine's queues: a read of the catalog is in one place and answered *)
(* once, and nothing that only an open transaction shows is saved; and the *)
(* requests to the storage worker are answered in their order.             *)
(***************************************************************************)
EXTENDS CatalogRoute, RecoveryQueue, FiniteSetTheorems, TLAPS

USE CrAssumption DEF Sessions

(***************************************************************************)
(* What is in a queue, and whether it is there once.  Both stay folded     *)
(* outside these lemmas.                                                   *)
(***************************************************************************)
In(s, e) == \E i \in 1..Len(s) : s[i] = e
OnceIn(s, e) == \A i, j \in 1..Len(s) : s[i] = e /\ s[j] = e => i = j

Entries == CrReads \cup {Statement}

LEMMA Appended ==
    ASSUME NEW s \in Seq(Entries), NEW x \in Entries
    PROVE  /\ Append(s, x) \in Seq(Entries)
           /\ \A e : In(Append(s, x), e) <=> In(s, e) \/ e = x
           /\ \A e : OnceIn(s, e) /\ (e = x => ~In(s, e)) => OnceIn(Append(s, x), e)
  <1>1. /\ Append(s, x) \in Seq(Entries) /\ Len(Append(s, x)) = Len(s) + 1 /\ Len(s) \in Nat
        /\ \A i \in 1..Len(s) : Append(s, x)[i] = s[i]
        /\ Append(s, x)[Len(s) + 1] = x
    OBVIOUS
  <1>2. \A e : In(Append(s, x), e) <=> In(s, e) \/ e = x
    BY <1>1 DEF In
  <1>3. ASSUME NEW e, OnceIn(s, e), e = x => ~In(s, e)
        PROVE  OnceIn(Append(s, x), e)
    BY <1>1, <1>3 DEF In, OnceIn
  <1> QED
    BY <1>1, <1>2, <1>3

LEMMA Removed ==
    ASSUME NEW s \in Seq(Entries), s # <<>>
    PROVE  /\ Tail(s) \in Seq(Entries) /\ Head(s) \in Entries /\ In(s, Head(s))
           /\ \A e : In(Tail(s), e) => In(s, e)
           /\ \A e : OnceIn(s, e) => OnceIn(Tail(s), e)
           /\ OnceIn(s, Head(s)) => ~In(Tail(s), Head(s))
  <1>1. /\ Tail(s) \in Seq(Entries) /\ Len(Tail(s)) = Len(s) - 1 /\ Len(s) \in Nat \ {0}
        /\ \A i \in 1..(Len(s) - 1) : Tail(s)[i] = s[i + 1]
        /\ Head(s) = s[1] /\ Head(s) \in Entries
    OBVIOUS
  <1>2. In(s, Head(s))
    BY <1>1 DEF In
  <1>3. \A e : In(Tail(s), e) => In(s, e)
    BY <1>1 DEF In
  <1>4. ASSUME NEW e, OnceIn(s, e) PROVE OnceIn(Tail(s), e)
    <2> SUFFICES ASSUME NEW i \in 1..Len(Tail(s)), NEW j \in 1..Len(Tail(s)),
                        Tail(s)[i] = e, Tail(s)[j] = e
                 PROVE  i = j
      BY DEF OnceIn
    <2>1. i + 1 \in 1..Len(s) /\ j + 1 \in 1..Len(s) /\ s[i + 1] = e /\ s[j + 1] = e
      BY <1>1
    <2>2. i + 1 = j + 1
      BY <1>4, <2>1 DEF OnceIn
    <2> QED
      BY <2>2
  <1>5. ASSUME OnceIn(s, Head(s)) PROVE ~In(Tail(s), Head(s))
    BY <1>1, <1>5 DEF In, OnceIn
  <1> QED
    BY <1>1, <1>2, <1>3, <1>4, <1>5

LEMMA Nothing == \A e : ~In(<<>>, e) /\ OnceIn(<<>>, e)
  BY DEF In, OnceIn

\* A place more in one of the two queues.
LEMMA Enqueued ==
    ASSUME CrTypeOK, NEW s \in Sessions, NEW x \in Entries,
           crQueue' = [crQueue EXCEPT ![s] = Append(@, x)]
    PROVE  /\ crQueue' \in [Sessions -> Seq(Entries)]
           /\ \A t \in Sessions : \A e : In(crQueue'[t], e) <=> In(crQueue[t], e) \/ (t = s /\ e = x)
           /\ \A t \in Sessions : \A e :
                 OnceIn(crQueue[t], e) /\ (t = s /\ e = x => ~In(crQueue[s], x))
                    => OnceIn(crQueue'[t], e)
  <1>1. crQueue \in [Sessions -> Seq(Entries)]
    BY DEF CrTypeOK, Entries
  <1>2. crQueue[s] \in Seq(Entries)
    BY <1>1
  <1>3. crQueue'[s] = Append(crQueue[s], x) /\ \A t \in Sessions \ {s} : crQueue'[t] = crQueue[t]
    BY <1>1
  <1> DEFINE q == crQueue[s]
  <1>4. /\ Append(q, x) \in Seq(Entries)
        /\ \A e : In(Append(q, x), e) <=> In(q, e) \/ e = x
        /\ \A e : OnceIn(q, e) /\ (e = x => ~In(q, e)) => OnceIn(Append(q, x), e)
    BY <1>2, Appended
  <1> QED
    BY <1>1, <1>3, <1>4

\* The first place taken from one of them.
LEMMA Dequeued ==
    ASSUME CrTypeOK, NEW s \in Sessions, crQueue[s] # <<>>, CrTake(s)
    PROVE  /\ crQueue' \in [Sessions -> Seq(Entries)]
           /\ Head(crQueue[s]) \in Entries /\ In(crQueue[s], Head(crQueue[s]))
           /\ \A t \in Sessions : \A e : In(crQueue'[t], e) => In(crQueue[t], e)
           /\ \A t \in Sessions : \A e : OnceIn(crQueue[t], e) => OnceIn(crQueue'[t], e)
           /\ OnceIn(crQueue[s], Head(crQueue[s])) => ~In(crQueue'[s], Head(crQueue[s]))
  <1>1. crQueue \in [Sessions -> Seq(Entries)]
    BY DEF CrTypeOK, Entries
  <1>2. crQueue[s] \in Seq(Entries)
    BY <1>1
  <1>3. crQueue'[s] = Tail(crQueue[s]) /\ \A t \in Sessions \ {s} : crQueue'[t] = crQueue[t]
    BY <1>1 DEF CrTake
  <1> DEFINE q == crQueue[s]
  <1>4. /\ Tail(q) \in Seq(Entries) /\ Head(q) \in Entries /\ In(q, Head(q))
        /\ \A e : In(Tail(q), e) => In(q, e)
        /\ \A e : OnceIn(q, e) => OnceIn(Tail(q), e)
        /\ OnceIn(q, Head(q)) => ~In(Tail(q), Head(q))
    BY <1>2, Removed
  <1> QED
    BY <1>1, <1>3, <1>4 DEF CrTake

\* One of them dropped.
LEMMA Emptied ==
    ASSUME CrTypeOK, NEW s \in Sessions, crQueue' = [crQueue EXCEPT ![s] = <<>>]
    PROVE  /\ crQueue' \in [Sessions -> Seq(Entries)]
           /\ \A t \in Sessions : \A e : In(crQueue'[t], e) => In(crQueue[t], e)
           /\ \A t \in Sessions : \A e : OnceIn(crQueue[t], e) => OnceIn(crQueue'[t], e)
  <1>1. crQueue \in [Sessions -> Seq(Entries)]
    BY DEF CrTypeOK, Entries
  <1>2. crQueue'[s] = <<>> /\ \A t \in Sessions \ {s} : crQueue'[t] = crQueue[t]
    BY <1>1
  <1> QED
    BY <1>1, <1>2, Nothing

-----------------------------------------------------------------------------
(***************************************************************************)
(* The invariant of the catalog's reads.                                   *)
(***************************************************************************)
\* Once the state of a transaction was asked for, the route knows of it, and what the query
\* session is about to save was read outside.
Known ==
    /\ crQuery.asked /\ crQuery.transaction => crRoute.transaction
    /\ crRun["query"].at = "saving" => ~(crQuery.asked /\ crQuery.transaction)
    /\ crSaved # "uncommitted"

\* The sessions that do something do it for a read.
Working ==
    /\ \A s \in Sessions : crRun[s].at \in {"idle", "gone"} <=> crRun[s].read = NoRead
    /\ ~In(crQueue["catalog"], Statement)

OnePlace(r) ==
    /\ \A s \in Sessions : OnceIn(crQueue[s], r)
    /\ crReserved[r] # NoRead =>
          \A s \in Sessions : ~In(crQueue[s], r) /\ crRun[s].read # r
    /\ \A s \in Sessions : In(crQueue[s], r) =>
          \A t \in Sessions : crRun[t].read # r /\ (In(crQueue[t], r) => t = s)
    /\ \A s, t \in Sessions : crRun[s].read = r /\ crRun[t].read = r => s = t

Pending(r) ==
    \E s \in Sessions : In(crQueue[s], r) \/ (crRun[s].read = r /\ crRun[s].at # "saving")

\* A read that waits for its answer has at most been shown what was saved.
Answered(r) ==
    LET a == crAnswers[r]
    IN /\ Len(a) \in {0, 1} \/ (Len(a) = 2 /\ a[1] = "saved" /\ a[2] # "saved")
       /\ crReserved[r] # NoRead => Len(a) = 0
       /\ Pending(r) => Len(a) = 0 \/ (Len(a) = 1 /\ a[1] = "saved")

CrInv ==
    /\ CrTypeOK /\ Known /\ Working
    /\ \A r \in CrReads : OnePlace(r) /\ Answered(r)

LEMMA CatalogInit == ASSUME CrInit PROVE CrInv
  <1>1. \A s \in Sessions : crQueue[s] = <<>> /\ crRun[s] = CrIdle
    BY DEF CrInit
  <1>2. \A r \in CrReads : crReserved[r] = NoRead /\ crAnswers[r] = <<>>
    BY DEF CrInit
  <1>3. CrTypeOK
    <2>1. crQueue \in [Sessions -> Seq(CrReads \cup {Statement})]
      BY DEF CrInit
    <2>2. crAnswers \in [CrReads -> Seq({"saved", "live", "failed"})]
      BY DEF CrInit
    <2>3. crRun \in [Sessions -> [at : {"idle", "opening", "handing back", "reading", "saving", "gone"},
                                  read : CrReads \cup {NoRead}]]
      BY DEF CrInit, CrIdle
    <2> QED
      <3>1. crQuery \in [transaction : BOOLEAN, streams : BOOLEAN, asked : BOOLEAN]
        BY DEF CrInit
      <3>2. crRoute \in [second : BOOLEAN, transaction : BOOLEAN]
        BY DEF CrInit
      <3>3. crReserved \in [CrReads -> Sessions \cup {NoRead}]
        BY DEF CrInit
      <3>4. crStatements \in 0..CrStatements
        BY DEF CrInit
      <3>5. {crOpen, crRetry, crStopped} \subseteq BOOLEAN
        BY Zenon DEF CrInit
      <3>6. crSaved \in {"nothing", "committed", "unknown", "uncommitted"}
        BY DEF CrInit
      <3> QED
        BY <2>1, <2>2, <2>3, <3>1, <3>2, <3>3, <3>4, <3>5, <3>6 DEF CrTypeOK
  <1>4. Known
    BY <1>1 DEF CrInit, Known, CrIdle
  <1>5. Working
    BY <1>1, Nothing DEF Working, CrIdle
  <1>6. \A r \in CrReads : OnePlace(r)
    <2>1. \A s \in Sessions, r \in CrReads : crRun[s].read # r /\ ~In(crQueue[s], r) /\ OnceIn(crQueue[s], r)
      BY <1>1, Nothing DEF CrIdle
    <2> QED
      BY <1>2, <2>1 DEF OnePlace
  <1>7. \A r \in CrReads : Answered(r)
    BY <1>2 DEF Answered
  <1> QED
    BY <1>3, <1>4, <1>5, <1>6, <1>7 DEF CrInv

\* A read that nobody has got is in no place.
LEMMA Unsent ==
    ASSUME CrTypeOK, NEW r \in CrReads, CrUnsent(r)
    PROVE  /\ crReserved[r] = NoRead /\ Len(crAnswers[r]) = 0
           /\ \A s \in Sessions : ~In(crQueue[s], r) /\ crRun[s].read # r
  BY DEF CrUnsent, In

\* A read that gets another answer.
LEMMA OneMore ==
    ASSUME CrTypeOK, NEW r \in CrReads, NEW x \in {"saved", "live", "failed"}, CrAnswer(r, x)
    PROVE  /\ crAnswers' \in [CrReads -> Seq({"saved", "live", "failed"})]
           /\ \A e \in CrReads : e # r => crAnswers'[e] = crAnswers[e]
           /\ Len(crAnswers[r]) \in Nat /\ Len(crAnswers'[r]) = Len(crAnswers[r]) + 1
           /\ crAnswers'[r][Len(crAnswers[r]) + 1] = x
           /\ Len(crAnswers[r]) = 1 => crAnswers'[r][1] = crAnswers[r][1]
  <1>1. crAnswers[r] \in Seq({"saved", "live", "failed"})
    BY DEF CrTypeOK
  <1>2. /\ crAnswers'[r] = Append(crAnswers[r], x)
        /\ \A e \in CrReads : e # r => crAnswers'[e] = crAnswers[e]
        /\ crAnswers' \in [CrReads -> Seq({"saved", "live", "failed"})]
    <2>1. Append(crAnswers[r], x) \in Seq({"saved", "live", "failed"})
      BY <1>1
    <2>2. crAnswers' = [crAnswers EXCEPT ![r] = Append(crAnswers[r], x)]
      BY DEF CrAnswer
    <2>3. crAnswers \in [CrReads -> Seq({"saved", "live", "failed"})]
      BY DEF CrTypeOK
    <2> QED
      BY <2>1, <2>2, <2>3
  <1>3. /\ Len(crAnswers[r]) \in Nat /\ Len(crAnswers'[r]) = Len(crAnswers[r]) + 1
        /\ crAnswers'[r][Len(crAnswers[r]) + 1] = x
        /\ Len(crAnswers[r]) = 1 => crAnswers'[r][1] = crAnswers[r][1]
    BY <1>1, <1>2
  <1> QED
    BY <1>2, <1>3

\* Steps that leave the reads where they are.
LEMMA ReadsStay ==
    ASSUME CrInv, UNCHANGED <<crQueue, crReserved, crRun, crAnswers>>
    PROVE  Working' /\ \A r \in CrReads : OnePlace(r)' /\ Answered(r)'
  BY DEF CrInv, Working, OnePlace, Answered, Pending

-----------------------------------------------------------------------------
(* The engine. *)

LEMMA Submits ==
    ASSUME CrInv, NEW r \in CrReads, NEW s \in Sessions, CrSubmit(r, s)
    PROVE  CrInv'
  <1>1. r \in Entries /\ crQueue' = [crQueue EXCEPT ![s] = Append(@, r)] /\ CrTypeOK
    BY DEF CrSubmit, CrInv, Entries
  <1>2. /\ crQueue' \in [Sessions -> Seq(Entries)]
        /\ \A t \in Sessions : \A e : In(crQueue'[t], e) <=> In(crQueue[t], e) \/ (t = s /\ e = r)
        /\ \A t \in Sessions : \A e : OnceIn(crQueue[t], e) /\ (t = s /\ e = r => ~In(crQueue[s], r))
                    => OnceIn(crQueue'[t], e)
    BY <1>1, Enqueued
  <1>3. /\ crReserved[r] = NoRead /\ Len(crAnswers[r]) = 0
        /\ \A t \in Sessions : ~In(crQueue[t], r) /\ crRun[t].read # r
    BY <1>1, Unsent DEF CrSubmit
  <1>4. CrTypeOK'
    BY <1>2 DEF CrInv, CrTypeOK, CrSubmit, Entries
  <1>5. Known' /\ Working'
    BY <1>2 DEF CrInv, Known, Working, CrSubmit
  <1>6. \A e \in CrReads : OnePlace(e)'
    BY <1>2, <1>3 DEF CrInv, OnePlace, CrSubmit
  <1>7. \A e \in CrReads : Answered(e)'
    BY <1>2, <1>3 DEF CrInv, Answered, Pending, CrSubmit
  <1> QED
    BY <1>4, <1>5, <1>6, <1>7 DEF CrInv

LEMMA Reserves ==
    ASSUME CrInv, NEW r \in CrReads, NEW s \in Sessions, CrSubmitSaved(r, s)
    PROVE  CrInv'
  <1>1. /\ crReserved[r] = NoRead /\ Len(crAnswers[r]) = 0
        /\ \A t \in Sessions : ~In(crQueue[t], r) /\ crRun[t].read # r
    BY Unsent DEF CrSubmitSaved, CrInv
  <1>2. /\ crReserved' \in [CrReads -> Sessions \cup {NoRead}]
        /\ \A e \in CrReads : e # r => crReserved'[e] = crReserved[e]
    BY DEF CrSubmitSaved, CrInv, CrTypeOK
  <1>3. CrTypeOK'
    BY <1>2 DEF CrInv, CrTypeOK, CrSubmitSaved
  <1>4. Known' /\ Working'
    BY DEF CrInv, Known, Working, CrSubmitSaved
  <1>5. \A e \in CrReads : OnePlace(e)'
    BY <1>1, <1>2 DEF CrInv, OnePlace, CrSubmitSaved
  <1>6. \A e \in CrReads : Answered(e)'
    BY <1>1, <1>2 DEF CrInv, Answered, Pending, CrSubmitSaved
  <1> QED
    BY <1>3, <1>4, <1>5, <1>6 DEF CrInv

\* Saved children are shown, or not, and the read goes to its queue unless that is closed.
LEMMA ShowsSaved ==
    ASSUME CrInv, NEW r \in CrReads, CrShowSaved(r)
    PROVE  CrInv'
  <1> DEFINE s == crReserved[r]
  <1>1. s \in Sessions /\ r \in Entries /\ CrTypeOK
    BY DEF CrShowSaved, CrInv, CrTypeOK, Entries
  <1>2. \A t \in Sessions : ~In(crQueue[t], r) /\ crRun[t].read # r
    BY <1>1 DEF CrShowSaved, CrInv, OnePlace
  <1>3. Len(crAnswers[r]) = 0
    BY DEF CrShowSaved, CrInv, Answered
  <1>4. /\ crReserved' \in [CrReads -> Sessions \cup {NoRead}]
        /\ crReserved'[r] = NoRead /\ \A e \in CrReads : e # r => crReserved'[e] = crReserved[e]
    BY DEF CrShowSaved, CrInv, CrTypeOK
  <1>5. /\ crQueue' \in [Sessions -> Seq(Entries)]
        /\ \A t \in Sessions : \A e : In(crQueue'[t], e) => In(crQueue[t], e) \/ (t = s /\ e = r)
        /\ \A t \in Sessions : \A e : OnceIn(crQueue[t], e) => OnceIn(crQueue'[t], e)
    <2>1. CASE crRun[s] = CrGone
      <3>1. crQueue' = crQueue
        BY <1>1, <2>1 DEF CrShowSaved, CrTypeOK
      <3> QED
        BY <1>1, <3>1 DEF CrTypeOK, Entries
    <2>2. CASE crRun[s] # CrGone
      <3>1. crQueue' = [crQueue EXCEPT ![s] = Append(@, r)]
        BY <2>2 DEF CrShowSaved
      <3>2. /\ crQueue' \in [Sessions -> Seq(Entries)]
            /\ \A t \in Sessions : \A e : In(crQueue'[t], e) <=> In(crQueue[t], e) \/ (t = s /\ e = r)
            /\ \A t \in Sessions : \A e :
                  OnceIn(crQueue[t], e) /\ (t = s /\ e = r => ~In(crQueue[s], r)) => OnceIn(crQueue'[t], e)
        BY <1>1, <3>1, Enqueued
      <3> QED
        BY <1>1, <1>2, <3>2
    <2> QED
      BY <2>1, <2>2
  <1>6. /\ crAnswers' \in [CrReads -> Seq({"saved", "live", "failed"})]
        /\ \A e \in CrReads : e # r => crAnswers'[e] = crAnswers[e]
        /\ Len(crAnswers'[r]) = 0 \/ (Len(crAnswers'[r]) = 1 /\ crAnswers'[r][1] = "saved")
    <2>1. CASE UNCHANGED crAnswers
      BY <1>3, <2>1 DEF CrInv, CrTypeOK
    <2>2. CASE CrAnswer(r, "saved")
      <3>1. /\ crAnswers' \in [CrReads -> Seq({"saved", "live", "failed"})]
            /\ \A e \in CrReads : e # r => crAnswers'[e] = crAnswers[e]
            /\ Len(crAnswers'[r]) = Len(crAnswers[r]) + 1
            /\ crAnswers'[r][Len(crAnswers[r]) + 1] = "saved"
        BY <1>1, <2>2, OneMore
      <3> QED
        BY <1>3, <3>1
    <2> QED
      BY <2>1, <2>2 DEF CrShowSaved, CrAnswer
  <1>7. UNCHANGED <<crRoute, crRun, crOpen, crRetry, crQuery, crStatements, crSaved, crStopped>>
    BY DEF CrShowSaved
  <1> HIDE DEF s
  <1>8. CrTypeOK'
    BY <1>1, <1>4, <1>5, <1>6, <1>7 DEF CrTypeOK, Entries
  <1>9. Known' /\ Working'
    BY <1>1, <1>5, <1>7, CrAssumption DEF CrInv, Known, Working
  <1>10. \A e \in CrReads : OnePlace(e)'
    BY <1>1, <1>2, <1>4, <1>5, <1>7 DEF CrInv, OnePlace
  <1>11. ASSUME NEW e \in CrReads PROVE Answered(e)'
    <2>1. CASE e = r
      BY <1>4, <1>6, <2>1 DEF Answered
    <2>2. CASE e # r
      <3>1. Answered(e) /\ crReserved'[e] = crReserved[e] /\ crAnswers'[e] = crAnswers[e]
        BY <1>4, <1>6, <2>2 DEF CrInv
      <3>2. Pending(e)' => Pending(e)
        BY <1>5, <1>7, <2>2 DEF Pending
      <3> QED
        BY <3>1, <3>2 DEF Answered
    <2> QED
      BY <2>1, <2>2
  <1> QED
    BY <1>8, <1>9, <1>10, <1>11 DEF CrInv

LEMMA SubmitsStatement == ASSUME CrInv, CrSubmitStatement PROVE CrInv'
  <1>1. Statement \in Entries /\ "query" \in Sessions /\ CrTypeOK
        /\ crQueue' = [crQueue EXCEPT !["query"] = Append(@, Statement)]
    BY DEF CrSubmitStatement, CrInv, Entries
  <1>2. /\ crQueue' \in [Sessions -> Seq(Entries)]
        /\ \A t \in Sessions : \A e : In(crQueue'[t], e) <=> In(crQueue[t], e) \/ (t = "query" /\ e = Statement)
        /\ \A t \in Sessions : \A e :
              OnceIn(crQueue[t], e) /\ (t = "query" /\ e = Statement => ~In(crQueue["query"], Statement))
                 => OnceIn(crQueue'[t], e)
    BY <1>1, Enqueued
  <1>3. UNCHANGED <<crRoute, crReserved, crRun, crOpen, crRetry, crQuery, crAnswers, crSaved, crStopped>>
    BY DEF CrSubmitStatement
  <1>4. CrTypeOK'
    <2>1. crStatements' \in 0..CrStatements
      <3>1. crStatements \in 0..CrStatements /\ crStatements < CrStatements
            /\ crStatements' = crStatements + 1
        BY <1>1, Zenon DEF CrTypeOK, CrSubmitStatement
      <3> QED
        BY <3>1
    <2> QED
      BY <1>1, <1>2, <1>3, <2>1 DEF CrTypeOK, Entries
  <1>5. Known' /\ Working'
    BY <1>2, <1>3 DEF CrInv, Known, Working
  <1>6. \A e \in CrReads : OnePlace(e)' /\ Answered(e)'
    BY <1>2, <1>3, CrAssumption DEF CrInv, OnePlace, Answered, Pending
  <1> QED
    BY <1>4, <1>5, <1>6 DEF CrInv

\* Steps that move no read.
LEMMA Elsewhere ==
    ASSUME CrInv, CrStop \/ CrRetryOver \/ CrIdleStop \/ UNCHANGED crVars
    PROVE  CrInv'
  <1>1. UNCHANGED <<crQueue, crReserved, crRun, crAnswers>>
    BY DEF CrStop, CrRetryOver, CrIdleStop, crVars
  <1>2. Working' /\ \A r \in CrReads : OnePlace(r)' /\ Answered(r)'
    BY <1>1, ReadsStay
  <1>3. CrTypeOK'
    <2>1. crQuery' \in [transaction : BOOLEAN, streams : BOOLEAN, asked : BOOLEAN]
      BY DEF CrInv, CrTypeOK, CrStop, CrRetryOver, CrIdleStop, crVars
    <2> QED
      BY <2>1 DEF CrInv, CrTypeOK, CrStop, CrRetryOver, CrIdleStop, crVars
  <1>4. Known'
    BY <1>1 DEF CrInv, CrTypeOK, Known, CrStop, CrRetryOver, CrIdleStop, crVars
  <1> QED
    BY <1>2, <1>3, <1>4 DEF CrInv

-----------------------------------------------------------------------------
(* The two sessions. *)

Tasks == [at : {"idle", "opening", "handing back", "reading", "saving", "gone"},
          read : CrReads \cup {NoRead}]

\* One of them goes on to something else.
LEMMA GoesOn ==
    ASSUME CrTypeOK, NEW s \in Sessions, NEW x \in Tasks, crRun' = [crRun EXCEPT ![s] = x]
    PROVE  /\ crRun' \in [Sessions -> Tasks] /\ crRun'[s] = x
           /\ \A t \in Sessions : t # s => crRun'[t] = crRun[t]
  <1>1. crRun \in [Sessions -> Tasks]
    BY DEF CrTypeOK, Tasks
  <1> QED
    BY <1>1

LEMMA Rests == CrIdle \in Tasks /\ CrGone \in Tasks
  BY DEF CrIdle, CrGone, Tasks

\* An idle session takes the first read of its queue.
LEMMA Takes ==
    ASSUME CrInv, NEW s \in Sessions, crRun[s] = CrIdle, crQueue[s] # <<>>, CrTake(s),
           Head(crQueue[s]) # Statement, NEW at \in {"opening", "handing back", "reading"},
           CrGo(s, at, Head(crQueue[s])), UNCHANGED <<crReserved, crAnswers>>
    PROVE  /\ crQueue' \in [Sessions -> Seq(Entries)] /\ crRun' \in [Sessions -> Tasks]
           /\ crRun'[s].at = at /\ \A t \in Sessions : t # s => crRun'[t] = crRun[t]
           /\ Working' /\ \A r \in CrReads : OnePlace(r)' /\ Answered(r)'
  <1> DEFINE h == Head(crQueue[s])
  <1>1. /\ crQueue' \in [Sessions -> Seq(Entries)]
        /\ h \in Entries /\ In(crQueue[s], h)
        /\ \A t \in Sessions : \A e : In(crQueue'[t], e) => In(crQueue[t], e)
        /\ \A t \in Sessions : \A e : OnceIn(crQueue[t], e) => OnceIn(crQueue'[t], e)
        /\ OnceIn(crQueue[s], h) => ~In(crQueue'[s], h)
    BY Dequeued DEF CrInv
  <1>2. h \in CrReads /\ h # NoRead
    BY <1>1, CrAssumption DEF Entries
  <1> HIDE DEF h
  <1> DEFINE x == [at |-> at, read |-> h]
  <1>3. x \in Tasks /\ crRun' = [crRun EXCEPT ![s] = x] /\ x.at = at /\ x.read = h
    BY <1>2 DEF CrGo, Tasks, h
  <1> HIDE DEF x
  <1>4. /\ crRun' \in [Sessions -> Tasks] /\ crRun'[s] = x
        /\ \A t \in Sessions : t # s => crRun'[t] = crRun[t]
    BY <1>3, GoesOn DEF CrInv
  <1>5. crRun'[s].at = at /\ crRun'[s].read = h /\ crRun[s].at = "idle" /\ crRun[s].read = NoRead
    <2>1. CrIdle.at = "idle" /\ CrIdle.read = NoRead
      BY DEF CrIdle
    <2> QED
      BY <1>3, <1>4, <2>1
  <1>6. /\ OnceIn(crQueue[s], h) /\ crReserved[h] = NoRead
        /\ \A t \in Sessions : crRun[t].read # h /\ (In(crQueue[t], h) => t = s)
    BY <1>1, <1>2 DEF CrInv, OnePlace
  <1>7. Working'
    BY <1>1, <1>2, <1>4, <1>5 DEF CrInv, Working
  <1>8. ASSUME NEW r \in CrReads PROVE OnePlace(r)'
    <2>1. OnePlace(r)
      BY DEF CrInv
    <2>2. CASE r = h
      <3>1. \A t \in Sessions : ~In(crQueue'[t], r)
        BY <1>1, <1>6, <2>2
      <3>2. \A t \in Sessions : crRun'[t].read = r => t = s
        BY <1>4, <1>6, <2>2
      <3>3. crReserved'[r] = NoRead /\ \A t \in Sessions : OnceIn(crQueue'[t], r)
        BY <1>1, <1>6, <2>1, <2>2 DEF OnePlace
      <3> QED
        BY <3>1, <3>2, <3>3 DEF OnePlace
    <2>3. CASE r # h
      <3>1. \A t \in Sessions : crRun'[t].read = r => crRun[t].read = r
        BY <1>4, <1>5, <2>3
      <3> QED
        BY <1>1, <2>1, <3>1 DEF OnePlace
    <2> QED
      BY <2>2, <2>3
  <1>9. ASSUME NEW r \in CrReads PROVE Answered(r)'
    <2>1. Answered(r)
      BY DEF CrInv
    <2>2. Pending(r)' => Pending(r)
      BY <1>1, <1>4, <1>5 DEF Pending
    <2> QED
      BY <2>1, <2>2 DEF Answered
  <1> QED
    BY <1>1, <1>4, <1>5, <1>7, <1>8, <1>9

LEMMA CatalogReceives == ASSUME CrInv, CrReceive PROVE CrInv'
  <1> DEFINE at == IF crOpen THEN "reading" ELSE IF crRetry THEN "handing back" ELSE "opening"
             q == crQueue["catalog"]
  <1>1. "catalog" \in Sessions /\ at \in {"opening", "handing back", "reading"}
    OBVIOUS
  <1>2. /\ crRun["catalog"] = CrIdle /\ q # <<>> /\ CrTake("catalog")
        /\ CrGo("catalog", at, Head(q)) /\ UNCHANGED <<crReserved, crAnswers>>
    BY DEF CrReceive
  <1>3. Head(q) # Statement
    <2>1. In(q, Head(q))
      BY <1>1, <1>2, Dequeued DEF CrInv
    <2> QED
      BY <2>1 DEF CrInv, Working
  <1> HIDE DEF at, q
  <1>4. /\ crQueue' \in [Sessions -> Seq(Entries)] /\ crRun' \in [Sessions -> Tasks]
        /\ \A t \in Sessions : t # "catalog" => crRun'[t] = crRun[t]
        /\ Working' /\ \A r \in CrReads : OnePlace(r)' /\ Answered(r)'
    BY <1>1, <1>2, <1>3, Takes DEF q
  <1>5. CrTypeOK'
    BY <1>4 DEF CrInv, CrTypeOK, CrReceive, Entries, Tasks
  <1>6. Known'
    BY <1>4 DEF CrInv, Known, CrReceive
  <1> QED
    BY <1>4, <1>5, <1>6 DEF CrInv

LEMMA ActorReads == ASSUME CrInv, CrActorReads PROVE CrInv'
  <1> DEFINE q == crQueue["query"]
  <1>1. /\ crRun["query"] = CrIdle /\ q # <<>> /\ CrTake("query") /\ Head(q) # Statement
        /\ CrGo("query", "reading", Head(q)) /\ UNCHANGED <<crReserved, crAnswers>>
    BY DEF CrActorReads, CrActorReceives, Statement
  <1>2. /\ crQueue' \in [Sessions -> Seq(Entries)] /\ crRun' \in [Sessions -> Tasks]
        /\ crRun'["query"].at = "reading"
        /\ Working' /\ \A r \in CrReads : OnePlace(r)' /\ Answered(r)'
    BY <1>1, Takes
  <1>3. CrTypeOK'
    BY <1>2 DEF CrInv, CrTypeOK, CrActorReads, Entries, Tasks
  <1>4. Known'
    BY <1>2 DEF CrInv, Known, CrActorReads
  <1> QED
    BY <1>2, <1>3, <1>4 DEF CrInv

\* The catalog session opens for the read it holds, or cannot.
LEMMA Opens == ASSUME CrInv, CrOpened \/ CrOpenFailed PROVE CrInv'
  <1>1. PICK at \in {"reading", "handing back"} : CrGo("catalog", at, crRun["catalog"].read)
    BY DEF CrOpened, CrOpenFailed
  <1> DEFINE h == crRun["catalog"].read
             x == [at |-> at, read |-> h]
  <1>2. crRun["catalog"].at = "opening" /\ h \in CrReads \cup {NoRead} /\ h # NoRead
    BY DEF CrInv, CrTypeOK, Working, CrOpened, CrOpenFailed
  <1>3. x \in Tasks /\ crRun' = [crRun EXCEPT !["catalog"] = x] /\ x.at = at /\ x.read = h
    BY <1>1, <1>2 DEF CrGo, Tasks
  <1> HIDE DEF x
  <1>4. /\ crRun' \in [Sessions -> Tasks] /\ crRun'["catalog"] = x
        /\ \A t \in Sessions : t # "catalog" => crRun'[t] = crRun[t]
    BY <1>3, GoesOn DEF CrInv
  <1>5. crRun'["catalog"].at = at /\ crRun'["catalog"].read = h
    BY <1>3, <1>4
  <1>6. \A t \in Sessions : crRun'[t].read = crRun[t].read
    BY <1>4, <1>5
  <1>7. UNCHANGED <<crRoute, crQueue, crReserved, crQuery, crStatements, crAnswers, crSaved, crStopped>>
        /\ {crOpen, crRetry}' \subseteq BOOLEAN
    BY DEF CrInv, CrTypeOK, CrOpened, CrOpenFailed
  <1>8. CrTypeOK'
    BY <1>4, <1>7 DEF CrInv, CrTypeOK, Tasks
  <1>9. Known' /\ Working'
    BY <1>2, <1>4, <1>5, <1>7 DEF CrInv, Known, Working
  <1>10. ASSUME NEW r \in CrReads PROVE OnePlace(r)'
    <2>1. OnePlace(r)
      BY DEF CrInv
    <2> QED
      BY <1>6, <1>7, <2>1 DEF OnePlace
  <1>11. ASSUME NEW r \in CrReads PROVE Answered(r)'
    <2>1. Answered(r)
      BY DEF CrInv
    <2>2. Pending(r)' => Pending(r)
      BY <1>2, <1>4, <1>5, <1>6, <1>7 DEF Pending
    <2> QED
      BY <1>7, <2>1, <2>2 DEF Answered
  <1> QED
    BY <1>8, <1>9, <1>10, <1>11 DEF CrInv

\* The read moves from the catalog session to the query session's queue.
LEMMA HandsBack == ASSUME CrInv, CrHandBack PROVE CrInv'
  <1> DEFINE h == crRun["catalog"].read
  <1>1. crRun["catalog"].at = "handing back" /\ h \in CrReads /\ h # NoRead
    <2>1. crRun["catalog"] \in Tasks
      BY DEF CrInv, CrTypeOK, Tasks
    <2> QED
      BY <2>1 DEF CrInv, Tasks, Working, CrHandBack
  <1>2. h \in Entries /\ CrTypeOK /\ "query" \in Sessions /\ "catalog" \in Sessions
        /\ crQueue' = [crQueue EXCEPT !["query"] = Append(@, h)]
    BY <1>1 DEF CrHandBack, CrInv, Entries
  <1>3. /\ crRun' \in [Sessions -> Tasks] /\ crRun'["catalog"] = CrIdle
        /\ \A t \in Sessions : t # "catalog" => crRun'[t] = crRun[t]
    BY <1>2, GoesOn, Rests DEF CrHandBack
  <1>4. UNCHANGED <<crRoute, crReserved, crOpen, crRetry, crQuery, crStatements, crAnswers, crSaved,
                    crStopped>>
    BY DEF CrHandBack
  <1>5. OnePlace(h)
    BY <1>1 DEF CrInv
  <1>6. /\ crReserved[h] = NoRead
        /\ \A t \in Sessions : ~In(crQueue[t], h) /\ (crRun[t].read = h => t = "catalog")
    BY <1>2, <1>5 DEF OnePlace
  <1> HIDE DEF h
  <1>7. /\ crQueue' \in [Sessions -> Seq(Entries)]
        /\ \A t \in Sessions : \A e : In(crQueue'[t], e) <=> In(crQueue[t], e) \/ (t = "query" /\ e = h)
        /\ \A t \in Sessions : \A e :
              OnceIn(crQueue[t], e) /\ (t = "query" /\ e = h => ~In(crQueue["query"], h))
                 => OnceIn(crQueue'[t], e)
    BY <1>2, Enqueued
  <1>8. crRun'["catalog"].read = NoRead /\ crRun'["catalog"].at = "idle"
    BY <1>3 DEF CrIdle
  <1>9. CrTypeOK'
    BY <1>3, <1>4, <1>7 DEF CrInv, CrTypeOK, Tasks, Entries
  <1>10. Known' /\ Working'
    BY <1>1, <1>3, <1>4, <1>7, <1>8 DEF CrInv, Known, Working
  <1>11. ASSUME NEW r \in CrReads PROVE OnePlace(r)'
    <2>1. OnePlace(r) /\ r # NoRead
      BY CrAssumption DEF CrInv
    <2>2. CASE r = h
      <3>1. \A t \in Sessions : crRun'[t].read # r
        BY <1>3, <1>6, <1>8, <2>1, <2>2
      <3> QED
        BY <1>4, <1>6, <1>7, <2>1, <2>2, <3>1 DEF OnePlace
    <2>3. CASE r # h
      <3>1. \A t \in Sessions : crRun'[t].read = r => crRun[t].read = r
        BY <1>3, <1>8, <2>1
      <3> QED
        BY <1>4, <1>7, <2>1, <2>3, <3>1 DEF OnePlace
    <2> QED
      BY <2>2, <2>3
  <1>12. ASSUME NEW r \in CrReads PROVE Answered(r)'
    <2>1. Answered(r) /\ r # NoRead
      BY CrAssumption DEF CrInv
    <2>2. Pending(r)' => Pending(r)
      <3>1. Pending(h)
        BY <1>1, <1>2 DEF Pending, h
      <3>2. \A t \in Sessions : crRun'[t].read = r => crRun'[t] = crRun[t]
        BY <1>3, <1>8, <2>1
      <3> QED
        BY <1>7, <3>1, <3>2 DEF Pending
    <2> QED
      BY <1>4, <2>1, <2>2 DEF Answered
  <1> QED
    BY <1>9, <1>10, <1>11, <1>12 DEF CrInv

\* A session ends with what is in its queue.
LEMMA Ends ==
    ASSUME CrInv, NEW s \in Sessions, crRun' = [crRun EXCEPT ![s] = CrGone],
           crQueue' = [crQueue EXCEPT ![s] = <<>>], UNCHANGED <<crReserved, crAnswers>>
    PROVE  /\ crQueue' \in [Sessions -> Seq(Entries)] /\ crRun' \in [Sessions -> Tasks]
           /\ crRun'[s].at = "gone" /\ \A t \in Sessions : t # s => crRun'[t] = crRun[t]
           /\ Working' /\ \A r \in CrReads : OnePlace(r)' /\ Answered(r)'
  <1>1. /\ crQueue' \in [Sessions -> Seq(Entries)]
        /\ \A t \in Sessions : \A e : In(crQueue'[t], e) => In(crQueue[t], e)
        /\ \A t \in Sessions : \A e : OnceIn(crQueue[t], e) => OnceIn(crQueue'[t], e)
    BY Emptied DEF CrInv
  <1>2. /\ crRun' \in [Sessions -> Tasks] /\ crRun'[s] = CrGone
        /\ \A t \in Sessions : t # s => crRun'[t] = crRun[t]
    BY GoesOn, Rests DEF CrInv
  <1>3. crRun'[s].at = "gone" /\ crRun'[s].read = NoRead
    BY <1>2 DEF CrGone
  <1>4. Working'
    BY <1>1, <1>2, <1>3 DEF CrInv, Working
  <1>5. ASSUME NEW r \in CrReads PROVE OnePlace(r)' /\ Answered(r)'
    <2>1. OnePlace(r) /\ Answered(r) /\ r # NoRead
      BY CrAssumption DEF CrInv
    <2>2. \A t \in Sessions : crRun'[t].read = r => crRun'[t] = crRun[t]
      BY <1>2, <1>3, <2>1
    <2>3. OnePlace(r)'
      BY <1>1, <2>1, <2>2 DEF OnePlace
    <2>4. Pending(r)' => Pending(r)
      BY <1>1, <2>2 DEF Pending
    <2> QED
      BY <2>1, <2>3, <2>4 DEF Answered
  <1> QED
    BY <1>1, <1>2, <1>3, <1>4, <1>5

LEMMA CatalogEnds == ASSUME CrInv, CrEndCatalog PROVE CrInv'
  <1>1. /\ crQueue' \in [Sessions -> Seq(Entries)] /\ crRun' \in [Sessions -> Tasks]
        /\ \A t \in Sessions : t # "catalog" => crRun'[t] = crRun[t]
        /\ Working' /\ \A r \in CrReads : OnePlace(r)' /\ Answered(r)'
    BY Ends DEF CrEndCatalog
  <1>2. {crOpen, crRetry, crStopped}' \subseteq BOOLEAN
    BY DEF CrInv, CrTypeOK, CrEndCatalog
  <1>3. CrTypeOK'
    BY <1>1, <1>2 DEF CrInv, CrTypeOK, CrEndCatalog, Entries, Tasks
  <1>4. Known'
    BY <1>1 DEF CrInv, Known, CrEndCatalog
  <1> QED
    BY <1>1, <1>3, <1>4 DEF CrInv

LEMMA QueryEnds == ASSUME CrInv, CrEndQuery PROVE CrInv'
  <1>1. /\ crQueue' \in [Sessions -> Seq(Entries)] /\ crRun' \in [Sessions -> Tasks]
        /\ crRun'["query"].at = "gone"
        /\ Working' /\ \A r \in CrReads : OnePlace(r)' /\ Answered(r)'
    BY Ends DEF CrEndQuery
  <1>2. crQuery' \in [transaction : BOOLEAN, streams : BOOLEAN, asked : BOOLEAN]
        /\ crQuery'.transaction = FALSE
    BY DEF CrEndQuery
  <1>3. CrTypeOK'
    BY <1>1, <1>2 DEF CrInv, CrTypeOK, CrEndQuery, Entries, Tasks
  <1>4. Known'
    BY <1>1, <1>2 DEF CrInv, Known, CrEndQuery
  <1> QED
    BY <1>1, <1>3, <1>4 DEF CrInv

-----------------------------------------------------------------------------
(* A read on either session. *)

\* A session ends with its read, and the read is in no place but that of the session.
LEMMA Rested ==
    ASSUME CrInv, NEW s \in Sessions, crRun' = [crRun EXCEPT ![s] = CrIdle],
           UNCHANGED <<crQueue, crReserved>>
    PROVE  /\ crRun' \in [Sessions -> Tasks] /\ crRun'[s].at = "idle"
           /\ \A t \in Sessions : t # s => crRun'[t] = crRun[t]
           /\ Working' /\ \A r \in CrReads : OnePlace(r)' /\ (Pending(r)' => Pending(r))
           /\ \A r \in CrReads : crRun[s].read = r => ~Pending(r)'
  <1>1. /\ crRun' \in [Sessions -> Tasks] /\ crRun'[s] = CrIdle
        /\ \A t \in Sessions : t # s => crRun'[t] = crRun[t]
    BY GoesOn, Rests DEF CrInv
  <1>2. crRun'[s].at = "idle" /\ crRun'[s].read = NoRead
    BY <1>1 DEF CrIdle
  <1>3. Working'
    BY <1>1, <1>2 DEF CrInv, Working
  <1>4. ASSUME NEW r \in CrReads
        PROVE  OnePlace(r)' /\ (Pending(r)' => Pending(r)) /\ (crRun[s].read = r => ~Pending(r)')
    <2>1. OnePlace(r) /\ r # NoRead
      BY CrAssumption DEF CrInv
    <2>2. \A t \in Sessions : crRun'[t].read = r => t # s /\ crRun'[t] = crRun[t]
      BY <1>1, <1>2, <2>1
    <2>3. OnePlace(r)'
      BY <2>1, <2>2 DEF OnePlace
    <2>4. Pending(r)' => Pending(r)
      BY <2>2 DEF Pending
    <2>5. ASSUME crRun[s].read = r PROVE ~Pending(r)'
      <3>1. \A t \in Sessions : ~In(crQueue[t], r) /\ (crRun[t].read = r => t = s)
        BY <2>1, <2>5 DEF OnePlace
      <3> QED
        BY <2>2, <3>1 DEF Pending
    <2> QED
      BY <2>3, <2>4, <2>5
  <1> QED
    BY <1>1, <1>2, <1>3, <1>4

\* The read of a session that reads waits for its answer; after that it is nowhere but in the
\* session that saves.
LEMMA Reading ==
    ASSUME CrInv, NEW s \in Sessions, crRun[s].at = "reading"
    PROVE  /\ crRun[s].read \in CrReads /\ crReserved[crRun[s].read] = NoRead
           /\ Pending(crRun[s].read)
  <1>1. crRun[s] \in Tasks
    BY DEF CrInv, CrTypeOK, Tasks
  <1>2. crRun[s].read \in CrReads
    BY <1>1 DEF CrInv, Working, Tasks
  <1> QED
    BY <1>2 DEF CrInv, OnePlace, Pending

\* The answer of the read, which is the last.
LEMMA Answers ==
    ASSUME CrInv, NEW r \in CrReads, NEW x \in {"live", "failed"}, CrAnswer(r, x), Pending(r),
           crReserved[r] = NoRead, UNCHANGED crReserved, ~Pending(r)',
           \A e \in CrReads : Pending(e)' => Pending(e)
    PROVE  /\ crAnswers' \in [CrReads -> Seq({"saved", "live", "failed"})]
           /\ \A e \in CrReads : Answered(e)'
  <1>1. /\ crAnswers' \in [CrReads -> Seq({"saved", "live", "failed"})]
        /\ \A e \in CrReads : e # r => crAnswers'[e] = crAnswers[e]
        /\ Len(crAnswers[r]) \in Nat /\ Len(crAnswers'[r]) = Len(crAnswers[r]) + 1
        /\ crAnswers'[r][Len(crAnswers[r]) + 1] = x
        /\ Len(crAnswers[r]) = 1 => crAnswers'[r][1] = crAnswers[r][1]
    BY OneMore DEF CrInv
  <1>2. Len(crAnswers[r]) = 0 \/ (Len(crAnswers[r]) = 1 /\ crAnswers[r][1] = "saved")
    BY DEF CrInv, Answered
  <1>3. Answered(r)'
    <2>1. crReserved'[r] = NoRead /\ ~Pending(r)'
      OBVIOUS
    <2>2. CASE Len(crAnswers[r]) = 0
      <3>1. Len(crAnswers'[r]) = 1
        BY <1>1, <2>2
      <3> QED
        BY <2>1, <3>1 DEF Answered
    <2>3. CASE Len(crAnswers[r]) = 1 /\ crAnswers[r][1] = "saved"
      <3>1. Len(crAnswers'[r]) = 2 /\ crAnswers'[r][2] = x /\ crAnswers'[r][1] = "saved"
        BY <1>1, <2>3
      <3> QED
        BY <2>1, <3>1 DEF Answered
    <2> QED
      BY <1>2, <2>2, <2>3
  <1>4. ASSUME NEW e \in CrReads, e # r PROVE Answered(e)'
    <2>1. Answered(e)
      BY DEF CrInv
    <2> QED
      BY <1>1, <1>4, <2>1 DEF Answered
  <1> QED
    BY <1>1, <1>3, <1>4

LEMMA ReadFails == ASSUME CrInv, NEW s \in Sessions, CrReadFails(s) PROVE CrInv'
  <1>0. PICK r \in CrReads : r = crRun[s].read
    BY Reading DEF CrReadFails
  <1>1. /\ r \in CrReads /\ crReserved[r] = NoRead /\ Pending(r) /\ CrAnswer(r, "failed")
        /\ crRun' = [crRun EXCEPT ![s] = CrIdle] /\ UNCHANGED <<crQueue, crReserved>>
    BY <1>0, Reading DEF CrReadFails
  <1>2. /\ crRun' \in [Sessions -> Tasks] /\ crRun'[s].at = "idle"
        /\ \A t \in Sessions : t # s => crRun'[t] = crRun[t]
        /\ Working' /\ \A e \in CrReads : OnePlace(e)' /\ (Pending(e)' => Pending(e))
        /\ ~Pending(r)'
    BY <1>0, <1>1, Rested
  <1>3. /\ crAnswers' \in [CrReads -> Seq({"saved", "live", "failed"})]
        /\ \A e \in CrReads : Answered(e)'
    BY <1>1, <1>2, Answers
  <1>4. crOpen' \in BOOLEAN
    BY DEF CrReadFails, CrInv, CrTypeOK
  <1>5. CrTypeOK'
    BY <1>1, <1>2, <1>3, <1>4 DEF CrInv, CrTypeOK, CrReadFails, Tasks
  <1>6. Known'
    BY <1>2 DEF CrInv, Known, CrReadFails
  <1> QED
    BY <1>2, <1>3, <1>5, <1>6 DEF CrInv

\* A complete read is saved next, unless the target was dropped: the query session's is dropped
\* while the route knows of a transaction.
LEMMA ReadEnds ==
    ASSUME CrInv, NEW s \in Sessions, NEW save \in BOOLEAN, save => CrSaves(s), CrReadOk(s, save)
    PROVE  CrInv'
  <1>0. PICK r \in CrReads : r = crRun[s].read
    BY Reading DEF CrReadOk
  <1>1. /\ r \in CrReads /\ crReserved[r] = NoRead /\ Pending(r) /\ CrAnswer(r, "live")
        /\ UNCHANGED <<crQueue, crReserved>> /\ crRun[s].at = "reading"
    BY <1>0, Reading DEF CrReadOk
  <1>2. /\ crRun' \in [Sessions -> Tasks] /\ \A t \in Sessions : t # s => crRun'[t] = crRun[t]
        /\ Working' /\ \A e \in CrReads : OnePlace(e)' /\ (Pending(e)' => Pending(e))
        /\ ~Pending(r)' /\ (crRun'[s].at = "saving" => save)
    <2>1. CASE ~save
      <3>1. crRun' = [crRun EXCEPT ![s] = CrIdle]
        BY <2>1 DEF CrReadOk
      <3> QED
        BY <1>0, <1>1, <2>1, <3>1, Rested
    <2>2. CASE save
      <3> DEFINE x == [at |-> "saving", read |-> r]
      <3>1. x \in Tasks /\ crRun' = [crRun EXCEPT ![s] = x] /\ x.at = "saving" /\ x.read = r
        BY <1>0, <1>1, <2>2 DEF CrReadOk, Tasks
      <3> HIDE DEF x
      <3>2. /\ crRun' \in [Sessions -> Tasks] /\ crRun'[s] = x
            /\ \A t \in Sessions : t # s => crRun'[t] = crRun[t]
        BY <3>1, GoesOn DEF CrInv
      <3>3. \A t \in Sessions : crRun'[t].read = crRun[t].read
        BY <1>0, <3>1, <3>2
      <3>4. Working'
        <4>1. crRun'[s].at = "saving" /\ crRun'[s].read = r /\ r # NoRead
          BY <1>0, <1>1, <3>1, <3>2, CrAssumption
        <4> QED
          BY <1>1, <3>2, <4>1 DEF CrInv, Working
      <3>5. ASSUME NEW e \in CrReads PROVE OnePlace(e)' /\ (Pending(e)' => Pending(e))
        <4>1. OnePlace(e)
          BY DEF CrInv
        <4>2. OnePlace(e)'
          BY <1>1, <3>3, <4>1 DEF OnePlace
        <4>3. Pending(e)' => Pending(e)
          BY <1>1, <3>1, <3>2, <3>3 DEF Pending
        <4> QED
          BY <4>2, <4>3
      <3>6. ~Pending(r)'
        <4>1. OnePlace(r)
          BY <1>1 DEF CrInv
        <4>2. \A t \in Sessions : ~In(crQueue[t], r) /\ (crRun[t].read = r => t = s)
          BY <1>0, <4>1 DEF OnePlace
        <4> QED
          BY <1>1, <3>1, <3>2, <3>3, <4>2 DEF Pending
      <3> QED
        BY <2>2, <3>2, <3>4, <3>5, <3>6
    <2> QED
      BY <2>1, <2>2
  <1>3. /\ crAnswers' \in [CrReads -> Seq({"saved", "live", "failed"})]
        /\ \A e \in CrReads : Answered(e)'
    BY <1>1, <1>2, Answers
  <1>4. UNCHANGED <<crRoute, crOpen, crRetry, crQuery, crStatements, crSaved, crStopped>>
    BY DEF CrReadOk
  <1>5. CrTypeOK'
    BY <1>1, <1>2, <1>3, <1>4 DEF CrInv, CrTypeOK, Tasks
  <1>6. Known'
    <2>1. CASE s = "query"
      BY <1>2, <1>4, <2>1 DEF CrInv, Known, CrSaves
    <2>2. CASE s # "query"
      <3>1. crRun'["query"] = crRun["query"]
        BY <1>2, <2>2
      <3> QED
        BY <1>4, <3>1 DEF CrInv, Known
    <2> QED
      BY <2>1, <2>2
  <1> QED
    BY <1>2, <1>3, <1>5, <1>6 DEF CrInv

\* What is saved was not read in a transaction whose state was asked for.
LEMMA Saves == ASSUME CrInv, NEW s \in Sessions, CrSave(s) PROVE CrInv'
  <1>1. /\ crRun' = [crRun EXCEPT ![s] = CrIdle] /\ crRun[s].at = "saving"
        /\ UNCHANGED <<crRoute, crQueue, crReserved, crOpen, crRetry, crQuery, crStatements, crAnswers,
                       crStopped>>
    BY DEF CrSave
  <1>2. /\ crRun' \in [Sessions -> Tasks] /\ crRun'[s].at = "idle"
        /\ \A t \in Sessions : t # s => crRun'[t] = crRun[t]
        /\ Working' /\ \A e \in CrReads : OnePlace(e)' /\ (Pending(e)' => Pending(e))
    BY <1>1, Rested
  <1>3. crSaved' \in {"nothing", "committed", "unknown"}
    <2>1. crSaved \in {"nothing", "committed", "unknown"}
      BY DEF CrInv, CrTypeOK, Known
    <2>2. CrShown(s) \in {"committed", "unknown"}
      BY <1>1 DEF CrInv, Known, CrShown
    <2> QED
      BY <2>1, <2>2 DEF CrSave
  <1>4. CrTypeOK'
    BY <1>1, <1>2, <1>3 DEF CrInv, CrTypeOK, Tasks
  <1>5. Known'
    BY <1>1, <1>2, <1>3 DEF CrInv, Known
  <1>6. ASSUME NEW e \in CrReads PROVE Answered(e)'
    <2>1. Answered(e)
      BY DEF CrInv
    <2> QED
      BY <1>1, <1>2, <2>1 DEF Answered
  <1> QED
    BY <1>2, <1>4, <1>5, <1>6 DEF CrInv

\* A statement: the route learns of the transaction before anything else is read.
LEMMA Executes == ASSUME CrInv, CrExecutes PROVE CrInv'
  <1>1. crRun["query"] = CrIdle /\ crQueue["query"] # <<>> /\ CrTake("query")
    BY DEF CrExecutes, CrActorReceives
  <1>2. /\ crQueue' \in [Sessions -> Seq(Entries)]
        /\ \A t \in Sessions : \A e : In(crQueue'[t], e) => In(crQueue[t], e)
        /\ \A t \in Sessions : \A e : OnceIn(crQueue[t], e) => OnceIn(crQueue'[t], e)
    BY <1>1, Dequeued DEF CrInv
  <1>3. UNCHANGED <<crReserved, crRun, crOpen, crRetry, crStatements, crAnswers, crSaved, crStopped>>
    BY DEF CrExecutes
  <1>4. PICK transaction \in BOOLEAN, streams \in BOOLEAN :
           /\ crQuery' = [transaction |-> transaction, streams |-> streams, asked |-> ~streams]
           /\ IF streams THEN UNCHANGED crRoute ELSE CrFollow(transaction)
    BY DEF CrExecutes
  <1>5. crQuery' \in [transaction : BOOLEAN, streams : BOOLEAN, asked : BOOLEAN]
    BY <1>4
  <1>6. crRoute' \in [second : BOOLEAN, transaction : BOOLEAN]
    <2>1. CASE streams
      BY <1>4, <2>1 DEF CrInv, CrTypeOK
    <2>2. CASE ~streams
      <3>1. PICK readable \in BOOLEAN :
               crRoute' = [crRoute EXCEPT !.transaction = readable => transaction]
        BY <1>4, <2>2 DEF CrFollow
      <3> QED
        BY <3>1 DEF CrInv, CrTypeOK
    <2> QED
      BY <2>1, <2>2
  <1>7. crQuery'.asked /\ crQuery'.transaction => crRoute'.transaction
    <2>1. CASE streams
      BY <1>4, <2>1
    <2>2. CASE ~streams
      <3>1. PICK readable \in BOOLEAN :
               crRoute' = [crRoute EXCEPT !.transaction = readable => transaction]
        BY <1>4, <2>2 DEF CrFollow
      <3> QED
        BY <1>4, <3>1 DEF CrInv, CrTypeOK
    <2> QED
      BY <2>1, <2>2
  <1>8. CrTypeOK'
    BY <1>2, <1>3, <1>5, <1>6 DEF CrInv, CrTypeOK, Entries
  <1>9. Known'
    <2>1. crRun'["query"].at # "saving"
      BY <1>1, <1>3 DEF CrIdle
    <2> QED
      BY <1>3, <1>7, <2>1 DEF CrInv, Known
  <1>10. Working'
    BY <1>2, <1>3 DEF CrInv, Working
  <1>11. ASSUME NEW e \in CrReads PROVE OnePlace(e)' /\ Answered(e)'
    <2>1. OnePlace(e) /\ Answered(e)
      BY DEF CrInv
    <2>2. OnePlace(e)'
      BY <1>2, <1>3, <2>1 DEF OnePlace
    <2>3. Pending(e)' => Pending(e)
      BY <1>2, <1>3 DEF Pending
    <2> QED
      BY <1>3, <2>1, <2>2, <2>3 DEF Answered
  <1> QED
    BY <1>8, <1>9, <1>10, <1>11 DEF CrInv

LEMMA CatalogSteps == CrInv /\ [CrNext]_crVars => CrInv'
  <1> SUFFICES ASSUME CrInv, [CrNext]_crVars PROVE CrInv'
    OBVIOUS
  <1>1. CASE \E r \in CrReads, s \in Sessions : CrSubmit(r, s) \/ CrSubmitSaved(r, s)
    BY <1>1, Submits, Reserves
  <1>2. CASE \E r \in CrReads : CrShowSaved(r)
    BY <1>2, ShowsSaved
  <1>3. CASE CrSubmitStatement
    BY <1>3, SubmitsStatement
  <1>4. CASE CrStop \/ CrRetryOver \/ CrIdleStop \/ UNCHANGED crVars
    BY <1>4, Elsewhere
  <1>5. ASSUME NEW s \in Sessions, CrRead(s) PROVE CrInv'
    BY <1>5, ReadEnds, ReadFails, Saves DEF CrRead
  <1>6. CASE CrCatalogTask
    BY <1>5, <1>6, CatalogReceives, Opens, HandsBack, CatalogEnds DEF CrCatalogTask
  <1>7. CASE CrActor
    BY <1>5, <1>7, ActorReads, Executes, QueryEnds DEF CrActor
  <1> QED
    BY <1>1, <1>2, <1>3, <1>4, <1>6, <1>7 DEF CrNext

\* Each read of the navigator is in one queue or with one session, both know what the transaction
\* shows, and a read that waits has at most been shown what was saved (catalog.rs, actor.rs).
THEOREM CatalogInv == CrSpec => []CrInv
  <1>1. CrInit => CrInv
    BY CatalogInit
  <1> QED
    BY <1>1, CatalogSteps, PTL DEF CrSpec

\* What an open transaction alone shows is not saved for the next connection, once the state of
\* the transaction was asked for (catalog.rs:39).
THEOREM NothingUncommittedIsSaved == CrSpec => []CrNothingUncommittedSaved
  <1>1. CrInv => CrNothingUncommittedSaved
    BY DEF CrInv, Known, CrNothingUncommittedSaved
  <1> QED
    BY <1>1, CatalogInv, PTL

\* A read gets one answer from one session, after the saved children and never before them,
\* although it may be handed from session to session (metadata_cache.rs, catalog.rs).
THEOREM AnsweredOnce == CrSpec => []CrSavedFirst
  <1>1. CrInv => CrSavedFirst
    <2> SUFFICES ASSUME CrInv, NEW r \in CrReads
                 PROVE  /\ \A i, j \in CrFinal(r) : i = j
                        /\ Len(crAnswers[r]) = 2 => crAnswers[r][1] = "saved"
      BY DEF CrSavedFirst
    <2> DEFINE a == crAnswers[r]
    <2>1. a \in Seq({"saved", "live", "failed"})
      BY DEF CrInv, CrTypeOK
    <2>2. Len(a) \in {0, 1} \/ (Len(a) = 2 /\ a[1] = "saved" /\ a[2] # "saved")
      BY DEF CrInv, Answered
    <2>3. DOMAIN a = 1..Len(a)
      BY <2>1
    <2> QED
      BY <2>2, <2>3 DEF CrFinal
  <1> QED
    BY <1>1, CatalogInv, PTL

-----------------------------------------------------------------------------
(***************************************************************************)
(* The requests to the storage worker.  Those that were answered, those    *)
(* that failed in the engine, the one that is with the worker and those    *)
(* that wait follow one another without a gap.                             *)
(***************************************************************************)
USE RqAssumption

Results == [number : Nat, failed : BOOLEAN]

RqTypes ==
    /\ rqInFlight \in BOOLEAN /\ rqAdvancing \in BOOLEAN /\ rqGone \in BOOLEAN
    /\ rqAnswers \in Seq(Nat) /\ rqFailed \in Seq(Results) /\ rqWaiting \in Seq(Nat)
    /\ rqCost \in Seq({0, 2}) /\ rqJobs \in Seq(Nat)
    /\ rqWorker \in Seq(Results) /\ rqEvents \in Seq(Results) /\ Len(rqWorker) <= 1

Pend == IF rqInFlight /\ ~rqAdvancing THEN 1 ELSE 0
\* The numbers of the requests that have their answer, or one in the engine.
Done == Len(rqAnswers) + Len(rqFailed)

InOrder ==
    /\ \A i \in 1..Len(rqAnswers) : rqAnswers[i] = i
    /\ \A i \in 1..Len(rqFailed) : rqFailed[i].number = Len(rqAnswers) + i
    /\ \A i \in 1..Len(rqWaiting) : rqWaiting[i] = Done + Pend + i
    /\ Len(rqCost) = Done + Pend + Len(rqWaiting) /\ Len(rqCost) <= RqRequests
    /\ rqAdvancing => rqInFlight
    /\ ~rqInFlight => Len(rqWaiting) = 0

\* Where the request that is with the worker may be: in its channel, in its hands, answered.
InJobs == \E i \in 1..Len(rqJobs) : rqJobs[i] # Other
InWorker == \E i \in 1..Len(rqWorker) : rqWorker[i].number # Other
InEvents == \E i \in 1..Len(rqEvents) : rqEvents[i].number # Other

AtTheWorker ==
    /\ \A i \in 1..Len(rqJobs) : rqJobs[i] \in {Other, Done + 1}
    /\ \A i \in 1..Len(rqWorker) : rqWorker[i].number \in {Other, Done + 1}
    /\ \A i \in 1..Len(rqEvents) : rqEvents[i].number \in {Other, Done + 1}
    /\ \A i, j \in 1..Len(rqJobs) : rqJobs[i] # Other /\ rqJobs[j] # Other => i = j
    /\ \A i, j \in 1..Len(rqEvents) :
          rqEvents[i].number # Other /\ rqEvents[j].number # Other => i = j
    /\ ~(InJobs /\ InWorker) /\ ~(InJobs /\ InEvents) /\ ~(InWorker /\ InEvents)
    /\ InJobs \/ InWorker \/ InEvents => Pend = 1
    /\ ~rqGone /\ Pend = 1 => InJobs \/ InWorker \/ InEvents

Budget == IsFiniteSet(RqLarge) /\ rqBytes = 2 * Cardinality(RqLarge)

RqInv == RqTypes /\ InOrder /\ AtTheWorker /\ Budget

LEMMA QueueInit == ASSUME RqInit PROVE RqInv
  <1>1. RqTypes
    <2>1. \A S : <<>> \in Seq(S)
      OBVIOUS
    <2>2. rqInFlight = FALSE /\ rqAdvancing = FALSE /\ rqGone = FALSE /\ Len(rqWorker) = 0
      BY DEF RqInit
    <2>3. rqInFlight \in BOOLEAN /\ rqAdvancing \in BOOLEAN /\ rqGone \in BOOLEAN
      BY <2>2
    <2> QED
      BY <2>1, <2>2, <2>3 DEF RqInit, RqTypes
  <1>2. InOrder
    BY DEF RqInit, InOrder, Done, Pend
  <1>3. AtTheWorker
    BY DEF RqInit, AtTheWorker, InJobs, InWorker, InEvents, Pend
  <1>4. RqLarge = {}
    BY DEF RqInit, RqLarge
  <1>5. Budget
    BY <1>4, FS_EmptySet DEF Budget, RqInit
  <1> QED
    BY <1>1, <1>2, <1>3, <1>5 DEF RqInv

LEMMA Longer ==
    ASSUME NEW S, NEW s \in Seq(S), NEW x \in S
    PROVE  /\ Append(s, x) \in Seq(S) /\ Len(s) \in Nat /\ Len(Append(s, x)) = Len(s) + 1
           /\ \A i \in 1..Len(s) : Append(s, x)[i] = s[i]
           /\ Append(s, x)[Len(s) + 1] = x
  OBVIOUS

LEMMA Shorter ==
    ASSUME NEW S, NEW s \in Seq(S), s # <<>>
    PROVE  /\ Tail(s) \in Seq(S) /\ Len(s) \in Nat \ {0} /\ Len(Tail(s)) = Len(s) - 1
           /\ \A i \in 1..(Len(s) - 1) : Tail(s)[i] = s[i + 1]
           /\ Head(s) \in S /\ Head(s) = s[1]
  OBVIOUS

LEMMA LengthOfBoth ==
    ASSUME NEW S, NEW s \in Seq(S), NEW t \in Seq(S)
    PROVE  Len(s \o t) = Len(s) + Len(t)
  OBVIOUS

LEMMA ItemsOfBoth ==
    ASSUME NEW S, NEW s \in Seq(S), NEW t \in Seq(S)
    PROVE  \A i \in 1..Len(s) + Len(t) : (s \o t)[i] = IF i <= Len(s) THEN s[i] ELSE t[i - Len(s)]
  OBVIOUS

LEMMA Joined ==
    ASSUME NEW S, NEW s \in Seq(S), NEW t \in Seq(S), Len(t) = 1
    PROVE  /\ s \o t \in Seq(S) /\ Len(s) \in Nat /\ Len(s \o t) = Len(s) + 1
           /\ \A i \in 1..Len(s) : (s \o t)[i] = s[i]
           /\ (s \o t)[Len(s) + 1] = t[1]
  <1>1. s \o t \in Seq(S) /\ Len(s) \in Nat /\ Len(s \o t) = Len(s) + 1
    <2>1. s \o t \in Seq(S)
      OBVIOUS
    <2>2. Len(s) \in Nat
      OBVIOUS
    <2>3. Len(s \o t) = Len(s) + Len(t)
      BY LengthOfBoth
    <2> QED
      BY <2>1, <2>2, <2>3
  <1>2. \A i \in 1..Len(s) : (s \o t)[i] = s[i]
    OBVIOUS
  <1>3. (s \o t)[Len(s) + 1] = t[1]
    <2>1. Len(s) + 1 \in 1..Len(s) + Len(t) /\ ~(Len(s) + 1 <= Len(s)) /\ Len(s) + 1 - Len(s) = 1
      BY <1>1
    <2>2. \A i \in 1..Len(s) + Len(t) : (s \o t)[i] = IF i <= Len(s) THEN s[i] ELSE t[i - Len(s)]
      BY ItemsOfBoth
    <2> QED
      BY ONLY <2>1, <2>2
  <1> QED
    BY <1>1, <1>2, <1>3

InQueue(q, n) == \E i \in 1..Len(q) : q[i] = n

LEMMA BudgetStays ==
    ASSUME Budget, UNCHANGED <<rqCost, rqWaiting, rqBytes>>
    PROVE  Budget'
  <1>1. RqLarge' = RqLarge
    BY DEF RqLarge
  <1> QED
    BY <1>1 DEF Budget

-----------------------------------------------------------------------------
(* The engine and the worker. *)

LEMMA Waits ==
    ASSUME RqInv, NEW cost \in {0, 2}, RqSubmit(cost), RqWait(cost)
    PROVE  RqInv'
  <1>1. /\ rqInFlight /\ ~rqAdvancing /\ rqBytes' = rqBytes + cost
        /\ rqWaiting' = Append(rqWaiting, Len(rqCost) + 1) /\ rqCost' = Append(rqCost, cost)
        /\ Len(rqCost) + 1 <= RqRequests
        /\ UNCHANGED <<rqInFlight, rqFailed, rqJobs, rqWorker, rqEvents, rqAnswers, rqAdvancing, rqGone>>
    BY DEF RqSubmit, RqWait, RqNumber
  <1>2. RqTypes
    BY DEF RqInv
  <1>3. /\ rqCost' \in Seq({0, 2}) /\ Len(rqCost) \in Nat /\ Len(rqCost') = Len(rqCost) + 1
        /\ \A i \in 1..Len(rqCost) : rqCost'[i] = rqCost[i]
        /\ rqCost'[Len(rqCost) + 1] = cost
    BY <1>1, <1>2, Longer DEF RqTypes
  <1>4. /\ rqWaiting' \in Seq(Nat) /\ Len(rqWaiting) \in Nat /\ Len(rqWaiting') = Len(rqWaiting) + 1
        /\ \A i \in 1..Len(rqWaiting) : rqWaiting'[i] = rqWaiting[i]
        /\ rqWaiting'[Len(rqWaiting) + 1] = Len(rqCost) + 1
    BY <1>1, <1>2, <1>3, Longer DEF RqTypes
  <1>5. RqTypes'
    BY <1>1, <1>2, <1>3, <1>4 DEF RqTypes
  <1>6. Done \in Nat /\ Pend = 1 /\ UNCHANGED <<Done, Pend>>
    BY <1>1, <1>2 DEF Done, Pend, RqTypes
  <1>7. InOrder'
    <2>1. InOrder
      BY DEF RqInv
    <2>2. /\ \A i \in 1..Len(rqAnswers') : rqAnswers'[i] = i
          /\ \A i \in 1..Len(rqFailed') : rqFailed'[i].number = Len(rqAnswers') + i
      BY <1>1, <2>1 DEF InOrder
    <2>3. Len(rqCost) = Done + 1 + Len(rqWaiting)
          /\ \A i \in 1..Len(rqWaiting) : rqWaiting[i] = Done + 1 + i
      BY <1>6, <2>1 DEF InOrder
    <2>4. \A i \in 1..Len(rqWaiting') : rqWaiting'[i] = Done + 1 + i
      <3> SUFFICES ASSUME NEW i \in 1..Len(rqWaiting') PROVE rqWaiting'[i] = Done + 1 + i
        OBVIOUS
      <3>1. i \in 1..Len(rqWaiting) \/ i = Len(rqWaiting) + 1
        BY <1>4
      <3>2. CASE i \in 1..Len(rqWaiting)
        BY <1>4, <2>3, <3>2
      <3>3. CASE i = Len(rqWaiting) + 1
        BY <1>4, <1>6, <2>3, <3>3
      <3> QED
        BY <3>1, <3>2, <3>3
    <2>5. Len(rqCost') = Done + 1 + Len(rqWaiting') /\ Len(rqCost') <= RqRequests
      BY <1>1, <1>3, <1>4, <1>6, <2>3
    <2> QED
      BY <1>1, <1>6, <2>2, <2>4, <2>5 DEF InOrder
  <1>8. AtTheWorker'
    BY <1>1, <1>6 DEF RqInv, AtTheWorker, InJobs, InWorker, InEvents
  <1>9. Budget'
    <2>1. DOMAIN rqCost = 1..Len(rqCost) /\ DOMAIN rqCost' = 1..Len(rqCost')
          /\ DOMAIN rqWaiting = 1..Len(rqWaiting) /\ DOMAIN rqWaiting' = 1..Len(rqWaiting')
      BY <1>2, <1>3, <1>4 DEF RqTypes
    <2>2. \A n : InQueue(rqWaiting', n) <=> InQueue(rqWaiting, n) \/ n = Len(rqCost) + 1
      BY <1>4 DEF InQueue
    <2>3. /\ \A n : n \in RqLarge <=> n \in 1..Len(rqCost) /\ rqCost[n] = 2 /\ InQueue(rqWaiting, n)
          /\ \A n : n \in RqLarge' <=>
                n \in 1..Len(rqCost') /\ rqCost'[n] = 2 /\ InQueue(rqWaiting', n)
      BY <2>1 DEF RqLarge, InQueue
    <2>4. Len(rqCost) + 1 \notin RqLarge
      BY <1>3, <2>3
    <2>5. \A n : n \in RqLarge' <=> n \in RqLarge \/ (n = Len(rqCost) + 1 /\ cost = 2)
      <3>1. \A n : InQueue(rqWaiting, n) => n \in 1..Len(rqCost)
        <4>1. InOrder
          BY DEF RqInv
        <4> QED
          BY <1>3, <1>4, <1>6, <4>1 DEF InOrder, InQueue
      <3>2. ASSUME NEW n \in 1..Len(rqCost) PROVE n \in RqLarge' <=> n \in RqLarge
        <4>1. n \in 1..Len(rqCost') /\ n # Len(rqCost) + 1 /\ rqCost'[n] = rqCost[n]
          BY <1>3
        <4> QED
          BY <2>2, <2>3, <4>1
      <3>3. \A n : n \in RqLarge' => n \in 1..Len(rqCost) \/ n = Len(rqCost) + 1
        BY <2>2, <2>3, <3>1
      <3>4. Len(rqCost) + 1 \in RqLarge' <=> cost = 2
        BY <1>3, <2>2, <2>3
      <3>5. \A n : n \in RqLarge => n \in 1..Len(rqCost)
        BY <2>3
      <3> QED
        BY <3>2, <3>3, <3>4, <3>5
    <2>6. IsFiniteSet(RqLarge) /\ rqBytes = 2 * Cardinality(RqLarge) /\ Cardinality(RqLarge) \in Nat
      BY FS_CardinalityType DEF RqInv, Budget
    <2>7. CASE cost = 0
      <3>1. \A n : n \in RqLarge' <=> n \in RqLarge
        BY <2>5, <2>7
      <3>2. RqLarge' = RqLarge
        BY <3>1
      <3> QED
        BY <1>1, <2>6, <2>7, <3>2 DEF Budget
    <2>8. CASE cost = 2
      <3>1. \A n : n \in RqLarge' <=> n \in RqLarge \/ n = Len(rqCost) + 1
        BY <2>5, <2>8
      <3>2. RqLarge' = RqLarge \cup {Len(rqCost) + 1}
        BY <3>1
      <3>3. IsFiniteSet(RqLarge') /\ Cardinality(RqLarge') = Cardinality(RqLarge) + 1
        BY <2>4, <2>6, <3>2, FS_AddElement
      <3> QED
        BY <1>1, <2>6, <2>8, <3>3 DEF Budget
    <2> QED
      BY <2>7, <2>8
  <1> QED
    BY <1>5, <1>7, <1>8, <1>9 DEF RqInv

\* The request goes to the worker, and nothing waits.
LEMMA Sends ==
    ASSUME RqInv, NEW cost \in {0, 2}, RqSubmit(cost), RqSend
    PROVE  RqInv'
  <1>1. /\ ~rqInFlight /\ ~rqAdvancing /\ rqInFlight' = TRUE
        /\ rqJobs' = Append(rqJobs, Len(rqCost) + 1) /\ rqCost' = Append(rqCost, cost)
        /\ Len(rqCost) + 1 <= RqRequests
        /\ UNCHANGED <<rqWaiting, rqBytes, rqFailed, rqWorker, rqEvents, rqAnswers, rqAdvancing, rqGone>>
    BY DEF RqSubmit, RqSend, RqNumber
  <1>2. RqTypes
    BY DEF RqInv
  <1>3. /\ rqCost' \in Seq({0, 2}) /\ Len(rqCost) \in Nat /\ Len(rqCost') = Len(rqCost) + 1
        /\ \A i \in 1..Len(rqCost) : rqCost'[i] = rqCost[i]
        /\ rqCost'[Len(rqCost) + 1] = cost
    BY <1>1, <1>2, Longer DEF RqTypes
  <1>4. /\ rqJobs' \in Seq(Nat) /\ Len(rqJobs) \in Nat /\ Len(rqJobs') = Len(rqJobs) + 1
        /\ \A i \in 1..Len(rqJobs) : rqJobs'[i] = rqJobs[i]
        /\ rqJobs'[Len(rqJobs) + 1] = Len(rqCost) + 1
    BY <1>1, <1>2, <1>3, Longer DEF RqTypes
  <1>5. RqTypes'
    BY <1>1, <1>2, <1>3, <1>4 DEF RqTypes
  <1>6. /\ Done \in Nat /\ Pend = 0 /\ Pend' = 1 /\ UNCHANGED Done
        /\ Len(rqWaiting) = 0 /\ Len(rqWaiting') = 0 /\ Len(rqCost) = Done
    BY <1>1, <1>2 DEF Done, Pend, RqTypes, RqInv, InOrder
  <1>7. InOrder'
    BY <1>1, <1>3, <1>6 DEF RqInv, InOrder
  <1>8. AtTheWorker'
    <2>1. ~InJobs /\ ~InWorker /\ ~InEvents
      BY <1>6 DEF RqInv, AtTheWorker
    <2>2. ~InWorker' /\ ~InEvents'
      BY <1>1, <2>1 DEF InWorker, InEvents
    <2>3. InJobs'
      BY <1>4, <1>6 DEF InJobs, Other
    <2>4. \A i \in 1..Len(rqJobs) : rqJobs[i] = Other
      BY <2>1 DEF InJobs
    <2> QED
      BY <1>1, <1>4, <1>6, <2>2, <2>3, <2>4 DEF RqInv, AtTheWorker
  <1>9. Budget'
    <2>1. RqLarge = {} /\ RqLarge' = {}
      BY <1>2, <1>5, <1>6 DEF RqLarge, RqTypes
    <2> QED
      BY <1>1, <2>1 DEF RqInv, Budget
  <1> QED
    BY <1>5, <1>7, <1>8, <1>9 DEF RqInv

\* A job of another kind.
LEMMA OtherJobs == ASSUME RqInv, RqOtherJob PROVE RqInv'
  <1>1. /\ rqJobs' = Append(rqJobs, 0)
        /\ UNCHANGED <<rqInFlight, rqWaiting, rqBytes, rqFailed, rqWorker, rqEvents, rqCost, rqAnswers,
                       rqAdvancing, rqGone>>
    BY DEF RqOtherJob, Other
  <1>2. RqTypes
    BY DEF RqInv
  <1>3. /\ rqJobs' \in Seq(Nat) /\ Len(rqJobs) \in Nat /\ Len(rqJobs') = Len(rqJobs) + 1
        /\ \A i \in 1..Len(rqJobs) : rqJobs'[i] = rqJobs[i]
        /\ rqJobs'[Len(rqJobs) + 1] = Other
    BY <1>1, <1>2, Longer DEF RqTypes, Other
  <1>4. RqTypes'
    BY <1>1, <1>2, <1>3 DEF RqTypes
  <1>5. UNCHANGED <<Done, Pend, InWorker, InEvents>>
    BY <1>1 DEF Done, Pend, InWorker, InEvents
  <1>6. InJobs' <=> InJobs
    BY <1>3 DEF InJobs
  <1>7. InOrder'
    BY <1>1, <1>5 DEF RqInv, InOrder
  <1>8. AtTheWorker'
    BY <1>1, <1>3, <1>5, <1>6 DEF RqInv, AtTheWorker
  <1>9. Budget'
    BY <1>1, BudgetStays DEF RqInv
  <1> QED
    BY <1>4, <1>7, <1>8, <1>9 DEF RqInv

\* The worker takes a job.
LEMMA Works == ASSUME RqInv, RqWork PROVE RqInv'
  <1>1. /\ rqJobs # <<>> /\ rqJobs' = Tail(rqJobs) /\ rqWorker = <<>>
        /\ \/ \E failed \in BOOLEAN : rqWorker' = <<[number |-> Head(rqJobs), failed |-> failed]>>
           \/ Head(rqJobs) = Other /\ rqWorker' = <<>>
        /\ UNCHANGED <<rqInFlight, rqWaiting, rqBytes, rqFailed, rqEvents, rqCost, rqAnswers,
                       rqAdvancing, rqGone>>
    BY DEF RqWork
  <1>2. RqTypes
    BY DEF RqInv
  <1>3. /\ rqJobs' \in Seq(Nat) /\ Len(rqJobs) \in Nat \ {0} /\ Len(rqJobs') = Len(rqJobs) - 1
        /\ \A i \in 1..(Len(rqJobs) - 1) : rqJobs'[i] = rqJobs[i + 1]
        /\ Head(rqJobs) \in Nat /\ Head(rqJobs) = rqJobs[1]
    BY <1>1, <1>2, Shorter DEF RqTypes
  <1>4. /\ rqWorker' \in Seq(Results) /\ Len(rqWorker) = 0 /\ Len(rqWorker') <= 1
        /\ \/ Len(rqWorker') = 1 /\ rqWorker'[1].number = Head(rqJobs)
           \/ Len(rqWorker') = 0 /\ Head(rqJobs) = Other
    <2>1. CASE \E failed \in BOOLEAN : rqWorker' = <<[number |-> Head(rqJobs), failed |-> failed]>>
      <3>1. PICK failed \in BOOLEAN : rqWorker' = <<[number |-> Head(rqJobs), failed |-> failed]>>
        BY <2>1
      <3>2. [number |-> Head(rqJobs), failed |-> failed] \in Results
        BY <1>3 DEF Results
      <3> QED
        BY <1>1, <3>1, <3>2
    <2>2. CASE Head(rqJobs) = Other /\ rqWorker' = <<>>
      BY <1>1, <2>2
    <2> QED
      BY <1>1, <2>1, <2>2
  <1>5. RqTypes'
    <2>1. Len(rqWorker') <= 1
      BY <1>4, Zenon
    <2> QED
      BY <1>1, <1>2, <1>3, <1>4, <2>1 DEF RqTypes
  <1>6. UNCHANGED <<Done, Pend, InEvents>> /\ Done \in Nat
    BY <1>1, <1>2 DEF Done, Pend, InEvents, RqTypes
  <1>7. InOrder'
    BY <1>1, <1>6 DEF RqInv, InOrder
  <1>8. /\ ~InWorker /\ (InWorker' <=> Head(rqJobs) # Other)
        /\ InJobs' => InJobs /\ Head(rqJobs) = Other
        /\ InJobs <=> InJobs' \/ InWorker'
    <2>1. ~InWorker /\ (InWorker' <=> Head(rqJobs) # Other)
      BY <1>4 DEF InWorker
    <2>2. InJobs' => InJobs
      BY <1>3 DEF InJobs
    <2>3. InJobs' => Head(rqJobs) = Other
      <3> SUFFICES ASSUME NEW i \in 1..Len(rqJobs'), rqJobs'[i] # Other PROVE Head(rqJobs) = Other
        BY DEF InJobs
      <3>1. i + 1 \in 1..Len(rqJobs) /\ 1 \in 1..Len(rqJobs) /\ rqJobs[i + 1] # Other /\ i + 1 # 1
        BY <1>3
      <3>2. rqJobs[1] = Other
        BY <3>1 DEF RqInv, AtTheWorker
      <3> QED
        BY <1>3, <3>2
    <2>4. InJobs => InJobs' \/ Head(rqJobs) # Other
      <3> SUFFICES ASSUME InJobs, Head(rqJobs) = Other PROVE InJobs'
        OBVIOUS
      <3>1. PICK i \in 1..Len(rqJobs) : rqJobs[i] # Other
        BY DEF InJobs
      <3>2. i - 1 \in 1..Len(rqJobs') /\ rqJobs'[i - 1] = rqJobs[i]
        BY <1>3, <3>1
      <3> QED
        BY <3>1, <3>2 DEF InJobs
    <2>5. Head(rqJobs) # Other => InJobs
      BY <1>3 DEF InJobs
    <2> QED
      BY <2>1, <2>2, <2>3, <2>4, <2>5
  <1>9. AtTheWorker'
    <2>1. \A i \in 1..Len(rqJobs') : rqJobs'[i] \in {Other, Done + 1}
      BY <1>3 DEF RqInv, AtTheWorker
    <2>2. \A i, j \in 1..Len(rqJobs') : rqJobs'[i] # Other /\ rqJobs'[j] # Other => i = j
      <3> SUFFICES ASSUME NEW i \in 1..Len(rqJobs'), NEW j \in 1..Len(rqJobs'),
                          rqJobs'[i] # Other, rqJobs'[j] # Other
                   PROVE  i = j
        OBVIOUS
      <3>1. i + 1 \in 1..Len(rqJobs) /\ j + 1 \in 1..Len(rqJobs) /\ rqJobs[i + 1] # Other /\ rqJobs[j + 1] # Other
        BY <1>3
      <3>2. i + 1 = j + 1
        BY <3>1 DEF RqInv, AtTheWorker
      <3> QED
        BY <3>2
    <2>3. \A i \in 1..Len(rqWorker') : rqWorker'[i].number \in {Other, Done + 1}
      BY <1>3, <1>4 DEF RqInv, AtTheWorker
    <2> QED
      BY <1>1, <1>6, <1>8, <2>1, <2>2, <2>3 DEF RqInv, AtTheWorker
  <1>10. Budget'
    BY <1>1, BudgetStays DEF RqInv
  <1> QED
    BY <1>5, <1>7, <1>9, <1>10 DEF RqInv

\* Its answer finds room in the event channel.
LEMMA Replies == ASSUME RqInv, RqReply PROVE RqInv'
  <1>1. /\ rqWorker # <<>> /\ rqEvents' = rqEvents \o rqWorker /\ rqWorker' = <<>>
        /\ UNCHANGED <<rqInFlight, rqWaiting, rqBytes, rqFailed, rqJobs, rqCost, rqAnswers,
                       rqAdvancing, rqGone>>
    BY DEF RqReply
  <1>2. RqTypes
    BY DEF RqInv
  <1>3. /\ rqWorker \in Seq(Results) /\ Len(rqWorker) = 1 /\ rqEvents \in Seq(Results)
    <2>1. rqWorker \in Seq(Results) /\ rqEvents \in Seq(Results) /\ Len(rqWorker) <= 1
      BY <1>2 DEF RqTypes
    <2>2. PICK n \in Nat \ {0} : n = Len(rqWorker)
      BY <1>1, <2>1, Shorter
    <2>3. n = 1
      BY <2>1, <2>2
    <2> QED
      BY <2>1, <2>2, <2>3
  <1>4. /\ rqEvents' \in Seq(Results) /\ Len(rqEvents) \in Nat /\ Len(rqEvents') = Len(rqEvents) + 1
        /\ \A i \in 1..Len(rqEvents) : rqEvents'[i] = rqEvents[i]
        /\ rqEvents'[Len(rqEvents) + 1] = rqWorker[1]
    BY <1>1, <1>3, Joined
  <1>5. /\ Len(rqWorker') = 0 /\ rqWorker' \in Seq(Results)
    BY <1>1
  <1>6. RqTypes'
    BY <1>1, <1>2, <1>4, <1>5 DEF RqTypes
  <1>7. UNCHANGED <<Done, Pend, InJobs>> /\ Done \in Nat
    BY <1>1, <1>2 DEF Done, Pend, InJobs, RqTypes
  <1>8. InOrder'
    BY <1>1, <1>7 DEF RqInv, InOrder
  <1>9. ~InWorker' /\ (InEvents' <=> InEvents \/ InWorker) /\ (InWorker <=> rqWorker[1].number # Other)
    BY <1>3, <1>4, <1>5 DEF InEvents, InWorker
  <1>10. AtTheWorker'
    <2>1. AtTheWorker
      BY DEF RqInv
    <2>2. \A i \in 1..Len(rqEvents') : rqEvents'[i].number \in {Other, Done + 1}
      <3>1. rqWorker[1].number \in {Other, Done + 1}
        BY <1>3, <2>1 DEF AtTheWorker
      <3> QED
        BY <1>4, <2>1, <3>1 DEF AtTheWorker
    <2>3. \A i, j \in 1..Len(rqEvents') :
             rqEvents'[i].number # Other /\ rqEvents'[j].number # Other => i = j
      <3>1. CASE InWorker
        <4>1. \A i \in 1..Len(rqEvents) : rqEvents[i].number = Other
          BY <2>1, <3>1 DEF AtTheWorker, InEvents
        <4> QED
          BY <1>4, <4>1
      <3>2. CASE ~InWorker
        <4>1. rqEvents'[Len(rqEvents) + 1].number = Other
          BY <1>4, <1>9, <3>2
        <4> QED
          BY <1>4, <2>1, <4>1 DEF AtTheWorker
      <3> QED
        BY <3>1, <3>2
    <2> QED
      BY <1>1, <1>5, <1>7, <1>9, <2>1, <2>2, <2>3 DEF AtTheWorker
  <1>11. Budget'
    BY <1>1, BudgetStays DEF RqInv
  <1> QED
    BY <1>6, <1>8, <1>10, <1>11 DEF RqInv

\* The worker ends with what it held.
LEMMA Stops == ASSUME RqInv, RqStop PROVE RqInv'
  <1>1. /\ rqGone' = TRUE /\ rqWorker' = <<>> /\ rqJobs' = <<>>
        /\ UNCHANGED <<rqInFlight, rqWaiting, rqBytes, rqFailed, rqEvents, rqCost, rqAnswers,
                       rqAdvancing>>
    BY DEF RqStop
  <1>2. Len(rqWorker') = 0 /\ Len(rqJobs') = 0 /\ rqWorker' \in Seq(Results) /\ rqJobs' \in Seq(Nat)
    BY <1>1
  <1>3. RqTypes'
    BY <1>1, <1>2 DEF RqInv, RqTypes
  <1>4. UNCHANGED <<Done, Pend, InEvents>> /\ ~InWorker' /\ ~InJobs'
    BY <1>1, <1>2 DEF Done, Pend, InEvents, InWorker, InJobs
  <1>5. InOrder'
    BY <1>1, <1>4 DEF RqInv, InOrder
  <1>6. AtTheWorker'
    BY <1>1, <1>2, <1>4 DEF RqInv, AtTheWorker
  <1>7. Budget'
    BY <1>1, BudgetStays DEF RqInv
  <1> QED
    BY <1>3, <1>5, <1>6, <1>7 DEF RqInv

LEMMA NothingMoves == ASSUME RqInv, RqShutdown \/ UNCHANGED rqVars PROVE RqInv'
  <1>1. UNCHANGED <<rqInFlight, rqWaiting, rqBytes, rqFailed, rqJobs, rqWorker, rqEvents, rqCost,
                    rqAnswers, rqAdvancing, rqGone>>
    BY DEF RqShutdown, rqVars
  <1>2. RqTypes' /\ InOrder' /\ Budget'
    BY <1>1, BudgetStays DEF RqInv, RqTypes, InOrder, Done, Pend
  <1>3. AtTheWorker'
    BY <1>1 DEF RqInv, AtTheWorker, Done, Pend, InJobs, InWorker, InEvents
  <1> QED
    BY <1>2, <1>3 DEF RqInv

-----------------------------------------------------------------------------
(* The caller. *)

\* A failure kept by the engine: the request behind the answered ones.
LEMMA TakesFailure == ASSUME RqInv, RqTakeFailure PROVE RqInv'
  <1>1. /\ ~rqAdvancing /\ rqFailed # <<>> /\ rqFailed' = Tail(rqFailed)
        /\ rqAnswers' = Append(rqAnswers, Head(rqFailed).number)
        /\ UNCHANGED <<rqInFlight, rqWaiting, rqBytes, rqJobs, rqWorker, rqEvents, rqCost,
                       rqAdvancing, rqGone>>
    BY DEF RqTakeFailure
  <1>2. RqTypes /\ InOrder /\ AtTheWorker /\ Budget
    BY DEF RqInv
  <1>3. /\ rqFailed' \in Seq(Results) /\ Len(rqFailed) \in Nat \ {0}
        /\ Len(rqFailed') = Len(rqFailed) - 1
        /\ \A i \in 1..(Len(rqFailed) - 1) : rqFailed'[i] = rqFailed[i + 1]
        /\ Head(rqFailed) \in Results /\ Head(rqFailed) = rqFailed[1]
    BY <1>1, <1>2, Shorter DEF RqTypes
  <1>4. Head(rqFailed).number = Len(rqAnswers) + 1 /\ Head(rqFailed).number \in Nat
    BY <1>2, <1>3 DEF InOrder, Results
  <1>5. /\ rqAnswers' \in Seq(Nat) /\ Len(rqAnswers) \in Nat /\ Len(rqAnswers') = Len(rqAnswers) + 1
        /\ \A i \in 1..Len(rqAnswers) : rqAnswers'[i] = rqAnswers[i]
        /\ rqAnswers'[Len(rqAnswers) + 1] = Len(rqAnswers) + 1
    BY <1>1, <1>2, <1>4, Longer DEF RqTypes
  <1>6. RqTypes'
    BY <1>1, <1>2, <1>3, <1>5 DEF RqTypes
  <1>7. UNCHANGED <<Done, Pend>>
    BY <1>1, <1>3, <1>5 DEF Done, Pend
  <1>8. InOrder'
    <2>1. \A i \in 1..Len(rqAnswers') : rqAnswers'[i] = i
      BY <1>2, <1>5 DEF InOrder
    <2>2. \A i \in 1..Len(rqFailed') : rqFailed'[i].number = Len(rqAnswers') + i
      <3> SUFFICES ASSUME NEW i \in 1..Len(rqFailed') PROVE rqFailed'[i].number = Len(rqAnswers') + i
        OBVIOUS
      <3>1. i + 1 \in 1..Len(rqFailed) /\ rqFailed'[i] = rqFailed[i + 1]
        BY <1>3
      <3> QED
        BY <1>2, <1>5, <3>1 DEF InOrder
    <2> QED
      BY <1>1, <1>2, <1>7, <2>1, <2>2 DEF InOrder
  <1>9. AtTheWorker'
    BY <1>1, <1>2, <1>7 DEF AtTheWorker, InJobs, InWorker, InEvents
  <1>10. Budget'
    BY <1>1, <1>2, BudgetStays
  <1> QED
    BY <1>6, <1>8, <1>9, <1>10 DEF RqInv

\* An answer of the worker, or an event of another kind.
LEMMA TakesEvent == ASSUME RqInv, RqTakeEvent PROVE RqInv'
  <1> DEFINE n == Head(rqEvents).number
  <1>1. /\ ~rqAdvancing /\ rqFailed = <<>> /\ rqEvents # <<>> /\ rqEvents' = Tail(rqEvents)
        /\ rqAdvancing' = (n # Other)
        /\ rqAnswers' = IF n = Other THEN rqAnswers ELSE Append(rqAnswers, n)
        /\ UNCHANGED <<rqInFlight, rqWaiting, rqBytes, rqFailed, rqJobs, rqWorker, rqCost, rqGone>>
    BY DEF RqTakeEvent, RqIsResponse
  <1>2. RqTypes /\ InOrder /\ AtTheWorker /\ Budget
    BY DEF RqInv
  <1>3. /\ rqEvents' \in Seq(Results) /\ Len(rqEvents) \in Nat \ {0}
        /\ Len(rqEvents') = Len(rqEvents) - 1
        /\ \A i \in 1..(Len(rqEvents) - 1) : rqEvents'[i] = rqEvents[i + 1]
        /\ Head(rqEvents) \in Results /\ Head(rqEvents) = rqEvents[1]
    BY <1>1, <1>2, Shorter DEF RqTypes
  <1>4. /\ n \in Nat /\ Len(rqAnswers) \in Nat /\ Len(rqFailed) = 0 /\ Done = Len(rqAnswers)
        /\ n \in {Other, Len(rqAnswers) + 1}
    BY <1>1, <1>2, <1>3 DEF RqTypes, Results, Done, AtTheWorker
  <1>5. n # Other => InEvents
    BY <1>3 DEF InEvents
  <1>6. \A i \in 1..Len(rqEvents') : rqEvents'[i] = rqEvents[i + 1] /\ i + 1 \in 1..Len(rqEvents)
    BY <1>3
  <1>7. InEvents' => InEvents /\ n = Other
    <2> SUFFICES ASSUME NEW i \in 1..Len(rqEvents'), rqEvents'[i].number # Other
                 PROVE  InEvents /\ n = Other
      BY DEF InEvents
    <2>1. i + 1 \in 1..Len(rqEvents) /\ 1 \in 1..Len(rqEvents) /\ i + 1 # 1
          /\ rqEvents[i + 1].number # Other
      BY <1>3, <1>6
    <2>2. rqEvents[1].number = Other
      BY <1>2, <2>1 DEF AtTheWorker
    <2> QED
      BY <1>3, <2>1, <2>2 DEF InEvents
  <1>8. n = Other /\ InEvents => InEvents'
    <2> SUFFICES ASSUME n = Other, NEW i \in 1..Len(rqEvents), rqEvents[i].number # Other
                 PROVE  InEvents'
      BY DEF InEvents
    <2>1. i - 1 \in 1..Len(rqEvents') /\ rqEvents'[i - 1] = rqEvents[i]
      BY <1>3
    <2> QED
      BY <2>1 DEF InEvents
  <1>9. UNCHANGED <<InJobs, InWorker>>
    BY <1>1 DEF InJobs, InWorker
  <1> HIDE DEF n
  <1>10. /\ \A i \in 1..Len(rqEvents') : rqEvents'[i].number \in {Other, Done + 1}
         /\ \A i, j \in 1..Len(rqEvents') :
               rqEvents'[i].number # Other /\ rqEvents'[j].number # Other => i = j
    <2>1. \A i \in 1..Len(rqEvents') : rqEvents'[i].number \in {Other, Done + 1}
      BY <1>2, <1>6 DEF AtTheWorker
    <2>2. ASSUME NEW i \in 1..Len(rqEvents'), NEW j \in 1..Len(rqEvents'),
                 rqEvents'[i].number # Other, rqEvents'[j].number # Other
          PROVE  i = j
      <3>1. i + 1 \in 1..Len(rqEvents) /\ j + 1 \in 1..Len(rqEvents)
            /\ rqEvents[i + 1].number # Other /\ rqEvents[j + 1].number # Other
        BY <1>6, <2>2
      <3>2. i + 1 = j + 1
        BY <1>2, <3>1 DEF AtTheWorker
      <3> QED
        BY <3>2
    <2> QED
      BY <2>1, <2>2
  <1>11. CASE n = Other
    <2>1. UNCHANGED <<rqAnswers, Done, Pend>> /\ rqAdvancing' = FALSE
      BY <1>1, <1>2, <1>11 DEF Done, Pend, RqTypes
    <2>2. RqTypes'
      BY <1>1, <1>2, <1>3, <2>1 DEF RqTypes
    <2>3. InOrder'
      BY <1>1, <1>2, <2>1 DEF InOrder
    <2>4. AtTheWorker'
      BY <1>1, <1>2, <1>7, <1>8, <1>9, <1>10, <1>11, <2>1 DEF AtTheWorker
    <2> QED
      BY <1>1, <1>2, <2>2, <2>3, <2>4, BudgetStays DEF RqInv
  <1>12. CASE n # Other
    <2>1. /\ rqAnswers' \in Seq(Nat) /\ Len(rqAnswers') = Len(rqAnswers) + 1
          /\ \A i \in 1..Len(rqAnswers) : rqAnswers'[i] = rqAnswers[i]
          /\ rqAnswers'[Len(rqAnswers) + 1] = Len(rqAnswers) + 1
      BY <1>1, <1>2, <1>4, <1>12, Longer DEF RqTypes
    <2>2. rqAdvancing' = TRUE /\ rqInFlight /\ Pend = 1 /\ Pend' = 0 /\ Done' = Done + 1
      <3>1. Pend = 1
        BY <1>2, <1>5, <1>12 DEF AtTheWorker
      <3>2. rqAdvancing' = TRUE
        BY <1>1, <1>12
      <3>4. rqInFlight
        BY <3>1 DEF Pend
      <3>3. Done' = Done + 1
        BY <1>1, <1>4, <2>1 DEF Done
      <3> QED
        BY <3>1, <3>2, <3>3, <3>4 DEF Pend
    <2>3. RqTypes'
      BY <1>1, <1>2, <1>3, <2>1, <2>2 DEF RqTypes
    <2>4. InOrder'
      <3>1. \A i \in 1..Len(rqAnswers') : rqAnswers'[i] = i
        BY <1>2, <1>4, <2>1 DEF InOrder
      <3>2. \A i \in 1..Len(rqFailed') : rqFailed'[i].number = Len(rqAnswers') + i
        BY <1>1, <1>4
      <3> QED
        BY <1>1, <1>2, <1>4, <2>2, <3>1, <3>2 DEF InOrder
    <2>5. AtTheWorker'
      <3>1. ~InJobs' /\ ~InWorker' /\ ~InEvents'
        BY <1>2, <1>5, <1>7, <1>9, <1>12 DEF AtTheWorker
      <3>2. /\ \A i \in 1..Len(rqJobs') : rqJobs'[i] = Other
            /\ \A i \in 1..Len(rqWorker') : rqWorker'[i].number = Other
            /\ \A i \in 1..Len(rqEvents') : rqEvents'[i].number = Other
        BY <3>1 DEF InJobs, InWorker, InEvents
      <3> QED
        BY <2>2, <3>1, <3>2 DEF AtTheWorker
    <2> QED
      BY <1>1, <1>2, <2>3, <2>4, <2>5, BudgetStays DEF RqInv
  <1> QED
    BY <1>11, <1>12

\* The queue advances: the first that waits is the next in order, and its cost is given back.
LEMMA Pops ==
    ASSUME RqInv, RqPop, UNCHANGED rqCost
    PROVE  /\ rqAdvancing /\ rqInFlight /\ Pend = 0 /\ Done \in Nat
           /\ rqWaiting' \in Seq(Nat) /\ Len(rqWaiting) \in Nat \ {0}
           /\ Len(rqWaiting') = Len(rqWaiting) - 1
           /\ Head(rqWaiting) = Done + 1 /\ Len(rqCost) = Done + 1 + Len(rqWaiting')
           /\ \A i \in 1..Len(rqWaiting') : rqWaiting'[i] = Done + 1 + i
           /\ Budget'
  <1>1. /\ rqAdvancing /\ rqWaiting # <<>> /\ rqWaiting' = Tail(rqWaiting)
        /\ rqBytes' = rqBytes - rqCost[Head(rqWaiting)]
    BY DEF RqPop
  <1>2. RqTypes /\ InOrder /\ Budget
    BY DEF RqInv
  <1>3. /\ rqWaiting' \in Seq(Nat) /\ Len(rqWaiting) \in Nat \ {0}
        /\ Len(rqWaiting') = Len(rqWaiting) - 1
        /\ \A i \in 1..(Len(rqWaiting) - 1) : rqWaiting'[i] = rqWaiting[i + 1]
        /\ Head(rqWaiting) = rqWaiting[1]
    BY <1>1, <1>2, Shorter DEF RqTypes
  <1>4. rqInFlight /\ Pend = 0 /\ Done \in Nat /\ Len(rqCost) \in Nat
    BY <1>1, <1>2 DEF InOrder, Pend, Done, RqTypes
  <1>5. \A i \in 1..Len(rqWaiting) : rqWaiting[i] = Done + i
    BY <1>2, <1>4 DEF InOrder
  <1>6. Head(rqWaiting) = Done + 1 /\ Len(rqCost) = Done + 1 + Len(rqWaiting')
    BY <1>2, <1>3, <1>4, <1>5 DEF InOrder
  <1>7. \A i \in 1..Len(rqWaiting') : rqWaiting'[i] = Done + 1 + i
    <2> SUFFICES ASSUME NEW i \in 1..Len(rqWaiting') PROVE rqWaiting'[i] = Done + 1 + i
      OBVIOUS
    <2>1. i + 1 \in 1..Len(rqWaiting) /\ rqWaiting'[i] = rqWaiting[i + 1]
      BY <1>3
    <2>2. rqWaiting[i + 1] = Done + (i + 1)
      BY <1>5, <2>1
    <2> QED
      BY <1>4, <2>1, <2>2
  <1>8. Budget'
    <2>1. DOMAIN rqWaiting = 1..Len(rqWaiting) /\ DOMAIN rqWaiting' = 1..Len(rqWaiting')
          /\ DOMAIN rqCost = 1..Len(rqCost)
      BY <1>2, <1>3 DEF RqTypes
    <2>2. \A n : InQueue(rqWaiting, n) <=> InQueue(rqWaiting', n) \/ n = Done + 1
      <3>1. \A i \in 1..Len(rqWaiting') : i + 1 \in 1..Len(rqWaiting) /\ rqWaiting'[i] = rqWaiting[i + 1]
        BY <1>3
      <3>2. \A n : InQueue(rqWaiting', n) => InQueue(rqWaiting, n)
        BY <3>1 DEF InQueue
      <3>3. InQueue(rqWaiting, Done + 1)
        BY <1>3, <1>6 DEF InQueue
      <3>4. ASSUME NEW i \in 1..Len(rqWaiting), rqWaiting[i] # Done + 1
            PROVE  InQueue(rqWaiting', rqWaiting[i])
        <4>1. i # 1
          BY <1>3, <1>6, <3>4
        <4>2. i - 1 \in 1..Len(rqWaiting') /\ rqWaiting'[i - 1] = rqWaiting[i]
          BY <1>3, <4>1
        <4> QED
          BY <4>2 DEF InQueue
      <3>5. \A n : InQueue(rqWaiting, n) => InQueue(rqWaiting', n) \/ n = Done + 1
        BY <3>4 DEF InQueue
      <3> QED
        BY <3>2, <3>3, <3>5
    <2>3. ~InQueue(rqWaiting', Done + 1)
      <3> SUFFICES ASSUME NEW i \in 1..Len(rqWaiting') PROVE rqWaiting'[i] # Done + 1
        BY DEF InQueue
      <3>1. i \in Nat \ {0} /\ rqWaiting'[i] = Done + 1 + i
        BY <1>3, <1>7
      <3> QED
        BY <1>4, <3>1
    <2>4. /\ \A n : n \in RqLarge <=> n \in DOMAIN rqCost /\ rqCost[n] = 2 /\ InQueue(rqWaiting, n)
          /\ \A n : n \in RqLarge' <=> n \in DOMAIN rqCost /\ rqCost[n] = 2 /\ InQueue(rqWaiting', n)
      BY <2>1 DEF RqLarge, InQueue
    <2>5. Done + 1 \in DOMAIN rqCost /\ rqCost[Done + 1] \in {0, 2}
      BY <1>2, <1>3, <1>4, <1>6, <2>1 DEF RqTypes
    <2>6. rqBytes' = rqBytes - rqCost[Done + 1]
      BY <1>1, <1>6
    <2>7. IsFiniteSet(RqLarge) /\ rqBytes = 2 * Cardinality(RqLarge) /\ Cardinality(RqLarge) \in Nat
      BY <1>2, FS_CardinalityType DEF Budget
    <2>8. CASE rqCost[Done + 1] = 0
      <3>1. \A n : n \in RqLarge' <=> n \in RqLarge
        BY <2>2, <2>4, <2>8
      <3>2. RqLarge' = RqLarge
        BY <3>1
      <3> QED
        BY <2>6, <2>7, <2>8, <3>2 DEF Budget
    <2>9. CASE rqCost[Done + 1] = 2
      <3>1. \A n : n \in RqLarge' <=> n \in RqLarge /\ n # Done + 1
        BY <2>2, <2>3, <2>4
      <3>2. RqLarge' = RqLarge \ {Done + 1} /\ Done + 1 \in RqLarge
        BY <2>2, <2>4, <2>5, <2>9, <3>1
      <3>3. IsFiniteSet(RqLarge') /\ Cardinality(RqLarge') = Cardinality(RqLarge) - 1
        BY <2>7, <3>2, FS_RemoveElement
      <3> QED
        BY <2>6, <2>7, <2>9, <3>3 DEF Budget
    <2> QED
      BY <2>5, <2>8, <2>9
  <1> QED
    BY <1>1, <1>3, <1>4, <1>6, <1>7, <1>8

LEMMA NobodyThere ==
    ASSUME RqInv, rqAdvancing
    PROVE  /\ ~InJobs /\ ~InWorker /\ ~InEvents
           /\ \A i \in 1..Len(rqJobs) : rqJobs[i] = Other
           /\ \A i \in 1..Len(rqWorker) : rqWorker[i].number = Other
           /\ \A i \in 1..Len(rqEvents) : rqEvents[i].number = Other
  <1>1. ~InJobs /\ ~InWorker /\ ~InEvents
    BY DEF RqInv, AtTheWorker, Pend
  <1> QED
    BY <1>1 DEF InJobs, InWorker, InEvents

\* The next request goes to the worker.
LEMMA Passes == ASSUME RqInv, RqPass PROVE RqInv'
  <1>1. /\ RqPop /\ rqJobs' = Append(rqJobs, Head(rqWaiting)) /\ rqAdvancing' = FALSE
        /\ UNCHANGED <<rqInFlight, rqFailed, rqWorker, rqEvents, rqCost, rqAnswers, rqGone>>
    BY DEF RqPass
  <1>2. RqTypes /\ InOrder /\ AtTheWorker
    BY DEF RqInv
  <1>3. /\ rqAdvancing /\ rqInFlight /\ Pend = 0 /\ Done \in Nat
        /\ rqWaiting' \in Seq(Nat) /\ Len(rqWaiting) \in Nat \ {0}
        /\ Len(rqWaiting') = Len(rqWaiting) - 1
        /\ Head(rqWaiting) = Done + 1 /\ Len(rqCost) = Done + 1 + Len(rqWaiting')
        /\ \A i \in 1..Len(rqWaiting') : rqWaiting'[i] = Done + 1 + i
        /\ Budget'
    BY <1>1, Pops
  <1>4. /\ rqJobs' \in Seq(Nat) /\ Len(rqJobs) \in Nat /\ Len(rqJobs') = Len(rqJobs) + 1
        /\ \A i \in 1..Len(rqJobs) : rqJobs'[i] = rqJobs[i]
        /\ rqJobs'[Len(rqJobs) + 1] = Done + 1
    BY <1>1, <1>2, <1>3, Longer DEF RqTypes
  <1>5. RqTypes'
    BY <1>1, <1>2, <1>3, <1>4 DEF RqTypes
  <1>6. UNCHANGED Done /\ Pend' = 1
    BY <1>1, <1>3 DEF Done, Pend
  <1>7. InOrder'
    BY <1>1, <1>2, <1>3, <1>6 DEF InOrder
  <1>8. AtTheWorker'
    <2>1. /\ ~InJobs /\ ~InWorker /\ ~InEvents
          /\ \A i \in 1..Len(rqJobs) : rqJobs[i] = Other
      BY <1>3, NobodyThere
    <2>2. ~InWorker' /\ ~InEvents'
      BY <1>1, <2>1 DEF InWorker, InEvents
    <2>3. InJobs'
      BY <1>3, <1>4 DEF InJobs, Other
    <2> QED
      BY <1>1, <1>2, <1>4, <1>6, <2>1, <2>2, <2>3 DEF AtTheWorker
  <1> QED
    BY <1>3, <1>5, <1>7, <1>8 DEF RqInv

\* It fails in the engine, behind those that failed before it.
LEMMA Fails == ASSUME RqInv, RqFail PROVE RqInv'
  <1> DEFINE x == [number |-> Head(rqWaiting), failed |-> TRUE]
  <1>1. /\ RqPop /\ rqFailed' = Append(rqFailed, x)
        /\ UNCHANGED <<rqInFlight, rqJobs, rqWorker, rqEvents, rqCost, rqAnswers, rqAdvancing, rqGone>>
    BY DEF RqFail
  <1>2. RqTypes /\ InOrder /\ AtTheWorker
    BY DEF RqInv
  <1>3. /\ rqAdvancing /\ rqInFlight /\ Pend = 0 /\ Done \in Nat
        /\ rqWaiting' \in Seq(Nat) /\ Len(rqWaiting) \in Nat \ {0}
        /\ Len(rqWaiting') = Len(rqWaiting) - 1
        /\ Head(rqWaiting) = Done + 1 /\ Len(rqCost) = Done + 1 + Len(rqWaiting')
        /\ \A i \in 1..Len(rqWaiting') : rqWaiting'[i] = Done + 1 + i
        /\ Budget'
    BY <1>1, Pops
  <1>4. x \in Results /\ x.number = Done + 1
    BY <1>3 DEF Results
  <1> HIDE DEF x
  <1>5. /\ rqFailed' \in Seq(Results) /\ Len(rqFailed) \in Nat /\ Len(rqFailed') = Len(rqFailed) + 1
        /\ \A i \in 1..Len(rqFailed) : rqFailed'[i] = rqFailed[i]
        /\ rqFailed'[Len(rqFailed) + 1] = x
    BY <1>1, <1>2, <1>4, Longer DEF RqTypes
  <1>6. RqTypes'
    BY <1>1, <1>2, <1>3, <1>5 DEF RqTypes
  <1>7. Done' = Done + 1 /\ Pend' = 0 /\ Done = Len(rqAnswers) + Len(rqFailed) /\ Len(rqAnswers) \in Nat
    BY <1>1, <1>2, <1>3, <1>5 DEF Done, Pend, RqTypes
  <1>8. InOrder'
    <2>1. \A i \in 1..Len(rqFailed') : rqFailed'[i].number = Len(rqAnswers') + i
      <3> SUFFICES ASSUME NEW i \in 1..Len(rqFailed') PROVE rqFailed'[i].number = Len(rqAnswers') + i
        OBVIOUS
      <3>1. CASE i \in 1..Len(rqFailed)
        BY <1>1, <1>2, <1>5, <3>1 DEF InOrder
      <3>2. CASE i = Len(rqFailed) + 1
        BY <1>1, <1>4, <1>5, <1>7, <3>2
      <3> QED
        BY <1>5, <3>1, <3>2
    <2>2. \A i \in 1..Len(rqWaiting') : rqWaiting'[i] = Done' + Pend' + i
      BY <1>3, <1>7
    <2>3. Len(rqCost') = Done' + Pend' + Len(rqWaiting')
      BY <1>1, <1>3, <1>7
    <2> QED
      BY <1>1, <1>2, <1>3, <2>1, <2>2, <2>3 DEF InOrder
  <1>9. AtTheWorker'
    <2>1. /\ ~InJobs /\ ~InWorker /\ ~InEvents
          /\ \A i \in 1..Len(rqJobs) : rqJobs[i] = Other
          /\ \A i \in 1..Len(rqWorker) : rqWorker[i].number = Other
          /\ \A i \in 1..Len(rqEvents) : rqEvents[i].number = Other
      BY <1>3, NobodyThere
    <2>2. ~InJobs' /\ ~InWorker' /\ ~InEvents'
      BY <1>1, <2>1 DEF InJobs, InWorker, InEvents
    <2> QED
      BY <1>1, <1>7, <2>1, <2>2 DEF AtTheWorker
  <1> QED
    BY <1>3, <1>6, <1>8, <1>9 DEF RqInv

\* None is left.
LEMMA ComesToRest == ASSUME RqInv, RqRest PROVE RqInv'
  <1>1. /\ rqAdvancing /\ rqWaiting = <<>> /\ rqAdvancing' = FALSE /\ rqInFlight' = FALSE
        /\ UNCHANGED <<rqWaiting, rqBytes, rqFailed, rqJobs, rqWorker, rqEvents, rqCost, rqAnswers, rqGone>>
    BY DEF RqRest
  <1>2. RqTypes /\ InOrder /\ AtTheWorker /\ Budget
    BY DEF RqInv
  <1>3. RqTypes'
    BY <1>1, <1>2 DEF RqTypes
  <1>4. UNCHANGED Done /\ Pend = 0 /\ Pend' = 0 /\ Len(rqWaiting') = 0
    BY <1>1 DEF Done, Pend
  <1>5. InOrder'
    BY <1>1, <1>2, <1>4 DEF InOrder
  <1>6. AtTheWorker'
    <2>1. ~InJobs /\ ~InWorker /\ ~InEvents
      BY <1>1, NobodyThere
    <2>2. ~InJobs' /\ ~InWorker' /\ ~InEvents'
      BY <1>1, <2>1 DEF InJobs, InWorker, InEvents
    <2> QED
      BY <1>1, <1>2, <1>4, <2>2 DEF AtTheWorker
  <1>7. Budget'
    BY <1>1, <1>2, BudgetStays
  <1> QED
    BY <1>3, <1>5, <1>6, <1>7 DEF RqInv

LEMMA QueueSteps == RqInv /\ [RqNext]_rqVars => RqInv'
  <1> SUFFICES ASSUME RqInv, [RqNext]_rqVars PROVE RqInv'
    OBVIOUS
  <1>1. CASE \E cost \in {0, 2} : RqSubmit(cost)
    <2>1. PICK cost \in {0, 2} : RqSubmit(cost)
      BY <1>1
    <2> QED
      BY <2>1, Waits, Sends DEF RqSubmit
  <1>2. CASE RqOtherJob \/ RqWork \/ RqReply \/ RqStop \/ RqShutdown \/ UNCHANGED rqVars
    BY <1>2, OtherJobs, Works, Replies, Stops, NothingMoves
  <1>3. CASE RqRead
    BY <1>3, TakesFailure, TakesEvent, Passes, Fails, ComesToRest DEF RqRead
  <1> QED
    BY <1>1, <1>2, <1>3 DEF RqNext

\* The requests answered, failed in the engine, with the worker and waiting follow one another
\* without a gap (core/src/recovery.rs).
THEOREM QueueInv == RqSpec => []RqInv
  <1>1. RqInit => RqInv
    BY QueueInit
  <1> QED
    BY <1>1, QueueSteps, PTL DEF RqSpec

\* Requests are answered in the order in which they were accepted, none twice and none skipped;
\* the queue knows whether one is with the worker, and its byte budget is what waits.
THEOREM AnsweredInOrder == RqSpec => []RqAnsweredInOrder
  <1>1. RqInv => RqAnsweredInOrder
    <2> SUFFICES ASSUME RqInv PROVE RqAnsweredInOrder
      OBVIOUS
    <2>1. RqTypes /\ InOrder /\ AtTheWorker /\ Budget
      BY DEF RqInv
    <2>2. /\ DOMAIN rqAnswers = 1..Len(rqAnswers) /\ DOMAIN rqJobs = 1..Len(rqJobs)
          /\ DOMAIN rqWorker = 1..Len(rqWorker) /\ DOMAIN rqEvents = 1..Len(rqEvents)
          /\ DOMAIN rqWaiting = 1..Len(rqWaiting) /\ Done \in Nat /\ Len(rqWaiting) \in Nat
      BY <2>1 DEF RqTypes, Done
    <2>3. \A i \in DOMAIN rqAnswers : rqAnswers[i] = i
      BY <2>1, <2>2 DEF InOrder
    <2>4. RqOutstanding \subseteq {Done + 1}
      BY <2>1, <2>2 DEF RqOutstanding, AtTheWorker, Other
    <2>5. Cardinality(RqOutstanding) <= 1
      <3>1. IsFiniteSet({Done + 1}) /\ Cardinality({Done + 1}) = 1
        BY FS_Singleton
      <3>2. Cardinality(RqOutstanding) <= Cardinality({Done + 1})
        BY <2>4, <3>1, FS_Subset
      <3> QED
        BY <3>1, <3>2
    <2>6. Pend = 1 => Done + 1 \in 1..RqRequests
      BY <2>1, <2>2 DEF InOrder
    <2>7. RqOutstanding # {} => InJobs \/ InWorker \/ InEvents
      BY <2>2 DEF RqOutstanding, InJobs, InWorker, InEvents, Other
    <2>8. ASSUME Pend = 1, InJobs \/ InWorker \/ InEvents PROVE Done + 1 \in RqOutstanding
      <3>1. CASE InJobs
        <4>1. \E i \in 1..Len(rqJobs) : rqJobs[i] = Done + 1
          BY <2>1, <3>1 DEF InJobs, AtTheWorker
        <4> QED
          BY <2>2, <2>6, <2>8, <4>1 DEF RqOutstanding
      <3>2. CASE InWorker
        <4>1. \E i \in 1..Len(rqWorker) : rqWorker[i].number = Done + 1
          BY <2>1, <3>2 DEF InWorker, AtTheWorker
        <4> QED
          BY <2>2, <2>6, <2>8, <4>1 DEF RqOutstanding
      <3>3. CASE InEvents
        <4>1. \E i \in 1..Len(rqEvents) : rqEvents[i].number = Done + 1
          BY <2>1, <3>3 DEF InEvents, AtTheWorker
        <4> QED
          BY <2>2, <2>6, <2>8, <4>1 DEF RqOutstanding
      <3> QED
        BY <2>8, <3>1, <3>2, <3>3
    <2>9. ~rqGone /\ ~rqAdvancing => (rqInFlight <=> RqOutstanding # {})
      BY <2>1, <2>7, <2>8 DEF AtTheWorker, Pend
    <2>10. ~rqInFlight => rqWaiting = <<>>
      BY <2>1 DEF InOrder, RqTypes
    <2> QED
      BY <2>1, <2>3, <2>5, <2>9, <2>10 DEF RqAnsweredInOrder, Budget
  <1> QED
    BY <1>1, QueueInv, PTL
=============================================================================
