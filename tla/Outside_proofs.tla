--------------------------- MODULE Outside_proofs ---------------------------
(***************************************************************************)
(* What is outside of the actor of a connection.  What an approval of a    *)
(* host key reports is so, for any number of approvals and keys and        *)
(* whatever other programs write; connections with one key share one       *)
(* master or listener, for any number of connections and keys and whatever *)
(* dies or is invalidated; and every lease of a page that the bridge gave  *)
(* to the window has one owner, for any lengths of the queues, any budget  *)
(* of a tick, and however the drains nest.                                 *)
(***************************************************************************)
EXTENDS HostTrust, SshSharing, PageTransfer, SequenceTheorems, FiniteSetTheorems, TLAPS

-----------------------------------------------------------------------------
(* The leases of pages.                                                    *)

USE PtAssumption

\* The books of a table of leases: each is held by the window, waits in a drain for its event to
\* be dispatched, or was taken by a drain; what the window holds of a drain's was retained, and
\* not given back yet.
Books(leases, transfers, retained, released, holding, waiting) ==
    /\ transfers \subseteq leases /\ retained \subseteq transfers /\ released \subseteq transfers
    /\ waiting \subseteq leases /\ waiting \cap transfers = {} /\ waiting \cap holding = {}
    /\ holding \subseteq leases /\ holding \cap transfers \subseteq retained \ released
    /\ leases \subseteq holding \cup waiting \cup (transfers \ (retained \ released))

\* What the window gives back goes out of the table, or is marked released when a drain has it.
LEMMA BooksGiveBack ==
    ASSUME NEW L, NEW T, NEW R, NEW X, NEW H, NEW W, Books(L, T, R, X, H, W), NEW D \in SUBSET H
    PROVE  Books(L \ (D \ T), T, R, X \cup (D \cap T), H \ D, W)
  BY DEF Books

\* A lease that waited for its event goes to the drain that dispatches it.
LEMMA BooksDispatch ==
    ASSUME NEW L, NEW T, NEW R, NEW X, NEW H, NEW W, Books(L, T, R, X, H, W), NEW D \in SUBSET W
    PROVE  Books(L, T \cup D, R, X, H, W \ D)
  BY DEF Books

\* A handler keeps a lease of its drain for the window.
LEMMA BooksRetain ==
    ASSUME NEW L, NEW T, NEW R, NEW X, NEW H, NEW W, Books(L, T, R, X, H, W), NEW l \in T \ X
    PROVE  Books(L, T, R \cup {l}, X, H \cup {l}, W)
  BY DEF Books

\* The end of a drain: what nobody kept, or what was kept and given back since, goes.
LEMMA BooksDrained ==
    ASSUME NEW L, NEW T, NEW R, NEW X, NEW H, NEW W, Books(L, T, R, X, H, W), NEW D \in SUBSET T
    PROVE  Books(L \ (D \ ((D \cap R) \ X)), T \ D, R \ D, X \ D, H, W)
  BY DEF Books

\* New leases wait for their events.
LEMMA BooksTaken ==
    ASSUME NEW L, NEW T, NEW R, NEW X, NEW H, NEW W, Books(L, T, R, X, H, W), NEW N, N \cap L = {}
    PROVE  Books(L \cup N, T, R, X, H, W \cup N)
  BY DEF Books

-----------------------------------------------------------------------------
(* Members of a set in a sequence, and in the sequences of the drains.     *)

Has(s, S) == \E i \in DOMAIN s : s[i] \in S
Once(s, S) == \A i, j \in DOMAIN s : s[i] \in S /\ s[j] \in S => i = j
Drawn(drains, S) == \E i \in DOMAIN drains : Has(drains[i].events, S)
DrawnOnce(drains, S) ==
    /\ \A i \in DOMAIN drains : Once(drains[i].events, S)
    /\ \A i, k \in DOMAIN drains : Has(drains[i].events, S) /\ Has(drains[k].events, S) => i = k

\* The empty sequence has nothing.
LEMMA EmptyHas == \A S : ~Has(<<>>, S) /\ Once(<<>>, S)
  BY DEF Has, Once

\* A sequence of one event has what that event is.
LEMMA SingleHas == \A e, S : (Has(<<e>>, S) <=> e \in S) /\ Once(<<e>>, S)
  BY DEF Has, Once

\* A concatenation has what either part has, and once when only one of them has it, once.
LEMMA ConcatHas ==
    ASSUME NEW X, NEW s \in Seq(X), NEW t \in Seq(X), NEW S
    PROVE  /\ Has(s \o t, S) <=> Has(s, S) \/ Has(t, S)
           /\ Once(s \o t, S) <=> Once(s, S) /\ Once(t, S) /\ ~(Has(s, S) /\ Has(t, S))
  <1>1. PICK u : u = s \o t
    OBVIOUS
  <1>2. PICK m : m = Len(s)
    OBVIOUS
  <1>3. PICK n : n = Len(t)
    OBVIOUS
  <1>4. m \in Nat /\ n \in Nat /\ DOMAIN s = 1 .. m /\ DOMAIN t = 1 .. n /\ DOMAIN u = 1 .. m + n
    BY <1>1, <1>2, <1>3, ConcatProperties, LenProperties
  <1>5. \A i \in 1 .. m : u[i] = s[i]
    BY <1>1, <1>2, <1>3, <1>4, ConcatProperties
  <1>6. \A i \in 1 .. n : u[m + i] = t[i]
    BY <1>1, <1>2, <1>3, <1>4, ConcatProperties
  <1>7. \A i \in 1 .. m + n : i \in 1 .. m \/ (\E k \in 1 .. n : i = m + k)
    <2>1. ASSUME NEW i \in 1 .. m + n, i \notin 1 .. m
          PROVE  i - m \in 1 .. n /\ i = m + (i - m)
      BY <1>4, <2>1
    <2> QED  BY <2>1
  <1>8. Has(u, S) <=> Has(s, S) \/ Has(t, S)
    <2>1. ASSUME Has(u, S)  PROVE Has(s, S) \/ Has(t, S)
      <3>1. PICK i \in 1 .. m + n : u[i] \in S
        BY <2>1, <1>4 DEF Has
      <3>2. CASE i \in 1 .. m
        BY <3>1, <3>2, <1>4, <1>5 DEF Has
      <3>3. CASE i \notin 1 .. m
        <4>1. PICK k \in 1 .. n : i = m + k
          BY <3>3, <1>7
        <4>2. t[k] \in S
          BY <4>1, <3>1, <1>6
        <4> QED  BY <4>2, <1>4 DEF Has
      <3> QED  BY <3>2, <3>3
    <2>2. ASSUME Has(s, S)  PROVE Has(u, S)
      <3>1. PICK i \in 1 .. m : s[i] \in S
        BY <2>2, <1>4 DEF Has
      <3>2. i \in 1 .. m + n
        BY <1>4
      <3> QED  BY <3>1, <3>2, <1>4, <1>5 DEF Has
    <2>3. ASSUME Has(t, S)  PROVE Has(u, S)
      <3>1. PICK i \in 1 .. n : t[i] \in S
        BY <2>3, <1>4 DEF Has
      <3>2. m + i \in 1 .. m + n
        BY <1>4
      <3> QED  BY <3>1, <3>2, <1>4, <1>6 DEF Has
    <2> QED  BY <2>1, <2>2, <2>3
  <1>9. ASSUME Once(u, S)  PROVE Once(s, S) /\ Once(t, S) /\ ~(Has(s, S) /\ Has(t, S))
    <2>1. \A i, j \in 1 .. m + n : u[i] \in S /\ u[j] \in S => i = j
      BY <1>9, <1>4 DEF Once
    <2>2. \A i, j \in 1 .. m : s[i] \in S /\ s[j] \in S => i = j
      BY <2>1, <1>4, <1>5
    <2>3. \A i, j \in 1 .. n : t[i] \in S /\ t[j] \in S => i = j
      <3>1. ASSUME NEW i \in 1 .. n, NEW j \in 1 .. n, t[i] \in S, t[j] \in S
            PROVE  i = j
        <4>1. m + i \in 1 .. m + n /\ m + j \in 1 .. m + n
          BY <1>4
        <4>2. m + i = m + j
          BY <4>1, <2>1, <3>1, <1>6
        <4> QED  BY <4>2, <1>4
      <3> QED  BY <3>1
    <2>4. ASSUME NEW i \in 1 .. m, NEW j \in 1 .. n, s[i] \in S, t[j] \in S
          PROVE  FALSE
      <3>1. i \in 1 .. m + n /\ m + j \in 1 .. m + n /\ i # m + j
        BY <1>4
      <3> QED  BY <3>1, <2>1, <2>4, <1>5, <1>6
    <2> QED  BY <2>2, <2>3, <2>4, <1>4 DEF Once, Has
  <1>10. ASSUME Once(s, S), Once(t, S), ~(Has(s, S) /\ Has(t, S))  PROVE Once(u, S)
    <2>1. \A i, j \in 1 .. m : s[i] \in S /\ s[j] \in S => i = j
      BY <1>10, <1>4 DEF Once
    <2>2. \A i, j \in 1 .. n : t[i] \in S /\ t[j] \in S => i = j
      BY <1>10, <1>4 DEF Once
    <2>3. \A i \in 1 .. m, j \in 1 .. n : ~(s[i] \in S /\ t[j] \in S)
      BY <1>10, <1>4 DEF Has
    <2>4. ASSUME NEW i \in 1 .. m + n, NEW j \in 1 .. m + n, u[i] \in S, u[j] \in S
          PROVE  i = j
      <3>1. CASE i \in 1 .. m /\ j \in 1 .. m
        BY <3>1, <2>1, <2>4, <1>5
      <3>2. CASE i \in 1 .. m /\ j \notin 1 .. m
        BY <3>2, <2>3, <2>4, <1>5, <1>6, <1>7, SMTT(30)
      <3>3. CASE i \notin 1 .. m /\ j \in 1 .. m
        BY <3>3, <2>3, <2>4, <1>5, <1>6, <1>7, SMTT(30)
      <3>4. CASE i \notin 1 .. m /\ j \notin 1 .. m
        BY <3>4, <2>2, <2>4, <1>6, <1>7
      <3> QED  BY <3>1, <3>2, <3>3, <3>4
    <2> QED  BY <2>4, <1>4 DEF Once
  <1> QED  BY <1>1, <1>8, <1>9, <1>10

\* The same of one more element.
LEMMA AppendHas ==
    ASSUME NEW X, NEW s \in Seq(X), NEW e \in X, NEW S
    PROVE  /\ Has(Append(s, e), S) <=> Has(s, S) \/ e \in S
           /\ Once(Append(s, e), S) <=> Once(s, S) /\ ~(Has(s, S) /\ e \in S)
  <1>1. Append(s, e) = s \o <<e>> /\ <<e>> \in Seq(X)
    BY AppendIsConcat
  <1>2. /\ Has(s \o <<e>>, S) <=> Has(s, S) \/ Has(<<e>>, S)
        /\ Once(s \o <<e>>, S) <=> Once(s, S) /\ Once(<<e>>, S) /\ ~(Has(s, S) /\ Has(<<e>>, S))
    BY <1>1, ConcatHas
  <1> QED  BY <1>1, <1>2, SingleHas

\* The same of the head and the rest.
LEMMA HeadHas ==
    ASSUME NEW X, NEW s \in Seq(X), s # <<>>, NEW S
    PROVE  /\ Has(s, S) <=> Head(s) \in S \/ Has(Tail(s), S)
           /\ Once(s, S) <=> Once(Tail(s), S) /\ ~(Head(s) \in S /\ Has(Tail(s), S))
  <1>1. PICK h, t : h = Head(s) /\ t = Tail(s)
    OBVIOUS
  <1>2. h \in X /\ t \in Seq(X) /\ <<h>> \in Seq(X)
    BY <1>1, HeadTailProperties
  <1>3. s = <<h>> \o t
    BY <1>1
  <1>4. /\ Has(<<h>> \o t, S) <=> Has(<<h>>, S) \/ Has(t, S)
        /\ Once(<<h>> \o t, S) <=> Once(<<h>>, S) /\ Once(t, S) /\ ~(Has(<<h>>, S) /\ Has(t, S))
    BY <1>2, ConcatHas
  <1>5. /\ Has(s, S) <=> h \in S \/ Has(t, S)
        /\ Once(s, S) <=> Once(t, S) /\ ~(h \in S /\ Has(t, S))
    BY <1>3, <1>4, SingleHas, Zenon
  <1> QED  BY <1>1, <1>5, Zenon

\* The same of a sequence that is cut in two.
LEMMA SplitHas ==
    ASSUME NEW X, NEW s \in Seq(X), NEW n \in 0 .. Len(s), NEW S
    PROVE  /\ SubSeq(s, 1, n) \in Seq(X) /\ SubSeq(s, n + 1, Len(s)) \in Seq(X)
           /\ Has(s, S) <=> Has(SubSeq(s, 1, n), S) \/ Has(SubSeq(s, n + 1, Len(s)), S)
           /\ Once(s, S) <=> /\ Once(SubSeq(s, 1, n), S) /\ Once(SubSeq(s, n + 1, Len(s)), S)
                             /\ ~(Has(SubSeq(s, 1, n), S) /\ Has(SubSeq(s, n + 1, Len(s)), S))
  <1>1. PICK a, b : a = SubSeq(s, 1, n) /\ b = SubSeq(s, n + 1, Len(s))
    OBVIOUS
  <1>2. a \in Seq(X)
    BY <1>1, SubSeqProperties, ElementOfSeq, LenProperties
  <1>3. b \in Seq(X)
    BY <1>1, SubSeqProperties, ElementOfSeq, LenProperties
  <1>4. s = a \o b
    <2>1. 1 \in 1 .. Len(s) + 1 /\ n \in 0 .. Len(s) /\ Len(s) \in n .. Len(s)
      BY LenProperties
    <2>2. SubSeq(s, 1, n) \o SubSeq(s, n + 1, Len(s)) = SubSeq(s, 1, Len(s))
      <3>1. \A m \in 1 .. Len(s) + 1 : \A k \in m - 1 .. Len(s) : \A j \in k .. Len(s) :
              SubSeq(s, m, k) \o SubSeq(s, k + 1, j) = SubSeq(s, m, j)
        BY ConcatAdjacentSubSeq
      <3>2. n \in 1 - 1 .. Len(s)
        BY <2>1
      <3> QED  BY <3>1, <3>2, <2>1
    <2> QED  BY <2>2, <1>1, SubSeqFull
  <1>5. /\ Has(a \o b, S) <=> Has(a, S) \/ Has(b, S)
        /\ Once(a \o b, S) <=> Once(a, S) /\ Once(b, S) /\ ~(Has(a, S) /\ Has(b, S))
    BY <1>2, <1>3, ConcatHas
  <1>6. /\ Has(s, S) <=> Has(a, S) \/ Has(b, S)
        /\ Once(s, S) <=> Once(a, S) /\ Once(b, S) /\ ~(Has(a, S) /\ Has(b, S))
    BY <1>4, <1>5, Zenon
  <1> QED  BY <1>1, <1>2, <1>3, <1>6, Zenon

\* A sequence is its front and its last element.
LEMMA FrontLast ==
    ASSUME NEW X, NEW s \in Seq(X), s # <<>>
    PROVE  Front(s) \in Seq(X) /\ Last(s) \in X /\ s = Append(Front(s), Last(s))
  <1>1. Len(s) \in Nat \ {0} /\ DOMAIN s = 1 .. Len(s)
    BY EmptySeq, LenProperties
  <1>2. Last(s) \in X
    BY <1>1, ElementOfSeq DEF Last
  <1>3. PICK f : f = SubSeq(s, 1, Len(s) - 1)
    OBVIOUS
  <1>4. f \in Seq(X) /\ Len(f) = Len(s) - 1 /\ \A i \in 1 .. Len(s) - 1 : f[i] = s[i]
    <2>1. \A i \in 1 .. Len(s) - 1 : s[i] \in X
      BY <1>1, ElementOfSeq
    <2> QED  BY <2>1, <1>1, <1>3, SubSeqProperties
  <1>5. s = Append(f, Last(s))
    <2>1. /\ Append(f, Last(s)) \in Seq(X) /\ Len(Append(f, Last(s))) = Len(f) + 1
          /\ \A i \in 1 .. Len(f) : Append(f, Last(s))[i] = f[i]
          /\ Append(f, Last(s))[Len(f) + 1] = Last(s)
      BY <1>2, <1>4, AppendProperties
    <2>2. ASSUME NEW i \in 1 .. Len(s)  PROVE s[i] = Append(f, Last(s))[i]
      <3>1. CASE i = Len(s)
        <4>1. Len(f) + 1 = Len(s)
          BY <1>1, <1>4
        <4> QED  BY <3>1, <4>1, <2>1, Zenon DEF Last
      <3>2. CASE i # Len(s)
        <4>1. PICK n \in Nat : n = Len(s)
          BY <1>1
        <4>2. Len(f) = n - 1
          BY <4>1, <1>4, Zenon
        <4>3. i \in 1 .. n - 1
          BY ONLY <3>2, <4>1, i \in 1 .. Len(s)
        <4> QED  BY <4>1, <4>2, <4>3, <1>4, <2>1, Zenon
      <3> QED  BY <3>1, <3>2
    <2>3. Len(Append(f, Last(s))) = Len(s)
      BY <2>1, <1>4, <1>1
    <2> QED  BY <2>1, <2>2, <2>3, SeqEqual
  <1>6. f = Front(s)
    BY <1>3 DEF Front
  <1> QED  BY <1>2, <1>4, <1>5, <1>6

\* One more drain has what it has, beside what the others have.
LEMMA AppendDrawn ==
    ASSUME NEW X, NEW drains \in Seq(X), NEW d \in X, NEW S
    PROVE  /\ Drawn(Append(drains, d), S) <=> Drawn(drains, S) \/ Has(d.events, S)
           /\ DrawnOnce(Append(drains, d), S) <=>
                  DrawnOnce(drains, S) /\ Once(d.events, S) /\ ~(Drawn(drains, S) /\ Has(d.events, S))
  <1>1. PICK u, n : u = Append(drains, d) /\ n = Len(drains)
    OBVIOUS
  <1>2. /\ n \in Nat /\ DOMAIN drains = 1 .. n /\ DOMAIN u = 1 .. n + 1
        /\ \A i \in 1 .. n : u[i] = drains[i]
        /\ u[n + 1] = d
    BY <1>1, AppendProperties, LenProperties
  <1>3. 1 .. n + 1 = (1 .. n) \cup {n + 1} /\ n + 1 \notin 1 .. n
    BY <1>2
  <1>4. Drawn(u, S) <=> Drawn(drains, S) \/ Has(d.events, S)
    BY <1>2, <1>3, Zenon DEF Drawn
  <1>5. ASSUME DrawnOnce(u, S)
        PROVE  DrawnOnce(drains, S) /\ Once(d.events, S) /\ ~(Drawn(drains, S) /\ Has(d.events, S))
    <2>1. /\ \A i \in 1 .. n + 1 : Once(u[i].events, S)
          /\ \A i, k \in 1 .. n + 1 : Has(u[i].events, S) /\ Has(u[k].events, S) => i = k
      BY <1>5, <1>2 DEF DrawnOnce
    <2>2. DrawnOnce(drains, S)
      BY <2>1, <1>2, <1>3, Zenon DEF DrawnOnce
    <2>3. Once(d.events, S)
      BY <2>1, <1>2, <1>3, Zenon
    <2>4. ASSUME Drawn(drains, S), Has(d.events, S)  PROVE FALSE
      <3>1. PICK i \in 1 .. n : Has(drains[i].events, S)
        BY <2>4, <1>2 DEF Drawn
      <3>2. Has(u[i].events, S) /\ Has(u[n + 1].events, S) /\ i \in 1 .. n + 1 /\ n + 1 \in 1 .. n + 1
        BY <3>1, <2>4, <1>2, <1>3, Zenon
      <3>3. i = n + 1
        BY <3>2, <2>1, Zenon
      <3> QED  BY <3>3, <3>1, <1>3
    <2> QED  BY <2>2, <2>3, <2>4
  <1>6. ASSUME DrawnOnce(drains, S), Once(d.events, S), ~(Drawn(drains, S) /\ Has(d.events, S))
        PROVE  DrawnOnce(u, S)
    <2>1. /\ \A i \in 1 .. n : Once(drains[i].events, S)
          /\ \A i, k \in 1 .. n : Has(drains[i].events, S) /\ Has(drains[k].events, S) => i = k
      BY <1>6, <1>2 DEF DrawnOnce
    <2>2. \A i \in 1 .. n : ~(Has(drains[i].events, S) /\ Has(d.events, S))
      BY <1>6, <1>2 DEF Drawn
    <2>3. \A i \in 1 .. n + 1 : Once(u[i].events, S)
      BY <2>1, <1>2, <1>3, <1>6, Zenon
    <2>4. \A i, k \in 1 .. n + 1 : Has(u[i].events, S) /\ Has(u[k].events, S) => i = k
      <3> SUFFICES ASSUME NEW i \in 1 .. n + 1, NEW k \in 1 .. n + 1,
                          Has(u[i].events, S), Has(u[k].events, S)
                   PROVE  i = k
        OBVIOUS
      <3>1. CASE i \in 1 .. n /\ k \in 1 .. n
        BY <3>1, <2>1, <1>2, Zenon
      <3>2. CASE i \in 1 .. n /\ k = n + 1
        BY <3>2, <2>2, <1>2, Zenon
      <3>3. CASE i = n + 1 /\ k \in 1 .. n
        BY <3>3, <2>2, <1>2, Zenon
      <3>4. CASE i = n + 1 /\ k = n + 1
        BY <3>4
      <3> QED  BY <3>1, <3>2, <3>3, <3>4, <1>3
    <2> QED  BY <2>3, <2>4, <1>2, Zenon DEF DrawnOnce
  <1> QED  BY <1>1, <1>4, <1>5, <1>6, Zenon

\* What the drains have dispatched and not given back.
Takes(drains) == UNION {drains[i].taken : i \in DOMAIN drains}
TakenApart(drains) == \A i, k \in DOMAIN drains : i # k => drains[i].taken \cap drains[k].taken = {}

\* One more drain has taken what it has, apart from the others when nobody else has that.
LEMMA AppendTakes ==
    ASSUME NEW X, NEW drains \in Seq(X), NEW d \in X
    PROVE  /\ Takes(Append(drains, d)) = Takes(drains) \cup d.taken
           /\ TakenApart(Append(drains, d)) <=> TakenApart(drains) /\ Takes(drains) \cap d.taken = {}
  <1>1. PICK u, n : u = Append(drains, d) /\ n = Len(drains)
    OBVIOUS
  <1>2. /\ n \in Nat /\ DOMAIN drains = 1 .. n /\ DOMAIN u = 1 .. n + 1
        /\ \A i \in 1 .. n : u[i] = drains[i]
        /\ u[n + 1] = d
    BY <1>1, AppendProperties, LenProperties
  <1>3. 1 .. n + 1 = (1 .. n) \cup {n + 1} /\ n + 1 \notin 1 .. n
    BY <1>2
  <1>4. Takes(u) = Takes(drains) \cup d.taken
    <2>1. \A x : x \in Takes(u) <=> \E i \in 1 .. n + 1 : x \in u[i].taken
      BY <1>2 DEF Takes
    <2>2. \A x : x \in Takes(drains) <=> \E i \in 1 .. n : x \in drains[i].taken
      BY <1>2 DEF Takes
    <2>3. \A x : x \in Takes(u) <=> x \in Takes(drains) \/ x \in d.taken
      BY <2>1, <2>2, <1>2, <1>3, Zenon
    <2> QED  BY <2>3
  <1>5. ASSUME TakenApart(u)  PROVE TakenApart(drains) /\ Takes(drains) \cap d.taken = {}
    <2>1. \A i, k \in 1 .. n + 1 : i # k => u[i].taken \cap u[k].taken = {}
      BY <1>5, <1>2 DEF TakenApart
    <2>2. TakenApart(drains)
      BY <2>1, <1>2, <1>3, Zenon DEF TakenApart
    <2>3. \A i \in 1 .. n : drains[i].taken \cap d.taken = {}
      <3>1. ASSUME NEW i \in 1 .. n  PROVE i \in 1 .. n + 1 /\ n + 1 \in 1 .. n + 1 /\ i # n + 1
        BY <1>2
      <3> QED  BY <3>1, <2>1, <1>2, Zenon
    <2>4. \A x : x \in Takes(drains) <=> \E i \in 1 .. n : x \in drains[i].taken
      BY <1>2 DEF Takes
    <2> QED  BY <2>2, <2>3, <2>4
  <1>6. ASSUME TakenApart(drains), Takes(drains) \cap d.taken = {}  PROVE TakenApart(u)
    <2>1. \A i, k \in 1 .. n : i # k => drains[i].taken \cap drains[k].taken = {}
      BY <1>6, <1>2 DEF TakenApart
    <2>2. \A i \in 1 .. n : drains[i].taken \cap d.taken = {} /\ d.taken \cap drains[i].taken = {}
      BY <1>6, <1>2 DEF Takes
    <2>3. \A i, k \in 1 .. n + 1 : i # k => u[i].taken \cap u[k].taken = {}
      BY <2>1, <2>2, <1>2, <1>3, Zenon
    <2> QED  BY <2>3, <1>2, Zenon DEF TakenApart
  <1> QED  BY <1>1, <1>4, <1>5, <1>6, Zenon

-----------------------------------------------------------------------------
(* What the variables hold.                                                *)

PtKinds == {"schema", "stored_page", "finished", "failed", "disconnected"}
PtEvent == [kind : PtKinds, query : Nat, page : Nat, more : BOOLEAN, lease : Nat]
\* An event that has no lease yet, and one that has its lease if it has a reservation.
Fresh == {e \in PtEvent : e.lease = 0 /\ (Reserved(e) => e.query # 0)}
Arrived == {e \in PtEvent : (Reserved(e) <=> e.lease # 0) /\ (Reserved(e) => e.query # 0)}
PtDrain == [events : Seq(Arrived), taken : SUBSET Nat]
PtCommand == [op : {"execute", "fetch", "release"}, query : Nat \ {0}, page : Nat]
PtWindow ==
    [connected : BOOLEAN, query : Nat, shown : [query : Nat, page : Nat], page : Nat, more : BOOLEAN,
     visible : Nat, schema : Nat, building : Nat, busy : BOOLEAN, fetching : BOOLEAN, cancelling : BOOLEAN]
PtActor == [alive : BOOLEAN, cursor : Nat, stored : [1 .. PtQueries -> Int]]
PtCounts == [queries : Nat, asks : Nat, others : Nat]
PtBuild == [event : Arrived, live : BOOLEAN]

PtShape ==
    /\ ptAsked \in Seq(PtCommand) /\ ptEngine \in PtActor
    /\ ptSent \in Seq(Fresh) /\ ptRaw \in Seq(Fresh) /\ Len(ptRaw) <= PtBudget
    /\ ptDrains \in Seq(PtDrain)
    /\ ptLeases \subseteq Nat
    /\ ptUi \in PtWindow /\ ptBuilds \subseteq PtBuild /\ ptCount \in PtCounts

\* The parts of a window that the lemmas are about.
SameView(ui, other) ==
    /\ other.query = ui.query /\ other.shown = ui.shown /\ other.page = ui.page /\ other.more = ui.more
    /\ other.visible = ui.visible /\ other.schema = ui.schema /\ other.building = ui.building

\* The events without a page have no lease before a tick gives them one.
LEMMA SaysFresh ==
    ASSUME NEW kind \in PtKinds, NEW query \in Nat, query # 0 \/ kind \notin {"schema", "stored_page"}
    PROVE  /\ Says(kind, query) \in Fresh
           /\ Says(kind, query).kind = kind /\ Says(kind, query).query = query
  <1>1. PICK e : e = [kind |-> kind, query |-> query, page |-> 0, more |-> FALSE, lease |-> 0]
    OBVIOUS
  <1>2. e.kind = kind /\ e.query = query /\ e.lease = 0 /\ e \in PtEvent
    BY <1>1 DEF PtEvent
  <1>3. e \in Fresh
    BY <1>2 DEF Fresh, Reserved
  <1> QED  BY <1>1, <1>2, <1>3 DEF Says

\* Neither has the event of a page.
LEMMA PageOfFresh ==
    ASSUME NEW query \in Nat \ {0}, NEW page \in Nat, NEW more \in BOOLEAN
    PROVE  /\ PageOf(query, page, more) \in Fresh
           /\ PageOf(query, page, more).kind = "stored_page" /\ PageOf(query, page, more).query = query
  <1>1. PICK s : s = [kind |-> "stored_page", query |-> query, page |-> 0, more |-> FALSE, lease |-> 0]
    OBVIOUS
  <1>2. s.kind = "stored_page" /\ s.query = query /\ s.lease = 0 /\ s \in PtEvent
    BY <1>1 DEF PtEvent, PtKinds
  <1>3. PICK e : e = [s EXCEPT !.page = page, !.more = more]
    OBVIOUS
  <1>4. e \in PtEvent /\ e.kind = s.kind /\ e.query = s.query /\ e.lease = s.lease
    BY <1>2, <1>3, Zenon DEF PtEvent
  <1>5. e \in Fresh
    BY <1>2, <1>4 DEF Fresh, Reserved
  <1>6. PageOf(query, page, more) = e
    BY <1>1, <1>3, Zenon DEF PageOf, Says
  <1> QED  BY <1>2, <1>4, <1>5, <1>6, Zenon

\* Nothing shown is no page of a statement.
LEMMA NothingTyped == Nothing \in [query : Nat, page : Nat] /\ Nothing.query = 0 /\ Nothing.page = 0
  BY DEF Nothing

\* The types of the fields of a window.
LEMMA WindowFields ==
    ASSUME NEW ui \in PtWindow
    PROVE  /\ ui.connected \in BOOLEAN /\ ui.query \in Nat /\ ui.shown \in [query : Nat, page : Nat]
           /\ ui.page \in Nat /\ ui.more \in BOOLEAN /\ ui.visible \in Nat /\ ui.schema \in Nat
           /\ ui.building \in Nat /\ ui.busy \in BOOLEAN /\ ui.fetching \in BOOLEAN /\ ui.cancelling \in BOOLEAN
  BY DEF PtWindow

\* A window is cleared, and asks for the same page of the same statement.
LEMMA ClearedView ==
    ASSUME ptUi \in PtWindow
    PROVE  /\ Cleared \in PtWindow /\ Cleared.query = ptUi.query /\ Cleared.page = ptUi.page
           /\ Cleared.more = ptUi.more /\ Cleared.shown = Nothing
           /\ Cleared.visible = 0 /\ Cleared.schema = 0 /\ Cleared.building = 0
  BY NothingTyped, Zenon DEF PtWindow, Cleared

\* A refused command changes nothing of what the window holds and shows.
LEMMA CommandFailedView ==
    ASSUME NEW ui \in PtWindow
    PROVE  CommandFailed(ui) \in PtWindow /\ SameView(ui, CommandFailed(ui))
  BY Zenon DEF PtWindow, CommandFailed, SameView

-----------------------------------------------------------------------------
(* What the steps do, as far as the lemmas need it.                        *)

Schemas(q) == {e \in PtEvent : e.kind = "schema" /\ e.query = q}
Pages(q) == {e \in PtEvent : e.kind = "stored_page" /\ e.query = q}
OfLease(l) == {e \in PtEvent : e.lease = l}
ToExecute(q) == {c \in PtCommand : c.op = "execute" /\ c.query = q}
ToFetch(q) == {c \in PtCommand : c.op = "fetch" /\ c.query = q}

\* The changes to the actor stay an actor.
LEMMA ActorStep ==
    ASSUME NEW actor \in PtActor, NEW cursor \in Nat, NEW stored \in Int, NEW query
    PROVE  /\ [actor EXCEPT !.cursor = cursor, !.stored[query] = stored] \in PtActor
           /\ [actor EXCEPT !.stored[query] = stored, !.cursor = cursor] \in PtActor
           /\ [actor EXCEPT !.cursor = cursor] \in PtActor
           /\ [actor EXCEPT !.stored[query] = stored] \in PtActor
           /\ [actor EXCEPT !.alive = FALSE, !.cursor = cursor] \in PtActor
  BY Zenon DEF PtActor

\* What the actor sends for a command: nothing of another statement, and one schema at most.
Answers(command, events) ==
    /\ events \in Seq(Fresh)
    /\ \A q \in Nat \ {0} :
           /\ Has(events, Schemas(q)) => command \in ToExecute(q)
           /\ Once(events, Schemas(q))
           /\ Has(events, Pages(q)) => command \in ToFetch(q)

\* No event is an answer to every command.
LEMMA AnswersNone ==
    ASSUME NEW command
    PROVE  Answers(command, <<>>)
  BY EmptyHas, EmptySeq DEF Answers

\* One event answers the command it belongs to.
LEMMA AnswersOne ==
    ASSUME NEW command \in PtCommand, NEW e \in Fresh,
           e.kind = "schema" => command.op = "execute" /\ command.query = e.query,
           e.kind = "stored_page" => command.op = "fetch" /\ command.query = e.query
    PROVE  Answers(command, <<e>>)
  <1>1. <<e>> \in Seq(Fresh)
    OBVIOUS
  <1>2. ASSUME NEW q \in Nat \ {0}
        PROVE  /\ Has(<<e>>, Schemas(q)) => command \in ToExecute(q)
               /\ Once(<<e>>, Schemas(q))
               /\ Has(<<e>>, Pages(q)) => command \in ToFetch(q)
    <2>1. e \in Schemas(q) => command \in ToExecute(q)
      BY DEF Schemas, ToExecute
    <2>2. e \in Pages(q) => command \in ToFetch(q)
      BY DEF Pages, ToFetch
    <2> QED  BY <2>1, <2>2, SingleHas, Zenon
  <1> QED  BY <1>1, <1>2, Zenon DEF Answers

\* A page and an event that says nothing of a result answer a fetch.
LEMMA AnswersTwo ==
    ASSUME NEW command \in PtCommand, NEW e \in Fresh, NEW f \in Fresh,
           e.kind = "stored_page", command.op = "fetch", command.query = e.query,
           f.kind \notin {"schema", "stored_page"}
    PROVE  Answers(command, <<e, f>>)
  <1>1. <<e>> \in Seq(Fresh) /\ <<f>> \in Seq(Fresh) /\ <<e, f>> \in Seq(Fresh)
    OBVIOUS
  <1>2. <<e, f>> = Append(<<e>>, f)
    OBVIOUS
  <1>3. ASSUME NEW q \in Nat \ {0}
        PROVE  /\ ~Has(<<e, f>>, Schemas(q)) /\ Once(<<e, f>>, Schemas(q))
               /\ Has(<<e, f>>, Pages(q)) => command \in ToFetch(q)
    <2>1. e \notin Schemas(q) /\ f \notin Schemas(q) /\ f \notin Pages(q)
      BY DEF Schemas, Pages
    <2>2. e \in Pages(q) => command \in ToFetch(q)
      BY DEF Pages, ToFetch
    <2>3. \A S : Has(Append(<<e>>, f), S) <=> Has(<<e>>, S) \/ f \in S
      BY <1>1, AppendHas
    <2>4. \A S : Once(Append(<<e>>, f), S) <=> Once(<<e>>, S) /\ ~(Has(<<e>>, S) /\ f \in S)
      BY <1>1, AppendHas
    <2>5. \A S : Has(<<e, f>>, S) <=> e \in S \/ f \in S
      BY <2>3, <1>2, SingleHas, Zenon
    <2>6. \A S : Once(<<e, f>>, S) <=> ~(e \in S /\ f \in S)
      BY <2>4, <1>2, SingleHas, Zenon
    <2> QED  BY <2>1, <2>2, <2>5, <2>6, Zenon
  <1> QED  BY <1>1, <1>3, Zenon DEF Answers

\* The actor takes a command and sends its answer.
LEMMA ServeStep ==
    ASSUME PtShape, PtServe
    PROVE  \E events \in Seq(Fresh) :
               /\ ptAsked # <<>> /\ ptAsked' = Tail(ptAsked) /\ ptSent' = ptSent \o events
               /\ Answers(Head(ptAsked), events) /\ ptEngine' \in PtActor
  <1> DEFINE done(events) == ptSent' = ptSent \o events /\ Answers(Head(ptAsked), events) /\ ptEngine' \in PtActor
  <1>1. PICK command : command = Head(ptAsked)
    OBVIOUS
  <1>2. ptAsked # <<>> /\ command \in PtCommand
    BY <1>1, HeadTailProperties DEF PtShape, PtServe
  <1>3. command.query \in Nat \ {0} /\ command.page \in Nat /\ command.op \in {"execute", "fetch", "release"}
    BY <1>2 DEF PtCommand
  <1>4. PICK query, page : query = command.query /\ page = command.page
    OBVIOUS
  <1>5. ptEngine \in PtActor /\ ptSent \in Seq(Fresh)
    BY DEF PtShape
  <1>8. \A cursor \in Nat, stored \in Int : \A q :
           /\ [ptEngine EXCEPT !.cursor = cursor, !.stored[q] = stored] \in PtActor
           /\ [ptEngine EXCEPT !.stored[q] = stored, !.cursor = cursor] \in PtActor
           /\ [ptEngine EXCEPT !.cursor = cursor] \in PtActor
           /\ [ptEngine EXCEPT !.stored[q] = stored] \in PtActor
    BY <1>5, ActorStep
  <1>9. 0 \in Nat /\ 0 \in Int /\ -1 \in Int
    OBVIOUS
  <1>6. \E events \in Seq(Fresh) : done(events)
    <2>1. CASE command.op = "execute" /\ Executed(query)
      <3>1. CASE /\ Sends(<<Says("schema", query)>>)
                 /\ ptEngine' = [ptEngine EXCEPT !.cursor = query, !.stored[query] = 0]
        <4>1. PICK e : e = Says("schema", query)
          OBVIOUS
        <4>2. e \in Fresh /\ e.kind = "schema" /\ e.query = query
          BY <4>1, <1>3, <1>4, SaysFresh DEF PtKinds
        <4>3. Answers(command, <<e>>)
          BY <4>2, <2>1, <1>2, <1>4, AnswersOne
        <4>4. ptEngine' \in PtActor
          BY <3>1, <1>3, <1>4, <1>8, <1>9, Zenon
        <4>5. ptSent' = ptSent \o <<e>> /\ <<e>> \in Seq(Fresh)
          BY <3>1, <4>1, <4>2 DEF Sends
        <4> QED  BY <4>3, <4>4, <4>5, <1>1, Zenon
      <3>2. CASE /\ \E kind \in {"finished", "failed"} : Sends(<<Says(kind, query)>>)
                 /\ ptEngine' = [ptEngine EXCEPT !.cursor = 0]
        <4>0. PICK kind \in {"finished", "failed"} : Sends(<<Says(kind, query)>>)
          BY <3>2
        <4>1. PICK e : e = Says(kind, query)
          OBVIOUS
        <4>2. e \in Fresh /\ e.kind = kind /\ e.query = query
          BY <4>1, <1>3, <1>4, SaysFresh DEF PtKinds
        <4>3. Answers(command, <<e>>)
          BY <4>2, <1>2, AnswersOne
        <4>4. ptEngine' \in PtActor
          BY <3>2, <1>8, <1>9, Zenon
        <4>5. ptSent' = ptSent \o <<e>> /\ <<e>> \in Seq(Fresh)
          BY <4>0, <4>1, <4>2 DEF Sends
        <4> QED  BY <4>3, <4>4, <4>5, <1>1, Zenon
      <3> QED  BY <3>1, <3>2, <2>1, Zenon DEF Executed
    <2>2. CASE command.op = "fetch" /\ Fetched(query, page)
      <3>1. ASSUME NEW more \in BOOLEAN, Sends(<<PageOf(query, page, more)>>), ptEngine' \in PtActor
            PROVE  \E events \in Seq(Fresh) : done(events)
        <4>1. PICK e : e = PageOf(query, page, more)
          OBVIOUS
        <4>2. e \in Fresh /\ e.kind = "stored_page" /\ e.query = query
          BY <4>1, <1>3, <1>4, PageOfFresh
        <4>3. Answers(command, <<e>>)
          BY <4>2, <2>2, <1>2, <1>4, AnswersOne
        <4>5. ptSent' = ptSent \o <<e>> /\ <<e>> \in Seq(Fresh)
          BY <3>1, <4>1, <4>2 DEF Sends
        <4> QED  BY <4>3, <3>1, <4>5, <1>1, Zenon
      <3>2. ASSUME Sends(<<Says("failed", query)>>), ptEngine' \in PtActor
            PROVE  \E events \in Seq(Fresh) : done(events)
        <4>1. PICK e : e = Says("failed", query)
          OBVIOUS
        <4>2. e \in Fresh /\ e.kind = "failed" /\ e.query = query
          BY <4>1, <1>3, <1>4, SaysFresh DEF PtKinds
        <4>3. Answers(command, <<e>>)
          BY <4>2, <1>2, AnswersOne
        <4>5. ptSent' = ptSent \o <<e>> /\ <<e>> \in Seq(Fresh)
          BY <3>2, <4>1, <4>2 DEF Sends
        <4> QED  BY <4>3, <3>2, <4>5, <1>1, Zenon
      <3>3. ASSUME Sends(<<PageOf(query, page, FALSE), Says("finished", query)>>), ptEngine' \in PtActor
            PROVE  \E events \in Seq(Fresh) : done(events)
        <4>1. PICK e, f : e = PageOf(query, page, FALSE) /\ f = Says("finished", query)
          OBVIOUS
        <4>2. e \in Fresh /\ e.kind = "stored_page" /\ e.query = query
          BY <4>1, <1>3, <1>4, PageOfFresh
        <4>3. f \in Fresh /\ f.kind = "finished"
          BY <4>1, <1>3, <1>4, SaysFresh DEF PtKinds
        <4>4. Answers(command, <<e, f>>)
          BY <4>2, <4>3, <2>2, <1>2, <1>4, AnswersTwo
        <4>5. ptSent' = ptSent \o <<e, f>>
          BY <3>3, <4>1, Zenon DEF Sends
        <4>6. <<e, f>> \in Seq(Fresh)
          BY <4>2, <4>3
        <4> QED  BY <4>4, <3>3, <4>5, <4>6, <1>1, Zenon
      <3>4. page \in Int
        BY <1>3, <1>4
      <3> QED
        <4>1. CASE /\ page <= ptEngine.stored[query]
                   /\ Sends(<<PageOf(query, page, page < ptEngine.stored[query] \/ ptEngine.cursor = query)>>)
                   /\ UNCHANGED ptEngine
          <5>1. PICK more : more = (page < ptEngine.stored[query] \/ ptEngine.cursor = query)
            OBVIOUS
          <5>2. more \in BOOLEAN
            BY <5>1
          <5>3. Sends(<<PageOf(query, page, more)>>)
            BY <5>1, <4>1, Zenon
          <5>4. ptEngine' \in PtActor
            BY <4>1, <1>5
          <5> QED  BY <5>2, <5>3, <5>4, <3>1, Zenon
        <4>2. CASE /\ Sends(<<PageOf(query, page, FALSE), Says("finished", query)>>)
                   /\ ptEngine' = [ptEngine EXCEPT !.cursor = 0, !.stored[query] = page]
          BY <4>2, <3>3, <3>4, <1>8, <1>9, Zenon
        <4>3. CASE Sends(<<PageOf(query, page, TRUE)>>) /\ ptEngine' = [ptEngine EXCEPT !.stored[query] = page]
          BY <4>3, <3>1, <3>4, <1>8, <1>9
        <4>4. CASE Sends(<<Says("failed", query)>>) /\ ptEngine' = [ptEngine EXCEPT !.cursor = 0]
          BY <4>4, <3>2, <1>8, <1>9, Zenon
        <4>5. CASE Sends(<<Says("failed", query)>>) /\ UNCHANGED ptEngine
          BY <4>5, <3>2, <1>5
        <4> QED  BY <4>1, <4>2, <4>3, <4>4, <4>5, <2>2, Zenon DEF Fetched
    <2>3. CASE Released(query)
      <3>1. ptSent' = ptSent \o <<>>
        BY <2>3, <1>5, ConcatEmptySeq DEF Released
      <3>2. PICK cursor : cursor = IF ptEngine.cursor = query THEN 0 ELSE ptEngine.cursor
        OBVIOUS
      <3>3. cursor \in Nat
        BY <3>2, <1>5 DEF PtActor
      <3>4. ptEngine' = [ptEngine EXCEPT !.stored[query] = -1, !.cursor = cursor]
        BY <2>3, <3>2, <1>5 DEF Released, PtActor
      <3>5. ptEngine' \in PtActor
        BY <3>3, <3>4, <1>8, <1>9, Zenon
      <3> QED  BY <3>1, <3>5, AnswersNone, EmptySeq
    <2>4. CASE command.op = "release" /\ Released(query)
      BY <2>4, <2>3
    <2> QED  BY <2>1, <2>2, <2>4, <1>1, <1>3, <1>4 DEF PtServe
  <1>7. ptAsked' = Tail(ptAsked)
    BY DEF PtServe
  <1> QED  BY <1>2, <1>6, <1>7

\* Events that say neither a schema nor a page.
Quiet(events) ==
    /\ events \in Seq(Fresh)
    /\ \A q \in Nat \ {0} : ~Has(events, Schemas(q)) /\ Once(events, Schemas(q)) /\ ~Has(events, Pages(q))

\* The end of a statement, a failure and a disconnect are neither schema nor page.
LEMMA QuietEvents ==
    ASSUME NEW kind \in {"finished", "failed", "disconnected"}, NEW query \in Nat
    PROVE  Quiet(<<Says(kind, query)>>)
  <1>1. PICK e : e = Says(kind, query)
    OBVIOUS
  <1>2. e \in Fresh /\ e.kind = kind
    BY <1>1, SaysFresh DEF PtKinds
  <1>3. <<e>> \in Seq(Fresh)
    BY <1>2
  <1>4. ASSUME NEW q  PROVE e \notin Schemas(q) /\ e \notin Pages(q)
    BY <1>2 DEF Schemas, Pages
  <1>5. Quiet(<<e>>)
    BY <1>3, <1>4, SingleHas, Zenon DEF Quiet
  <1> QED  BY <1>1, <1>5, Zenon

\* Two quiet sequences make a quiet one.
LEMMA QuietBoth ==
    ASSUME NEW a, NEW b, Quiet(a), Quiet(b)
    PROVE  Quiet(a \o b)
  <1>1. a \in Seq(Fresh) /\ b \in Seq(Fresh) /\ a \o b \in Seq(Fresh)
    BY ConcatProperties DEF Quiet
  <1>2. \A S : Has(a \o b, S) <=> Has(a, S) \/ Has(b, S)
    BY <1>1, ConcatHas
  <1>3. \A S : Once(a \o b, S) <=> Once(a, S) /\ Once(b, S) /\ ~(Has(a, S) /\ Has(b, S))
    BY <1>1, ConcatHas
  <1> QED  BY <1>1, <1>2, <1>3, Zenon DEF Quiet

\* A statement that is stopped says so and no more.
LEMMA StoppedStep ==
    ASSUME PtShape, Stopped
    PROVE  \E events : Quiet(events) /\ ptSent' = ptSent \o events /\ ptEngine' \in PtActor
  <1>1. ptEngine \in PtActor /\ ptEngine.cursor \in Nat /\ 0 \in Nat /\ 0 \in Int
    BY DEF PtShape, PtActor
  <1>2. Quiet(<<Says("failed", ptEngine.cursor)>>)
    BY <1>1, QuietEvents
  <1>3. ptEngine' \in PtActor
    <2>1. \A cursor \in Nat : [ptEngine EXCEPT !.cursor = cursor] \in PtActor
      BY <1>1, ActorStep
    <2> QED  BY <2>1, <1>1, Zenon DEF Stopped
  <1>4. ptSent' = ptSent \o <<Says("failed", ptEngine.cursor)>>
    BY Zenon DEF Stopped, Sends
  <1> QED  BY <1>2, <1>3, <1>4, Zenon

\* A lost connection drops the commands and sends nothing of a result.
LEMMA LoseStep ==
    ASSUME PtShape, PtLose
    PROVE  /\ ptAsked' = <<>>
           /\ \E events : Quiet(events) /\ ptSent' = ptSent \o events /\ ptEngine' \in PtActor
  <1>1. ptEngine \in PtActor /\ ptEngine.cursor \in Nat /\ 0 \in Nat /\ 0 \in Int
    BY DEF PtShape, PtActor
  <1>2. PICK last : last = IF ptEngine.cursor # 0 THEN <<Says("failed", ptEngine.cursor)>> ELSE <<>>
    OBVIOUS
  <1>3. Quiet(last)
    <2>1. CASE ptEngine.cursor # 0
      BY <2>1, <1>1, <1>2, QuietEvents
    <2>2. CASE ptEngine.cursor = 0
      <3>1. Quiet(<<>>)
        BY EmptyHas, EmptySeq DEF Quiet
      <3> QED  BY <3>1, <2>2, <1>2
    <2> QED  BY <2>1, <2>2
  <1>4. Quiet(<<Says("disconnected", 0)>>)
    BY <1>1, QuietEvents
  <1>5. Quiet(last \o <<Says("disconnected", 0)>>)
    BY <1>3, <1>4, QuietBoth
  <1>6. ptSent' = ptSent \o (last \o <<Says("disconnected", 0)>>)
    BY <1>2, Zenon DEF PtLose, Sends
  <1>7. ptEngine' \in PtActor
    <2>1. \A cursor \in Nat : [ptEngine EXCEPT !.alive = FALSE, !.cursor = cursor] \in PtActor
      BY <1>1, ActorStep
    <2> QED  BY <2>1, <1>1, Zenon DEF PtLose
  <1>8. ptAsked' = <<>>
    BY DEF PtLose
  <1> QED  BY <1>5, <1>6, <1>7, <1>8, Zenon

\* A page is asked for, or the command is refused.
LEMMA AskForStep ==
    ASSUME PtShape, NEW page \in Nat, NEW ui \in PtWindow, ptUi.query # 0, AskFor(page, ui)
    PROVE  /\ ptUi' \in PtWindow /\ SameView(ui, ptUi')
           /\ \/ ptAsked' = ptAsked
              \/ \E c \in ToFetch(ptUi.query) : ptAsked' = Append(ptAsked, c)
  <1>1. ptUi.query \in Nat \ {0}
    BY DEF PtShape, PtWindow
  <1>2. PICK c : c = Fetch(page)
    OBVIOUS
  <1>3. c \in ToFetch(ptUi.query)
    BY <1>1, <1>2 DEF Fetch, PtCommand, ToFetch
  <1>4. SameView(ui, ui)
    BY DEF SameView
  <1>5. CASE Room(ptAsked)
    BY <1>2, <1>3, <1>4, <1>5, Zenon DEF AskFor
  <1>6. CASE ~Room(ptAsked)
    BY <1>6, CommandFailedView, Zenon DEF AskFor
  <1> QED  BY <1>5, <1>6

\* Two sequences with the same members of a set at the same places have the same of it.
LEMMA SameHas ==
    ASSUME NEW s, NEW t, NEW S, DOMAIN s = DOMAIN t, \A i \in DOMAIN s : s[i] \in S <=> t[i] \in S
    PROVE  (Has(s, S) <=> Has(t, S)) /\ (Once(s, S) <=> Once(t, S))
  BY Zenon DEF Has, Once

\* The leases of a tick: new ones, each for one event, and all else of the event stays.
LEMMA ConvertedEvents ==
    ASSUME NEW raw \in Seq(Fresh), NEW taken \in 0 .. Len(raw),
           NEW leases \in [1 .. taken -> Nat], Placed(raw, leases)
    PROVE  /\ Converted(raw, leases) \in Seq(Arrived)
           /\ \A l \in Nat \ {0} :
                  /\ Has(Converted(raw, leases), OfLease(l)) <=> l \in {leases[i] : i \in 1 .. taken} \ {0}
                  /\ Once(Converted(raw, leases), OfLease(l))
           /\ ({leases[i] : i \in 1 .. taken} \ {0}) \cap ptLeases = {}
           /\ \A q :
                  /\ Has(Converted(raw, leases), Schemas(q)) <=> Has(SubSeq(raw, 1, taken), Schemas(q))
                  /\ Once(Converted(raw, leases), Schemas(q)) <=> Once(SubSeq(raw, 1, taken), Schemas(q))
                  /\ Has(Converted(raw, leases), Pages(q)) <=> Has(SubSeq(raw, 1, taken), Pages(q))
  <1>1. PICK s, first : s = Converted(raw, leases) /\ first = SubSeq(raw, 1, taken)
    OBVIOUS
  <1>2. Len(raw) \in Nat /\ DOMAIN leases = 1 .. taken /\ DOMAIN s = 1 .. taken
    BY <1>1, LenProperties DEF Converted
  <1>3. \A i \in 1 .. taken : raw[i] \in Fresh /\ leases[i] \in Nat
    BY <1>2, ElementOfSeq
  <1>4. /\ first \in Seq(Fresh) /\ DOMAIN first = 1 .. taken
        /\ \A i \in 1 .. taken : first[i] = raw[i]
    <2>1. /\ first \in Seq(Fresh) /\ Len(first) = IF 1 <= taken THEN taken - 1 + 1 ELSE 0
          /\ \A i \in 1 .. taken - 1 + 1 : first[i] = raw[1 + i - 1]
      BY <1>1, <1>3, SubSeqProperties
    <2>2. Len(first) = taken
      BY <2>1, <1>2
    <2> QED  BY <2>1, <2>2, <1>3, LenProperties
  <1>5. ASSUME NEW i \in 1 .. taken
        PROVE  /\ s[i] \in PtEvent /\ s[i].kind = raw[i].kind /\ s[i].query = raw[i].query
               /\ s[i].lease = leases[i]
    <2>1. s[i] = [raw[i] EXCEPT !.lease = leases[i]]
      BY <1>1, <1>2, Zenon DEF Converted
    <2>2. raw[i] \in PtEvent /\ leases[i] \in Nat
      BY <1>3 DEF Fresh
    <2> QED  BY <2>1, <2>2, Zenon DEF PtEvent
  <1>6. \A i \in 1 .. taken : IF Reserved(raw[i]) THEN leases[i] \notin ptLeases \cup {leases[j] : j \in 1 .. i - 1} \cup {0}
                                                  ELSE leases[i] = 0
    BY <1>2 DEF Placed
  <1>7. \A i \in 1 .. taken : leases[i] # 0 => leases[i] \notin ptLeases
    BY <1>6
  <1>8. \A i, j \in 1 .. taken : leases[i] # 0 /\ leases[i] = leases[j] => i = j
    <2>1. ASSUME NEW i \in 1 .. taken, NEW j \in 1 .. taken, j < i, leases[i] # 0  PROVE leases[i] # leases[j]
      <3>1. j \in 1 .. i - 1
        BY <2>1, <1>2
      <3> QED  BY <3>1, <2>1, <1>6
    <2>2. ASSUME NEW i \in 1 .. taken, NEW j \in 1 .. taken, i # j  PROVE i < j \/ j < i
      BY <2>2, <1>2
    <2> QED  BY <2>1, <2>2, Zenon
  <1>9. \A i \in 1 .. taken : s[i] \in Arrived
    <2>1. ASSUME NEW i \in 1 .. taken  PROVE s[i] \in Arrived
      <3>1. Reserved(s[i]) <=> Reserved(raw[i])
        BY <1>5 DEF Reserved
      <3>2. Reserved(raw[i]) <=> leases[i] # 0
        BY <1>6
      <3>3. Reserved(raw[i]) => raw[i].query # 0
        BY <1>3 DEF Fresh
      <3> QED  BY <3>1, <3>2, <3>3, <1>5 DEF Arrived
    <2> QED  BY <2>1
  <1>10. s \in Seq(Arrived)
    <2>1. s \in [1 .. taken -> Arrived]
      BY <1>1, <1>2, <1>9, Zenon DEF Converted
    <2>2. taken \in Nat
      BY <1>2
    <2> QED  BY <2>1, <2>2, SeqDef
  <1>11. ASSUME NEW l \in Nat \ {0}
         PROVE  (Has(s, OfLease(l)) <=> l \in {leases[i] : i \in 1 .. taken} \ {0}) /\ Once(s, OfLease(l))
    <2>1. \A i \in 1 .. taken : s[i] \in OfLease(l) <=> leases[i] = l
      BY <1>5 DEF OfLease
    <2>2. Has(s, OfLease(l)) <=> \E i \in 1 .. taken : leases[i] = l
      BY <2>1, <1>2, Zenon DEF Has
    <2>3. Once(s, OfLease(l))
      BY <2>1, <1>2, <1>8 DEF Once
    <2> QED  BY <2>2, <2>3
  <1>12. ASSUME NEW q
         PROVE  /\ Has(s, Schemas(q)) <=> Has(first, Schemas(q))
                /\ Once(s, Schemas(q)) <=> Once(first, Schemas(q))
                /\ Has(s, Pages(q)) <=> Has(first, Pages(q))
    <2>0. \A i \in 1 .. taken : raw[i] \in PtEvent
      BY <1>3 DEF Fresh
    <2>1. \A i \in 1 .. taken : s[i] \in Schemas(q) <=> first[i] \in Schemas(q)
      BY <1>4, <1>5, <2>0 DEF Schemas
    <2>2. \A i \in 1 .. taken : s[i] \in Pages(q) <=> first[i] \in Pages(q)
      BY <1>4, <1>5, <2>0 DEF Pages
    <2> QED  BY <2>1, <2>2, <1>2, <1>4, SameHas
  <1>13. ({leases[i] : i \in 1 .. taken} \ {0}) \cap ptLeases = {}
    BY <1>7
  <1> QED  BY <1>1, <1>10, <1>11, <1>12, <1>13, Zenon

\* A tick takes over some of what was sent, and converts some of that.
LEMMA TickStep ==
    ASSUME PtShape, PtTick
    PROVE  \E n \in 0 .. Len(ptSent), raw \in Seq(Fresh) : \E taken \in 0 .. Len(raw) : \E leases \in [1 .. taken -> Nat] :
               /\ raw = ptRaw \o SubSeq(ptSent, 1, n) /\ Len(raw) <= PtBudget /\ Placed(raw, leases)
               /\ ptSent' = SubSeq(ptSent, n + 1, Len(ptSent)) /\ ptRaw' = SubSeq(raw, taken + 1, Len(raw))
               /\ ptLeases' = ptLeases \cup ({leases[i] : i \in 1 .. taken} \ {0})
               /\ ptDrains' = Append(ptDrains, [events |-> Converted(raw, leases), taken |-> {}])
  <1>1. PICK n : n = IF Len(ptSent) < PtBudget - Len(ptRaw) THEN Len(ptSent) ELSE PtBudget - Len(ptRaw)
    OBVIOUS
  <1>2. /\ ptSent \in Seq(Fresh) /\ ptRaw \in Seq(Fresh) /\ Len(ptSent) \in Nat /\ Len(ptRaw) \in Nat
        /\ Len(ptRaw) <= PtBudget /\ PtBudget \in Nat
    BY LenProperties DEF PtShape, PtAssumption
  <1>3. n \in 0 .. Len(ptSent) /\ Len(ptRaw) + n <= PtBudget
    BY <1>1, <1>2
  <1>4. PICK head, raw : head = SubSeq(ptSent, 1, n) /\ raw = ptRaw \o head
    OBVIOUS
  <1>5. head \in Seq(Fresh) /\ Len(head) = n
    <2>1. \A i \in 1 .. n : ptSent[i] \in Fresh
      BY <1>2, <1>3, ElementOfSeq
    <2>2. head \in Seq(Fresh) /\ Len(head) = IF 1 <= n THEN n - 1 + 1 ELSE 0
      BY <2>1, <1>3, <1>4, SubSeqProperties
    <2> QED  BY <2>2, <1>3
  <1>6. raw \in Seq(Fresh) /\ Len(raw) = Len(ptRaw) + n
    BY <1>2, <1>4, <1>5, ConcatProperties
  <1>7. PICK taken \in 1 .. Len(raw) : \E leases \in [1 .. taken -> 0 .. Cardinality(ptLeases) + taken] :
               /\ Placed(raw, leases)
               /\ ptSent' = SubSeq(ptSent, n + 1, Len(ptSent)) /\ ptRaw' = SubSeq(raw, taken + 1, Len(raw))
               /\ ptLeases' = ptLeases \cup ({leases[i] : i \in 1 .. taken} \ {0})
               /\ ptDrains' = Append(ptDrains, [events |-> Converted(raw, leases), taken |-> {}])
    BY <1>1, <1>4, Zenon DEF PtTick
  <1>8. PICK leases \in [1 .. taken -> 0 .. Cardinality(ptLeases) + taken] :
               /\ Placed(raw, leases)
               /\ ptSent' = SubSeq(ptSent, n + 1, Len(ptSent)) /\ ptRaw' = SubSeq(raw, taken + 1, Len(raw))
               /\ ptLeases' = ptLeases \cup ({leases[i] : i \in 1 .. taken} \ {0})
               /\ ptDrains' = Append(ptDrains, [events |-> Converted(raw, leases), taken |-> {}])
    BY <1>7, Zenon
  <1>9. taken \in 0 .. Len(raw) /\ leases \in [1 .. taken -> Nat]
    <2>1. PICK top : top = Cardinality(ptLeases) + taken
      OBVIOUS
    <2>2. 0 .. top \subseteq Nat
      OBVIOUS
    <2>3. leases \in [1 .. taken -> 0 .. top]
      BY <2>1, <1>8
    <2> QED  BY <2>2, <2>3, <1>6
  <1>10. Len(raw) <= PtBudget
    BY <1>3, <1>6
  <1> QED
    <2>1. raw = ptRaw \o SubSeq(ptSent, 1, n)
      BY <1>4
    <2> QED  BY <2>1, <1>3, <1>6, <1>8, <1>9, <1>10, Zenon

-----------------------------------------------------------------------------
(* The invariant: the table of the leases, the window and the order in     *)
(* which the events of a statement come.                                   *)

Held(ui) == Leased(ui.visible) \cup Leased(ui.schema) \cup Leased(ui.building)
Waits(drains) == {l \in Nat \ {0} : Drawn(drains, OfLease(l))}

DrainsOK(transfers, drains) ==
    /\ Takes(drains) \subseteq transfers /\ TakenApart(drains)
    /\ \A l \in Nat \ {0} : DrawnOnce(drains, OfLease(l))
TableOK(leases, transfers, retained, released, drains, ui) ==
    /\ 0 \notin leases /\ DrainsOK(transfers, drains)
    /\ Books(leases, transfers, retained, released, Held(ui), Waits(drains))

\* A build that is listened to is of the page that the window is building.
OfWindow(ui, build) ==
    /\ build.event.kind = "stored_page" /\ build.event.query # 0 /\ ui.query \in {0, build.event.query}
    /\ build.event.lease # 0 /\ build.event.lease = ui.building
WindowOK(ui, builds) ==
    /\ ui.visible # 0 => ui.visible # ui.schema /\ ui.visible # ui.building
    /\ ui.schema # 0 => ui.schema # ui.building
    /\ ui.visible # 0 <=> ui.shown # Nothing
    /\ ui.query # 0 /\ ui.page # 0 => ui.shown = [query |-> ui.query, page |-> ui.page]
    /\ \A b \in builds : b.live => OfWindow(ui, b)
    /\ \A b, c \in builds : b.live /\ c.live => b = c
    /\ ui.building # 0 => \E b \in builds : b.live

\* A statement has one schema, which is in one place; until it has come, there are no pages of it.
Expected(asked, sent, raw, drains, q) ==
    \/ Has(asked, ToExecute(q)) \/ Has(sent, Schemas(q)) \/ Has(raw, Schemas(q)) \/ Drawn(drains, Schemas(q))
OneSchema(asked, sent, raw, drains, q) ==
    /\ Once(asked, ToExecute(q)) /\ Once(sent, Schemas(q)) /\ Once(raw, Schemas(q)) /\ DrawnOnce(drains, Schemas(q))
    /\ Has(asked, ToExecute(q)) => ~(Has(sent, Schemas(q)) \/ Has(raw, Schemas(q)) \/ Drawn(drains, Schemas(q)))
    /\ Has(sent, Schemas(q)) => ~(Has(raw, Schemas(q)) \/ Drawn(drains, Schemas(q)))
    /\ Has(raw, Schemas(q)) => ~Drawn(drains, Schemas(q))
Paged(asked, sent, raw, drains, q) ==
    \/ Has(asked, ToFetch(q)) \/ Has(sent, Pages(q)) \/ Has(raw, Pages(q)) \/ Drawn(drains, Pages(q))
Blank(ui, q) == ui.query = q => ui.page = 0 /\ ~ui.more /\ ui.building = 0
OrderOK(asked, sent, raw, drains, ui, queries) ==
    /\ ui.query <= queries
    /\ \A q \in Nat \ {0} :
           /\ OneSchema(asked, sent, raw, drains, q)
           /\ Expected(asked, sent, raw, drains, q) => ~Paged(asked, sent, raw, drains, q) /\ Blank(ui, q)
           /\ q > queries => ~Expected(asked, sent, raw, drains, q) /\ ~Paged(asked, sent, raw, drains, q)

PtTable == TableOK(ptLeases, ptTransfers, ptRetained, ptReleased, ptDrains, ptUi)
PtView == WindowOK(ptUi, ptBuilds)
PtOrder == OrderOK(ptAsked, ptSent, ptRaw, ptDrains, ptUi, ptCount.queries)
PtInv == PtShape /\ PtTable /\ PtView /\ PtOrder

\* The window holds the same in the same view.
LEMMA HeldSame ==
    ASSUME NEW ui, NEW other, SameView(ui, other)
    PROVE  Held(other) = Held(ui)
  BY DEF SameView, Held

\* And it is as it should be.
LEMMA WindowSame ==
    ASSUME NEW ui, NEW other, SameView(ui, other), NEW builds, WindowOK(ui, builds)
    PROVE  WindowOK(other, builds)
  <1>1. \A b : OfWindow(ui, b) => OfWindow(other, b)
    BY DEF SameView, OfWindow
  <1> QED  BY <1>1, Zenon DEF SameView, WindowOK

\* A build that is given up is not listened to.
LEMMA NobodyListens ==
    ASSUME ptBuilds \subseteq PtBuild
    PROVE  NotListening \subseteq PtBuild /\ \A b \in NotListening : ~b.live
  <1>1. ASSUME NEW b \in PtBuild  PROVE [b EXCEPT !.live = FALSE] \in PtBuild /\ [b EXCEPT !.live = FALSE].live = FALSE
    BY <1>1, Zenon DEF PtBuild
  <1> QED  BY <1>1, Zenon DEF NotListening

\* Giving leases back keeps the books.
LEMMA GiveBackBooks ==
    ASSUME NEW T, NEW H, NEW W, Books(ptLeases, T, ptRetained, ptReleased, H, W),
           NEW D \in SUBSET H, GiveBack(D, T)
    PROVE  Books(ptLeases', T, ptRetained, ptReleased', H \ D, W) /\ (ptLeases' \subseteq ptLeases)
  <1>1. ptReleased' = ptReleased \cup (D \cap T) /\ ptLeases' = ptLeases \ (D \ T)
    BY DEF GiveBack
  <1>2. Books(ptLeases \ (D \ T), T, ptRetained, ptReleased \cup (D \cap T), H \ D, W)
    BY BooksGiveBack
  <1> QED  BY <1>1, <1>2

\* The drain takes the first of its events.
LEMMA TailDrawn ==
    ASSUME NEW rest \in Seq(PtDrain), NEW drain \in PtDrain, drain.events # <<>>, NEW taken \in SUBSET Nat, NEW S
    PROVE  /\ [events |-> Tail(drain.events), taken |-> taken] \in PtDrain
           /\ Drawn(Append(rest, drain), S) <=>
                  \/ Drawn(Append(rest, [events |-> Tail(drain.events), taken |-> taken]), S)
                  \/ Head(drain.events) \in S
           /\ DrawnOnce(Append(rest, drain), S) <=>
                  /\ DrawnOnce(Append(rest, [events |-> Tail(drain.events), taken |-> taken]), S)
                  /\ ~(/\ Head(drain.events) \in S
                       /\ Drawn(Append(rest, [events |-> Tail(drain.events), taken |-> taken]), S))
  <1>1. PICK s : s = drain.events
    OBVIOUS
  <1>2. s \in Seq(Arrived) /\ s # <<>>
    BY <1>1 DEF PtDrain
  <1>3. PICK d : d = [events |-> Tail(s), taken |-> taken]
    OBVIOUS
  <1>4. d \in PtDrain /\ d.events = Tail(s)
    <2>1. Tail(s) \in Seq(Arrived)
      BY <1>2, HeadTailProperties
    <2> QED  BY <2>1, <1>3 DEF PtDrain
  <1>5. /\ Has(s, S) <=> Head(s) \in S \/ Has(Tail(s), S)
        /\ Once(s, S) <=> Once(Tail(s), S) /\ ~(Head(s) \in S /\ Has(Tail(s), S))
    BY <1>2, HeadHas
  <1>6. /\ Drawn(Append(rest, drain), S) <=> Drawn(rest, S) \/ Has(s, S)
        /\ DrawnOnce(Append(rest, drain), S) <=> DrawnOnce(rest, S) /\ Once(s, S) /\ ~(Drawn(rest, S) /\ Has(s, S))
    BY <1>1, AppendDrawn
  <1>7. /\ Drawn(Append(rest, d), S) <=> Drawn(rest, S) \/ Has(Tail(s), S)
        /\ DrawnOnce(Append(rest, d), S) <=>
              DrawnOnce(rest, S) /\ Once(Tail(s), S) /\ ~(Drawn(rest, S) /\ Has(Tail(s), S))
    BY <1>4, AppendDrawn
  <1>8. /\ Drawn(Append(rest, drain), S) <=> Drawn(Append(rest, d), S) \/ Head(s) \in S
        /\ DrawnOnce(Append(rest, drain), S) <=>
               DrawnOnce(Append(rest, d), S) /\ ~(Head(s) \in S /\ Drawn(Append(rest, d), S))
    BY <1>5, <1>6, <1>7, Zenon
  <1> QED  BY <1>1, <1>3, <1>4, <1>8, Zenon

\* Taking an event from the drain keeps the table; its lease is in it, and nobody else has that.
LEMMA DispatchTable ==
    ASSUME PtShape, PtTable, ptDrains # <<>>, NEW drain, drain = Last(ptDrains), drain.events # <<>>,
           NEW event, event = Head(drain.events), NEW drains,
           drains = Append(Front(ptDrains), [events |-> Tail(drain.events), taken |-> drain.taken \cup Leased(event.lease)])
    PROVE  /\ event \in Arrived /\ drains \in Seq(PtDrain)
           /\ DrainsOK(ptTransfers \cup Leased(event.lease), drains)
           /\ Books(ptLeases, ptTransfers \cup Leased(event.lease), ptRetained, ptReleased, Held(ptUi), Waits(drains))
           /\ event.lease # 0 => event.lease \in ptLeases /\ event.lease \notin ptTransfers \cup ptReleased \cup Held(ptUi)
  <1>1. PICK rest, lease : rest = Front(ptDrains) /\ lease = event.lease
    OBVIOUS
  <1>2. rest \in Seq(PtDrain) /\ drain \in PtDrain /\ ptDrains = Append(rest, drain)
    BY <1>1, FrontLast DEF PtShape
  <1>3. event \in Arrived
    BY <1>2, HeadTailProperties DEF PtDrain
  <1>4. lease \in Nat /\ event \in PtEvent
    BY <1>1, <1>3 DEF Arrived, PtEvent
  <1>5. PICK taken : taken = drain.taken \cup Leased(lease)
    OBVIOUS
  <1>6. taken \in SUBSET Nat
    BY <1>2, <1>4, <1>5 DEF PtDrain, Leased
  <1>7. PICK d : d = [events |-> Tail(drain.events), taken |-> taken]
    OBVIOUS
  <1>8. /\ d \in PtDrain
        /\ \A S : /\ Drawn(ptDrains, S) <=> Drawn(Append(rest, d), S) \/ event \in S
                  /\ DrawnOnce(ptDrains, S) <=>
                         DrawnOnce(Append(rest, d), S) /\ ~(event \in S /\ Drawn(Append(rest, d), S))
    <2>1. ASSUME NEW S
          PROVE  /\ [events |-> Tail(drain.events), taken |-> taken] \in PtDrain
                 /\ Drawn(Append(rest, drain), S) <=>
                        \/ Drawn(Append(rest, [events |-> Tail(drain.events), taken |-> taken]), S)
                        \/ Head(drain.events) \in S
                 /\ DrawnOnce(Append(rest, drain), S) <=>
                        /\ DrawnOnce(Append(rest, [events |-> Tail(drain.events), taken |-> taken]), S)
                        /\ ~(/\ Head(drain.events) \in S
                             /\ Drawn(Append(rest, [events |-> Tail(drain.events), taken |-> taken]), S))
      BY <1>2, <1>6, TailDrawn
    <2> QED  BY <2>1, <1>2, <1>7, Zenon
  <1>9. drains = Append(rest, d) /\ drains \in Seq(PtDrain)
    BY <1>1, <1>2, <1>5, <1>7, <1>8, AppendProperties
  <1>10. \A l : event \in OfLease(l) <=> lease = l
    BY <1>1, <1>4 DEF OfLease
  <1>11. /\ Takes(ptDrains) \subseteq ptTransfers /\ TakenApart(ptDrains)
         /\ \A l \in Nat \ {0} : DrawnOnce(ptDrains, OfLease(l))
         /\ Books(ptLeases, ptTransfers, ptRetained, ptReleased, Held(ptUi), Waits(ptDrains))
    BY Zenon DEF PtTable, TableOK, DrainsOK
  <1>12. \A l \in Nat \ {0} : /\ Drawn(ptDrains, OfLease(l)) <=> Drawn(drains, OfLease(l)) \/ lease = l
                              /\ DrawnOnce(drains, OfLease(l)) /\ ~(lease = l /\ Drawn(drains, OfLease(l)))
    BY <1>8, <1>9, <1>10, <1>11, Zenon
  <1>13. Leased(lease) \subseteq Waits(ptDrains) /\ Waits(drains) = Waits(ptDrains) \ Leased(lease)
    BY <1>4, <1>12 DEF Waits, Leased
  <1>14. Books(ptLeases, ptTransfers \cup Leased(lease), ptRetained, ptReleased, Held(ptUi), Waits(drains))
    <2>1. PICK H, W, D : H = Held(ptUi) /\ W = Waits(ptDrains) /\ D = Leased(lease)
      OBVIOUS
    <2>2. Books(ptLeases, ptTransfers, ptRetained, ptReleased, H, W) /\ D \in SUBSET W
      BY <2>1, <1>11, <1>13
    <2>3. Books(ptLeases, ptTransfers \cup D, ptRetained, ptReleased, H, W \ D)
      BY <2>2, BooksDispatch
    <2> QED  BY <2>1, <2>3, <1>13, Zenon
  <1>15. lease # 0 => lease \in ptLeases /\ lease \notin ptTransfers \cup ptReleased \cup Held(ptUi)
    <2>1. lease # 0 => lease \in Waits(ptDrains)
      BY <1>13 DEF Leased
    <2> QED  BY <2>1, <1>11 DEF Books
  <1>16. Takes(drains) \subseteq ptTransfers \cup Leased(lease) /\ TakenApart(drains)
    <2>1. Takes(ptDrains) = Takes(rest) \cup drain.taken /\ (TakenApart(rest) /\ Takes(rest) \cap drain.taken = {})
      BY <1>2, <1>11, AppendTakes
    <2>2. d.taken = drain.taken \cup Leased(lease)
      BY <1>5, <1>7
    <2>3. /\ Takes(drains) = Takes(rest) \cup d.taken
          /\ TakenApart(drains) <=> TakenApart(rest) /\ Takes(rest) \cap d.taken = {}
      <3>1. rest \in Seq(PtDrain) /\ d \in PtDrain
        BY <1>2, <1>8
      <3>2. /\ Takes(Append(rest, d)) = Takes(rest) \cup d.taken
            /\ TakenApart(Append(rest, d)) <=> TakenApart(rest) /\ Takes(rest) \cap d.taken = {}
        BY <3>1, AppendTakes
      <3> QED  BY <3>2, <1>9, Zenon
    <2>4. Takes(rest) \subseteq ptTransfers
      BY <2>1, <1>11
    <2>5. Takes(rest) \cap Leased(lease) = {}
      BY <2>4, <1>15 DEF Leased
    <2> QED  BY <2>1, <2>2, <2>3, <2>5, <1>11
  <1>17. DrainsOK(ptTransfers \cup Leased(lease), drains)
    BY <1>12, <1>16, Zenon DEF DrainsOK
  <1> QED  BY <1>1, <1>3, <1>9, <1>14, <1>15, <1>17, Zenon

\* What a handler is called with: the lease of the event is taken over, the rest of the drain waits.
Handling(event, T, drains) ==
    /\ event \in Arrived /\ drains \in Seq(PtDrain) /\ T = ptTransfers \cup Leased(event.lease)
    /\ DrainsOK(T, drains)
    /\ Books(ptLeases, T, ptRetained, ptReleased, Held(ptUi), Waits(drains))
    /\ event.lease # 0 => event.lease \in ptLeases /\ event.lease \notin ptTransfers \cup ptReleased \cup Held(ptUi)

\* What a handler leaves behind.
Handled(event, T, drains) ==
    /\ ptUi' \in PtWindow /\ ptBuilds' \subseteq PtBuild /\ ptLeases' \subseteq ptLeases
    /\ WindowOK(ptUi', ptBuilds')
    /\ TableOK(ptLeases', T, ptRetained', ptReleased', drains, ptUi')
    /\ ptUi'.query \in {0, ptUi.query}
    /\ \/ ptAsked' = ptAsked
       \/ event \in Schemas(ptUi.query) /\ \E c \in ToFetch(ptUi.query) : ptAsked' = Append(ptAsked, c)
    /\ \/ event \in Schemas(ptUi.query) \/ event \in Pages(ptUi.query)
       \/ \A q \in Nat \ {0} : Blank(ptUi, q) => Blank(ptUi', q)

\* The handler of a schema, which comes to a window that has no page yet.
LEMMA SchemaHandled ==
    ASSUME PtShape, PtTable, PtView, NEW event, NEW T, NEW drains, Handling(event, T, drains),
           event.kind = "schema" => Blank(ptUi, event.query), OnSchema(event, T)
    PROVE  Handled(event, T, drains)
  <1>1. /\ event.kind = "schema" /\ event.query = ptUi.query
        /\ GiveBack(Holding, T) /\ ptBuilds' = NotListening
    BY DEF OnSchema
  <1>2. PICK lease, query : lease = event.lease /\ query = ptUi.query
    OBVIOUS
  <1>3. event \in PtEvent /\ lease \in Nat \ {0} /\ query \in Nat \ {0} /\ event \in Schemas(query)
    BY <1>1, <1>2 DEF Handling, Arrived, Reserved, PtEvent, Schemas
  <1>4. ptUi \in PtWindow /\ ptUi.page = 0
    BY <1>1 DEF PtShape, Blank
  <1>5. PICK W : W = Waits(drains)
    OBVIOUS
  <1>6. Holding = Held(ptUi)
    BY DEF Holding, Held
  <1>7. Books(ptLeases', T, ptRetained, ptReleased', {}, W) /\ (ptLeases' \subseteq ptLeases)
    <2>1. PICK H : H = Held(ptUi)
      OBVIOUS
    <2>2. Books(ptLeases, T, ptRetained, ptReleased, H, W) /\ GiveBack(H, T) /\ H \in SUBSET H /\ H \ H = {}
      BY <1>1, <1>5, <1>6, <2>1 DEF Handling
    <2>3. Books(ptLeases', T, ptRetained, ptReleased', H \ H, W) /\ (ptLeases' \subseteq ptLeases)
      BY <2>2, GiveBackBooks
    <2> QED  BY <2>2, <2>3, Zenon
  <1>8. ptBuilds' \subseteq PtBuild /\ \A b \in ptBuilds' : ~b.live
    BY <1>1, NobodyListens DEF PtShape
  <1>9. PICK bare : bare = Cleared
    OBVIOUS
  <1>10. /\ bare \in PtWindow /\ bare.query = query /\ bare.page = 0 /\ bare.shown = Nothing
         /\ bare.visible = 0 /\ bare.schema = 0 /\ bare.building = 0
    BY <1>2, <1>4, <1>9, ClearedView
  <1>11. 0 \notin ptLeases'
    BY <1>7, Zenon DEF PtTable, TableOK
  <1>12. DrainsOK(T, drains)
    BY DEF Handling
  <1>13. ASSUME NEW kept \in PtWindow, SameView(kept, ptUi'), kept.query = query, kept.page = 0, kept.shown = Nothing,
                kept.visible = 0, kept.building = 0, ptUi' \in PtWindow,
                Books(ptLeases', T, ptRetained', ptReleased', Leased(kept.schema), W),
                ptAsked' = ptAsked \/ \E c \in ToFetch(query) : ptAsked' = Append(ptAsked, c)
         PROVE  Handled(event, T, drains)
    <2>1. WindowOK(kept, ptBuilds')
      BY <1>8, <1>13 DEF WindowOK
    <2>2. WindowOK(ptUi', ptBuilds')
      BY <2>1, <1>13, WindowSame
    <2>3. Held(kept) = Leased(kept.schema)
      BY <1>13 DEF Held, Leased
    <2>4. Held(ptUi') = Leased(kept.schema)
      BY <2>3, <1>13, HeldSame
    <2>5. TableOK(ptLeases', T, ptRetained', ptReleased', drains, ptUi')
      BY <2>4, <1>5, <1>11, <1>12, <1>13, Zenon DEF TableOK
    <2>6. ptUi'.query = query
      BY <1>13 DEF SameView
    <2> QED  BY <2>2, <2>5, <2>6, <1>2, <1>3, <1>7, <1>8, <1>13, Zenon DEF Handled
  <1>14. CASE ptRetained' = ptRetained \cup {lease} /\ AskFor(1, [bare EXCEPT !.schema = lease, !.fetching = TRUE])
    <2>1. PICK kept : kept = [bare EXCEPT !.schema = lease, !.fetching = TRUE]
      OBVIOUS
    <2>2. /\ kept \in PtWindow /\ kept.query = bare.query /\ kept.page = bare.page /\ kept.shown = bare.shown
          /\ kept.visible = bare.visible /\ kept.schema = lease /\ kept.building = bare.building
      <3>1. bare \in PtWindow /\ lease \in Nat
        BY <1>3, <1>10
      <3> QED  BY <3>1, <2>1, Zenon DEF PtWindow
    <2>3. /\ ptUi' \in PtWindow /\ SameView(kept, ptUi')
          /\ ptAsked' = ptAsked \/ \E c \in ToFetch(ptUi.query) : ptAsked' = Append(ptAsked, c)
      <3>1. 1 \in Nat /\ ptUi.query # 0 /\ AskFor(1, kept)
        BY <2>1, <1>2, <1>3, <1>14
      <3> QED  BY <3>1, <2>2, AskForStep
    <2>4. lease \in T \ ptReleased'
      <3>1. lease \in T /\ lease \notin ptReleased /\ lease \notin Holding
        BY <1>2, <1>3, <1>6 DEF Handling, Leased
      <3>2. ptReleased' = ptReleased \cup (Holding \cap T)
        BY <1>1 DEF GiveBack
      <3> QED  BY <3>1, <3>2
    <2>5. Books(ptLeases', T, ptRetained', ptReleased', Leased(kept.schema), W)
      <3>1. PICK L, X : L = ptLeases' /\ X = ptReleased'
        OBVIOUS
      <3>2. Books(L, T, ptRetained, X, {}, W) /\ lease \in T \ X
        BY <3>1, <2>4, <1>7
      <3>3. Books(L, T, ptRetained \cup {lease}, X, {} \cup {lease}, W)
        BY <3>2, BooksRetain
      <3>4. Leased(kept.schema) = {} \cup {lease}
        BY <2>2, <1>3 DEF Leased
      <3> QED  BY <3>1, <3>3, <3>4, <1>14, Zenon
    <2> QED  BY <2>2, <2>3, <2>5, <1>2, <1>10, <1>13, Zenon
  <1>15. CASE ptUi' = [bare EXCEPT !.busy = FALSE, !.fetching = FALSE] /\ UNCHANGED <<ptAsked, ptRetained>>
    <2>1. PICK kept : kept = [bare EXCEPT !.busy = FALSE, !.fetching = FALSE]
      OBVIOUS
    <2>2. /\ kept \in PtWindow /\ kept.query = bare.query /\ kept.page = bare.page /\ kept.shown = bare.shown
          /\ kept.visible = bare.visible /\ kept.schema = bare.schema /\ kept.building = bare.building
      BY <2>1, <1>10, Zenon DEF PtWindow
    <2>3. ptUi' = kept /\ SameView(kept, ptUi')
      BY <2>1, <1>15 DEF SameView
    <2>4. Leased(kept.schema) = {}
      BY <2>2, <1>10 DEF Leased
    <2>5. Books(ptLeases', T, ptRetained', ptReleased', Leased(kept.schema), W)
      BY <2>4, <1>7, <1>15, Zenon
    <2> QED  BY <2>2, <2>3, <2>5, <1>10, <1>13, <1>15, Zenon
  <1> QED  BY <1>2, <1>9, <1>14, <1>15, Zenon DEF OnSchema

\* The handler of a page.
LEMMA PageHandled ==
    ASSUME PtShape, PtTable, PtView, NEW event, NEW T, NEW drains, Handling(event, T, drains), OnPage(event, T)
    PROVE  Handled(event, T, drains)
  <1>1. /\ event.kind = "stored_page" /\ event.query = ptUi.query
        /\ ptRetained' = ptRetained \cup {event.lease}
        /\ GiveBack(Leased(ptUi.building), T)
        /\ ptUi' = [ptUi EXCEPT !.building = event.lease]
        /\ ptBuilds' = NotListening \cup {[event |-> event, live |-> TRUE]}
        /\ ptAsked' = ptAsked
    BY DEF OnPage, ptLink
  <1>2. PICK lease, query : lease = event.lease /\ query = ptUi.query
    OBVIOUS
  <1>3. event \in PtEvent /\ lease \in Nat \ {0} /\ query \in Nat \ {0} /\ event \in Pages(query)
    BY <1>1, <1>2 DEF Handling, Arrived, Reserved, PtEvent, Pages
  <1>4. ptUi \in PtWindow
    BY DEF PtShape
  <1>5. PICK W, D, H : W = Waits(drains) /\ D = Leased(ptUi.building) /\ H = Held(ptUi)
    OBVIOUS
  <1>6. D \in SUBSET H /\ H \ D = Leased(ptUi.visible) \cup Leased(ptUi.schema)
    BY <1>5, Zenon DEF Held, Leased, PtView, WindowOK
  <1>7. Books(ptLeases', T, ptRetained, ptReleased', H \ D, W) /\ (ptLeases' \subseteq ptLeases)
    <2>1. Books(ptLeases, T, ptRetained, ptReleased, H, W) /\ GiveBack(D, T)
      BY <1>1, <1>5 DEF Handling
    <2> QED  BY <2>1, <1>6, GiveBackBooks
  <1>8. lease \in T \ ptReleased' /\ lease \notin H
    <2>1. lease \in T /\ lease \notin ptReleased /\ lease \notin H
      BY <1>2, <1>3, <1>5 DEF Handling, Leased
    <2>2. ptReleased' = ptReleased \cup (D \cap T)
      BY <1>1, <1>5 DEF GiveBack
    <2> QED  BY <2>1, <2>2, <1>6
  <1>9. /\ ptUi' \in PtWindow /\ ptUi'.query = query /\ ptUi'.page = ptUi.page /\ ptUi'.shown = ptUi.shown
        /\ ptUi'.visible = ptUi.visible /\ ptUi'.schema = ptUi.schema /\ ptUi'.building = lease
    <2>1. lease \in Nat
      BY <1>3
    <2>2. PICK ui : ui = [ptUi EXCEPT !.building = lease]
      OBVIOUS
    <2>3. /\ ui \in PtWindow /\ ui.query = ptUi.query /\ ui.page = ptUi.page /\ ui.shown = ptUi.shown
          /\ ui.visible = ptUi.visible /\ ui.schema = ptUi.schema /\ ui.building = lease
      BY <2>1, <2>2, <1>4, Zenon DEF PtWindow
    <2> QED  BY <2>2, <2>3, <1>1, <1>2, Zenon
  <1>10. Held(ptUi') = (H \ D) \cup {lease}
    BY <1>3, <1>6, <1>9 DEF Held, Leased
  <1>11. Books(ptLeases', T, ptRetained', ptReleased', Held(ptUi'), W)
    <2>1. PICK L, X, G : L = ptLeases' /\ X = ptReleased' /\ G = H \ D
      OBVIOUS
    <2>2. Books(L, T, ptRetained, X, G, W) /\ lease \in T \ X
      BY <2>1, <1>7, <1>8
    <2>3. Books(L, T, ptRetained \cup {lease}, X, G \cup {lease}, W)
      BY <2>2, BooksRetain
    <2> QED  BY <2>1, <2>3, <1>1, <1>2, <1>10, Zenon
  <1>12. TableOK(ptLeases', T, ptRetained', ptReleased', drains, ptUi')
    <2>1. 0 \notin ptLeases'
      BY <1>7, Zenon DEF PtTable, TableOK
    <2>2. DrainsOK(T, drains)
      BY DEF Handling
    <2> QED  BY <2>1, <2>2, <1>5, <1>11, Zenon DEF TableOK
  <1>13. NotListening \subseteq PtBuild /\ \A b \in NotListening : ~b.live
    BY NobodyListens DEF PtShape
  <1>14. PICK build : build = [event |-> event, live |-> TRUE]
    OBVIOUS
  <1>15. build \in PtBuild /\ build.live /\ build.event = event
    BY <1>14 DEF PtBuild, Handling
  <1>16. ptBuilds' \subseteq PtBuild /\ build \in ptBuilds' /\ \A b \in ptBuilds' : b.live => b = build
    BY <1>1, <1>13, <1>14, <1>15, Zenon
  <1>17. WindowOK(ptUi', ptBuilds')
    <2>1. OfWindow(ptUi', build)
      BY <1>1, <1>2, <1>3, <1>9, <1>15 DEF OfWindow
    <2>2. lease # ptUi.visible /\ lease # ptUi.schema
      BY <1>3, <1>5, <1>8 DEF Held, Leased
    <2>3. /\ ptUi'.visible # 0 => ptUi'.visible # ptUi'.schema /\ ptUi'.visible # ptUi'.building
          /\ ptUi'.schema # 0 => ptUi'.schema # ptUi'.building
      BY <2>2, <1>9, Zenon DEF PtView, WindowOK
    <2>4. /\ ptUi'.visible # 0 <=> ptUi'.shown # Nothing
          /\ ptUi'.query # 0 /\ ptUi'.page # 0 => ptUi'.shown = [query |-> ptUi'.query, page |-> ptUi'.page]
      BY <1>2, <1>9, Zenon DEF PtView, WindowOK
    <2> QED  BY <2>1, <2>3, <2>4, <1>15, <1>16, Zenon DEF WindowOK
  <1> QED  BY <1>1, <1>2, <1>3, <1>7, <1>9, <1>12, <1>16, <1>17, Zenon DEF Handled

\* The handlers of the other events.
LEMMA OthersHandled ==
    ASSUME PtShape, PtTable, PtView, NEW event, NEW T, NEW drains, Handling(event, T, drains),
           OnEnd(event) \/ OnOther(event)
    PROVE  Handled(event, T, drains)
  <1>1. UNCHANGED <<ptLink, ptLeases, ptRetained, ptReleased, ptBuilds>>
    BY DEF OnEnd, OnOther
  <1>2. ptUi \in PtWindow
    BY DEF PtShape
  <1>3. /\ ptUi' \in PtWindow /\ ptUi'.visible = ptUi.visible /\ ptUi'.schema = ptUi.schema
        /\ ptUi'.building = ptUi.building /\ ptUi'.shown = ptUi.shown
        /\ \/ ptUi'.query = ptUi.query /\ ptUi'.page = ptUi.page /\ (ptUi'.more = ptUi.more \/ ptUi'.more = FALSE)
           \/ ptUi'.query = 0
    <2>0. PICK ended : ended = Ended
      OBVIOUS
    <2>1. /\ ended \in PtWindow /\ ended.visible = ptUi.visible /\ ended.schema = ptUi.schema
          /\ ended.building = ptUi.building /\ ended.shown = ptUi.shown
          /\ ended.query = ptUi.query /\ ended.page = ptUi.page /\ ended.more = ptUi.more
      BY <2>0, <1>2, Zenon DEF Ended, PtWindow
    <2>2. CASE ptUi' = Ended
      BY <2>0, <2>1, <2>2, Zenon
    <2>3. CASE ptUi' = [Ended EXCEPT !.more = FALSE]
      BY <2>0, <2>1, <2>3, Zenon DEF PtWindow
    <2>4. CASE ptUi' = [Ended EXCEPT !.connected = FALSE, !.query = 0, !.page = 0, !.more = FALSE]
      <3>1. PICK ui, none : none = 0 /\ ui = [ended EXCEPT !.connected = FALSE, !.query = none, !.page = none, !.more = FALSE]
        OBVIOUS
      <3>2. none \in Nat
        BY <3>1
      <3>3. /\ ui \in PtWindow /\ ui.visible = ended.visible /\ ui.schema = ended.schema
            /\ ui.building = ended.building /\ ui.shown = ended.shown /\ ui.query = none
        BY <2>1, <3>1, <3>2, Zenon DEF PtWindow
      <3>4. ptUi' = ui
        BY <2>0, <2>4, <3>1, Zenon
      <3> QED  BY <2>1, <3>1, <3>3, <3>4, Zenon
    <2>5. CASE ptUi' = ptUi
      BY <2>5, <1>2
    <2> QED  BY <2>2, <2>3, <2>4, <2>5, Zenon DEF OnEnd, OnOther
  <1>4. Held(ptUi') = Held(ptUi)
    BY <1>3, Zenon DEF Held
  <1>5. TableOK(ptLeases', T, ptRetained', ptReleased', drains, ptUi')
    <2>1. 0 \notin ptLeases
      BY Zenon DEF PtTable, TableOK
    <2> QED  BY <2>1, <1>1, <1>4, Zenon DEF TableOK, Handling
  <1>6. WindowOK(ptUi', ptBuilds')
    <2>1. \A b : OfWindow(ptUi, b) => OfWindow(ptUi', b)
      <3>1. ptUi'.query \in {0, ptUi.query}
        BY <1>3
      <3> QED  BY <3>1, <1>3 DEF OfWindow
    <2>2. ptBuilds' = ptBuilds
      BY <1>1
    <2> QED  BY <2>1, <2>2, <1>3, Zenon DEF PtView, WindowOK
  <1>7. ptBuilds' \subseteq PtBuild /\ ptLeases' \subseteq ptLeases /\ ptAsked' = ptAsked
    BY <1>1 DEF PtShape, ptLink
  <1>8. ptUi'.query \in {0, ptUi.query} /\ \A q \in Nat \ {0} : Blank(ptUi, q) => Blank(ptUi', q)
    BY <1>3 DEF Blank
  <1> QED  BY <1>3, <1>5, <1>6, <1>7, <1>8, Zenon DEF Handled

\* The next event is dispatched.
LEMMA DispatchStep ==
    ASSUME PtShape, PtTable, PtView, PtOrder, PtDispatch
    PROVE  \E event \in Arrived :
               /\ Handled(event, ptTransfers', ptDrains') /\ ptDrains' \in Seq(PtDrain)
               /\ UNCHANGED <<ptEngine, ptSent, ptRaw, ptCount>>
               /\ \A S : /\ Drawn(ptDrains, S) <=> Drawn(ptDrains', S) \/ event \in S
                         /\ DrawnOnce(ptDrains, S) <=>
                                DrawnOnce(ptDrains', S) /\ ~(event \in S /\ Drawn(ptDrains', S))
  <1>1. PICK drain, event : drain = Last(ptDrains) /\ event = Head(drain.events)
    OBVIOUS
  <1>2. PICK T, drains : T = ptTransfers' /\ drains = ptDrains'
    OBVIOUS
  <1>3. /\ ptDrains # <<>> /\ drain.events # <<>>
        /\ T = ptTransfers \cup Leased(event.lease)
        /\ drains = Append(Front(ptDrains), [events |-> Tail(drain.events), taken |-> drain.taken \cup Leased(event.lease)])
        /\ OnSchema(event, T) \/ OnPage(event, T) \/ OnEnd(event) \/ OnOther(event)
        /\ UNCHANGED <<ptEngine, ptSent, ptRaw, ptLoop, ptCount>>
    BY <1>1, <1>2, Zenon DEF PtDispatch
  <1>4. Handling(event, T, drains)
    BY <1>1, <1>3, DispatchTable, Zenon DEF Handling
  <1>5. \A S : /\ Drawn(ptDrains, S) <=> Drawn(drains, S) \/ event \in S
               /\ DrawnOnce(ptDrains, S) <=> DrawnOnce(drains, S) /\ ~(event \in S /\ Drawn(drains, S))
    <2>1. PICK rest, taken : rest = Front(ptDrains) /\ taken = drain.taken \cup Leased(event.lease)
      OBVIOUS
    <2>2. rest \in Seq(PtDrain) /\ drain \in PtDrain /\ ptDrains = Append(rest, drain)
      BY <1>1, <1>3, <2>1, FrontLast DEF PtShape
    <2>3. taken \in SUBSET Nat
      <3>1. event.lease \in Nat
        BY <1>4 DEF Handling, Arrived, PtEvent
      <3> QED  BY <2>1, <2>2, <3>1 DEF PtDrain, Leased
    <2>4. ASSUME NEW S
          PROVE  /\ Drawn(Append(rest, drain), S) <=>
                        \/ Drawn(Append(rest, [events |-> Tail(drain.events), taken |-> taken]), S)
                        \/ Head(drain.events) \in S
                 /\ DrawnOnce(Append(rest, drain), S) <=>
                        /\ DrawnOnce(Append(rest, [events |-> Tail(drain.events), taken |-> taken]), S)
                        /\ ~(/\ Head(drain.events) \in S
                             /\ Drawn(Append(rest, [events |-> Tail(drain.events), taken |-> taken]), S))
      BY <2>2, <2>3, <1>3, TailDrawn
    <2> QED  BY <2>1, <2>2, <2>4, <1>1, <1>3, Zenon
  <1>6. event.kind = "schema" => Blank(ptUi, event.query)
    <2>1. SUFFICES ASSUME event.kind = "schema"  PROVE Blank(ptUi, event.query)
      OBVIOUS
    <2>2. PICK q : q = event.query
      OBVIOUS
    <2>3. event \in PtEvent /\ q \in Nat \ {0} /\ event \in Schemas(q)
      BY <1>4, <2>1, <2>2 DEF Handling, Arrived, Reserved, PtEvent, Schemas
    <2>4. Drawn(ptDrains, Schemas(q))
      BY <2>3, <1>5, Zenon
    <2>5. Expected(ptAsked, ptSent, ptRaw, ptDrains, q)
      BY <2>4 DEF Expected
    <2> QED  BY <2>2, <2>3, <2>5, Zenon DEF PtOrder, OrderOK
  <1>7. Handled(event, T, drains)
    BY <1>3, <1>4, <1>6, SchemaHandled, PageHandled, OthersHandled, Zenon
  <1>8. event \in Arrived /\ drains \in Seq(PtDrain)
    BY <1>4 DEF Handling
  <1> QED
    <2>1. UNCHANGED <<ptEngine, ptSent, ptRaw, ptCount>>
      BY <1>3
    <2> QED  BY <2>1, <1>2, <1>5, <1>7, <1>8, Zenon

\* A drain without events gives back what nobody retained.
LEMMA DrainedStep ==
    ASSUME PtShape, PtTable, PtDrained
    PROVE  /\ TableOK(ptLeases', ptTransfers', ptRetained', ptReleased', ptDrains', ptUi)
           /\ ptLeases' \subseteq ptLeases /\ ptDrains' \in Seq(PtDrain)
           /\ UNCHANGED <<ptAsked, ptEngine, ptSent, ptRaw, ptUi, ptBuilds, ptCount>>
           /\ \A S : /\ Drawn(ptDrains, S) <=> Drawn(ptDrains', S)
                     /\ DrawnOnce(ptDrains, S) <=> DrawnOnce(ptDrains', S)
  <1>1. PICK drain, rest : drain = Last(ptDrains) /\ rest = Front(ptDrains)
    OBVIOUS
  <1>2. ptDrains # <<>> /\ drain.events = <<>> /\ ptDrains' = rest
    BY <1>1 DEF PtDrained
  <1>3. rest \in Seq(PtDrain) /\ drain \in PtDrain /\ ptDrains = Append(rest, drain)
    BY <1>1, <1>2, FrontLast DEF PtShape
  <1>4. \A S : Drawn(ptDrains, S) <=> Drawn(rest, S) \/ Has(<<>>, S)
    BY <1>2, <1>3, AppendDrawn
  <1>5. \A S : DrawnOnce(ptDrains, S) <=> DrawnOnce(rest, S) /\ Once(<<>>, S) /\ ~(Drawn(rest, S) /\ Has(<<>>, S))
    BY <1>2, <1>3, AppendDrawn
  <1>6. \A S : (Drawn(ptDrains, S) <=> Drawn(rest, S)) /\ (DrawnOnce(ptDrains, S) <=> DrawnOnce(rest, S))
    BY <1>4, <1>5, EmptyHas, Zenon
  <1>7. Waits(rest) = Waits(ptDrains)
    BY <1>6, Zenon DEF Waits
  <1>8. PICK taken : taken = drain.taken
    OBVIOUS
  <1>9. Takes(ptDrains) = Takes(rest) \cup taken /\ TakenApart(rest) /\ Takes(rest) \cap taken = {}
    <2>1. /\ Takes(Append(rest, drain)) = Takes(rest) \cup drain.taken
          /\ TakenApart(Append(rest, drain)) <=> TakenApart(rest) /\ Takes(rest) \cap drain.taken = {}
      BY <1>3, AppendTakes
    <2>2. TakenApart(ptDrains)
      BY Zenon DEF PtTable, TableOK, DrainsOK
    <2> QED  BY <2>1, <2>2, <1>3, <1>8, Zenon
  <1>10. Takes(ptDrains) \subseteq ptTransfers
    BY Zenon DEF PtTable, TableOK, DrainsOK
  <1>11. /\ ptLeases' = ptLeases \ (taken \ ((taken \cap ptRetained) \ ptReleased)) /\ ptTransfers' = ptTransfers \ taken
         /\ ptRetained' = ptRetained \ taken /\ ptReleased' = ptReleased \ taken
    BY <1>1, <1>8 DEF PtDrained, Retained
  <1>12. DrainsOK(ptTransfers', rest)
    <2>1. Takes(rest) \subseteq ptTransfers'
      BY <1>9, <1>10, <1>11
    <2>2. \A l \in Nat \ {0} : DrawnOnce(rest, OfLease(l))
      BY <1>6, Zenon DEF PtTable, TableOK, DrainsOK
    <2> QED  BY <2>1, <2>2, <1>9 DEF DrainsOK
  <1>13. Books(ptLeases', ptTransfers', ptRetained', ptReleased', Held(ptUi), Waits(rest))
    <2>1. PICK H, W : H = Held(ptUi) /\ W = Waits(rest)
      OBVIOUS
    <2>2. Books(ptLeases, ptTransfers, ptRetained, ptReleased, H, W)
      BY <2>1, <1>7, Zenon DEF PtTable, TableOK
    <2>3. taken \in SUBSET ptTransfers
      BY <1>9, <1>10
    <2>4. Books(ptLeases \ (taken \ ((taken \cap ptRetained) \ ptReleased)), ptTransfers \ taken,
                ptRetained \ taken, ptReleased \ taken, H, W)
      BY <2>2, <2>3, BooksDrained
    <2> QED  BY <2>1, <2>4, <1>11, Zenon
  <1>14. ptLeases' \subseteq ptLeases /\ 0 \notin ptLeases'
    BY <1>11 DEF PtTable, TableOK
  <1>15. UNCHANGED <<ptAsked, ptEngine, ptSent, ptRaw, ptUi, ptBuilds, ptCount>>
    BY DEF PtDrained, ptLink
  <1> QED  BY <1>2, <1>3, <1>6, <1>12, <1>13, <1>14, <1>15, Zenon DEF TableOK

\* The leases of a tick wait for their events to be dispatched.
LEMMA TickTable ==
    ASSUME PtShape, PtTable, PtTick
    PROVE  /\ TableOK(ptLeases', ptTransfers, ptRetained, ptReleased, ptDrains', ptUi)
           /\ ptLeases' \subseteq Nat /\ ptDrains' \in Seq(PtDrain)
           /\ \E n \in 0 .. Len(ptSent), raw \in Seq(Fresh), events \in Seq(Arrived) : \E taken \in 0 .. Len(raw) :
                  /\ raw = ptRaw \o SubSeq(ptSent, 1, n) /\ Len(raw) <= PtBudget
                  /\ ptSent' = SubSeq(ptSent, n + 1, Len(ptSent)) /\ ptRaw' = SubSeq(raw, taken + 1, Len(raw))
                  /\ \A q : /\ Has(events, Schemas(q)) <=> Has(SubSeq(raw, 1, taken), Schemas(q))
                            /\ Once(events, Schemas(q)) <=> Once(SubSeq(raw, 1, taken), Schemas(q))
                            /\ Has(events, Pages(q)) <=> Has(SubSeq(raw, 1, taken), Pages(q))
                  /\ \A S : /\ Drawn(ptDrains', S) <=> Drawn(ptDrains, S) \/ Has(events, S)
                            /\ DrawnOnce(ptDrains', S) <=>
                                   DrawnOnce(ptDrains, S) /\ Once(events, S) /\ ~(Drawn(ptDrains, S) /\ Has(events, S))
  <1>1. PICK n \in 0 .. Len(ptSent), raw \in Seq(Fresh) : \E taken \in 0 .. Len(raw) : \E leases \in [1 .. taken -> Nat] :
               /\ raw = ptRaw \o SubSeq(ptSent, 1, n) /\ Len(raw) <= PtBudget /\ Placed(raw, leases)
               /\ ptSent' = SubSeq(ptSent, n + 1, Len(ptSent)) /\ ptRaw' = SubSeq(raw, taken + 1, Len(raw))
               /\ ptLeases' = ptLeases \cup ({leases[i] : i \in 1 .. taken} \ {0})
               /\ ptDrains' = Append(ptDrains, [events |-> Converted(raw, leases), taken |-> {}])
    BY TickStep, Zenon
  <1>2. PICK taken \in 0 .. Len(raw) : \E leases \in [1 .. taken -> Nat] :
               /\ raw = ptRaw \o SubSeq(ptSent, 1, n) /\ Len(raw) <= PtBudget /\ Placed(raw, leases)
               /\ ptSent' = SubSeq(ptSent, n + 1, Len(ptSent)) /\ ptRaw' = SubSeq(raw, taken + 1, Len(raw))
               /\ ptLeases' = ptLeases \cup ({leases[i] : i \in 1 .. taken} \ {0})
               /\ ptDrains' = Append(ptDrains, [events |-> Converted(raw, leases), taken |-> {}])
    BY <1>1, Zenon
  <1>3. PICK leases \in [1 .. taken -> Nat] :
               /\ raw = ptRaw \o SubSeq(ptSent, 1, n) /\ Len(raw) <= PtBudget /\ Placed(raw, leases)
               /\ ptSent' = SubSeq(ptSent, n + 1, Len(ptSent)) /\ ptRaw' = SubSeq(raw, taken + 1, Len(raw))
               /\ ptLeases' = ptLeases \cup ({leases[i] : i \in 1 .. taken} \ {0})
               /\ ptDrains' = Append(ptDrains, [events |-> Converted(raw, leases), taken |-> {}])
    BY <1>2, Zenon
  <1>4. PICK events, N : events = Converted(raw, leases) /\ N = {leases[i] : i \in 1 .. taken} \ {0}
    OBVIOUS
  <1>5. /\ events \in Seq(Arrived)
        /\ \A l \in Nat \ {0} : (Has(events, OfLease(l)) <=> l \in N) /\ Once(events, OfLease(l))
        /\ N \cap ptLeases = {}
        /\ \A q : /\ Has(events, Schemas(q)) <=> Has(SubSeq(raw, 1, taken), Schemas(q))
                  /\ Once(events, Schemas(q)) <=> Once(SubSeq(raw, 1, taken), Schemas(q))
                  /\ Has(events, Pages(q)) <=> Has(SubSeq(raw, 1, taken), Pages(q))
    <2>1. Placed(raw, leases)
      BY <1>3, Zenon
    <2>2. /\ Converted(raw, leases) \in Seq(Arrived)
          /\ \A l \in Nat \ {0} :
                 /\ Has(Converted(raw, leases), OfLease(l)) <=> l \in {leases[i] : i \in 1 .. taken} \ {0}
                 /\ Once(Converted(raw, leases), OfLease(l))
          /\ ({leases[i] : i \in 1 .. taken} \ {0}) \cap ptLeases = {}
          /\ \A q :
                 /\ Has(Converted(raw, leases), Schemas(q)) <=> Has(SubSeq(raw, 1, taken), Schemas(q))
                 /\ Once(Converted(raw, leases), Schemas(q)) <=> Once(SubSeq(raw, 1, taken), Schemas(q))
                 /\ Has(Converted(raw, leases), Pages(q)) <=> Has(SubSeq(raw, 1, taken), Pages(q))
      BY <2>1, ConvertedEvents
    <2> QED  BY <2>2, <1>4, Zenon
  <1>6. N \subseteq Nat \ {0}
    BY <1>3, <1>4
  <1>7. PICK d : d = [events |-> events, taken |-> {}]
    OBVIOUS
  <1>8. d \in PtDrain /\ d.events = events /\ d.taken = {}
    BY <1>5, <1>7 DEF PtDrain
  <1>9. ptDrains' = Append(ptDrains, d) /\ ptDrains \in Seq(PtDrain)
    BY <1>3, <1>4, <1>7, Zenon DEF PtShape
  <1>10. ptDrains' \in Seq(PtDrain)
    BY <1>8, <1>9, AppendProperties
  <1>11. ASSUME NEW S
         PROVE  /\ Drawn(ptDrains', S) <=> Drawn(ptDrains, S) \/ Has(events, S)
                /\ DrawnOnce(ptDrains', S) <=>
                       DrawnOnce(ptDrains, S) /\ Once(events, S) /\ ~(Drawn(ptDrains, S) /\ Has(events, S))
    <2>1. /\ Drawn(Append(ptDrains, d), S) <=> Drawn(ptDrains, S) \/ Has(d.events, S)
          /\ DrawnOnce(Append(ptDrains, d), S) <=>
                 DrawnOnce(ptDrains, S) /\ Once(d.events, S) /\ ~(Drawn(ptDrains, S) /\ Has(d.events, S))
      BY <1>8, <1>9, AppendDrawn
    <2> QED  BY <2>1, <1>8, <1>9, Zenon
  <1>12. /\ 0 \notin ptLeases /\ Takes(ptDrains) \subseteq ptTransfers /\ TakenApart(ptDrains)
         /\ \A l \in Nat \ {0} : DrawnOnce(ptDrains, OfLease(l))
         /\ Books(ptLeases, ptTransfers, ptRetained, ptReleased, Held(ptUi), Waits(ptDrains))
    BY Zenon DEF PtTable, TableOK, DrainsOK
  <1>13. Waits(ptDrains') = Waits(ptDrains) \cup N
    <2>1. \A l \in Nat \ {0} : Drawn(ptDrains', OfLease(l)) <=> Drawn(ptDrains, OfLease(l)) \/ l \in N
      BY <1>5, <1>11, Zenon
    <2> QED  BY <2>1, <1>6 DEF Waits
  <1>14. \A l \in Nat \ {0} : DrawnOnce(ptDrains', OfLease(l))
    <2>1. Waits(ptDrains) \subseteq ptLeases
      BY <1>12, Zenon DEF Books
    <2>2. ASSUME NEW l \in Nat \ {0}, Drawn(ptDrains, OfLease(l)), Has(events, OfLease(l))
          PROVE  FALSE
      <3>1. l \in Waits(ptDrains) /\ l \in N
        BY <2>2, <1>5, Zenon DEF Waits
      <3> QED  BY <3>1, <2>1, <1>5
    <2> QED  BY <2>2, <1>5, <1>11, <1>12, Zenon
  <1>15. Takes(ptDrains') = Takes(ptDrains) /\ TakenApart(ptDrains')
    <2>1. /\ Takes(Append(ptDrains, d)) = Takes(ptDrains) \cup d.taken
          /\ TakenApart(Append(ptDrains, d)) <=> TakenApart(ptDrains) /\ Takes(ptDrains) \cap d.taken = {}
      BY <1>8, <1>9, AppendTakes
    <2>2. /\ Takes(ptDrains') = Takes(ptDrains) \cup {}
          /\ TakenApart(ptDrains') <=> TakenApart(ptDrains) /\ Takes(ptDrains) \cap {} = {}
      BY <2>1, <1>8, <1>9, Zenon
    <2> QED  BY <2>2, <1>12
  <1>16. Books(ptLeases', ptTransfers, ptRetained, ptReleased, Held(ptUi), Waits(ptDrains'))
    <2>1. PICK H, W : H = Held(ptUi) /\ W = Waits(ptDrains)
      OBVIOUS
    <2>2. Books(ptLeases, ptTransfers, ptRetained, ptReleased, H, W)
      BY <2>1, <1>12
    <2>3. Books(ptLeases \cup N, ptTransfers, ptRetained, ptReleased, H, W \cup N)
      BY <2>2, <1>5, BooksTaken
    <2> QED  BY <2>1, <2>3, <1>3, <1>4, <1>13, Zenon
  <1>17. 0 \notin ptLeases' /\ ptLeases' \subseteq Nat
    BY <1>3, <1>4, <1>6, <1>12 DEF PtShape
  <1>18. TableOK(ptLeases', ptTransfers, ptRetained, ptReleased, ptDrains', ptUi)
    BY <1>12, <1>14, <1>15, <1>16, <1>17, Zenon DEF TableOK, DrainsOK
  <1> QED  BY <1>3, <1>5, <1>10, <1>11, <1>17, <1>18, Zenon

\* What a step of the workspace outside of the drain leaves behind.
Viewed ==
    /\ ptUi' \in PtWindow /\ ptBuilds' \subseteq PtBuild /\ ptLeases' \subseteq ptLeases
    /\ WindowOK(ptUi', ptBuilds')
    /\ TableOK(ptLeases', ptTransfers, ptRetained, ptReleased', ptDrains, ptUi')

\* The window gives back some of what it holds.
LEMMA GivesBack ==
    ASSUME PtTable, NEW D \in SUBSET Held(ptUi), GiveBack(D, ptTransfers), Held(ptUi') = Held(ptUi) \ D
    PROVE  ptLeases' \subseteq ptLeases /\ TableOK(ptLeases', ptTransfers, ptRetained, ptReleased', ptDrains, ptUi')
  <1>1. PICK H, W, T : H = Held(ptUi) /\ W = Waits(ptDrains) /\ T = ptTransfers
    OBVIOUS
  <1>2. Books(ptLeases, T, ptRetained, ptReleased, H, W) /\ D \in SUBSET H /\ GiveBack(D, T)
    BY <1>1, Zenon DEF PtTable, TableOK
  <1>3. Books(ptLeases', T, ptRetained, ptReleased', H \ D, W) /\ (ptLeases' \subseteq ptLeases)
    BY <1>2, GiveBackBooks
  <1>4. 0 \notin ptLeases' /\ DrainsOK(ptTransfers, ptDrains)
    BY <1>3, Zenon DEF PtTable, TableOK
  <1> QED  BY <1>1, <1>3, <1>4, Zenon DEF TableOK

\* The window holds what it held.
LEMMA KeepsBooks ==
    ASSUME PtTable, UNCHANGED <<ptLeases, ptReleased>>, Held(ptUi') = Held(ptUi)
    PROVE  ptLeases' \subseteq ptLeases /\ TableOK(ptLeases', ptTransfers, ptRetained, ptReleased', ptDrains, ptUi')
  <1>1. TableOK(ptLeases, ptTransfers, ptRetained, ptReleased, ptDrains, ptUi')
    BY Zenon DEF PtTable, TableOK
  <1> QED  BY <1>1, Zenon

\* A build ends, and is shown when the window still waits for it.
LEMMA BuiltStep ==
    ASSUME PtShape, PtTable, PtView, PtBuilt
    PROVE  Viewed /\ ptUi'.query = ptUi.query /\ (\A q : Blank(ptUi, q) => Blank(ptUi', q))
  <1>1. PICK build \in ptBuilds :
            /\ ptBuilds' = ptBuilds \ {build}
            /\ IF build.live THEN ShowPage(build.event) ELSE UNCHANGED <<ptUi, ptLeases, ptReleased>>
    BY DEF PtBuilt
  <1>2. ptUi \in PtWindow /\ ptBuilds' \subseteq PtBuild /\ build \in PtBuild
    BY <1>1 DEF PtShape
  <1>3. CASE ~build.live
    <2>1. UNCHANGED <<ptUi, ptLeases, ptReleased>>
      BY <1>1, <1>3
    <2>2. WindowOK(ptUi, ptBuilds')
      BY <1>1, <1>3, Zenon DEF PtView, WindowOK
    <2>3. Held(ptUi') = Held(ptUi)
      BY <2>1
    <2>4. Viewed
      BY <2>1, <2>2, <2>3, <1>2, KeepsBooks, Zenon DEF Viewed
    <2> QED  BY <2>1, <2>4, Zenon
  <1>4. CASE build.live
    <2>1. OfWindow(ptUi, build) /\ \A b \in ptBuilds' : ~b.live
      BY <1>1, <1>4, Zenon DEF PtView, WindowOK
    <2>2. PICK lease, event : event = build.event /\ lease = event.lease
      OBVIOUS
    <2>3. /\ event.query # 0 /\ ptUi.query \in {0, event.query} /\ lease # 0 /\ lease = ptUi.building
          /\ event.query \in Nat /\ event.page \in Nat /\ event.more \in BOOLEAN /\ lease \in Nat
      BY <2>1, <2>2, <1>2 DEF OfWindow, PtBuild, Arrived, PtEvent
    <2>4. PICK ui, none : none = 0 /\ ui = [ptUi EXCEPT !.building = none, !.fetching = FALSE, !.busy = FALSE]
      OBVIOUS
    <2>5. /\ ui \in PtWindow /\ ui.query = ptUi.query /\ ui.page = ptUi.page /\ ui.shown = ptUi.shown
          /\ ui.visible = ptUi.visible /\ ui.schema = ptUi.schema /\ ui.building = none /\ none \in Nat
      BY <2>4, <1>2, Zenon DEF PtWindow
    <2>6. /\ ptUi.visible # 0 => ptUi.visible # ptUi.schema /\ ptUi.visible # lease
          /\ ptUi.schema # 0 => ptUi.schema # lease
          /\ ptUi.visible # 0 <=> ptUi.shown # Nothing
          /\ ptUi.query # 0 /\ ptUi.page # 0 => ptUi.shown = [query |-> ptUi.query, page |-> ptUi.page]
      BY <2>3, Zenon DEF PtView, WindowOK
    <2>7. Held(ptUi) = Leased(ptUi.visible) \cup Leased(ptUi.schema) \cup {lease}
      BY <2>3 DEF Held, Leased
    <2>8. \A q : Blank(ptUi, q) /\ q = ptUi.query => FALSE
      BY <2>3 DEF Blank
    <2>9. \/ ptUi' = Over(ui) /\ GiveBack({lease}, ptTransfers)
          \/ ptUi' = NotFitting(ui) /\ GiveBack({lease} \cup Leased(ui.visible), ptTransfers)
          \/ ptUi' = Showing(ui, event) /\ GiveBack(Leased(ui.visible), ptTransfers)
      BY <1>1, <1>4, <2>2, <2>4, Zenon DEF ShowPage
    <2>10. SUFFICES ASSUME ptUi'.query = ptUi.query  PROVE Viewed /\ ptUi'.query = ptUi.query
      <3>1. ptUi'.query = ui.query
        <4>1. CASE ptUi' = Over(ui)
          BY <4>1, <2>5, Zenon DEF Over, PtWindow
        <4>2. CASE ptUi' = NotFitting(ui)
          BY <4>2, <2>5, Zenon DEF NotFitting, PtWindow
        <4>3. CASE ptUi' = Showing(ui, event)
          BY <4>3, <2>5, Zenon DEF Showing, PtWindow
        <4> QED  BY <4>1, <4>2, <4>3, <2>9, Zenon
      <3>2. \A q : Blank(ptUi, q) => Blank(ptUi', q)
        BY <3>1, <2>5, <2>8 DEF Blank
      <3> QED  BY <3>1, <3>2, <2>5
    <2>11. ASSUME NEW D, GiveBack(D, ptTransfers), D \subseteq Held(ptUi), Held(ptUi') = Held(ptUi) \ D,
                  ptUi' \in PtWindow,
                  ptUi'.visible # 0 => ptUi'.visible # ptUi'.schema,
                  ptUi'.visible # 0 <=> ptUi'.shown # Nothing,
                  ptUi'.query # 0 /\ ptUi'.page # 0 => ptUi'.shown = [query |-> ptUi'.query, page |-> ptUi'.page],
                  ptUi'.building = 0
           PROVE  Viewed
      <3>1. WindowOK(ptUi', ptBuilds')
        BY <2>11, <2>1 DEF WindowOK
      <3>2. D \in SUBSET Held(ptUi)
        BY <2>11
      <3> QED  BY <3>1, <3>2, <2>11, <1>2, GivesBack, Zenon DEF Viewed
    <2>12. CASE ptUi' = Over(ui) /\ GiveBack({lease}, ptTransfers)
      <3>1. PICK next : next = ptUi'
        OBVIOUS
      <3>2. /\ next \in PtWindow /\ next.query = ui.query /\ next.page = ui.page /\ next.shown = ui.shown
            /\ next.visible = ui.visible /\ next.schema = ui.schema /\ next.building = ui.building
        BY <3>1, <2>5, <2>12, Zenon DEF Over, PtWindow
      <3>3. {lease} \subseteq Held(ptUi) /\ Held(next) = Held(ptUi) \ {lease}
        BY <3>2, <2>3, <2>4, <2>5, <2>6, <2>7 DEF Held, Leased
      <3>4. /\ next.visible # 0 => next.visible # next.schema
            /\ next.visible # 0 <=> next.shown # Nothing
            /\ next.query # 0 /\ next.page # 0 => next.shown = [query |-> next.query, page |-> next.page]
            /\ next.building = 0
        BY <3>2, <2>4, <2>5, <2>6, Zenon
      <3>5. Viewed
        BY <3>1, <3>2, <3>3, <3>4, <2>11, <2>12, Zenon
      <3> QED  BY <3>5, <2>10, Zenon
    <2>13. CASE ptUi' = NotFitting(ui) /\ GiveBack({lease} \cup Leased(ui.visible), ptTransfers)
      <3>1. PICK next : next = ptUi'
        OBVIOUS
      <3>2. /\ next \in PtWindow /\ next.query = ui.query /\ next.page = none /\ next.shown = Nothing
            /\ next.visible = none /\ next.schema = ui.schema /\ next.building = ui.building
        <4>1. next = [ui EXCEPT !.more = FALSE, !.page = none, !.shown = Nothing, !.visible = none]
          BY <3>1, <2>4, <2>13, Zenon DEF NotFitting
        <4> QED  BY <4>1, <2>5, NothingTyped, Zenon DEF PtWindow
      <3>3. PICK D : D = {lease} \cup Leased(ui.visible)
        OBVIOUS
      <3>4. D \subseteq Held(ptUi) /\ Held(next) = Held(ptUi) \ D
        BY <3>2, <3>3, <2>3, <2>4, <2>5, <2>6, <2>7 DEF Held, Leased
      <3>5. /\ next.visible # 0 => next.visible # next.schema
            /\ next.visible # 0 <=> next.shown # Nothing
            /\ next.query # 0 /\ next.page # 0 => next.shown = [query |-> next.query, page |-> next.page]
            /\ next.building = 0
        BY <3>2, <2>4, <2>5, Zenon
      <3>6. Viewed
        BY <3>1, <3>2, <3>3, <3>4, <3>5, <2>11, <2>13, Zenon
      <3> QED  BY <3>6, <2>10, Zenon
    <2>14. CASE ptUi' = Showing(ui, event) /\ GiveBack(Leased(ui.visible), ptTransfers)
      <3>1. PICK next, shown : next = ptUi' /\ shown = [query |-> event.query, page |-> event.page]
        OBVIOUS
      <3>2. shown \in [query : Nat, page : Nat] /\ shown.query = event.query
        BY <3>1, <2>3
      <3>3. /\ next \in PtWindow /\ next.query = ui.query /\ next.page = event.page /\ next.shown = shown
            /\ next.visible = lease /\ next.schema = ui.schema /\ next.building = ui.building
        <4>1. next = [ui EXCEPT !.more = event.more, !.page = event.page, !.visible = lease, !.shown = shown]
          BY <3>1, <2>2, <2>14, Zenon DEF Showing
        <4> QED  BY <4>1, <3>2, <2>3, <2>5, Zenon DEF PtWindow
      <3>4. shown # Nothing
        BY <3>2, <2>3, NothingTyped
      <3>5. PICK D : D = Leased(ui.visible)
        OBVIOUS
      <3>6. D \subseteq Held(ptUi) /\ Held(next) = Held(ptUi) \ D
        BY <3>3, <3>5, <2>3, <2>4, <2>5, <2>6, <2>7 DEF Held, Leased
      <3>7. next.query # 0 /\ next.page # 0 => next.shown = [query |-> next.query, page |-> next.page]
        <4>1. next.query # 0 => next.query = event.query
          BY <3>3, <2>3, <2>5
        <4> QED  BY <4>1, <3>1, <3>3, Zenon
      <3>8. next.visible # 0 => next.visible # next.schema
        BY <3>3, <2>5, <2>3, <2>6
      <3>9. (next.visible # 0 <=> next.shown # Nothing) /\ next.building = 0
        BY <3>3, <3>4, <2>3, <2>4, <2>5, Zenon
      <3>10. Viewed
        BY <3>1, <3>3, <3>5, <3>6, <3>7, <3>8, <3>9, <2>5, <2>11, <2>14, Zenon
      <3> QED  BY <3>10, <2>10, Zenon
    <2> QED  BY <2>9, <2>10, <2>12, <2>13, <2>14, Zenon
  <1> QED  BY <1>3, <1>4

\* A new statement: its number is the next one, and at most a release and the statement are asked for.
LEMMA ExecuteStep ==
    ASSUME PtShape, PtTable, PtView, PtExecute
    PROVE  /\ Viewed /\ ptCount' \in PtCounts /\ ptUi'.page = 0 /\ ptUi'.more = FALSE /\ ptUi'.building = 0
           /\ \E asked \in Seq(PtCommand) :
                  /\ asked = ptAsked \/ \E c \in PtCommand : c.op = "release" /\ asked = Append(ptAsked, c)
                  /\ \/ ptAsked' = asked /\ ptUi'.query = 0 /\ ptCount'.queries = ptCount.queries
                     \/ /\ \E c \in ToExecute(ptCount.queries + 1) : ptAsked' = Append(asked, c)
                        /\ ptUi'.query = ptCount.queries + 1 /\ ptCount'.queries = ptCount.queries + 1
  <1>1. PICK asked : asked = IF ptUi.query # 0 /\ Room(ptAsked)
                             THEN Append(ptAsked, [op |-> "release", query |-> ptUi.query, page |-> 0]) ELSE ptAsked
    OBVIOUS
  <1>2. PICK query : query = IF Room(asked) THEN ptCount.queries + 1 ELSE 0
    OBVIOUS
  <1>3. /\ ptAsked' = IF query # 0 THEN Append(asked, [op |-> "execute", query |-> query, page |-> 0]) ELSE asked
        /\ ptUi' = [Cleared EXCEPT !.query = query, !.page = 0, !.more = FALSE, !.busy = query # 0]
        /\ ptCount' = [ptCount EXCEPT !.queries = IF query # 0 THEN query ELSE @]
        /\ GiveBack(Holding, ptTransfers) /\ ptBuilds' = NotListening
        /\ UNCHANGED <<ptEngine, ptSent, ptRaw, ptTransfers, ptRetained, ptDrains, ptLoop>>
    BY <1>1, <1>2, Zenon DEF PtExecute
  <1>4. ptCount \in PtCounts /\ ptCount.queries \in Nat /\ query \in Nat
    <2>1. ptCount \in PtCounts /\ ptCount.queries \in Nat
      BY DEF PtShape, PtCounts
    <2>2. query = ptCount.queries + 1 \/ query = 0
      BY <1>2, Zenon
    <2> QED  BY <2>1, <2>2
  <1>5. ptUi \in PtWindow /\ ptUi.query \in Nat /\ ptAsked \in Seq(PtCommand)
    BY DEF PtShape, PtWindow
  <1>6. /\ asked \in Seq(PtCommand)
        /\ asked = ptAsked \/ \E c \in PtCommand : c.op = "release" /\ asked = Append(ptAsked, c)
    <2>1. CASE ptUi.query # 0 /\ Room(ptAsked)
      <3>1. PICK c : c = [op |-> "release", query |-> ptUi.query, page |-> 0]
        OBVIOUS
      <3>2. c \in PtCommand /\ c.op = "release"
        BY <2>1, <3>1, <1>5 DEF PtCommand
      <3>3. asked = Append(ptAsked, c)
        BY <2>1, <3>1, <1>1, Zenon
      <3>4. Append(ptAsked, c) \in Seq(PtCommand)
        BY <3>2, <1>5, AppendProperties
      <3> QED  BY <3>2, <3>3, <3>4, Zenon
    <2>2. CASE ~(ptUi.query # 0 /\ Room(ptAsked))
      <3>1. asked = ptAsked
        BY <2>2, <1>1, Zenon
      <3> QED  BY <3>1, <1>5, Zenon
    <2> QED  BY <2>1, <2>2
  <1>7. PICK next : next = ptUi'
    OBVIOUS
  <1>8. /\ next \in PtWindow /\ next.query = query /\ next.page = 0 /\ next.more = FALSE /\ next.shown = Nothing
        /\ next.visible = 0 /\ next.schema = 0 /\ next.building = 0
    <2>1. PICK ui, none, busy : none = 0 /\ ui = Cleared /\ busy = (query # 0)
      OBVIOUS
    <2>2. /\ ui \in PtWindow /\ ui.shown = Nothing /\ ui.visible = 0 /\ ui.schema = 0 /\ ui.building = 0
          /\ none \in Nat /\ busy \in BOOLEAN
      BY <2>1, <1>5, ClearedView
    <2>3. next = [ui EXCEPT !.query = query, !.page = none, !.more = FALSE, !.busy = busy]
      BY <2>1, <1>3, <1>7, Zenon
    <2>4. /\ next \in PtWindow /\ next.query = query /\ next.page = none /\ next.more = FALSE /\ next.shown = ui.shown
          /\ next.visible = ui.visible /\ next.schema = ui.schema /\ next.building = ui.building
      BY <2>2, <2>3, <1>4, Zenon DEF PtWindow
    <2> QED  BY <2>1, <2>2, <2>4, Zenon
  <1>9. Viewed
    <2>1. ptBuilds' \subseteq PtBuild /\ \A b \in ptBuilds' : ~b.live
      BY <1>3, NobodyListens DEF PtShape
    <2>2. WindowOK(next, ptBuilds')
      BY <2>1, <1>8 DEF WindowOK
    <2>3. PICK H : H = Held(ptUi)
      OBVIOUS
    <2>4. Held(next) = H \ H /\ Holding = H
      BY <2>3, <1>8 DEF Held, Leased, Holding
    <2>5. ptLeases' \subseteq ptLeases /\ TableOK(ptLeases', ptTransfers, ptRetained, ptReleased', ptDrains, ptUi')
      <3>1. H \in SUBSET Held(ptUi) /\ GiveBack(H, ptTransfers) /\ Held(ptUi') = Held(ptUi) \ H
        BY <2>3, <2>4, <1>3, <1>7
      <3> QED  BY <3>1, GivesBack
    <2> QED  BY <2>1, <2>2, <2>5, <1>7, <1>8, Zenon DEF Viewed
  <1>10. CASE query = 0
    <2>1. ptAsked' = asked
      BY <1>3, <1>10
    <2>2. ptCount' \in PtCounts /\ ptCount'.queries = ptCount.queries
      BY <1>3, <1>4, <1>10 DEF PtCounts
    <2> QED  BY <2>1, <2>2, <1>6, <1>7, <1>8, <1>9, <1>10, Zenon
  <1>11. CASE query # 0
    <2>1. query = ptCount.queries + 1
      BY <1>2, <1>11
    <2>2. PICK c : c = [op |-> "execute", query |-> query, page |-> 0]
      OBVIOUS
    <2>3. c \in ToExecute(query)
      BY <2>2, <1>4, <1>11 DEF PtCommand, ToExecute
    <2>4. ptAsked' = Append(asked, c)
      BY <2>2, <1>3, <1>11, Zenon
    <2>5. ptCount' \in PtCounts /\ ptCount'.queries = query
      BY <1>3, <1>4, <1>11 DEF PtCounts
    <2> QED  BY <2>1, <2>3, <2>4, <2>5, <1>6, <1>7, <1>8, <1>9, Zenon
  <1> QED  BY <1>10, <1>11

\* A step that leaves the view alone.
LEMMA KeepsView ==
    ASSUME PtTable, PtView, UNCHANGED <<ptLeases, ptReleased, ptBuilds>>, ptBuilds \subseteq PtBuild,
           ptUi' \in PtWindow, SameView(ptUi, ptUi')
    PROVE  Viewed /\ ptUi'.query = ptUi.query /\ (\A q : Blank(ptUi, q) => Blank(ptUi', q))
  <1>1. WindowOK(ptUi', ptBuilds)
    BY WindowSame DEF PtView
  <1>2. Held(ptUi') = Held(ptUi)
    BY HeldSame
  <1>3. ptLeases' \subseteq ptLeases /\ TableOK(ptLeases', ptTransfers, ptRetained, ptReleased', ptDrains, ptUi')
    BY <1>2, KeepsBooks
  <1>4. ptBuilds' = ptBuilds
    OBVIOUS
  <1>5. Viewed
    BY <1>1, <1>3, <1>4, Zenon DEF Viewed
  <1>6. ptUi'.query = ptUi.query /\ (\A q : Blank(ptUi, q) => Blank(ptUi', q))
    BY Zenon DEF SameView, Blank
  <1> QED  BY <1>5, <1>6

\* Another command of the window is refused.
LEMMA OtherStep ==
    ASSUME PtShape, PtTable, PtView, PtOther
    PROVE  /\ Viewed /\ ptUi'.query = ptUi.query /\ (\A q : Blank(ptUi, q) => Blank(ptUi', q))
           /\ ptCount' \in PtCounts /\ ptCount'.queries = ptCount.queries
  <1>1. ptUi' \in PtWindow /\ SameView(ptUi, ptUi')
    BY CommandFailedView DEF PtShape, PtOther
  <1>2. UNCHANGED <<ptLeases, ptReleased, ptBuilds>> /\ ptBuilds \subseteq PtBuild
    BY DEF PtOther, ptTable, PtShape
  <1>3. Viewed /\ ptUi'.query = ptUi.query /\ (\A q : Blank(ptUi, q) => Blank(ptUi', q))
    BY <1>1, <1>2, KeepsView
  <1>4. ptCount' \in PtCounts /\ ptCount'.queries = ptCount.queries
    <2>1. ptCount \in PtCounts /\ ptCount.others + 1 \in Nat
      BY DEF PtShape, PtCounts
    <2>2. ptCount' = [ptCount EXCEPT !.others = ptCount.others + 1]
      BY <2>1 DEF PtOther, PtCounts
    <2> QED  BY <2>1, <2>2, Zenon DEF PtCounts
  <1> QED  BY <1>3, <1>4

\* A page is turned to: not before the schema has come, as nothing is shown until then.
LEMMA TurnStep ==
    ASSUME PtShape, PtTable, PtView, PtTurn
    PROVE  /\ Viewed /\ ptUi'.query = ptUi.query /\ (\A q : Blank(ptUi, q) => Blank(ptUi', q))
           /\ ~Blank(ptUi, ptUi.query)
           /\ ptCount' \in PtCounts /\ ptCount'.queries = ptCount.queries
           /\ ptAsked' = ptAsked \/ \E c \in ToFetch(ptUi.query) : ptAsked' = Append(ptAsked, c)
  <1>1. ptUi \in PtWindow /\ ptUi.page \in Nat /\ ptUi.query # 0
    BY DEF PtShape, PtTurn, PtWindow
  <1>2. \E page \in Nat, ui \in PtWindow : SameView(ptUi, ui) /\ AskFor(page, ui) /\ ~Blank(ptUi, ptUi.query)
    <2>1. PICK more, less : more = [ptUi EXCEPT !.fetching = TRUE, !.busy = TRUE] /\ less = [ptUi EXCEPT !.fetching = TRUE]
      OBVIOUS
    <2>2. more \in PtWindow /\ SameView(ptUi, more) /\ less \in PtWindow /\ SameView(ptUi, less)
      BY <2>1, <1>1, Zenon DEF PtWindow, SameView
    <2>3. CASE ptUi.more /\ AskFor(ptUi.page + 1, more)
      <3>1. ptUi.page + 1 \in Nat /\ ~Blank(ptUi, ptUi.query)
        BY <2>3, <1>1 DEF Blank
      <3> QED  BY <3>1, <2>2, <2>3, Zenon
    <2>4. CASE ptUi.page > 1 /\ AskFor(ptUi.page - 1, less)
      <3>1. ptUi.page - 1 \in Nat /\ ~Blank(ptUi, ptUi.query)
        BY <2>4, <1>1 DEF Blank
      <3> QED  BY <3>1, <2>2, <2>4, Zenon
    <2> QED  BY <2>1, <2>3, <2>4, Zenon DEF PtTurn
  <1>3. PICK page \in Nat, ui \in PtWindow : SameView(ptUi, ui) /\ AskFor(page, ui) /\ ~Blank(ptUi, ptUi.query)
    BY <1>2
  <1>4. /\ ptUi' \in PtWindow /\ SameView(ui, ptUi')
        /\ ptAsked' = ptAsked \/ \E c \in ToFetch(ptUi.query) : ptAsked' = Append(ptAsked, c)
    BY <1>1, <1>3, AskForStep
  <1>5. SameView(ptUi, ptUi')
    BY <1>3, <1>4, Zenon DEF SameView
  <1>6. UNCHANGED <<ptLeases, ptReleased, ptBuilds>> /\ ptBuilds \subseteq PtBuild
    BY DEF PtTurn, ptTable, PtShape
  <1>7. Viewed /\ ptUi'.query = ptUi.query /\ (\A q : Blank(ptUi, q) => Blank(ptUi', q))
    BY <1>4, <1>5, <1>6, KeepsView
  <1>8. ptCount' \in PtCounts /\ ptCount'.queries = ptCount.queries
    <2>1. ptCount \in PtCounts /\ ptCount.asks + 1 \in Nat
      BY DEF PtShape, PtCounts
    <2>2. ptCount' = [ptCount EXCEPT !.asks = ptCount.asks + 1]
      BY <2>1 DEF PtTurn, PtCounts
    <2> QED  BY <2>1, <2>2, Zenon DEF PtCounts
  <1> QED  BY <1>3, <1>4, <1>7, <1>8, Zenon

\* The user cancels.
LEMMA CancelStep ==
    ASSUME PtShape, PtTable, PtView, PtCancel
    PROVE  Viewed /\ ptUi'.query = ptUi.query /\ (\A q : Blank(ptUi, q) => Blank(ptUi', q))
  <1>1. ptUi \in PtWindow /\ ptBuilds \subseteq PtBuild
    BY DEF PtShape
  <1>2. CASE /\ ptUi' = [ptUi EXCEPT !.cancelling = TRUE, !.building = 0]
             /\ GiveBack(Leased(ptUi.building), ptTransfers) /\ ptBuilds' = NotListening
    <2>1. PICK next, none, D : next = ptUi' /\ none = 0 /\ D = Leased(ptUi.building)
      OBVIOUS
    <2>2. /\ next \in PtWindow /\ next.query = ptUi.query /\ next.page = ptUi.page /\ next.shown = ptUi.shown
          /\ next.more = ptUi.more
          /\ next.visible = ptUi.visible /\ next.schema = ptUi.schema /\ next.building = none
      <3>1. none \in Nat /\ next = [ptUi EXCEPT !.cancelling = TRUE, !.building = none]
        BY <2>1, <1>2
      <3> QED  BY <3>1, <1>1, Zenon DEF PtWindow
    <2>3. ptBuilds' \subseteq PtBuild /\ \A b \in ptBuilds' : ~b.live
      BY <1>1, <1>2, NobodyListens
    <2>4. /\ ptUi.visible # 0 => ptUi.visible # ptUi.schema /\ ptUi.visible # ptUi.building
          /\ ptUi.schema # 0 => ptUi.schema # ptUi.building
          /\ ptUi.visible # 0 <=> ptUi.shown # Nothing
          /\ ptUi.query # 0 /\ ptUi.page # 0 => ptUi.shown = [query |-> ptUi.query, page |-> ptUi.page]
      BY Zenon DEF PtView, WindowOK
    <2>5. WindowOK(next, ptBuilds')
      BY <2>1, <2>2, <2>3, <2>4 DEF WindowOK
    <2>6. D \in SUBSET Held(ptUi) /\ Held(next) = Held(ptUi) \ D
      BY <2>1, <2>2, <2>4 DEF Held, Leased
    <2>7. ptLeases' \subseteq ptLeases /\ TableOK(ptLeases', ptTransfers, ptRetained, ptReleased', ptDrains, ptUi')
      BY <2>1, <2>6, <1>2, GivesBack
    <2>8. \A q : Blank(ptUi, q) => Blank(next, q)
      BY <2>1, <2>2 DEF Blank
    <2> QED  BY <2>1, <2>2, <2>3, <2>5, <2>7, <2>8, Zenon DEF Viewed
  <1>3. CASE ptUi' = CommandFailed(ptUi) /\ UNCHANGED <<ptLeases, ptReleased, ptBuilds>>
    <2>1. ptUi' \in PtWindow /\ SameView(ptUi, ptUi')
      BY <1>1, <1>3, CommandFailedView
    <2> QED  BY <2>1, <1>1, <1>3, KeepsView
  <1>4. \/ /\ ptUi' = [ptUi EXCEPT !.cancelling = TRUE, !.building = 0]
           /\ GiveBack(Leased(ptUi.building), ptTransfers) /\ ptBuilds' = NotListening
        \/ ptUi' = CommandFailed(ptUi) /\ UNCHANGED <<ptCancelled, ptLeases, ptReleased, ptBuilds>>
    BY Zenon DEF PtCancel
  <1> QED  BY <1>2, <1>3, <1>4

-----------------------------------------------------------------------------
(* The order of the events of a statement, step by step.                   *)

\* What OrderOK says of one statement.
InOrder(asked, sent, raw, drains, ui, queries, q) ==
    /\ OneSchema(asked, sent, raw, drains, q)
    /\ Expected(asked, sent, raw, drains, q) => ~Paged(asked, sent, raw, drains, q) /\ Blank(ui, q)
    /\ q > queries => ~Expected(asked, sent, raw, drains, q) /\ ~Paged(asked, sent, raw, drains, q)

\* The order is an order of each statement by itself.
LEMMA OrderIs ==
    ASSUME NEW asked, NEW sent, NEW raw, NEW drains, NEW ui, NEW queries
    PROVE  OrderOK(asked, sent, raw, drains, ui, queries) <=>
               /\ ui.query <= queries
               /\ \A q \in Nat \ {0} : InOrder(asked, sent, raw, drains, ui, queries, q)
  BY Zenon DEF OrderOK, InOrder

\* The actor answers a command that it takes: the schema goes from the command to its event.
LEMMA ServeOrder ==
    ASSUME PtShape, PtOrder, NEW events \in Seq(Fresh), ptAsked # <<>>, NEW asked, asked = Tail(ptAsked),
           NEW sent, sent = ptSent \o events, Answers(Head(ptAsked), events)
    PROVE  OrderOK(asked, sent, ptRaw, ptDrains, ptUi, ptCount.queries)
  <1>1. PICK command : command = Head(ptAsked)
    OBVIOUS
  <1>2. ptAsked \in Seq(PtCommand) /\ ptSent \in Seq(Fresh)
    BY DEF PtShape
  <1>3. \A S : Has(ptAsked, S) <=> command \in S \/ Has(asked, S)
    BY <1>1, <1>2, HeadHas
  <1>4. \A S : Once(ptAsked, S) <=> Once(asked, S) /\ ~(command \in S /\ Has(asked, S))
    BY <1>1, <1>2, HeadHas
  <1>5. \A S : Has(sent, S) <=> Has(ptSent, S) \/ Has(events, S)
    BY <1>2, ConcatHas
  <1>6. \A S : Once(sent, S) <=> Once(ptSent, S) /\ Once(events, S) /\ ~(Has(ptSent, S) /\ Has(events, S))
    BY <1>2, ConcatHas
  <1>7. ASSUME NEW q \in Nat \ {0}
        PROVE  InOrder(asked, sent, ptRaw, ptDrains, ptUi, ptCount.queries, q)
    <2>1. InOrder(ptAsked, ptSent, ptRaw, ptDrains, ptUi, ptCount.queries, q)
      BY OrderIs, Zenon DEF PtOrder
    <2>2. /\ Has(events, Schemas(q)) => command \in ToExecute(q)
          /\ Once(events, Schemas(q))
          /\ Has(events, Pages(q)) => command \in ToFetch(q)
      BY <1>1, Zenon DEF Answers
    <2>3. /\ Has(ptAsked, ToExecute(q)) <=> command \in ToExecute(q) \/ Has(asked, ToExecute(q))
          /\ Has(ptAsked, ToFetch(q)) <=> command \in ToFetch(q) \/ Has(asked, ToFetch(q))
          /\ Once(ptAsked, ToExecute(q)) <=> Once(asked, ToExecute(q)) /\ ~(command \in ToExecute(q) /\ Has(asked, ToExecute(q)))
      BY <1>3, <1>4, Zenon
    <2>4. /\ Has(sent, Schemas(q)) <=> Has(ptSent, Schemas(q)) \/ Has(events, Schemas(q))
          /\ Has(sent, Pages(q)) <=> Has(ptSent, Pages(q)) \/ Has(events, Pages(q))
          /\ Once(sent, Schemas(q)) <=>
                 Once(ptSent, Schemas(q)) /\ Once(events, Schemas(q)) /\ ~(Has(ptSent, Schemas(q)) /\ Has(events, Schemas(q)))
      BY <1>5, <1>6, Zenon
    <2> QED  BY <2>1, <2>2, <2>3, <2>4 DEF InOrder, OneSchema, Expected, Paged
  <1> QED  BY <1>7, OrderIs, Zenon DEF PtOrder

\* Events that are neither schema nor page leave the order alone, whatever commands are dropped.
LEMMA QuietOrder ==
    ASSUME PtShape, PtOrder, NEW events, Quiet(events), NEW asked, asked = ptAsked \/ asked = <<>>,
           NEW sent, sent = ptSent \o events
    PROVE  OrderOK(asked, sent, ptRaw, ptDrains, ptUi, ptCount.queries)
  <1>1. ptSent \in Seq(Fresh) /\ events \in Seq(Fresh)
    BY DEF PtShape, Quiet
  <1>2. \A S : Has(sent, S) <=> Has(ptSent, S) \/ Has(events, S)
    BY <1>1, ConcatHas
  <1>3. \A S : Once(sent, S) <=> Once(ptSent, S) /\ Once(events, S) /\ ~(Has(ptSent, S) /\ Has(events, S))
    BY <1>1, ConcatHas
  <1>4. \A S : (Has(asked, S) => Has(ptAsked, S)) /\ (Once(ptAsked, S) => Once(asked, S))
    BY EmptyHas, Zenon
  <1>5. ASSUME NEW q \in Nat \ {0}
        PROVE  InOrder(asked, sent, ptRaw, ptDrains, ptUi, ptCount.queries, q)
    <2>1. InOrder(ptAsked, ptSent, ptRaw, ptDrains, ptUi, ptCount.queries, q)
      BY OrderIs, Zenon DEF PtOrder
    <2>2. ~Has(events, Schemas(q)) /\ Once(events, Schemas(q)) /\ ~Has(events, Pages(q))
      BY Zenon DEF Quiet
    <2>3. /\ Has(asked, ToExecute(q)) => Has(ptAsked, ToExecute(q))
          /\ Has(asked, ToFetch(q)) => Has(ptAsked, ToFetch(q))
          /\ Once(ptAsked, ToExecute(q)) => Once(asked, ToExecute(q))
      BY <1>4, Zenon
    <2>4. /\ Has(sent, Schemas(q)) <=> Has(ptSent, Schemas(q))
          /\ Has(sent, Pages(q)) <=> Has(ptSent, Pages(q))
          /\ Once(sent, Schemas(q)) <=> Once(ptSent, Schemas(q))
      BY <1>2, <1>3, <2>2, Zenon
    <2> QED  BY <2>1, <2>3, <2>4 DEF InOrder, OneSchema, Expected, Paged
  <1> QED  BY <1>5, OrderIs, Zenon DEF PtOrder

\* A tick moves events on, one after the other.
LEMMA TickOrder ==
    ASSUME PtShape, PtOrder, NEW n \in 0 .. Len(ptSent), NEW raw \in Seq(Fresh), NEW taken \in 0 .. Len(raw),
           NEW events, NEW drains, NEW sent, NEW left,
           raw = ptRaw \o SubSeq(ptSent, 1, n), sent = SubSeq(ptSent, n + 1, Len(ptSent)),
           left = SubSeq(raw, taken + 1, Len(raw)),
           \A q : /\ Has(events, Schemas(q)) <=> Has(SubSeq(raw, 1, taken), Schemas(q))
                  /\ Once(events, Schemas(q)) <=> Once(SubSeq(raw, 1, taken), Schemas(q))
                  /\ Has(events, Pages(q)) <=> Has(SubSeq(raw, 1, taken), Pages(q)),
           \A S : /\ Drawn(drains, S) <=> Drawn(ptDrains, S) \/ Has(events, S)
                  /\ DrawnOnce(drains, S) <=>
                         DrawnOnce(ptDrains, S) /\ Once(events, S) /\ ~(Drawn(ptDrains, S) /\ Has(events, S))
    PROVE  OrderOK(ptAsked, sent, left, drains, ptUi, ptCount.queries)
  <1>1. ptSent \in Seq(Fresh) /\ ptRaw \in Seq(Fresh)
    BY DEF PtShape
  <1>2. PICK head, first : head = SubSeq(ptSent, 1, n) /\ first = SubSeq(raw, 1, taken)
    OBVIOUS
  <1>3. ASSUME NEW S
        PROVE  /\ head \in Seq(Fresh) /\ (Has(ptSent, S) <=> Has(head, S) \/ Has(sent, S))
               /\ Once(ptSent, S) <=> Once(head, S) /\ Once(sent, S) /\ ~(Has(head, S) /\ Has(sent, S))
    <2>1. /\ SubSeq(ptSent, 1, n) \in Seq(Fresh)
          /\ Has(ptSent, S) <=> Has(SubSeq(ptSent, 1, n), S) \/ Has(SubSeq(ptSent, n + 1, Len(ptSent)), S)
          /\ Once(ptSent, S) <=> /\ Once(SubSeq(ptSent, 1, n), S) /\ Once(SubSeq(ptSent, n + 1, Len(ptSent)), S)
                                 /\ ~(Has(SubSeq(ptSent, 1, n), S) /\ Has(SubSeq(ptSent, n + 1, Len(ptSent)), S))
      BY <1>1, SplitHas
    <2> QED  BY <2>1, <1>2, Zenon
  <1>4. head \in Seq(Fresh) /\ raw = ptRaw \o head
    <2>1. raw = ptRaw \o head
      BY <1>2, Zenon
    <2> QED  BY <2>1, <1>3, Zenon
  <1>5. ASSUME NEW S
        PROVE  /\ Has(raw, S) <=> Has(ptRaw, S) \/ Has(head, S)
               /\ Once(raw, S) <=> Once(ptRaw, S) /\ Once(head, S) /\ ~(Has(ptRaw, S) /\ Has(head, S))
    <2>1. /\ Has(ptRaw \o head, S) <=> Has(ptRaw, S) \/ Has(head, S)
          /\ Once(ptRaw \o head, S) <=> Once(ptRaw, S) /\ Once(head, S) /\ ~(Has(ptRaw, S) /\ Has(head, S))
      BY <1>1, <1>4, ConcatHas
    <2> QED  BY <2>1, <1>4, Zenon
  <1>6. ASSUME NEW S
        PROVE  /\ Has(raw, S) <=> Has(first, S) \/ Has(left, S)
               /\ Once(raw, S) <=> Once(first, S) /\ Once(left, S) /\ ~(Has(first, S) /\ Has(left, S))
    <2>1. /\ Has(raw, S) <=> Has(SubSeq(raw, 1, taken), S) \/ Has(SubSeq(raw, taken + 1, Len(raw)), S)
          /\ Once(raw, S) <=> /\ Once(SubSeq(raw, 1, taken), S) /\ Once(SubSeq(raw, taken + 1, Len(raw)), S)
                              /\ ~(Has(SubSeq(raw, 1, taken), S) /\ Has(SubSeq(raw, taken + 1, Len(raw)), S))
      BY ONLY raw \in Seq(Fresh), taken \in 0 .. Len(raw), SplitHas
    <2> QED  BY <2>1, <1>2, Zenon
  <1>7. ASSUME NEW q \in Nat \ {0}
        PROVE  InOrder(ptAsked, sent, left, drains, ptUi, ptCount.queries, q)
    <2>1. InOrder(ptAsked, ptSent, ptRaw, ptDrains, ptUi, ptCount.queries, q)
      BY OrderIs, Zenon DEF PtOrder
    <2>2. PICK S, P : S = Schemas(q) /\ P = Pages(q)
      OBVIOUS
    <2>3. /\ Has(events, S) <=> Has(first, S)
          /\ Once(events, S) <=> Once(first, S)
          /\ Has(events, P) <=> Has(first, P)
      BY <1>2, <2>2, Zenon
    <2>4. /\ Has(ptSent, S) <=> Has(head, S) \/ Has(sent, S)
          /\ Once(ptSent, S) <=> Once(head, S) /\ Once(sent, S) /\ ~(Has(head, S) /\ Has(sent, S))
          /\ Has(ptSent, P) <=> Has(head, P) \/ Has(sent, P)
      BY <1>3, Zenon
    <2>5. /\ Has(ptRaw, S) \/ Has(head, S) <=> Has(first, S) \/ Has(left, S)
          /\ Once(ptRaw, S) /\ Once(head, S) /\ ~(Has(ptRaw, S) /\ Has(head, S)) <=>
                 Once(first, S) /\ Once(left, S) /\ ~(Has(first, S) /\ Has(left, S))
          /\ Has(ptRaw, P) \/ Has(head, P) <=> Has(first, P) \/ Has(left, P)
      BY <1>5, <1>6, Zenon
    <2>6. /\ Drawn(drains, S) <=> Drawn(ptDrains, S) \/ Has(events, S)
          /\ DrawnOnce(drains, S) <=>
                 DrawnOnce(ptDrains, S) /\ Once(events, S) /\ ~(Drawn(ptDrains, S) /\ Has(events, S))
          /\ Drawn(drains, P) <=> Drawn(ptDrains, P) \/ Has(events, P)
      BY Zenon
    <2> QED  BY <2>1, <2>2, <2>3, <2>4, <2>5, <2>6 DEF InOrder, OneSchema, Expected, Paged
  <1> QED  BY <1>7, OrderIs, Zenon DEF PtOrder

\* The dispatched event is handled: its schema has come, and pages may be asked for.
LEMMA DispatchOrder ==
    ASSUME PtShape, PtOrder, NEW event \in Arrived, NEW T, NEW drains, Handled(event, T, drains),
           UNCHANGED <<ptSent, ptRaw, ptCount>>,
           \A S : /\ Drawn(ptDrains, S) <=> Drawn(drains, S) \/ event \in S
                  /\ DrawnOnce(ptDrains, S) <=> DrawnOnce(drains, S) /\ ~(event \in S /\ Drawn(drains, S))
    PROVE  OrderOK(ptAsked', ptSent, ptRaw, drains, ptUi', ptCount.queries)
  <1>1. ptUi.query \in Nat /\ ptCount.queries \in Nat /\ ptAsked \in Seq(PtCommand)
    BY DEF PtShape, PtWindow, PtCounts
  <1>2. ptUi'.query <= ptCount.queries
    BY <1>1 DEF Handled, PtOrder, OrderOK
  <1>3. PICK asked, ui : asked = ptAsked' /\ ui = ptUi'
    OBVIOUS
  <1>4. \/ asked = ptAsked
        \/ event \in Schemas(ptUi.query) /\ \E c \in ToFetch(ptUi.query) : asked = Append(ptAsked, c)
    BY <1>3, Zenon DEF Handled
  <1>5. \/ event \in Schemas(ptUi.query) \/ event \in Pages(ptUi.query)
        \/ \A q \in Nat \ {0} : Blank(ptUi, q) => Blank(ui, q)
    BY <1>3, Zenon DEF Handled
  <1>6. ui.query \in {0, ptUi.query}
    BY <1>3, Zenon DEF Handled
  <1>7. ASSUME NEW q \in Nat \ {0}
        PROVE  InOrder(asked, ptSent, ptRaw, drains, ui, ptCount.queries, q)
    <2>1. InOrder(ptAsked, ptSent, ptRaw, ptDrains, ptUi, ptCount.queries, q)
      BY OrderIs, Zenon DEF PtOrder
    <2>2. PICK S, P : S = Schemas(q) /\ P = Pages(q)
      OBVIOUS
    <2>3. /\ Drawn(ptDrains, S) <=> Drawn(drains, S) \/ event \in S
          /\ DrawnOnce(ptDrains, S) <=> DrawnOnce(drains, S) /\ ~(event \in S /\ Drawn(drains, S))
          /\ Drawn(ptDrains, P) <=> Drawn(drains, P) \/ event \in P
      BY Zenon
    <2>4. \/ asked = ptAsked
          \/ /\ event \in Schemas(ptUi.query) /\ (Has(asked, ToExecute(q)) <=> Has(ptAsked, ToExecute(q)))
             /\ Once(asked, ToExecute(q)) <=> Once(ptAsked, ToExecute(q))
             /\ q # ptUi.query => (Has(asked, ToFetch(q)) <=> Has(ptAsked, ToFetch(q)))
      <3>1. SUFFICES ASSUME event \in Schemas(ptUi.query), NEW c \in ToFetch(ptUi.query), asked = Append(ptAsked, c)
                     PROVE  /\ Has(asked, ToExecute(q)) <=> Has(ptAsked, ToExecute(q))
                            /\ Once(asked, ToExecute(q)) <=> Once(ptAsked, ToExecute(q))
                            /\ q # ptUi.query => (Has(asked, ToFetch(q)) <=> Has(ptAsked, ToFetch(q)))
        BY <1>4, Zenon
      <3>2. c \in PtCommand /\ c \notin ToExecute(q) /\ (q # ptUi.query => c \notin ToFetch(q))
        BY DEF ToFetch, ToExecute
      <3>3. ASSUME NEW X
            PROVE  /\ Has(Append(ptAsked, c), X) <=> Has(ptAsked, X) \/ c \in X
                   /\ Once(Append(ptAsked, c), X) <=> Once(ptAsked, X) /\ ~(Has(ptAsked, X) /\ c \in X)
        BY ONLY <3>2, <1>1, AppendHas
      <3> QED  BY <3>1, <3>2, <3>3, Zenon
    <2>5. CASE q = ptUi.query /\ event \in S
      <3>1. ~Expected(asked, ptSent, ptRaw, drains, q)
        BY <2>1, <2>2, <2>3, <2>4, <2>5 DEF InOrder, OneSchema, Expected
      <3>2. OneSchema(asked, ptSent, ptRaw, drains, q)
        BY <2>1, <2>2, <2>3, <2>4, <2>5 DEF InOrder, OneSchema, Expected
      <3>3. ~(q > ptCount.queries)
        BY <2>5, <1>1 DEF PtOrder, OrderOK
      <3> QED  BY <3>1, <3>2, <3>3, Zenon DEF InOrder
    <2>6. CASE ~(q = ptUi.query /\ event \in S)
      <3>1. \/ asked = ptAsked
            \/ /\ Has(asked, ToExecute(q)) <=> Has(ptAsked, ToExecute(q))
               /\ Once(asked, ToExecute(q)) <=> Once(ptAsked, ToExecute(q))
               /\ Has(asked, ToFetch(q)) <=> Has(ptAsked, ToFetch(q))
        BY <2>2, <2>4, <2>6, Zenon
      <3>2. OneSchema(asked, ptSent, ptRaw, drains, q)
        BY <2>1, <2>2, <2>3, <3>1 DEF InOrder, OneSchema
      <3>3. Expected(asked, ptSent, ptRaw, drains, q) => Expected(ptAsked, ptSent, ptRaw, ptDrains, q)
        BY <2>2, <2>3, <3>1 DEF Expected
      <3>4. Paged(asked, ptSent, ptRaw, drains, q) => Paged(ptAsked, ptSent, ptRaw, ptDrains, q)
        BY <2>2, <2>3, <3>1 DEF Paged
      <3>5. Expected(ptAsked, ptSent, ptRaw, ptDrains, q) => Blank(ui, q)
        <4>1. CASE q # ptUi.query
          BY <4>1, <1>6 DEF Blank
        <4>2. CASE q = ptUi.query /\ event \in P
          <5>1. Paged(ptAsked, ptSent, ptRaw, ptDrains, q)
            BY <4>2, <2>2, <2>3, Zenon DEF Paged
          <5> QED  BY <5>1, <2>1, Zenon DEF InOrder
        <4>3. CASE q = ptUi.query /\ event \notin P
          <5>1. Blank(ptUi, q) => Blank(ui, q)
            BY <4>3, <2>2, <2>6, <1>5, Zenon
          <5> QED  BY <5>1, <2>1, Zenon DEF InOrder
        <4> QED  BY <4>1, <4>2, <4>3
      <3> QED  BY <2>1, <3>2, <3>3, <3>4, <3>5, Zenon DEF InOrder
    <2> QED  BY <2>5, <2>6
  <1> QED  BY <1>2, <1>3, <1>7, OrderIs, Zenon

\* The window asks for nothing: the order stays.
LEMMA ViewOrder ==
    ASSUME PtOrder, NEW drains, NEW ui, ui.query = ptUi.query, \A q : Blank(ptUi, q) => Blank(ui, q),
           \A S : (Drawn(ptDrains, S) <=> Drawn(drains, S)) /\ (DrawnOnce(ptDrains, S) <=> DrawnOnce(drains, S))
    PROVE  OrderOK(ptAsked, ptSent, ptRaw, drains, ui, ptCount.queries)
  <1>1. ASSUME NEW q \in Nat \ {0}
        PROVE  InOrder(ptAsked, ptSent, ptRaw, drains, ui, ptCount.queries, q)
    <2>1. InOrder(ptAsked, ptSent, ptRaw, ptDrains, ptUi, ptCount.queries, q)
      BY OrderIs, Zenon DEF PtOrder
    <2>2. /\ Drawn(ptDrains, Schemas(q)) <=> Drawn(drains, Schemas(q))
          /\ DrawnOnce(ptDrains, Schemas(q)) <=> DrawnOnce(drains, Schemas(q))
          /\ Drawn(ptDrains, Pages(q)) <=> Drawn(drains, Pages(q))
          /\ Blank(ptUi, q) => Blank(ui, q)
      BY Zenon
    <2> QED  BY <2>1, <2>2 DEF InOrder, OneSchema, Expected, Paged
  <1>2. ui.query <= ptCount.queries
    BY Zenon DEF PtOrder, OrderOK
  <1> QED  BY <1>1, <1>2, OrderIs, Zenon

\* A page is asked for after the schema has come.
LEMMA TurnOrder ==
    ASSUME PtShape, PtOrder, ~Blank(ptUi, ptUi.query), NEW c \in ToFetch(ptUi.query),
           NEW ui, ui.query = ptUi.query, \A q : Blank(ptUi, q) => Blank(ui, q)
    PROVE  OrderOK(Append(ptAsked, c), ptSent, ptRaw, ptDrains, ui, ptCount.queries)
  <1>1. ptAsked \in Seq(PtCommand) /\ c \in PtCommand
    BY DEF PtShape, ToFetch
  <1>2. PICK asked : asked = Append(ptAsked, c)
    OBVIOUS
  <1>3. ASSUME NEW S
        PROVE  /\ Has(Append(ptAsked, c), S) <=> Has(ptAsked, S) \/ c \in S
               /\ Once(Append(ptAsked, c), S) <=> Once(ptAsked, S) /\ ~(Has(ptAsked, S) /\ c \in S)
    BY ONLY <1>1, AppendHas
  <1>4. ptUi.query \in Nat /\ ptCount.queries \in Nat /\ ptUi.query <= ptCount.queries
    BY DEF PtShape, PtWindow, PtCounts, PtOrder, OrderOK
  <1>5. ASSUME NEW q \in Nat \ {0}
        PROVE  InOrder(asked, ptSent, ptRaw, ptDrains, ui, ptCount.queries, q)
    <2>1. InOrder(ptAsked, ptSent, ptRaw, ptDrains, ptUi, ptCount.queries, q)
      BY OrderIs, Zenon DEF PtOrder
    <2>2. c \notin ToExecute(q) /\ (c \in ToFetch(q) => q = ptUi.query)
      BY DEF ToFetch, ToExecute
    <2>3. /\ Has(asked, ToExecute(q)) <=> Has(ptAsked, ToExecute(q))
          /\ Once(asked, ToExecute(q)) <=> Once(ptAsked, ToExecute(q))
          /\ Has(asked, ToFetch(q)) => Has(ptAsked, ToFetch(q)) \/ q = ptUi.query
      BY <1>2, <1>3, <2>2, Zenon
    <2>4. q = ptUi.query => ~Expected(ptAsked, ptSent, ptRaw, ptDrains, q) /\ ~(q > ptCount.queries)
      <3>1. q = ptUi.query => ~Expected(ptAsked, ptSent, ptRaw, ptDrains, q)
        BY <2>1, Zenon DEF InOrder
      <3>2. q = ptUi.query => ~(q > ptCount.queries)
        BY <1>4
      <3> QED  BY <3>1, <3>2
    <2>5. Blank(ptUi, q) => Blank(ui, q)
      BY Zenon
    <2>6. Expected(asked, ptSent, ptRaw, ptDrains, q) <=> Expected(ptAsked, ptSent, ptRaw, ptDrains, q)
      BY <2>3, Zenon DEF Expected
    <2>7. Paged(asked, ptSent, ptRaw, ptDrains, q) => Paged(ptAsked, ptSent, ptRaw, ptDrains, q) \/ q = ptUi.query
      BY <2>3, Zenon DEF Paged
    <2>8. OneSchema(asked, ptSent, ptRaw, ptDrains, q)
      BY <2>1, <2>3, Zenon DEF InOrder, OneSchema
    <2> QED  BY <2>1, <2>4, <2>5, <2>6, <2>7, <2>8, Zenon DEF InOrder
  <1> QED  BY <1>2, <1>4, <1>5, OrderIs, Zenon

\* A statement with a new number, of which nothing is under way, is asked for.
LEMMA ExecuteOrder ==
    ASSUME PtShape, PtOrder, NEW asked \in Seq(PtCommand),
           asked = ptAsked \/ \E c \in PtCommand : c.op = "release" /\ asked = Append(ptAsked, c),
           NEW last, NEW ui, NEW queries, ui.page = 0, ui.more = FALSE, ui.building = 0,
           \/ last = asked /\ ui.query = 0 /\ queries = ptCount.queries
           \/ /\ \E c \in ToExecute(ptCount.queries + 1) : last = Append(asked, c)
              /\ ui.query = ptCount.queries + 1 /\ queries = ptCount.queries + 1
    PROVE  OrderOK(last, ptSent, ptRaw, ptDrains, ui, queries)
  <1>1. ptAsked \in Seq(PtCommand) /\ ptCount.queries \in Nat
    BY DEF PtShape, PtCounts
  <1>2. \A q \in Nat \ {0} : /\ Has(asked, ToExecute(q)) <=> Has(ptAsked, ToExecute(q))
                             /\ Once(asked, ToExecute(q)) <=> Once(ptAsked, ToExecute(q))
                             /\ Has(asked, ToFetch(q)) <=> Has(ptAsked, ToFetch(q))
    <2>1. CASE asked = ptAsked
      BY <2>1, Zenon
    <2>2. ASSUME NEW c \in PtCommand, c.op = "release", asked = Append(ptAsked, c), NEW q \in Nat \ {0}
          PROVE  /\ Has(asked, ToExecute(q)) <=> Has(ptAsked, ToExecute(q))
                 /\ Once(asked, ToExecute(q)) <=> Once(ptAsked, ToExecute(q))
                 /\ Has(asked, ToFetch(q)) <=> Has(ptAsked, ToFetch(q))
      <3>1. ASSUME NEW S
            PROVE  /\ Has(Append(ptAsked, c), S) <=> Has(ptAsked, S) \/ c \in S
                   /\ Once(Append(ptAsked, c), S) <=> Once(ptAsked, S) /\ ~(Has(ptAsked, S) /\ c \in S)
        BY ONLY <1>1, c \in PtCommand, AppendHas
      <3>2. c \notin ToExecute(q) /\ c \notin ToFetch(q)
        BY <2>2 DEF ToExecute, ToFetch
      <3> QED  BY <2>2, <3>1, <3>2, Zenon
    <2> QED  BY <2>1, <2>2, Zenon
  <1>3. ui.query <= queries /\ queries \in Nat /\ ptCount.queries <= queries
    <2>1. CASE ui.query = 0 /\ queries = ptCount.queries
      BY <2>1, <1>1
    <2>2. CASE ui.query = ptCount.queries + 1 /\ queries = ptCount.queries + 1
      <3>1. ptCount.queries + 1 \in Nat /\ ptCount.queries <= ptCount.queries + 1
        <4>1. PICK n \in Nat : n = ptCount.queries
          BY <1>1
        <4> QED  BY ONLY <4>1
      <3> QED  BY <3>1, <2>2, <1>1
    <2> QED  BY <2>1, <2>2, Zenon
  <1>4. ASSUME NEW q \in Nat \ {0}
        PROVE  InOrder(last, ptSent, ptRaw, ptDrains, ui, queries, q)
    <2>1. InOrder(ptAsked, ptSent, ptRaw, ptDrains, ptUi, ptCount.queries, q)
      BY OrderIs, Zenon DEF PtOrder
    <2>2. Blank(ui, q)
      BY DEF Blank
    <2>3. q > queries => q > ptCount.queries
      BY <1>1, <1>3
    <2>4. InOrder(asked, ptSent, ptRaw, ptDrains, ui, queries, q)
      BY <1>2, <2>1, <2>2, <2>3 DEF InOrder, OneSchema, Expected, Paged
    <2>5. CASE last = asked
      BY <2>4, <2>5
    <2>6. ASSUME NEW c \in ToExecute(ptCount.queries + 1), last = Append(asked, c), queries = ptCount.queries + 1
          PROVE  InOrder(last, ptSent, ptRaw, ptDrains, ui, queries, q)
      <3>1. c \in PtCommand /\ c \notin ToFetch(q) /\ (c \in ToExecute(q) => q = queries)
        BY <2>6 DEF ToExecute, ToFetch
      <3>2. ASSUME NEW S
            PROVE  /\ Has(Append(asked, c), S) <=> Has(asked, S) \/ c \in S
                   /\ Once(Append(asked, c), S) <=> Once(asked, S) /\ ~(Has(asked, S) /\ c \in S)
        BY ONLY <3>1, asked \in Seq(PtCommand), AppendHas
      <3>3. Has(last, ToFetch(q)) <=> Has(asked, ToFetch(q))
        BY <2>6, <3>1, <3>2, Zenon
      <3>4. CASE q = queries
        <4>1. ~Expected(asked, ptSent, ptRaw, ptDrains, q) /\ ~Paged(asked, ptSent, ptRaw, ptDrains, q)
          <5>1. q > ptCount.queries
            <6>1. q = queries /\ queries = ptCount.queries + 1 /\ ptCount.queries \in Nat
              BY <3>4, <2>6, <1>1, Zenon
            <6> QED  BY ONLY <6>1
          <5> QED  BY <5>1, <2>1, <1>2, Zenon DEF InOrder, Expected, Paged
        <4>2. Once(last, ToExecute(q))
          <5>1. ~Has(asked, ToExecute(q)) /\ Once(asked, ToExecute(q))
            BY <4>1, <2>4, Zenon DEF Expected, InOrder, OneSchema
          <5> QED  BY <5>1, <2>6, <3>2, Zenon
        <4>3. OneSchema(last, ptSent, ptRaw, ptDrains, q)
          BY <4>1, <4>2, <2>4 DEF InOrder, OneSchema, Expected
        <4>4. ~Paged(last, ptSent, ptRaw, ptDrains, q)
          BY <4>1, <3>3, Zenon DEF Paged
        <4>5. ~(q > queries)
          BY <3>4, <1>3
        <4> QED  BY <4>3, <4>4, <4>5, <2>2, Zenon DEF InOrder
      <3>5. CASE q # queries
        <4>1. c \notin ToExecute(q)
          BY <3>1, <3>5
        <4>2. /\ Has(last, ToExecute(q)) <=> Has(asked, ToExecute(q))
              /\ Once(last, ToExecute(q)) <=> Once(asked, ToExecute(q))
          BY <4>1, <2>6, <3>2, Zenon
        <4> QED  BY <4>2, <3>3, <2>4 DEF InOrder, OneSchema, Expected, Paged
      <3> QED  BY <3>4, <3>5
    <2> QED  BY <2>5, <2>6, Zenon
  <1> QED  BY <1>3, <1>4, OrderIs, Zenon

-----------------------------------------------------------------------------
(* The invariant, and what it says of the leases.                          *)

\* At first the table is empty and no statement was run.
LEMMA PtStarts == PtInit => PtInv
  <1> SUFFICES ASSUME PtInit  PROVE PtInv
    OBVIOUS
  <1>1. /\ ptAsked = <<>> /\ ptSent = <<>> /\ ptRaw = <<>> /\ ptDrains = <<>>
        /\ ptLeases = {} /\ ptTransfers = {} /\ ptRetained = {} /\ ptReleased = {} /\ ptBuilds = {}
    BY DEF PtInit
  <1>2. /\ ptUi \in PtWindow /\ ptUi.query = 0 /\ ptUi.shown = Nothing /\ ptUi.page = 0
        /\ ptUi.visible = 0 /\ ptUi.schema = 0 /\ ptUi.building = 0
    <2>1. PICK none, blank : none = 0 /\ blank = Nothing
      OBVIOUS
    <2>2. none \in Nat /\ blank \in [query : Nat, page : Nat]
      BY <2>1, NothingTyped
    <2>3. PICK ui : ui = [connected |-> TRUE, query |-> none, shown |-> blank, page |-> none, more |-> FALSE,
                          visible |-> none, schema |-> none, building |-> none,
                          busy |-> FALSE, fetching |-> FALSE, cancelling |-> FALSE]
      OBVIOUS
    <2>4. /\ ui \in PtWindow /\ ui.query = none /\ ui.shown = blank /\ ui.page = none
          /\ ui.visible = none /\ ui.schema = none /\ ui.building = none
      BY <2>2, <2>3 DEF PtWindow
    <2>5. ptUi = ui
      BY <2>1, <2>3, Zenon DEF PtInit
    <2> QED  BY <2>1, <2>4, <2>5, Zenon
  <1>3. ptEngine \in PtActor /\ ptCount \in PtCounts /\ ptCount.queries = 0
    BY DEF PtInit, PtActor, PtCounts
  <1>4. PtShape
    <2>1. \A S : <<>> \in Seq(S)
      BY EmptySeq
    <2>2. Len(ptRaw) <= PtBudget
      BY <1>1 DEF PtAssumption
    <2> QED  BY <1>1, <1>2, <1>3, <2>1, <2>2 DEF PtShape
  <1>5. \A S : ~Drawn(<<>>, S) /\ DrawnOnce(<<>>, S)
    BY DEF Drawn, DrawnOnce
  <1>6. Waits(<<>>) = {} /\ Held(ptUi) = {} /\ Takes(<<>>) = {} /\ TakenApart(<<>>)
    BY <1>2, <1>5 DEF Waits, Held, Leased, Takes, TakenApart
  <1>7. PtTable
    <2>1. Books({}, {}, {}, {}, {}, {})
      BY DEF Books
    <2>2. DrainsOK({}, <<>>)
      BY <1>5, <1>6 DEF DrainsOK
    <2> QED  BY <2>1, <2>2, <1>1, <1>6 DEF PtTable, TableOK
  <1>8. PtView
    BY <1>1, <1>2 DEF PtView, WindowOK
  <1>9. PtOrder
    <2>1. \A S : ~Has(<<>>, S) /\ Once(<<>>, S)
      BY EmptyHas
    <2>2. \A q \in Nat \ {0} : /\ OneSchema(<<>>, <<>>, <<>>, <<>>, q)
                               /\ ~Expected(<<>>, <<>>, <<>>, <<>>, q) /\ ~Paged(<<>>, <<>>, <<>>, <<>>, q)
      BY <2>1, <1>5, Zenon DEF OneSchema, Expected, Paged
    <2>3. ptUi.query <= ptCount.queries
      BY <1>2, <1>3
    <2> QED  BY <2>2, <2>3, <1>1, Zenon DEF PtOrder, OrderOK
  <1> QED  BY <1>4, <1>7, <1>8, <1>9 DEF PtInv

\* The parts of the shape, for the steps that change some of them.
LEMMA ShapeKept ==
    ASSUME PtShape,
           ptAsked' = ptAsked \/ ptAsked' \in Seq(PtCommand), ptEngine' = ptEngine \/ ptEngine' \in PtActor,
           ptSent' = ptSent \/ ptSent' \in Seq(Fresh),
           ptRaw' = ptRaw \/ (ptRaw' \in Seq(Fresh) /\ Len(ptRaw') <= PtBudget),
           ptDrains' = ptDrains \/ ptDrains' \in Seq(PtDrain), ptLeases' \subseteq ptLeases \/ ptLeases' \subseteq Nat,
           ptUi' = ptUi \/ ptUi' \in PtWindow, ptBuilds' = ptBuilds \/ ptBuilds' \subseteq PtBuild,
           ptCount' = ptCount \/ ptCount' \in PtCounts
    PROVE  PtShape'
  <1>1. ptRaw' \in Seq(Fresh) /\ Len(ptRaw') <= PtBudget
    BY Zenon DEF PtShape
  <1>2. ptLeases' \subseteq Nat
    BY DEF PtShape
  <1> QED  BY <1>1, <1>2, Zenon DEF PtShape

\* The steps of the actor preserve the invariant.
LEMMA ActorPreserves ==
    ASSUME PtInv, PtServe \/ PtCancelIdle \/ PtTimeOut \/ PtLose
    PROVE  PtInv'
  <1>1. PtShape /\ PtTable /\ PtView /\ PtOrder
    BY DEF PtInv
  <1>2. /\ UNCHANGED <<ptRaw, ptLeases, ptTransfers, ptRetained, ptReleased, ptDrains, ptUi, ptBuilds, ptCount>>
        /\ PtServe \/ ptAsked' = ptAsked \/ PtLose
    BY DEF PtServe, PtCancelIdle, PtTimeOut, PtLose, Stopped, ptTable, ptLink
  <1>3. ptAsked \in Seq(PtCommand) /\ ptSent \in Seq(Fresh)
    BY <1>1 DEF PtShape
  <1>4. /\ ptAsked' \in Seq(PtCommand) /\ ptSent' \in Seq(Fresh) /\ ptEngine' \in PtActor
        /\ OrderOK(ptAsked', ptSent', ptRaw, ptDrains, ptUi, ptCount.queries)
    <2>1. CASE PtServe
      <3>1. PICK events \in Seq(Fresh) :
                /\ ptAsked # <<>> /\ ptAsked' = Tail(ptAsked) /\ ptSent' = ptSent \o events
                /\ Answers(Head(ptAsked), events) /\ ptEngine' \in PtActor
        BY <2>1, <1>1, ServeStep
      <3>2. PICK asked, sent : asked = ptAsked' /\ sent = ptSent'
        OBVIOUS
      <3>3. OrderOK(asked, sent, ptRaw, ptDrains, ptUi, ptCount.queries)
        BY <3>1, <3>2, <1>1, ServeOrder, Zenon
      <3>4. Tail(ptAsked) \in Seq(PtCommand) /\ ptSent \o events \in Seq(Fresh)
        BY <3>1, <1>3, HeadTailProperties, ConcatProperties
      <3> QED  BY <3>1, <3>2, <3>3, <3>4, Zenon
    <2>2. CASE PtCancelIdle \/ PtTimeOut \/ PtLose
      <3>1. PICK events : /\ Quiet(events) /\ ptSent' = ptSent \o events /\ ptEngine' \in PtActor
                          /\ ptAsked' = ptAsked \/ ptAsked' = <<>>
        <4>1. CASE Stopped
          <5>1. ptAsked' = ptAsked
            BY <4>1, Zenon DEF Stopped, ptLink
          <5> QED  BY <4>1, <5>1, <1>1, StoppedStep, Zenon
        <4>2. CASE PtLose
          BY <4>2, <1>1, LoseStep, Zenon
        <4> QED  BY <4>1, <4>2, <2>2 DEF PtCancelIdle, PtTimeOut
      <3>2. PICK asked, sent : asked = ptAsked' /\ sent = ptSent'
        OBVIOUS
      <3>3. OrderOK(asked, sent, ptRaw, ptDrains, ptUi, ptCount.queries)
        BY <3>1, <3>2, <1>1, QuietOrder, Zenon
      <3>4. events \in Seq(Fresh)
        BY <3>1 DEF Quiet
      <3>5. ptSent \o events \in Seq(Fresh) /\ <<>> \in Seq(PtCommand)
        BY <3>4, <1>3, ConcatProperties
      <3> QED  BY <3>1, <3>2, <3>3, <3>5, <1>3, Zenon
    <2> QED  BY <2>1, <2>2
  <1>5. PtShape'
    <2>1. ptLeases' \subseteq ptLeases
      BY <1>2
    <2> QED  BY <2>1, <1>1, <1>2, <1>4, ShapeKept, Zenon
  <1>6. PtTable' /\ PtView'
    BY <1>1, <1>2, Zenon DEF PtTable, PtView
  <1>7. PtOrder'
    BY <1>2, <1>4, Zenon DEF PtOrder
  <1> QED  BY <1>5, <1>6, <1>7 DEF PtInv

\* So do the steps of a drain.
LEMMA DrainPreserves ==
    ASSUME PtInv, PtTick \/ PtDispatch \/ PtDrained
    PROVE  PtInv'
  <1>1. PtShape /\ PtTable /\ PtView /\ PtOrder
    BY DEF PtInv
  <1>2. CASE PtTick
    <2>1. UNCHANGED <<ptAsked, ptEngine, ptTransfers, ptRetained, ptReleased, ptUi, ptBuilds, ptCount>>
      BY <1>2 DEF PtTick, ptLink
    <2>2. /\ TableOK(ptLeases', ptTransfers, ptRetained, ptReleased, ptDrains', ptUi)
          /\ ptLeases' \subseteq Nat /\ ptDrains' \in Seq(PtDrain)
      BY <1>1, <1>2, TickTable
    <2>3. PICK n \in 0 .. Len(ptSent), raw \in Seq(Fresh), events \in Seq(Arrived) : \E taken \in 0 .. Len(raw) :
                  /\ raw = ptRaw \o SubSeq(ptSent, 1, n) /\ Len(raw) <= PtBudget
                  /\ ptSent' = SubSeq(ptSent, n + 1, Len(ptSent)) /\ ptRaw' = SubSeq(raw, taken + 1, Len(raw))
                  /\ \A q : /\ Has(events, Schemas(q)) <=> Has(SubSeq(raw, 1, taken), Schemas(q))
                            /\ Once(events, Schemas(q)) <=> Once(SubSeq(raw, 1, taken), Schemas(q))
                            /\ Has(events, Pages(q)) <=> Has(SubSeq(raw, 1, taken), Pages(q))
                  /\ \A S : /\ Drawn(ptDrains', S) <=> Drawn(ptDrains, S) \/ Has(events, S)
                            /\ DrawnOnce(ptDrains', S) <=>
                                   DrawnOnce(ptDrains, S) /\ Once(events, S) /\ ~(Drawn(ptDrains, S) /\ Has(events, S))
      BY <1>1, <1>2, TickTable, Zenon
    <2>4. PICK taken \in 0 .. Len(raw) :
                  /\ raw = ptRaw \o SubSeq(ptSent, 1, n) /\ Len(raw) <= PtBudget
                  /\ ptSent' = SubSeq(ptSent, n + 1, Len(ptSent)) /\ ptRaw' = SubSeq(raw, taken + 1, Len(raw))
                  /\ \A q : /\ Has(events, Schemas(q)) <=> Has(SubSeq(raw, 1, taken), Schemas(q))
                            /\ Once(events, Schemas(q)) <=> Once(SubSeq(raw, 1, taken), Schemas(q))
                            /\ Has(events, Pages(q)) <=> Has(SubSeq(raw, 1, taken), Pages(q))
                  /\ \A S : /\ Drawn(ptDrains', S) <=> Drawn(ptDrains, S) \/ Has(events, S)
                            /\ DrawnOnce(ptDrains', S) <=>
                                   DrawnOnce(ptDrains, S) /\ Once(events, S) /\ ~(Drawn(ptDrains, S) /\ Has(events, S))
      BY <2>3, Zenon
    <2>5. PICK drains, sent, left : drains = ptDrains' /\ sent = ptSent' /\ left = ptRaw'
      OBVIOUS
    <2>6. OrderOK(ptAsked, sent, left, drains, ptUi, ptCount.queries)
      BY <2>4, <2>5, <1>1, TickOrder, Zenon
    <2>7. ptSent' \in Seq(Fresh)
      <3>1. ptSent \in Seq(Fresh) /\ Len(ptSent) \in Nat
        BY <1>1, LenProperties DEF PtShape
      <3>2. \A i \in n + 1 .. Len(ptSent) : ptSent[i] \in Fresh
        BY ONLY <3>1, n \in 0 .. Len(ptSent), ElementOfSeq
      <3>3. SubSeq(ptSent, n + 1, Len(ptSent)) \in Seq(Fresh)
        BY ONLY <3>1, <3>2, n \in 0 .. Len(ptSent), SubSeqProperties
      <3> QED  BY <3>3, <2>4, Zenon
    <2>8. ptRaw' \in Seq(Fresh) /\ Len(ptRaw') <= PtBudget
      <3>1. Len(raw) \in Nat /\ Len(raw) <= PtBudget /\ PtBudget \in Nat
        BY <2>4, LenProperties DEF PtAssumption
      <3>2. \A i \in taken + 1 .. Len(raw) : raw[i] \in Fresh
        BY ONLY <3>1, raw \in Seq(Fresh), taken \in 0 .. Len(raw), ElementOfSeq
      <3>3. /\ SubSeq(raw, taken + 1, Len(raw)) \in Seq(Fresh)
            /\ Len(SubSeq(raw, taken + 1, Len(raw))) <= PtBudget
        BY ONLY <3>1, <3>2, taken \in 0 .. Len(raw), SubSeqProperties
      <3> QED  BY <3>3, <2>4, Zenon
    <2>9. PtShape'
      BY <2>1, <2>2, <2>7, <2>8, <1>1, ShapeKept, Zenon
    <2>10. PtTable' /\ PtView'
      BY <2>1, <2>2, <1>1, Zenon DEF PtTable, PtView
    <2>11. PtOrder'
      BY <2>1, <2>5, <2>6, Zenon DEF PtOrder
    <2> QED  BY <2>9, <2>10, <2>11 DEF PtInv
  <1>3. CASE PtDispatch
    <2>1. PICK event \in Arrived :
               /\ Handled(event, ptTransfers', ptDrains') /\ ptDrains' \in Seq(PtDrain)
               /\ UNCHANGED <<ptEngine, ptSent, ptRaw, ptCount>>
               /\ \A S : /\ Drawn(ptDrains, S) <=> Drawn(ptDrains', S) \/ event \in S
                         /\ DrawnOnce(ptDrains, S) <=>
                                DrawnOnce(ptDrains', S) /\ ~(event \in S /\ Drawn(ptDrains', S))
      BY <1>1, <1>3, DispatchStep
    <2>2. PICK T, drains : T = ptTransfers' /\ drains = ptDrains'
      OBVIOUS
    <2>3. OrderOK(ptAsked', ptSent, ptRaw, drains, ptUi', ptCount.queries)
      <3>1. Handled(event, T, drains) /\ UNCHANGED <<ptSent, ptRaw, ptCount>>
        BY <2>1, <2>2, Zenon
      <3>2. \A S : /\ Drawn(ptDrains, S) <=> Drawn(drains, S) \/ event \in S
                   /\ DrawnOnce(ptDrains, S) <=> DrawnOnce(drains, S) /\ ~(event \in S /\ Drawn(drains, S))
        BY <2>1, <2>2, Zenon
      <3> QED  BY <3>1, <3>2, <1>1, DispatchOrder, Zenon
    <2>4. ptAsked' = ptAsked \/ ptAsked' \in Seq(PtCommand)
      <3>1. \/ ptAsked' = ptAsked
            \/ \E c \in ToFetch(ptUi.query) : ptAsked' = Append(ptAsked, c)
        BY <2>1, Zenon DEF Handled
      <3>2. \A c \in ToFetch(ptUi.query) : Append(ptAsked, c) \in Seq(PtCommand)
        <4>1. ptAsked \in Seq(PtCommand)
          BY <1>1 DEF PtShape
        <4> QED  BY <4>1, AppendProperties DEF ToFetch
      <3> QED  BY <3>1, <3>2, Zenon
    <2>5. /\ ptUi' \in PtWindow /\ ptBuilds' \subseteq PtBuild /\ ptLeases' \subseteq ptLeases
          /\ WindowOK(ptUi', ptBuilds')
          /\ TableOK(ptLeases', ptTransfers', ptRetained', ptReleased', ptDrains', ptUi')
      BY <2>1, Zenon DEF Handled
    <2>6. PtShape'
      BY <2>1, <2>4, <2>5, <1>1, ShapeKept, Zenon
    <2>7. PtTable' /\ PtView'
      BY <2>5, Zenon DEF PtTable, PtView
    <2>8. PtOrder'
      BY <2>1, <2>2, <2>3, Zenon DEF PtOrder
    <2> QED  BY <2>6, <2>7, <2>8 DEF PtInv
  <1>4. CASE PtDrained
    <2>1. /\ TableOK(ptLeases', ptTransfers', ptRetained', ptReleased', ptDrains', ptUi)
          /\ ptLeases' \subseteq ptLeases /\ ptDrains' \in Seq(PtDrain)
          /\ UNCHANGED <<ptAsked, ptEngine, ptSent, ptRaw, ptUi, ptBuilds, ptCount>>
          /\ \A S : /\ Drawn(ptDrains, S) <=> Drawn(ptDrains', S)
                    /\ DrawnOnce(ptDrains, S) <=> DrawnOnce(ptDrains', S)
      BY <1>1, <1>4, DrainedStep
    <2>2. PICK drains : drains = ptDrains'
      OBVIOUS
    <2>3. OrderOK(ptAsked, ptSent, ptRaw, drains, ptUi, ptCount.queries)
      <3>1. \A S : (Drawn(ptDrains, S) <=> Drawn(drains, S)) /\ (DrawnOnce(ptDrains, S) <=> DrawnOnce(drains, S))
        BY <2>1, <2>2, Zenon
      <3>2. ptUi.query = ptUi.query /\ \A q : Blank(ptUi, q) => Blank(ptUi, q)
        OBVIOUS
      <3> QED  BY <3>1, <3>2, <1>1, ViewOrder, Zenon
    <2>4. PtShape'
      BY <2>1, <1>1, ShapeKept, Zenon
    <2>5. PtTable' /\ PtView'
      BY <2>1, <1>1, Zenon DEF PtTable, PtView
    <2>6. PtOrder'
      BY <2>1, <2>2, <2>3, Zenon DEF PtOrder
    <2> QED  BY <2>4, <2>5, <2>6 DEF PtInv
  <1> QED  BY <1>2, <1>3, <1>4

\* And a step of the window that asks for nothing.
LEMMA ViewPreserves ==
    ASSUME PtInv, Viewed, UNCHANGED <<ptAsked, ptEngine, ptSent, ptRaw, ptTransfers, ptRetained, ptDrains>>,
           ptCount' = ptCount \/ (ptCount' \in PtCounts /\ ptCount'.queries = ptCount.queries),
           ptUi'.query = ptUi.query, \A q : Blank(ptUi, q) => Blank(ptUi', q)
    PROVE  PtInv'
  <1>1. PtShape /\ PtTable /\ PtView /\ PtOrder
    BY DEF PtInv
  <1>2. PICK ui : ui = ptUi'
    OBVIOUS
  <1>3. OrderOK(ptAsked, ptSent, ptRaw, ptDrains, ui, ptCount.queries)
    <2>1. ui.query = ptUi.query /\ \A q : Blank(ptUi, q) => Blank(ui, q)
      BY <1>2, Zenon
    <2>2. \A S : (Drawn(ptDrains, S) <=> Drawn(ptDrains, S)) /\ (DrawnOnce(ptDrains, S) <=> DrawnOnce(ptDrains, S))
      OBVIOUS
    <2> QED  BY <2>1, <2>2, <1>1, ViewOrder, Zenon
  <1>4. PtShape'
    BY <1>1, ShapeKept, Zenon DEF Viewed
  <1>5. PtTable' /\ PtView'
    BY Zenon DEF PtTable, PtView, Viewed
  <1>6. PtOrder'
    <2>1. ptCount'.queries = ptCount.queries
      OBVIOUS
    <2> QED  BY <2>1, <1>2, <1>3, Zenon DEF PtOrder
  <1> QED  BY <1>4, <1>5, <1>6 DEF PtInv

\* And what the user and the builds do.
LEMMA UserPreserves ==
    ASSUME PtInv, PtNest \/ PtBuilt \/ PtExecute \/ PtTurn \/ PtCancel \/ PtOther
    PROVE  PtInv'
  <1>1. PtShape /\ PtTable /\ PtView /\ PtOrder
    BY DEF PtInv
  <1>2. CASE PtNest
    <2>1. UNCHANGED <<ptAsked, ptEngine, ptSent, ptRaw, ptLeases, ptTransfers, ptRetained, ptReleased, ptDrains, ptUi, ptBuilds, ptCount>>
      BY <1>2 DEF PtNest, ptLink, ptTable
    <2> QED  BY <2>1, <1>1, Zenon DEF PtInv, PtShape, PtTable, PtView, PtOrder
  <1>3. CASE PtBuilt
    <2>1. UNCHANGED <<ptAsked, ptEngine, ptSent, ptRaw, ptTransfers, ptRetained, ptDrains, ptCount>>
      BY <1>3 DEF PtBuilt, ptLink
    <2> QED  BY <2>1, <1>1, <1>3, BuiltStep, ViewPreserves, Zenon
  <1>4. CASE PtOther
    <2>1. UNCHANGED <<ptAsked, ptEngine, ptSent, ptRaw, ptTransfers, ptRetained, ptDrains>>
      BY <1>4 DEF PtOther, ptLink, ptTable
    <2> QED  BY <2>1, <1>1, <1>4, OtherStep, ViewPreserves, Zenon
  <1>5. CASE PtCancel
    <2>1. UNCHANGED <<ptAsked, ptEngine, ptSent, ptRaw, ptTransfers, ptRetained, ptDrains, ptCount>>
      BY <1>5, Zenon DEF PtCancel
    <2> QED  BY <2>1, <1>1, <1>5, CancelStep, ViewPreserves, Zenon
  <1>6. CASE PtTurn
    <2>1. UNCHANGED <<ptEngine, ptSent, ptRaw, ptTransfers, ptRetained, ptDrains>>
      BY <1>6 DEF PtTurn, ptTable
    <2>2. /\ Viewed /\ ptUi'.query = ptUi.query /\ (\A q : Blank(ptUi, q) => Blank(ptUi', q))
          /\ ~Blank(ptUi, ptUi.query)
          /\ ptCount' \in PtCounts /\ ptCount'.queries = ptCount.queries
          /\ ptAsked' = ptAsked \/ \E c \in ToFetch(ptUi.query) : ptAsked' = Append(ptAsked, c)
      BY <1>1, <1>6, TurnStep
    <2>3. CASE ptAsked' = ptAsked
      BY <2>1, <2>2, <2>3, ViewPreserves, Zenon
    <2>4. ASSUME NEW c \in ToFetch(ptUi.query), ptAsked' = Append(ptAsked, c)
          PROVE  PtInv'
      <3>1. PICK ui, asked : ui = ptUi' /\ asked = ptAsked'
        OBVIOUS
      <3>2. OrderOK(Append(ptAsked, c), ptSent, ptRaw, ptDrains, ui, ptCount.queries)
        <4>1. ui.query = ptUi.query /\ \A q : Blank(ptUi, q) => Blank(ui, q)
          BY <2>2, <3>1, Zenon
        <4> QED  BY <4>1, <2>2, <1>1, TurnOrder, Zenon
      <3>3. ptAsked' \in Seq(PtCommand)
        BY <1>1, <2>4, AppendProperties DEF PtShape, ToFetch
      <3>4. PtShape'
        BY <3>3, <2>1, <2>2, <1>1, ShapeKept, Zenon DEF Viewed
      <3>5. PtTable' /\ PtView'
        BY <2>1, <2>2, Zenon DEF PtTable, PtView, Viewed
      <3>6. PtOrder'
        BY <2>1, <2>2, <2>4, <3>1, <3>2, Zenon DEF PtOrder
      <3> QED  BY <3>4, <3>5, <3>6 DEF PtInv
    <2> QED  BY <2>2, <2>3, <2>4, Zenon
  <1>7. CASE PtExecute
    <2>1. UNCHANGED <<ptEngine, ptSent, ptRaw, ptTransfers, ptRetained, ptDrains>>
      BY <1>7 DEF PtExecute
    <2>2. /\ Viewed /\ ptCount' \in PtCounts /\ ptUi'.page = 0 /\ ptUi'.more = FALSE /\ ptUi'.building = 0
          /\ \E asked \in Seq(PtCommand) :
                  /\ asked = ptAsked \/ \E c \in PtCommand : c.op = "release" /\ asked = Append(ptAsked, c)
                  /\ \/ ptAsked' = asked /\ ptUi'.query = 0 /\ ptCount'.queries = ptCount.queries
                     \/ /\ \E c \in ToExecute(ptCount.queries + 1) : ptAsked' = Append(asked, c)
                        /\ ptUi'.query = ptCount.queries + 1 /\ ptCount'.queries = ptCount.queries + 1
      BY <1>1, <1>7, ExecuteStep
    <2>3. PICK asked \in Seq(PtCommand) :
                  /\ asked = ptAsked \/ \E c \in PtCommand : c.op = "release" /\ asked = Append(ptAsked, c)
                  /\ \/ ptAsked' = asked /\ ptUi'.query = 0 /\ ptCount'.queries = ptCount.queries
                     \/ /\ \E c \in ToExecute(ptCount.queries + 1) : ptAsked' = Append(asked, c)
                        /\ ptUi'.query = ptCount.queries + 1 /\ ptCount'.queries = ptCount.queries + 1
      BY <2>2
    <2>4. PICK last, ui, queries : last = ptAsked' /\ ui = ptUi' /\ queries = ptCount'.queries
      OBVIOUS
    <2>5. OrderOK(last, ptSent, ptRaw, ptDrains, ui, queries)
      <3>1. /\ ui.page = 0 /\ ui.more = FALSE /\ ui.building = 0
            /\ \/ last = asked /\ ui.query = 0 /\ queries = ptCount.queries
               \/ /\ \E c \in ToExecute(ptCount.queries + 1) : last = Append(asked, c)
                  /\ ui.query = ptCount.queries + 1 /\ queries = ptCount.queries + 1
        BY <2>2, <2>3, <2>4, Zenon
      <3> QED  BY <3>1, <2>3, <1>1, ExecuteOrder, Zenon
    <2>6. ptAsked' \in Seq(PtCommand)
      <3>1. \A c \in ToExecute(ptCount.queries + 1) : Append(asked, c) \in Seq(PtCommand)
        BY ONLY asked \in Seq(PtCommand), AppendProperties DEF ToExecute
      <3> QED  BY <3>1, <2>3, Zenon
    <2>7. PtShape'
      BY <2>1, <2>2, <2>6, <1>1, ShapeKept, Zenon DEF Viewed
    <2>8. PtTable' /\ PtView'
      BY <2>1, <2>2, Zenon DEF PtTable, PtView, Viewed
    <2>9. PtOrder'
      BY <2>1, <2>4, <2>5, Zenon DEF PtOrder
    <2> QED  BY <2>7, <2>8, <2>9 DEF PtInv
  <1> QED  BY <1>2, <1>3, <1>4, <1>5, <1>6, <1>7

\* The invariant holds, whatever the actor, the drains, the handlers and the user do.
THEOREM PtInvariant == PtSpec => []PtInv
  <1>1. PtInv /\ [PtNext]_ptVars => PtInv'
    <2> SUFFICES ASSUME PtInv, [PtNext]_ptVars  PROVE PtInv'
      OBVIOUS
    <2>1. CASE UNCHANGED ptVars
      <3>1. UNCHANGED <<ptAsked, ptEngine, ptSent, ptRaw, ptLeases, ptTransfers, ptRetained, ptReleased, ptDrains, ptUi, ptBuilds, ptCount>>
        BY <2>1 DEF ptVars, ptLink, ptTable
      <3> QED  BY <3>1, Zenon DEF PtInv, PtShape, PtTable, PtView, PtOrder
    <2>2. CASE PtNext
      BY <2>2, ActorPreserves, DrainPreserves, UserPreserves DEF PtNext
    <2> QED  BY <2>1, <2>2
  <1> QED  BY <1>1, PtStarts, PTL DEF PtSpec

\* What the window holds are as many leases as there are parts of it that hold one.
LEMMA PartsHold ==
    ASSUME PtShape, PtView
    PROVE  Cardinality(Holding) = Cardinality({part \in {"visible", "schema", "building"} : ptUi[part] # 0})
  <1>1. PICK parts : parts = {part \in {"visible", "schema", "building"} : ptUi[part] # 0}
    OBVIOUS
  <1>2. PICK f : f = [part \in parts |-> ptUi[part]]
    OBVIOUS
  <1>3. \A a, b \in parts : f[a] = f[b] => a = b
    BY <1>1, <1>2 DEF PtView, WindowOK
  <1>4. Holding = {f[part] : part \in parts}
    <2>1. \A x : x \in Holding <=> x # 0 /\ (x = ptUi.visible \/ x = ptUi.schema \/ x = ptUi.building)
      BY DEF Holding, Leased
    <2>2. \A x : (\E part \in parts : x = f[part]) <=> x # 0 /\ (x = ptUi.visible \/ x = ptUi.schema \/ x = ptUi.building)
      BY <1>1, <1>2
    <2> QED  BY <2>1, <2>2, Zenon
  <1>5. f \in Bijection(parts, Holding)
    <2>1. f \in [parts -> Holding]
      BY <1>2, <1>4
    <2>2. f \in Injection(parts, Holding)
      BY <2>1, <1>2, <1>3 DEF Injection, IsInjective
    <2>3. f \in Surjection(parts, Holding)
      BY <2>1, <1>4 DEF Surjection
    <2> QED  BY <2>2, <2>3 DEF Bijection
  <1>6. IsFiniteSet(parts)
    <2>1. IsFiniteSet({"visible", "schema", "building"})
      <3>1. IsFiniteSet({"visible"} \cup {"schema"})
        BY FS_Singleton, FS_AddElement, Zenon
      <3>2. IsFiniteSet(({"visible"} \cup {"schema"}) \cup {"building"})
        BY <3>1, FS_AddElement, Zenon
      <3>3. ({"visible"} \cup {"schema"}) \cup {"building"} = {"visible", "schema", "building"}
        OBVIOUS
      <3> QED  BY <3>2, <3>3, Zenon
    <2> QED  BY <2>1, <1>1, FS_Subset
  <1> QED  BY <1>1, <1>5, <1>6, FS_Bijection DEF ExistsBijection

\* Every lease of the table has one owner: the window, the drain that has still to dispatch its event
\* or the drain that will give it back; and what is shown is what the window takes it for.
THEOREM LeasesHaveOneOwner == PtSpec => []PtEveryLeaseHasOneOwner
  <1>1. PtInv => PtEveryLeaseHasOneOwner
    <2> SUFFICES ASSUME PtInv  PROVE PtEveryLeaseHasOneOwner
      OBVIOUS
    <2>1. PtShape /\ PtTable /\ PtView
      BY DEF PtInv
    <2>2. Holding = Held(ptUi)
      BY DEF Holding, Held
    <2>3. ASSUME NEW l \in Nat \ {0}  PROVE Waiting(l) <=> l \in Waits(ptDrains)
      <3>1. ASSUME NEW i \in DOMAIN ptDrains, NEW j \in DOMAIN ptDrains[i].events
            PROVE  ptDrains[i].events[j] \in PtEvent
        <4>1. ptDrains[i].events \in Seq(Arrived)
          <5>1. ptDrains \in Seq(PtDrain)
            BY <2>1 DEF PtShape
          <5>2. ptDrains[i] \in PtDrain
            BY <5>1, ElementOfSeq, LenProperties
          <5> QED  BY <5>2 DEF PtDrain
        <4>2. PICK s : s = ptDrains[i].events
          OBVIOUS
        <4>3. s[j] \in Arrived
          BY <4>1, <4>2, ElementOfSeq, LenProperties
        <4> QED  BY <4>2, <4>3 DEF Arrived
      <3>2. Waiting(l) <=> Drawn(ptDrains, OfLease(l))
        BY <3>1, Zenon DEF Waiting, Drawn, Has, OfLease
      <3> QED  BY <3>2 DEF Waits
    <2>4. /\ 0 \notin ptLeases /\ ptLeases \subseteq Nat
          /\ Books(ptLeases, ptTransfers, ptRetained, ptReleased, Holding, Waits(ptDrains))
      BY <2>1, <2>2, Zenon DEF PtTable, TableOK, PtShape
    <2>5. Holding \subseteq ptLeases /\ Holding \cap ptTransfers \subseteq ptRetained \ ptReleased
      BY <2>4, Zenon DEF Books
    <2>6. ASSUME NEW l \in ptLeases, l \notin Holding
          PROVE  \/ Waiting(l) /\ l \notin ptTransfers
                 \/ l \in ptTransfers \ (ptRetained \ ptReleased)
      BY <2>3, <2>4, <2>6 DEF Books
    <2>7. ASSUME NEW l \in Holding  PROVE ~Waiting(l)
      BY <2>3, <2>4 DEF Books
    <2>8. {build.event.lease : build \in {b \in ptBuilds : b.live}} = Leased(ptUi.building)
      <3>1. /\ \A b \in ptBuilds : b.live => b.event.lease = ptUi.building /\ ptUi.building # 0
            /\ ptUi.building # 0 => \E b \in ptBuilds : b.live
        BY <2>1, Zenon DEF PtView, WindowOK, OfWindow
      <3> QED  BY <3>1 DEF Leased
    <2>9. /\ (ptUi.visible # 0) = (ptUi.shown # Nothing)
          /\ ptUi.query # 0 /\ ptUi.page # 0 => ptUi.shown = [query |-> ptUi.query, page |-> ptUi.page]
      BY <2>1 DEF PtView, WindowOK
    <2>10. Cardinality(Holding) = Cardinality({part \in {"visible", "schema", "building"} : ptUi[part] # 0})
      BY <2>1, PartsHold
    <2> QED  BY <2>5, <2>6, <2>7, <2>8, <2>9, <2>10, Zenon DEF PtEveryLeaseHasOneOwner
  <1> QED  BY <1>1, PtInvariant, PTL

-----------------------------------------------------------------------------
(* The SSH transports.                                                     *)

HIDE PtAssumption
USE HtAssumption, ShAssumption DEF Unset

-----------------------------------------------------------------------------
(* Approvals of host keys.                                                 *)

Holds(key) == \E n \in DOMAIN htFile : htFile[n].key = key

\* The approvals that may not have written, the stages in which nothing is decided yet, and
\* those under the lock.
Undecided == {"validating", "opening", "looking", "comparing", "beginning"}
UnderLock == {"looking", "comparing", "beginning", "writing", "completing"}

\* Nobody writes before the atomic state says so, and the state says so from then on.
Decided(i) ==
    /\ htStage[i] \in Undecided => htState[i] \in {"open", "cancelled"}
    /\ htStage[i] \in {"writing", "completing"} => htState[i] = "appending"
    /\ htState[i] # "appending" /\ htState[i] # "complete" => By(i) = {}
    /\ htWaiter[i] = "idle" => htStage[i] = "none" /\ htState[i] = "open"

\* What was read is still in the file; nothing was there when an append was decided on, and
\* no approval has written since.
Read(i) ==
    /\ htStage[i] = "looking" => \A n \in DOMAIN htSeen[i] : Holds(htSeen[i][n].key)
    /\ htStage[i] = "comparing" => Len(htSeen[i]) = 0
    /\ htStage[i] \in {"beginning", "writing"} => \A j \in HtApprovals : By(j) = {}
    /\ htStage[i] = "completing" \/ htState[i] = "complete" => Holds(htKey[i])

\* A failure is reported when nothing was written, and nothing will be.
Reported(i) ==
    /\ htWaiter[i] = "approved" => Holds(htKey[i])
    /\ htWaiter[i] = "failed" => \/ htState[i] = "cancelled"
                                 \/ htState[i] = "open" /\ htStage[i] = "none"

HtInv ==
    /\ HtTypeOK
    /\ \A i \in HtApprovals :
          /\ Decided(i) /\ Read(i) /\ Reported(i)
          /\ htStage[i] \in UnderLock => htLock = i
    /\ \A i, j \in HtApprovals : i # j => By(i) = {} \/ By(j) = {}

-----------------------------------------------------------------------------
(* A record that is written. *)

\* A record more in the file is held, takes no other away, and is its writer's alone.
LEMMA Written ==
    ASSUME HtTypeOK, NEW record \in Records, htFile' = Append(htFile, record)
    PROVE  /\ htFile' \in Seq(Records)
           /\ Holds(record.key)'
           /\ \A key : Holds(key) => Holds(key)'
           /\ \A j \in HtApprovals : j # record.by /\ By(j) = {} => By(j)' = {}
  <1>1. htFile \in Seq(Records)
    BY DEF HtTypeOK
  <1>2. /\ htFile' \in Seq(Records) /\ Len(htFile') = Len(htFile) + 1
        /\ \A n \in 1..Len(htFile) : htFile'[n] = htFile[n]
        /\ htFile'[Len(htFile) + 1] = record
    BY <1>1
  <1>3. DOMAIN htFile = 1..Len(htFile) /\ DOMAIN htFile' = 1..(Len(htFile) + 1)
    BY <1>1, <1>2
  <1>4. Holds(record.key)'
    BY <1>1, <1>2, <1>3 DEF Holds
  <1>5. \A key : Holds(key) => Holds(key)'
    BY <1>1, <1>2, <1>3 DEF Holds
  <1>6. \A j \in HtApprovals : j # record.by /\ By(j) = {} => By(j)' = {}
    BY <1>1, <1>2, <1>3 DEF By
  <1> QED BY <1>2, <1>4, <1>5, <1>6

\* As long as the file is as it was, so is what it holds.
LEMMA Unwritten ==
    ASSUME htFile' = htFile
    PROVE  (\A key : Holds(key)' = Holds(key)) /\ (\A j : By(j)' = By(j))
  BY DEF Holds, By

-----------------------------------------------------------------------------
(* The steps of an approval. *)

LEMMA InitInv == HtInit => HtInv
  <1> SUFFICES ASSUME HtInit PROVE HtInv
    OBVIOUS
  <1>1. HtTypeOK
    BY DEF HtInit, HtTypeOK, Blocking
  <1>2. \A i \in HtApprovals : By(i) = {}
    <2>1. htFile = <<>> /\ Len(<<>>) = 0
      BY DEF HtInit
    <2>2. DOMAIN htFile = 1..0
      BY <2>1
    <2> QED BY <2>2 DEF By
  <1> QED BY <1>1, <1>2 DEF HtInit, HtInv, Decided, Read, Reported, Undecided, UnderLock

\* What a step of one approval that writes nothing leaves of the others.
Others(i) ==
    \A j \in HtApprovals : j # i =>
        /\ htState'[j] = htState[j] /\ htWaiter'[j] = htWaiter[j]
        /\ htStage'[j] = htStage[j] /\ htSeen'[j] = htSeen[j]
        /\ htLock = j => htLock' = j

\* Such a step preserves the invariant if it does so for its own approval.
LEMMA Silent ==
    ASSUME HtInv, NEW i \in HtApprovals, HtTypeOK', UNCHANGED <<htFile, htKey>>, Others(i),
           Decided(i)', Read(i)', Reported(i)', (htStage[i] \in UnderLock => htLock = i)'
    PROVE  HtInv'
  <1>1. (\A key : Holds(key)' = Holds(key)) /\ (\A j : By(j)' = By(j))
    BY Unwritten
  <1>2. ASSUME NEW j \in HtApprovals
        PROVE  (Decided(j) /\ Read(j) /\ Reported(j) /\ (htStage[j] \in UnderLock => htLock = j))'
    <2>1. CASE j = i
      BY <2>1
    <2>2. CASE j # i
      <3>1. Decided(j) /\ Read(j) /\ Reported(j) /\ (htStage[j] \in UnderLock => htLock = j)
        BY DEF HtInv
      <3>2. /\ htState'[j] = htState[j] /\ htWaiter'[j] = htWaiter[j] /\ htStage'[j] = htStage[j]
            /\ htSeen'[j] = htSeen[j] /\ htKey' = htKey /\ (htLock = j => htLock' = j)
        BY <2>2 DEF Others
      <3>3. Decided(j)'
        BY <1>1, <3>1, <3>2 DEF Decided
      <3>4. Read(j)'
        BY <1>1, <3>1, <3>2 DEF Read
      <3>5. Reported(j)'
        BY <1>1, <3>1, <3>2 DEF Reported
      <3> QED BY <3>1, <3>2, <3>3, <3>4, <3>5
    <2> QED BY <2>1, <2>2
  <1>3. (\A j, k \in HtApprovals : j # k => By(j) = {} \/ By(k) = {})'
    BY <1>1 DEF HtInv
  <1> QED BY <1>2, <1>3 DEF HtInv

\* An operation that ends before anything was decided reports a failure, or finds the record
\* that it was asked to write.
LEMMA EndsSilently ==
    ASSUME HtInv, NEW i \in HtApprovals, NEW report \in {"failed", "approved"},
           Ends(i, report), htStage[i] \in Undecided, report = "approved" => Holds(htKey[i]),
           UNCHANGED <<htFile, htKey, htState>>
    PROVE  HtInv'
  <1>1. HtTypeOK'
    BY DEF HtInv, HtTypeOK, Ends, Stage, Unlocked, Blocking
  <1>2. Others(i)
    BY DEF HtInv, HtTypeOK, Others, Ends, Stage, Unlocked
  <1>3. (\A key : Holds(key)' = Holds(key)) /\ (\A j : By(j)' = By(j))
    BY Unwritten
  <1>4. htStage'[i] = "none" /\ htState' = htState /\ htKey' = htKey /\ htState[i] \in {"open", "cancelled"}
        /\ htWaiter'[i] = (IF htWaiter[i] = "waiting" THEN report ELSE htWaiter[i])
    BY DEF HtInv, HtTypeOK, Ends, Stage, Decided
  <1>5. Decided(i)'
    BY <1>3, <1>4 DEF HtInv, Decided, Undecided
  <1>6. Read(i)'
    BY <1>3, <1>4 DEF HtInv, Read
  <1>7. Reported(i)'
    BY <1>3, <1>4 DEF HtInv, Reported
  <1> QED BY <1>1, <1>2, <1>4, <1>5, <1>6, <1>7, Silent DEF UnderLock

\* Submission and the steps that go from one stage to the next while nothing is decided.
LEMMA SubmitInv == ASSUME HtInv, NEW i \in HtApprovals, HtSubmit(i) PROVE HtInv'
  <1>1. HtTypeOK'
    BY DEF HtInv, HtTypeOK, HtSubmit, Stage, Blocking
  <1>2. Others(i)
    BY DEF HtInv, HtTypeOK, Others, HtSubmit, Stage
  <1>3. UNCHANGED <<htFile, htKey, htState>> /\ htStage'[i] = "validating" /\ htWaiter'[i] = "waiting"
    BY DEF HtInv, HtTypeOK, HtSubmit, Stage
  <1>4. (\A key : Holds(key)' = Holds(key)) /\ (\A j : By(j)' = By(j))
    BY <1>3, Unwritten
  <1>5. Decided(i)' /\ Read(i)' /\ Reported(i)'
    BY <1>3, <1>4 DEF HtInv, Decided, Read, Reported, HtSubmit
  <1> QED BY <1>1, <1>2, <1>3, <1>5, Silent DEF UnderLock

LEMMA ValidInv == ASSUME HtInv, NEW i \in HtApprovals, HtValid(i) PROVE HtInv'
  <1>1. HtTypeOK'
    BY DEF HtInv, HtTypeOK, HtValid, Stage, Blocking
  <1>2. Others(i)
    BY DEF HtInv, HtTypeOK, Others, HtValid, Stage
  <1>3. UNCHANGED <<htFile, htKey, htState, htWaiter>> /\ htStage[i] = "validating" /\ htStage'[i] = "opening"
    BY DEF HtInv, HtTypeOK, HtValid, Stage
  <1>4. (\A key : Holds(key)' = Holds(key)) /\ (\A j : By(j)' = By(j))
    BY <1>3, Unwritten
  <1>5. Decided(i)' /\ Read(i)' /\ Reported(i)'
    BY <1>3, <1>4 DEF HtInv, Decided, Read, Reported, Undecided
  <1> QED BY <1>1, <1>2, <1>3, <1>5, Silent DEF UnderLock

\* Under the lock, and knowing the file as it is.
LEMMA PrepareInv == ASSUME HtInv, NEW i \in HtApprovals, HtPrepare(i) PROVE HtInv'
  <1>1. HtTypeOK'
    BY DEF HtInv, HtTypeOK, HtPrepare, Stage, Blocking
  <1>2. Others(i)
    BY DEF HtInv, HtTypeOK, Others, HtPrepare, Stage
  <1>3. /\ UNCHANGED <<htFile, htKey, htState, htWaiter>> /\ htStage[i] = "opening" /\ htSeen'[i] = htFile
        /\ \/ htStage'[i] = "looking" /\ htLock' = i
           \/ htStage'[i] = "none" /\ htWaiter[i] # "waiting"
    BY DEF HtInv, HtTypeOK, HtPrepare, Stage
  <1>4. (\A key : Holds(key)' = Holds(key)) /\ (\A j : By(j)' = By(j))
    BY <1>3, Unwritten
  <1>5. Decided(i)' /\ Reported(i)'
    BY <1>3, <1>4 DEF HtInv, Decided, Reported, Undecided
  <1>6. Read(i)'
    BY <1>3, <1>4 DEF HtInv, Read, Holds
  <1> QED BY <1>1, <1>2, <1>3, <1>5, <1>6, Silent DEF UnderLock

LEMMA InvalidInv ==
    ASSUME HtInv, NEW i \in HtApprovals, HtInvalid(i) \/ HtNotPrepared(i)
    PROVE  HtInv'
  BY EndsSilently DEF HtInvalid, HtNotPrepared, Undecided

\* No record of the host, so one may be appended; the record of the approved key, or another.
LEMMA LookInv == ASSUME HtInv, NEW i \in HtApprovals, HtLook(i) PROVE HtInv'
  <1> DEFINE keys == {htSeen[i][n].key : n \in DOMAIN htSeen[i]}
  <1>1. htStage[i] = "looking" /\ UNCHANGED <<htFile, htKey, htState>>
    BY DEF HtLook
  <1>2. CASE keys = {} /\ Stage(i, "comparing") /\ UNCHANGED <<htLock, htWaiter, htSeen>>
    <2>1. HtTypeOK' /\ Others(i)
      BY <1>1, <1>2 DEF HtInv, HtTypeOK, Others, Stage, Blocking
    <2>2. htStage'[i] = "comparing" /\ Len(htSeen'[i]) = 0 /\ htLock' = i
      <3>1. htSeen[i] \in Seq(Records)
        BY DEF HtInv, HtTypeOK
      <3>2. Len(htSeen[i]) = 0
        <4>1. Len(htSeen[i]) \in Nat /\ DOMAIN htSeen[i] = 1..Len(htSeen[i])
          BY <3>1
        <4>2. ASSUME 1 \in DOMAIN htSeen[i] PROVE FALSE
          <5>1. htSeen[i][1].key \in keys
            BY <4>2
          <5> HIDE DEF keys
          <5> QED BY <1>2, <5>1
        <4>3. 1 \notin 1..Len(htSeen[i])
          BY <4>1, <4>2
        <4> QED BY <4>1, <4>3
      <3> QED BY <1>1, <1>2, <3>2 DEF HtInv, HtTypeOK, Stage, UnderLock
    <2>3. (\A key : Holds(key)' = Holds(key)) /\ (\A j : By(j)' = By(j))
      BY <1>1, Unwritten
    <2>4. Decided(i)' /\ Read(i)' /\ Reported(i)'
      BY <1>1, <1>2, <2>2, <2>3 DEF HtInv, Decided, Read, Reported, Undecided
    <2> QED BY <1>1, <2>1, <2>2, <2>4, Silent
  <1>3. CASE keys = {htKey[i]} /\ Ends(i, "approved")
    <2>1. PICK n \in DOMAIN htSeen[i] : htSeen[i][n].key = htKey[i]
      BY <1>3
    <2>2. Holds(htKey[i])
      BY <1>1, <2>1 DEF HtInv, Read
    <2> QED BY <1>1, <1>3, <2>2, EndsSilently DEF Undecided
  <1>4. CASE Ends(i, "failed")
    BY <1>1, <1>4, EndsSilently DEF Undecided
  <1> QED BY <1>2, <1>3, <1>4 DEF HtLook

LEMMA CompareInv == ASSUME HtInv, NEW i \in HtApprovals, HtCompare(i) PROVE HtInv'
  <1>1. htStage[i] = "comparing" /\ UNCHANGED <<htFile, htKey, htState>>
    BY DEF HtCompare
  <1>2. CASE /\ htFile = htSeen[i] /\ htState[i] = "open" /\ Stage(i, "beginning")
             /\ UNCHANGED <<htLock, htWaiter, htSeen>>
    <2>1. HtTypeOK' /\ Others(i)
      BY <1>1, <1>2 DEF HtInv, HtTypeOK, Others, Stage, Blocking
    <2>2. htStage'[i] = "beginning" /\ htLock' = i
      BY <1>1, <1>2 DEF HtInv, HtTypeOK, Stage, UnderLock
    <2>3. (\A key : Holds(key)' = Holds(key)) /\ (\A j : By(j)' = By(j))
      BY <1>1, Unwritten
    <2>4. \A j \in HtApprovals : By(j) = {}
      <3>1. htFile \in Seq(Records) /\ Len(htFile) = 0
        BY <1>1, <1>2 DEF HtInv, HtTypeOK, Read
      <3>2. DOMAIN htFile = 1..0
        BY <3>1
      <3> QED BY <3>2 DEF By
    <2>5. Decided(i)' /\ Read(i)' /\ Reported(i)'
      BY <1>1, <1>2, <2>2, <2>3, <2>4 DEF HtInv, Decided, Read, Reported, Undecided
    <2> QED BY <1>1, <2>1, <2>2, <2>5, Silent
  <1>3. CASE Ends(i, "failed")
    BY <1>1, <1>3, EndsSilently DEF Undecided
  <1> QED BY <1>2, <1>3 DEF HtCompare

\* begin_append: from here on the state is neither open nor cancelled.
LEMMA BeginInv == ASSUME HtInv, NEW i \in HtApprovals, HtBegin(i) PROVE HtInv'
  <1>1. htStage[i] = "beginning" /\ UNCHANGED <<htFile, htKey>>
    BY DEF HtBegin
  <1>2. CASE /\ htState[i] = "open" /\ htState' = [htState EXCEPT ![i] = "appending"]
             /\ Stage(i, "writing") /\ UNCHANGED <<htLock, htWaiter, htSeen>>
    <2>1. HtTypeOK' /\ Others(i)
      BY <1>1, <1>2 DEF HtInv, HtTypeOK, Others, Stage, Blocking
    <2>2. htStage'[i] = "writing" /\ htState'[i] = "appending" /\ htLock' = i
      BY <1>1, <1>2 DEF HtInv, HtTypeOK, Stage, UnderLock
    <2>3. (\A key : Holds(key)' = Holds(key)) /\ (\A j : By(j)' = By(j))
      BY <1>1, Unwritten
    <2>4. Decided(i)' /\ Read(i)' /\ Reported(i)'
      BY <1>1, <1>2, <2>2, <2>3 DEF HtInv, Decided, Read, Reported, Undecided
    <2> QED BY <1>1, <2>1, <2>2, <2>4, Silent
  <1>3. CASE htState' = htState /\ Ends(i, "failed")
    BY <1>1, <1>3, EndsSilently DEF Undecided
  <1> QED BY <1>2, <1>3 DEF HtBegin

\* The record, a part of it or nothing is written, by nobody else before.
LEMMA WriteInv == ASSUME HtInv, NEW i \in HtApprovals, HtWrite(i) PROVE HtInv'
  <1>1. /\ htStage[i] = "writing" /\ UNCHANGED <<htKey, htState>> /\ htState[i] = "appending" /\ htLock = i
        /\ \A j \in HtApprovals : By(j) = {}
    BY DEF HtWrite, HtInv, Decided, Read, UnderLock
  <1>2. /\ htFile' \in Seq(Records) /\ \A key : Holds(key) => Holds(key)'
        /\ \A j \in HtApprovals : j # i => By(j)' = {}
    <2>1. CASE htFile' = htFile
      BY <1>1, <2>1, Unwritten DEF HtInv, HtTypeOK
    <2>2. ASSUME NEW key \in {htKey[i], NoKey}, htFile' = Append(htFile, [key |-> key, by |-> i])
          PROVE  /\ htFile' \in Seq(Records) /\ \A k : Holds(k) => Holds(k)'
                 /\ \A j \in HtApprovals : j # i => By(j)' = {}
      <3>1. [key |-> key, by |-> i] \in Records
        BY DEF HtInv, HtTypeOK, Records
      <3> QED BY <1>1, <2>2, <3>1, Written DEF HtInv
    <2> QED BY <2>1, <2>2 DEF HtWrite
  <1>3. CASE /\ htFile' = Append(htFile, [key |-> htKey[i], by |-> i]) /\ Stage(i, "completing")
             /\ UNCHANGED <<htLock, htWaiter, htSeen>>
    <2>1. Holds(htKey[i])'
      <3>1. [key |-> htKey[i], by |-> i] \in Records
        BY DEF HtInv, HtTypeOK, Records
      <3> QED BY <1>1, <1>3, <3>1, Written DEF HtInv
    <2>2. HtTypeOK' /\ htStage' = [htStage EXCEPT ![i] = "completing"]
      BY <1>1, <1>2, <1>3 DEF HtInv, HtTypeOK, Stage, Blocking
    <2>3. ASSUME NEW j \in HtApprovals
          PROVE  (Decided(j) /\ Read(j) /\ Reported(j) /\ (htStage[j] \in UnderLock => htLock = j))'
      <3>1. CASE j = i
        <4>1. htStage'[j] = "completing" /\ htState'[j] = "appending" /\ htWaiter'[j] = htWaiter[j] /\ htLock' = j
          BY <1>1, <1>3, <2>2, <3>1 DEF HtInv, HtTypeOK
        <4> QED BY <1>1, <2>1, <3>1, <4>1 DEF HtInv, Decided, Read, Reported, Undecided
      <3>2. CASE j # i
        <4>1. htStage'[j] = htStage[j] /\ htStage[j] \notin UnderLock
          BY <1>1, <2>2, <3>2 DEF HtInv, HtTypeOK
        <4> QED BY <1>1, <1>2, <1>3, <3>2, <4>1 DEF HtInv, Decided, Read, Reported, UnderLock
      <3> QED BY <3>1, <3>2
    <2> QED BY <1>2, <2>2, <2>3 DEF HtInv
  <1>4. CASE Ends(i, "unknown")
    <2>1. HtTypeOK' /\ htStage' = [htStage EXCEPT ![i] = "none"] /\ htLock' = HtNobody
      BY <1>1, <1>2, <1>4 DEF HtInv, HtTypeOK, Ends, Stage, Unlocked, Blocking
    <2>2. ASSUME NEW j \in HtApprovals
          PROVE  (Decided(j) /\ Read(j) /\ Reported(j) /\ (htStage[j] \in UnderLock => htLock = j))'
      <3>1. CASE j = i
        <4>1. /\ htStage'[j] = "none" /\ htState'[j] = "appending"
              /\ htWaiter'[j] = IF htWaiter[j] = "waiting" THEN "unknown" ELSE htWaiter[j]
          BY <1>1, <1>4, <2>1, <3>1 DEF HtInv, HtTypeOK, Ends
        <4> QED BY <1>1, <1>2, <3>1, <4>1 DEF HtInv, Decided, Read, Reported, Undecided, UnderLock
      <3>2. CASE j # i
        <4>1. /\ htStage'[j] = htStage[j] /\ htStage[j] \notin UnderLock
              /\ htWaiter'[j] = htWaiter[j] /\ htSeen'[j] = htSeen[j]
          BY <1>1, <1>4, <2>1, <3>2 DEF HtInv, HtTypeOK, Ends
        <4> QED BY <1>1, <1>2, <3>2, <4>1 DEF HtInv, Decided, Read, Reported, UnderLock
      <3> QED BY <3>1, <3>2
    <2> QED BY <1>2, <2>1, <2>2 DEF HtInv
  <1> QED BY <1>3, <1>4 DEF HtWrite

LEMMA CompleteInv == ASSUME HtInv, NEW i \in HtApprovals, HtComplete(i) PROVE HtInv'
  <1>1. /\ htStage[i] = "completing" /\ UNCHANGED <<htFile, htKey>> /\ htState[i] = "appending" /\ Holds(htKey[i])
        /\ Ends(i, "approved") /\ htState' = [htState EXCEPT ![i] = "complete"]
    BY DEF HtComplete, HtInv, Decided, Read
  <1>2. HtTypeOK' /\ Others(i)
    BY <1>1 DEF HtInv, HtTypeOK, Others, Ends, Stage, Unlocked, Blocking
  <1>3. /\ htStage'[i] = "none" /\ htState'[i] = "complete"
        /\ htWaiter'[i] = IF htWaiter[i] = "waiting" THEN "approved" ELSE htWaiter[i]
    BY <1>1 DEF HtInv, HtTypeOK, Ends, Stage
  <1>4. (\A key : Holds(key)' = Holds(key)) /\ (\A j : By(j)' = By(j))
    BY <1>1, Unwritten
  <1>5. Decided(i)' /\ Read(i)' /\ Reported(i)'
    BY <1>1, <1>3, <1>4 DEF HtInv, Decided, Read, Reported, Undecided
  <1> QED BY <1>1, <1>2, <1>3, <1>5, Silent DEF UnderLock

\* The wait is given up; the worker goes on, and the atomic state stops it before it appends or
\* not at all.
LEMMA AbandonedInv ==
    ASSUME HtInv, NEW i \in HtApprovals, HtTimeout(i) \/ HtShutdown(i)
    PROVE  HtInv'
  <1>1. PICK report \in {"unknown", "approved", "failed", "silent"} :
          /\ htWaiter[i] = "waiting" /\ Cancelled(i) /\ Abandoned(i, report) /\ UNCHANGED <<htFile, htKey>>
          /\ report = "approved" => htState[i] = "complete"
          /\ report = "failed" => htState[i] \in {"open", "cancelled"}
    BY DEF HtTimeout, HtShutdown, HtInv, HtTypeOK
  <1>2. HtTypeOK' /\ Others(i)
    <2>1. /\ htState' \in [HtApprovals -> {"open", "appending", "complete", "cancelled"}]
          /\ htWaiter' \in [HtApprovals -> {"idle", "waiting", "approved", "unknown", "failed", "silent"}]
          /\ \A j \in HtApprovals : j # i => htState'[j] = htState[j] /\ htWaiter'[j] = htWaiter[j]
      BY <1>1 DEF HtInv, HtTypeOK, Cancelled, Abandoned
    <2>2. CASE UNCHANGED <<htStage, htLock, htSeen>>
      BY <1>1, <2>1, <2>2 DEF HtInv, HtTypeOK, Others
    <2>3. CASE Stage(i, "none") /\ htLock' = Unlocked(i) /\ htSeen' = [htSeen EXCEPT ![i] = <<>>]
      BY <1>1, <2>1, <2>3 DEF HtInv, HtTypeOK, Others, Stage, Unlocked
    <2> QED BY <1>1, <2>2, <2>3 DEF Abandoned
  <1>3. /\ htState'[i] = (IF htState[i] = "open" THEN "cancelled" ELSE htState[i]) /\ htWaiter'[i] = report
        /\ \/ htStage'[i] = htStage[i] /\ htLock' = htLock /\ htSeen'[i] = htSeen[i]
           \/ htStage'[i] = "none"
    BY <1>1 DEF HtInv, HtTypeOK, Cancelled, Abandoned, Stage
  <1>4. (\A key : Holds(key)' = Holds(key)) /\ (\A j : By(j)' = By(j))
    BY <1>1, Unwritten
  <1>5. Decided(i)'
    BY <1>1, <1>3, <1>4 DEF HtInv, Decided, Undecided
  <1>6. Read(i)'
    BY <1>1, <1>3, <1>4 DEF HtInv, Read
  <1>7. Reported(i)'
    BY <1>1, <1>3, <1>4 DEF HtInv, Reported, Read
  <1> QED BY <1>1, <1>2, <1>3, <1>5, <1>6, <1>7, Silent DEF HtInv, UnderLock

\* Another program writes, which it does without the lock.
LEMMA OtherInv == ASSUME HtInv, NEW key \in HtKeys, HtOther(key) PROVE HtInv'
  <1>1. /\ htFile' = Append(htFile, [key |-> key, by |-> HtNobody])
        /\ UNCHANGED <<htLock, htKey, htState, htWaiter, htStage, htSeen>>
    BY DEF HtOther
  <1>2. /\ htFile' \in Seq(Records) /\ \A k : Holds(k) => Holds(k)'
        /\ \A j \in HtApprovals : By(j) = {} => By(j)' = {}
    <2>1. [key |-> key, by |-> HtNobody] \in Records
      BY DEF Records
    <2> QED BY <1>1, <2>1, Written DEF HtInv
  <1>3. HtTypeOK'
    BY <1>1, <1>2 DEF HtInv, HtTypeOK
  <1>4. ASSUME NEW j \in HtApprovals
        PROVE  (Decided(j) /\ Read(j) /\ Reported(j) /\ (htStage[j] \in UnderLock => htLock = j))'
    BY <1>1, <1>2 DEF HtInv, Decided, Read, Reported
  <1>5. (\A j, k \in HtApprovals : j # k => By(j) = {} \/ By(k) = {})'
    BY <1>2 DEF HtInv
  <1> QED BY <1>3, <1>4, <1>5 DEF HtInv

-----------------------------------------------------------------------------
LEMMA NextInv == HtInv /\ [HtNext]_htVars => HtInv'
  <1> SUFFICES ASSUME HtInv, [HtNext]_htVars PROVE HtInv'
    OBVIOUS
  <1>1. ASSUME NEW i \in HtApprovals,
               \/ HtSubmit(i) \/ HtInvalid(i) \/ HtValid(i) \/ HtPrepare(i) \/ HtNotPrepared(i) \/ HtLook(i)
               \/ HtCompare(i) \/ HtBegin(i) \/ HtWrite(i) \/ HtComplete(i) \/ HtTimeout(i) \/ HtShutdown(i)
        PROVE  HtInv'
    BY <1>1, SubmitInv, InvalidInv, ValidInv, PrepareInv, LookInv, CompareInv, BeginInv, WriteInv, CompleteInv,
       AbandonedInv
  <1>2. ASSUME NEW key \in HtKeys, HtOther(key) PROVE HtInv'
    BY <1>2, OtherInv
  <1>3. CASE UNCHANGED htVars
    <2>1. (\A k : Holds(k)' = Holds(k)) /\ (\A j : By(j)' = By(j))
      BY <1>3, Unwritten DEF htVars
    <2>2. HtTypeOK' /\ (\A j, k \in HtApprovals : j # k => By(j) = {} \/ By(k) = {})'
      BY <1>3, <2>1 DEF htVars, HtInv, HtTypeOK
    <2>3. ASSUME NEW j \in HtApprovals
          PROVE  (Decided(j) /\ Read(j) /\ Reported(j) /\ (htStage[j] \in UnderLock => htLock = j))'
      BY <1>3, <2>1 DEF htVars, HtInv, Decided, Read, Reported
    <2> QED BY <2>2, <2>3 DEF HtInv
  <1> QED BY <1>1, <1>2, <1>3 DEF HtNext

\* The inductive invariant holds in every state.
THEOREM ApprovalsInv == HtSpec => []HtInv
  BY InitInv, NextInv, PTL DEF HtSpec

\* What is reported of an approval is so: approved keys are in the file, a failed approval never
\* writes, however late its worker is, and no two approvals both write.
THEOREM ApprovalsSayTheTruth == HtSpec => []HtSaysTheTruth
  <1>1. HtInv => HtSaysTheTruth
    <2> SUFFICES ASSUME HtInv PROVE HtSaysTheTruth
      OBVIOUS
    <2>1. ASSUME NEW i \in HtApprovals, htWaiter[i] = "approved" PROVE \E n \in DOMAIN htFile : htFile[n].key = htKey[i]
      BY <2>1 DEF HtInv, Reported, Holds
    <2>2. ASSUME NEW i \in HtApprovals, htWaiter[i] = "failed" \/ htState[i] \in {"open", "cancelled"}
          PROVE  By(i) = {} /\ htStage[i] \notin {"writing", "completing"}
      BY <2>2 DEF HtInv, Reported, Decided
    <2> QED BY <2>1, <2>2 DEF HtSaysTheTruth, HtInv
  <1> QED BY <1>1, ApprovalsInv, PTL


-----------------------------------------------------------------------------
(* Shared masters and listeners.                                           *)

Busy(r) == shAt[r] # "idle"
\* The slot that a busy connection holds, itself or through what it shares.
SlotOf(r) == IF shHeld[r] # Unset THEN shInside[shHeld[r]] ELSE shSlot[r]

\* What a connection has at each stage, and who has locked a slot.
HoldsSlot(r) ==
    /\ shAt[r] = "idle" => shSlot[r] = Unset /\ shHeld[r] = Unset
    /\ shAt[r] \in {"waiting", "looking", "starting"} => shSlot[r] # Unset /\ shHeld[r] = Unset
    /\ shAt[r] = "using" => shSlot[r] = Unset /\ shHeld[r] # Unset
    /\ \A s \in ShSlots :
          shOwner[s] = r <=> shAt[r] \in {"looking", "starting"} /\ shSlot[r] = s
\* One slot for each key, from one invalidation of it to the next.
OneSlot ==
    \A r, q \in ShRequests : Busy(r) /\ Busy(q) =>
        (SlotOf(r) = SlotOf(q) <=> shKey[r] = shKey[q] /\ shAsked[r] = shAsked[q])
\* The registry has the slots of the present.
Registered ==
    /\ \A r \in ShRequests : Busy(r) =>
          /\ shAsked[r] <= shEpoch[shKey[r]]
          /\ shAsked[r] = shEpoch[shKey[r]] => shRegistry[shKey[r]] = SlotOf(r)
          /\ \A k \in ShKeys : shRegistry[k] = SlotOf(r) => k = shKey[r] /\ shAsked[r] = shEpoch[k]
    /\ \A k, l \in ShKeys : shRegistry[k] = shRegistry[l] /\ shRegistry[k] # Unset => k = l
\* What is shared belongs to the slot it was started under, and what answers is found there.
Belongs ==
    /\ \A r \in ShRequests : shHeld[r] # Unset =>
          shStarted[shHeld[r]] = shAsked[r] /\ shInside[shHeld[r]] # Unset
    /\ \A s \in ShSlots : shContent[s] # Unset =>
          Exists(shContent[s]) /\ shInside[shContent[s]] = s
    /\ \A m \in ShShared :
          /\ ~Exists(m) => shInside[m] = Unset /\ m \notin shAlive
          /\ m \in shAlive => shContent[shInside[m]] = m
\* While one is started, nothing else in its slot answers.
Alone == \A r \in ShRequests : shAt[r] = "starting" => shContent[shSlot[r]] \notin shAlive
Admissible == \A k \in ShKeys : IsFiniteSet(Admitted(k)) /\ Cardinality(Admitted(k)) <= ShPermits

ShInv ==
    /\ ShTypeOK
    /\ \A r \in ShRequests : HoldsSlot(r)
    /\ OneSlot /\ Registered /\ Belongs /\ Alone /\ Admissible

-----------------------------------------------------------------------------
\* Of a slot that somebody has, a connection is known that has it.
LEMMA Holder ==
    ASSUME ShInv
    PROVE  /\ \A r \in ShRequests : Busy(r) => SlotOf(r) \in ShSlots /\ Live(SlotOf(r))
           /\ \A s \in ShSlots : Live(s) => \E r \in ShRequests : Busy(r) /\ SlotOf(r) = s
  <1>1. ASSUME NEW r \in ShRequests, Busy(r) PROVE SlotOf(r) \in ShSlots /\ Live(SlotOf(r))
    <2>1. CASE shHeld[r] # Unset
      <3>1. shHeld[r] \in ShShared /\ SlotOf(r) = shInside[shHeld[r]]
        BY <2>1 DEF ShInv, ShTypeOK, SlotOf
      <3>2. shInside[shHeld[r]] \in ShSlots
        <4>1. shInside[shHeld[r]] \in ShSlots \cup {Unset}
          BY <3>1 DEF ShInv, ShTypeOK
        <4>2. shInside[shHeld[r]] # Unset
          BY <2>1 DEF ShInv, Belongs
        <4> QED BY <4>1, <4>2
      <3> QED BY <3>1, <3>2 DEF Live
    <2>2. CASE shHeld[r] = Unset
      BY <1>1, <2>2 DEF ShInv, ShTypeOK, HoldsSlot, SlotOf, Live, Busy
    <2> QED BY <2>1, <2>2
  <1>2. ASSUME NEW s \in ShSlots, Live(s) PROVE \E r \in ShRequests : Busy(r) /\ SlotOf(r) = s
    <2>1. CASE \E r \in ShRequests : shSlot[r] = s
      <3>1. PICK r \in ShRequests : shSlot[r] = s
        BY <2>1
      <3>2. shSlot[r] # Unset
        BY <3>1 DEF Unset
      <3>3. Busy(r) /\ shHeld[r] = Unset
        BY <3>2 DEF ShInv, ShTypeOK, HoldsSlot, Busy
      <3> QED BY <3>1, <3>3 DEF SlotOf
    <2>2. CASE \E m \in ShShared : shInside[m] = s
      <3>1. PICK m \in ShShared : shInside[m] = s
        BY <2>2
      <3>2. m # Unset /\ Exists(m)
        BY <3>1 DEF ShInv, Belongs, Unset
      <3>3. PICK r \in ShRequests : shHeld[r] = m
        BY <3>2 DEF Exists
      <3>4. Busy(r)
        BY <3>2, <3>3 DEF ShInv, HoldsSlot, Busy
      <3> QED BY <3>1, <3>2, <3>3, <3>4 DEF SlotOf
    <2> QED BY <1>2, <2>1, <2>2 DEF Live
  <1> QED BY <1>1, <1>2

\* A step after which nobody holds another slot than before, and the registry is the same.
LEMMA SlotsStay ==
    ASSUME OneSlot, Registered,
           shKey' = shKey, shEpoch' = shEpoch, shRegistry' = shRegistry,
           \A r \in ShRequests : Busy(r)' => Busy(r) /\ SlotOf(r)' = SlotOf(r) /\ shAsked'[r] = shAsked[r]
    PROVE  OneSlot' /\ Registered'
  <1>1. OneSlot'
    BY DEF OneSlot
  <1>2. Registered'
    BY DEF Registered
  <1> QED BY <1>1, <1>2

\* What is admitted stays within the permits when nothing is added.
LEMMA NoneAdded ==
    ASSUME Admissible, \A k \in ShKeys : Admitted(k)' \subseteq Admitted(k), ShTypeOK
    PROVE  Admissible'
  <1> SUFFICES ASSUME NEW k \in ShKeys
               PROVE  IsFiniteSet(Admitted(k)') /\ Cardinality(Admitted(k)') <= ShPermits
    BY DEF Admissible
  <1>1. IsFiniteSet(Admitted(k)) /\ Cardinality(Admitted(k)) <= ShPermits /\ Admitted(k)' \subseteq Admitted(k)
    BY DEF Admissible
  <1>2. IsFiniteSet(Admitted(k)') /\ Cardinality(Admitted(k)') <= Cardinality(Admitted(k))
    BY <1>1, FS_Subset
  <1>3. Cardinality(Admitted(k)) \in Nat /\ Cardinality(Admitted(k)') \in Nat /\ ShPermits \in Nat
    BY <1>1, <1>2, FS_CardinalityType
  <1> QED BY <1>1, <1>2, <1>3

LEMMA ShInitial == ShInit => ShInv
  <1> SUFFICES ASSUME ShInit PROVE ShInv
    OBVIOUS
  <1>1. ShTypeOK
    BY DEF ShInit, ShTypeOK, Unset
  <1>2. \A r \in ShRequests : HoldsSlot(r)
    BY DEF ShInit, HoldsSlot, Unset
  <1>3. OneSlot /\ Registered /\ Alone
    BY DEF ShInit, OneSlot, Registered, Alone, Busy, SlotOf
  <1>4. Belongs
    BY DEF ShInit, Belongs, Exists, Unset
  <1>5. Admissible
    <2>1. \A k \in ShKeys : Admitted(k) = {}
      BY DEF ShInit, Admitted, Unset
    <2>2. IsFiniteSet({}) /\ Cardinality({}) = 0 /\ 0 <= ShPermits
      BY FS_EmptySet
    <2> QED BY <2>1, <2>2 DEF Admissible
  <1> QED BY <1>1, <1>2, <1>3, <1>4, <1>5 DEF ShInv

-----------------------------------------------------------------------------
(* One step after the other.                                               *)

LEMMA LockNext ==
    ASSUME ShInv, NEW r \in ShRequests, ShLock(r)
    PROVE  ShInv'
  <1> USE DEF ShInv
  <1>1. ShTypeOK'
    BY DEF ShTypeOK, ShLock
  <1>2. ASSUME NEW q \in ShRequests PROVE HoldsSlot(q)'
    <2>1. CASE q = r
      BY <2>1 DEF ShTypeOK, ShLock, HoldsSlot
    <2>2. CASE q # r
      BY <2>2 DEF ShTypeOK, ShLock, HoldsSlot
    <2> QED BY <2>1, <2>2
  <1>3. OneSlot' /\ Registered'
    <2>1. \A q \in ShRequests : Busy(q)' => Busy(q) /\ SlotOf(q)' = SlotOf(q) /\ shAsked'[q] = shAsked[q]
      BY DEF ShTypeOK, ShLock, Busy, SlotOf
    <2> QED BY <2>1, SlotsStay DEF ShLock
  <1>4. Belongs' /\ Alone'
    BY DEF ShTypeOK, ShLock, Belongs, Alone, Exists
  <1>5. Admissible'
    <2>1. \A k \in ShKeys : Admitted(k)' \subseteq Admitted(k)
      BY DEF ShTypeOK, ShLock, Admitted, SameKind
    <2> QED BY <2>1, NoneAdded
  <1> QED BY <1>1, <1>2, <1>3, <1>4, <1>5

LEMMA JoinNext ==
    ASSUME ShInv, NEW r \in ShRequests, ShJoin(r)
    PROVE  ShInv'
  <1> USE DEF ShInv
  <1> DEFINE s == shSlot[r]
             m == shContent[s]
  <1>1. /\ s \in ShSlots /\ m \in ShShared /\ Exists(m) /\ shInside[m] = s
        /\ shHeld[r] = Unset /\ Busy(r) /\ SlotOf(r) = s /\ shOwner[s] = r
    <2>1. shAt[r] = "looking" /\ m # Unset /\ Exists(m)
      BY DEF ShJoin, Joinable
    <2>2. s \in ShSlots /\ shHeld[r] = Unset /\ Busy(r)
      BY <2>1 DEF ShTypeOK, HoldsSlot, Busy
    <2>3. SlotOf(r) = s /\ shOwner[s] = r
      BY <2>1, <2>2 DEF HoldsSlot, SlotOf
    <2>4. m \in ShShared
      BY <2>1, <2>2 DEF ShTypeOK
    <2>5. shInside[m] = s
      BY <2>1, <2>2 DEF Belongs
    <2> QED BY <2>1, <2>2, <2>3, <2>4, <2>5
  <1>2. PICK p \in ShRequests : shHeld[p] = m
    BY <1>1 DEF Exists
  <1>3. Busy(p) /\ SlotOf(p) = s /\ p # r
    BY <1>1, <1>2 DEF HoldsSlot, Busy, SlotOf
  <1>4. shKey[p] = shKey[r] /\ shAsked[p] = shAsked[r]
    BY <1>1, <1>3 DEF OneSlot
  <1>5. ShTypeOK'
    BY <1>1 DEF ShTypeOK, ShJoin
  <1>6. /\ shHeld' = [shHeld EXCEPT ![r] = m] /\ shSlot' = [shSlot EXCEPT ![r] = Unset]
        /\ shAt' = [shAt EXCEPT ![r] = "using"] /\ shOwner' = [shOwner EXCEPT ![s] = ShNobody]
        /\ UNCHANGED <<shRegistry, shContent, shAlive, shKey, shInside, shEpoch, shAsked, shStarted>>
    BY DEF ShJoin
  <1> HIDE DEF s, m
  <1>7. ASSUME NEW q \in ShRequests PROVE HoldsSlot(q)'
    <2>1. CASE q = r
      BY <1>1, <1>6, <2>1 DEF ShTypeOK, HoldsSlot
    <2>2. CASE q # r
      BY <1>1, <1>6, <2>2 DEF ShTypeOK, HoldsSlot
    <2> QED BY <2>1, <2>2
  <1>8. OneSlot' /\ Registered'
    <2>1. ASSUME NEW q \in ShRequests, Busy(q)'
          PROVE  Busy(q) /\ SlotOf(q)' = SlotOf(q) /\ shAsked'[q] = shAsked[q]
      <3>1. CASE q = r
        BY <1>1, <1>6, <3>1 DEF ShTypeOK, Busy, SlotOf
      <3>2. CASE q # r
        BY <1>6, <2>1, <3>2 DEF ShTypeOK, Busy, SlotOf
      <3> QED BY <3>1, <3>2
    <2> QED BY <1>6, <2>1, SlotsStay
  <1>9. Belongs'
    <2>1. \A n \in ShShared : Exists(n)' <=> Exists(n) \/ n = m
      BY <1>1, <1>6 DEF ShTypeOK, Exists
    <2>2. \A q \in ShRequests : shHeld'[q] # Unset =>
             shStarted[shHeld'[q]] = shAsked[q] /\ shInside[shHeld'[q]] # Unset
      BY <1>1, <1>2, <1>4, <1>6 DEF ShTypeOK, Belongs
    <2>3. \A n \in ShShared : Exists(n) => \E q \in ShRequests : shHeld'[q] = n
      BY <2>1 DEF Exists
    <2>4. \A t \in ShSlots : shContent[t] # Unset =>
             (\E q \in ShRequests : shHeld'[q] = shContent[t]) /\ shInside[shContent[t]] = t
      <3>1. ASSUME NEW t \in ShSlots, shContent[t] # Unset
            PROVE  shContent[t] \in ShShared /\ Exists(shContent[t]) /\ shInside[shContent[t]] = t
        BY <3>1 DEF ShTypeOK, Belongs
      <3> QED BY <3>1, <2>3, Zenon
    <2>5. \A n \in ShShared :
             /\ ~(\E q \in ShRequests : shHeld'[q] = n) => shInside[n] = Unset /\ n \notin shAlive
             /\ n \in shAlive => shContent[shInside[n]] = n
      BY <2>3, Zenon DEF Belongs
    <2>6. shContent' = shContent /\ shInside' = shInside /\ shAlive' = shAlive /\ shStarted' = shStarted
             /\ shAsked' = shAsked
      BY <1>6
    <2> QED BY <2>6, <2>2, <2>4, <2>5 DEF Belongs, Exists
  <1>10. Alone'
    BY <1>6 DEF ShTypeOK, Alone
  <1>11. Admissible'
    <2>1. ASSUME NEW k \in ShKeys, NEW x \in Admitted(k)' PROVE x \in Admitted(k)
      <3>1. CASE x \in ShRequests /\ shAt'[x] = "starting" /\ SameKind(k, shKey[x])
        BY <1>6, <3>1 DEF ShTypeOK, Admitted
      <3>2. CASE x \in ShShared /\ \E q \in ShRequests : shHeld'[q] = x /\ SameKind(k, shKey[q])
        <4>1. PICK q \in ShRequests : shHeld'[q] = x /\ SameKind(k, shKey[q])
          BY <3>2
        <4>2. CASE q = r
          BY <1>2, <1>4, <1>6, <3>2, <4>1, <4>2 DEF ShTypeOK, Admitted
        <4>3. CASE q # r
          BY <1>6, <3>2, <4>1, <4>3 DEF ShTypeOK, Admitted
        <4> QED BY <4>2, <4>3
      <3> QED BY <1>6, <2>1, <3>1, <3>2 DEF Admitted, SameKind
    <2> QED BY <2>1, NoneAdded
  <1> QED BY <1>5, <1>7, <1>8, <1>9, <1>10, <1>11

LEMMA BeginNext ==
    ASSUME ShInv, NEW r \in ShRequests, ShBegin(r)
    PROVE  ShInv'
  <1> USE DEF ShInv
  <1>1. ShTypeOK'
    BY DEF ShTypeOK, ShBegin
  <1>2. ASSUME NEW q \in ShRequests PROVE HoldsSlot(q)'
    BY DEF ShTypeOK, ShBegin, HoldsSlot
  <1>3. OneSlot' /\ Registered'
    <2>1. \A q \in ShRequests : Busy(q)' => Busy(q) /\ SlotOf(q)' = SlotOf(q) /\ shAsked'[q] = shAsked[q]
      BY DEF ShTypeOK, ShBegin, Busy, SlotOf
    <2> QED BY <2>1, SlotsStay DEF ShBegin
  <1>4. Belongs'
    BY DEF ShTypeOK, ShBegin, Belongs, Exists
  <1>5. Alone'
    <2>1. shContent[shSlot[r]] \notin shAlive
      <3>1. shSlot[r] \in ShSlots
        BY DEF ShTypeOK, ShBegin, HoldsSlot
      <3> QED BY <3>1 DEF ShTypeOK, ShBegin, Joinable, Belongs
    <2> QED BY <2>1 DEF ShTypeOK, ShBegin, Alone
  <1>6. ASSUME NEW k \in ShKeys
        PROVE  IsFiniteSet(Admitted(k)') /\ Cardinality(Admitted(k)') <= ShPermits
    <2>1. IsFiniteSet(Admitted(k)) /\ Cardinality(Admitted(k)) <= ShPermits
      BY DEF Admissible
    <2>2. CASE SameKind(k, shKey[r])
      <3>1. Admitted(k) = Admitted(shKey[r])
        BY <2>2 DEF Admitted, SameKind
      <3>2. Admitted(k)' = Admitted(k) \cup {r}
        BY <2>2 DEF ShTypeOK, ShBegin, Admitted, SameKind
      <3>3. Cardinality(Admitted(k)) < ShPermits /\ Cardinality(Admitted(k)) \in Nat
        BY <2>1, <3>1, FS_CardinalityType DEF ShBegin
      <3>4. /\ IsFiniteSet(Admitted(k)')
            /\ Cardinality(Admitted(k)') \in {Cardinality(Admitted(k)), Cardinality(Admitted(k)) + 1}
        BY <2>1, <3>2, FS_AddElement
      <3> QED BY <3>3, <3>4
    <2>3. CASE ~SameKind(k, shKey[r])
      <3>1. Admitted(k)' = Admitted(k)
        BY <2>3 DEF ShTypeOK, ShBegin, Admitted, SameKind
      <3> QED BY <2>1, <3>1
    <2> QED BY <2>2, <2>3
  <1> QED BY <1>1, <1>2, <1>3, <1>4, <1>5, <1>6 DEF Admissible

LEMMA ShareNext ==
    ASSUME ShInv, NEW r \in ShRequests, ShShare(r)
    PROVE  ShInv'
  <1> USE DEF ShInv
  <1> DEFINE s == shSlot[r]
  <1>1. PICK m \in ShShared :
          /\ ~Exists(m)
          /\ shHeld' = [shHeld EXCEPT ![r] = m] /\ shAlive' = shAlive \cup {m}
          /\ shInside' = [shInside EXCEPT ![m] = s]
          /\ shContent' = [shContent EXCEPT ![s] = m]
          /\ shStarted' = [shStarted EXCEPT ![m] = shAsked[r]]
    BY DEF ShShare, IsFirst
  <1>2. /\ shAt[r] = "starting" /\ shAt' = [shAt EXCEPT ![r] = "using"]
        /\ shOwner' = [shOwner EXCEPT ![s] = ShNobody] /\ shSlot' = [shSlot EXCEPT ![r] = Unset]
        /\ UNCHANGED <<shRegistry, shKey, shEpoch, shAsked>>
    BY DEF ShShare
  <1>3. /\ s \in ShSlots /\ shHeld[r] = Unset /\ Busy(r) /\ SlotOf(r) = s /\ shOwner[s] = r
        /\ m # Unset /\ shContent[s] \notin shAlive
    <2>1. s \in ShSlots /\ shHeld[r] = Unset /\ Busy(r)
      BY <1>2 DEF ShTypeOK, HoldsSlot, Busy
    <2>2. SlotOf(r) = s /\ shOwner[s] = r
      BY <1>2, <2>1 DEF HoldsSlot, SlotOf
    <2> QED BY <1>2, <2>1, <2>2 DEF Alone
  <1> HIDE DEF s
  <1>4. ShTypeOK'
    BY <1>1, <1>2, <1>3 DEF ShTypeOK
  <1>5. ASSUME NEW q \in ShRequests PROVE HoldsSlot(q)'
    <2>1. CASE q = r
      BY <1>1, <1>2, <1>3, <2>1 DEF ShTypeOK, HoldsSlot
    <2>2. CASE q # r
      BY <1>1, <1>2, <1>3, <2>2 DEF ShTypeOK, HoldsSlot
    <2> QED BY <2>1, <2>2
  <1>6. \A q \in ShRequests : q # r => shHeld'[q] = shHeld[q] /\ shHeld[q] # m
    BY <1>1 DEF ShTypeOK, Exists
  <1>7. shHeld'[r] = m /\ shInside'[m] = s /\ shStarted'[m] = shAsked[r] /\ shContent'[s] = m
    BY <1>1, <1>3 DEF ShTypeOK
  <1>8. OneSlot' /\ Registered'
    <2>1. ASSUME NEW q \in ShRequests, Busy(q)'
          PROVE  Busy(q) /\ SlotOf(q)' = SlotOf(q) /\ shAsked'[q] = shAsked[q]
      <3>1. CASE q = r
        BY <1>2, <1>3, <1>7, <3>1 DEF SlotOf
      <3>2. CASE q # r
        BY <1>1, <1>2, <1>6, <2>1, <3>2 DEF ShTypeOK, Busy, SlotOf
      <3> QED BY <3>1, <3>2
    <2> QED BY <1>2, <2>1, SlotsStay
  <1>9. \A n \in ShShared : Exists(n)' <=> Exists(n) \/ n = m
    BY <1>1, <1>3, <1>6, <1>7 DEF Exists
  <1>10. Belongs'
    <2>1. ASSUME NEW q \in ShRequests, shHeld'[q] # Unset
          PROVE  shStarted'[shHeld'[q]] = shAsked'[q] /\ shInside'[shHeld'[q]] # Unset
      <3>1. CASE q = r
        BY <1>2, <1>3, <1>7, <3>1
      <3>2. CASE q # r
        BY <1>1, <1>2, <1>6, <2>1, <3>2 DEF ShTypeOK, Belongs
      <3> QED BY <3>1, <3>2
    <2>2. ASSUME NEW t \in ShSlots, shContent'[t] # Unset
          PROVE  Exists(shContent[t])' /\ shInside'[shContent'[t]] = t
      <3>1. CASE t = s
        BY <1>7, <1>9, <3>1
      <3>2. CASE t # s
        <4>1. shContent'[t] = shContent[t] /\ Exists(shContent[t]) /\ shInside[shContent[t]] = t
          BY <1>1, <2>2, <3>2 DEF ShTypeOK, Belongs
        <4>2. shContent[t] # m /\ shContent[t] \in ShShared
          BY <1>1, <2>2, <4>1 DEF ShTypeOK
        <4> QED BY <1>1, <1>9, <2>2, <4>1, <4>2 DEF ShTypeOK
      <3> QED BY <3>1, <3>2
    <2>3. ASSUME NEW n \in ShShared
          PROVE  /\ ~Exists(n)' => shInside'[n] = Unset /\ n \notin shAlive'
                 /\ n \in shAlive' => shContent'[shInside'[n]] = n
      <3>1. CASE n = m
        BY <1>7, <1>9, <3>1
      <3>2. CASE n # m
        <4>1. shInside'[n] = shInside[n] /\ (n \in shAlive' <=> n \in shAlive)
          BY <1>1, <3>2 DEF ShTypeOK
        <4>2. Exists(n)' <=> Exists(n)
          BY <1>9, <3>2
        <4>3. ASSUME n \in shAlive PROVE shContent'[shInside[n]] = n
          <5>1. shContent[shInside[n]] = n /\ Exists(n)
            BY <4>3 DEF Belongs
          <5>2. shInside[n] \in ShSlots
            BY <5>1 DEF ShTypeOK, Belongs, Exists
          <5>3. shInside[n] # s
            BY <1>3, <4>3, <5>1
          <5> QED BY <1>1, <5>1, <5>2, <5>3 DEF ShTypeOK
        <4> QED BY <4>1, <4>2, <4>3 DEF Belongs
      <3> QED BY <3>1, <3>2
    <2> QED BY <2>1, <2>2, <2>3 DEF Belongs
  <1>11. Alone'
    <2>1. ASSUME NEW q \in ShRequests, shAt'[q] = "starting" PROVE shContent'[shSlot'[q]] \notin shAlive'
      <3>1. q # r /\ shAt[q] = "starting" /\ shSlot'[q] = shSlot[q]
        BY <1>2, <2>1 DEF ShTypeOK
      <3>2. shSlot[q] \in ShSlots /\ shSlot[q] # s
        BY <1>3, <3>1 DEF ShTypeOK, HoldsSlot
      <3>3. shContent'[shSlot[q]] = shContent[shSlot[q]] /\ shContent[shSlot[q]] \notin shAlive
        BY <1>1, <3>1, <3>2 DEF ShTypeOK, Alone
      <3>4. shContent[shSlot[q]] # m
        <4>1. shContent[shSlot[q]] # Unset => Exists(shContent[shSlot[q]])
          BY <3>2 DEF Belongs
        <4>2. m # Unset
          OBVIOUS
        <4> QED BY <1>1, <4>1, <4>2, Zenon
      <3> QED BY <1>1, <3>1, <3>3, <3>4
    <2> QED BY <2>1 DEF Alone
  <1>12. ASSUME NEW k \in ShKeys
         PROVE  IsFiniteSet(Admitted(k)') /\ Cardinality(Admitted(k)') <= ShPermits
    <2>1. IsFiniteSet(Admitted(k)) /\ Cardinality(Admitted(k)) <= ShPermits
      BY DEF Admissible
    <2>2. CASE SameKind(k, shKey[r])
      <3>1. Admitted(k)' \subseteq (Admitted(k) \ {r}) \cup {m}
        <4>1. ASSUME NEW q \in ShRequests, shAt'[q] = "starting", SameKind(k, shKey'[q])
              PROVE  q \in Admitted(k) /\ q # r
          BY <1>2, <4>1 DEF ShTypeOK, Admitted
        <4>2. ASSUME NEW n \in ShShared, NEW q \in ShRequests, shHeld'[q] = n, SameKind(k, shKey'[q])
              PROVE  n = m \/ (n \in Admitted(k) /\ n # r)
          BY <1>2, <1>6, <1>7, <4>2 DEF Admitted
        <4> QED BY <4>1, <4>2 DEF Admitted, SameKind
      <3>2. r \in Admitted(k)
        BY <1>2, <2>2 DEF Admitted
      <3>3. /\ IsFiniteSet(Admitted(k) \ {r})
            /\ Cardinality(Admitted(k) \ {r}) = Cardinality(Admitted(k)) - 1
        BY <2>1, <3>2, FS_RemoveElement
      <3>4. /\ IsFiniteSet((Admitted(k) \ {r}) \cup {m})
            /\ Cardinality((Admitted(k) \ {r}) \cup {m}) <= Cardinality(Admitted(k) \ {r}) + 1
        <4>1. Cardinality(Admitted(k) \ {r}) \in Nat
          BY <3>3, FS_CardinalityType
        <4>2. /\ IsFiniteSet((Admitted(k) \ {r}) \cup {m})
              /\ Cardinality((Admitted(k) \ {r}) \cup {m})
                    \in {Cardinality(Admitted(k) \ {r}), Cardinality(Admitted(k) \ {r}) + 1}
          BY ONLY <3>3, FS_AddElement
        <4> QED BY <4>1, <4>2
      <3>5. /\ IsFiniteSet(Admitted(k)')
            /\ Cardinality(Admitted(k)') <= Cardinality((Admitted(k) \ {r}) \cup {m})
        BY <3>1, <3>4, FS_Subset
      <3>6. /\ Cardinality(Admitted(k)) \in Nat /\ Cardinality(Admitted(k)') \in Nat
            /\ Cardinality((Admitted(k) \ {r}) \cup {m}) \in Nat /\ ShPermits \in Nat
        BY <2>1, <3>4, <3>5, FS_CardinalityType
      <3> QED BY <2>1, <3>3, <3>4, <3>5, <3>6
    <2>3. CASE ~SameKind(k, shKey[r])
      <3>1. Admitted(k)' = Admitted(k)
        <4>1. ASSUME NEW q \in ShRequests, SameKind(k, shKey[q])
              PROVE  q # r /\ shAt'[q] = shAt[q] /\ shHeld'[q] = shHeld[q]
          BY <1>2, <1>6, <2>3, <4>1 DEF ShTypeOK
        <4> QED BY <1>2, <4>1 DEF Admitted, SameKind
      <3> QED BY <2>1, <3>1
    <2> QED BY <2>2, <2>3
  <1> QED BY <1>4, <1>5, <1>8, <1>10, <1>11, <1>12 DEF Admissible

LEMMA GiveUpNext ==
    ASSUME ShInv, NEW r \in ShRequests, ShGiveUp(r)
    PROVE  ShInv'
  <1> USE DEF ShInv
  <1>1. /\ shAt[r] \in {"waiting", "looking", "starting"} /\ shAt' = [shAt EXCEPT ![r] = "idle"]
        /\ shOwner' = [s \in ShSlots |-> IF shOwner[s] = r THEN ShNobody ELSE shOwner[s]]
        /\ shSlot' = [shSlot EXCEPT ![r] = Unset] /\ shAsked' = [shAsked EXCEPT ![r] = 0]
        /\ UNCHANGED <<shRegistry, shContent, shAlive, shKey, shHeld, shInside, shEpoch, shStarted>>
    BY DEF ShGiveUp
  <1>2. shHeld[r] = Unset
    BY <1>1 DEF HoldsSlot
  <1>3. ShTypeOK'
    BY <1>1 DEF ShTypeOK
  <1>4. ASSUME NEW q \in ShRequests PROVE HoldsSlot(q)'
    <2>1. CASE q = r
      BY <1>1, <1>2, <2>1 DEF ShTypeOK, HoldsSlot
    <2>2. CASE q # r
      BY <1>1, <2>2 DEF ShTypeOK, HoldsSlot
    <2> QED BY <2>1, <2>2
  <1>5. OneSlot' /\ Registered'
    <2>1. \A q \in ShRequests : Busy(q)' => Busy(q) /\ SlotOf(q)' = SlotOf(q) /\ shAsked'[q] = shAsked[q]
      BY <1>1 DEF ShTypeOK, Busy, SlotOf
    <2> QED BY <1>1, <2>1, SlotsStay
  <1>6. Belongs' /\ Alone'
    BY <1>1, <1>2 DEF ShTypeOK, Belongs, Alone, Exists
  <1>7. Admissible'
    <2>1. \A k \in ShKeys : Admitted(k)' \subseteq Admitted(k)
      BY <1>1 DEF ShTypeOK, Admitted, SameKind
    <2> QED BY <2>1, NoneAdded
  <1> QED BY <1>3, <1>4, <1>5, <1>6, <1>7

LEMMA ReleaseNext ==
    ASSUME ShInv, NEW r \in ShRequests, ShRelease(r)
    PROVE  ShInv'
  <1> USE DEF ShInv
  <1> DEFINE held == [shHeld EXCEPT ![r] = Unset]
             kept == Kept(held)
  <1>1. /\ shAt[r] = "using" /\ shAt' = [shAt EXCEPT ![r] = "idle"]
        /\ shHeld' = held /\ shAsked' = [shAsked EXCEPT ![r] = 0]
        /\ UNCHANGED <<shRegistry, shOwner, shKey, shSlot, shEpoch>>
    BY DEF ShRelease
  <1>2. /\ shInside' = [m \in ShShared |-> IF m \in kept THEN shInside[m] ELSE Unset]
        /\ shStarted' = [m \in ShShared |-> IF m \in kept THEN shStarted[m] ELSE 0]
        /\ shContent' = [s \in ShSlots |-> IF shContent[s] \in kept THEN shContent[s] ELSE Unset]
        /\ shAlive' = shAlive \cap kept
    BY DEF ShRelease, Dropped
  <1>3. kept \subseteq ShShared /\ \A m \in ShShared : m \in kept <=> Exists(m)'
    BY <1>1 DEF Kept, Exists
  <1>4. \A q \in ShRequests : /\ shHeld'[q] = IF q = r THEN Unset ELSE shHeld[q]
                              /\ shHeld'[q] # Unset => shHeld'[q] \in kept
    BY <1>1 DEF ShTypeOK, Kept
  <1>5. \A m \in kept : Exists(m)
    BY DEF ShTypeOK, Kept, Exists
  <1> HIDE DEF kept
  <1>6. ShTypeOK'
    BY <1>1, <1>2, <1>3 DEF ShTypeOK
  <1> HIDE DEF held
  <1>7. ASSUME NEW q \in ShRequests PROVE HoldsSlot(q)'
    <2>1. CASE q = r
      BY <1>1, <1>4, <2>1 DEF ShTypeOK, HoldsSlot
    <2>2. CASE q # r
      BY <1>1, <1>4, <2>2 DEF ShTypeOK, HoldsSlot
    <2> QED BY <2>1, <2>2
  <1>8. OneSlot' /\ Registered'
    <2>1. ASSUME NEW q \in ShRequests, Busy(q)'
          PROVE  Busy(q) /\ SlotOf(q)' = SlotOf(q) /\ shAsked'[q] = shAsked[q]
      <3>1. q # r /\ Busy(q) /\ shAsked'[q] = shAsked[q] /\ shHeld'[q] = shHeld[q] /\ shSlot'[q] = shSlot[q]
        BY <1>1, <1>4, <2>1 DEF ShTypeOK, Busy
      <3>2. shHeld[q] # Unset => shInside'[shHeld[q]] = shInside[shHeld[q]]
        BY <1>2, <1>3, <1>4, <3>1
      <3> QED BY <3>1, <3>2 DEF SlotOf
    <2> QED BY <1>1, <2>1, SlotsStay
  <1>9. Belongs'
    <2>1. ASSUME NEW q \in ShRequests, shHeld'[q] # Unset
          PROVE  shStarted'[shHeld'[q]] = shAsked'[q] /\ shInside'[shHeld'[q]] # Unset
      BY <1>1, <1>2, <1>3, <1>4, <2>1 DEF ShTypeOK, Belongs
    <2>2. ASSUME NEW t \in ShSlots, shContent'[t] # Unset
          PROVE  shContent'[t] = shContent[t] /\ Exists(shContent[t])' /\ shInside'[shContent'[t]] = t
      BY <1>2, <1>3, <2>2 DEF Belongs
    <2>3. ASSUME NEW m \in ShShared
          PROVE  /\ ~Exists(m)' => shInside'[m] = Unset /\ m \notin shAlive'
                 /\ m \in shAlive' => shContent'[shInside'[m]] = m
      <3>1. ASSUME m \in shAlive' PROVE shContent'[shInside'[m]] = m
        <4>1. m \in kept /\ m \in shAlive /\ shInside'[m] = shInside[m]
          BY <1>2, <3>1
        <4>2. shContent[shInside[m]] = m /\ shInside[m] # Unset
          BY <1>5, <4>1 DEF Belongs, Exists
        <4>3. shInside[m] \in ShSlots
          BY <4>2 DEF ShTypeOK
        <4> QED BY <1>2, <4>1, <4>2, <4>3
      <3>2. ~Exists(m)' => shInside'[m] = Unset /\ m \notin shAlive'
        BY <1>2, <1>3
      <3> QED BY <3>1, <3>2
    <2> QED BY <2>1, <2>2, <2>3 DEF Belongs
  <1>10. Alone'
    <2>1. ASSUME NEW q \in ShRequests, shAt'[q] = "starting" PROVE shContent'[shSlot'[q]] \notin shAlive'
      <3>1. shAt[q] = "starting" /\ shSlot'[q] = shSlot[q]
        BY <1>1, <2>1 DEF ShTypeOK
      <3>2. shSlot[q] \in ShSlots /\ shContent[shSlot[q]] \notin shAlive
        BY <3>1 DEF ShTypeOK, HoldsSlot, Alone
      <3> QED BY <1>2, <1>3, <3>1, <3>2
    <2> QED BY <2>1 DEF Alone
  <1>11. Admissible'
    <2>1. \A k \in ShKeys : Admitted(k)' \subseteq Admitted(k)
      BY <1>1, <1>4 DEF ShTypeOK, Admitted, SameKind
    <2> QED BY <2>1, NoneAdded
  <1> QED BY <1>6, <1>7, <1>8, <1>9, <1>10, <1>11

LEMMA DiesNext ==
    ASSUME ShInv, NEW m \in ShShared, ShDies(m)
    PROVE  ShInv'
  <1> USE DEF ShInv
  <1>1. /\ shAlive' = shAlive \ {m}
        /\ UNCHANGED <<shRegistry, shOwner, shContent, shAt, shKey, shSlot, shHeld, shInside, shEpoch,
                       shAsked, shStarted>>
    BY DEF ShDies
  <1>2. ShTypeOK' /\ (\A r \in ShRequests : HoldsSlot(r)')
    BY <1>1 DEF ShTypeOK, HoldsSlot
  <1>3. OneSlot' /\ Registered'
    BY <1>1 DEF OneSlot, Registered, Busy, SlotOf
  <1>4. Belongs' /\ Alone'
    BY <1>1 DEF Belongs, Alone, Exists
  <1>5. Admissible'
    BY <1>1 DEF Admissible, Admitted, SameKind
  <1> QED BY <1>2, <1>3, <1>4, <1>5

LEMMA InvalidateNext ==
    ASSUME ShInv, NEW k \in ShKeys, ShInvalidate(k)
    PROVE  ShInv'
  <1> USE DEF ShInv
  <1>1. /\ shEpoch[k] < ShInvalidations /\ shEpoch' = [shEpoch EXCEPT ![k] = @ + 1]
        /\ shRegistry' = [shRegistry EXCEPT ![k] = Unset]
        /\ UNCHANGED <<shOwner, shContent, shAlive, shAt, shKey, shSlot, shHeld, shInside, shAsked, shStarted>>
    BY DEF ShInvalidate
  <1>2. ShTypeOK' /\ (\A r \in ShRequests : HoldsSlot(r)')
    BY <1>1 DEF ShTypeOK, HoldsSlot
  <1>3. OneSlot'
    BY <1>1 DEF OneSlot, Busy, SlotOf
  <1>4. Registered'
    <2>1. ASSUME NEW r \in ShRequests, Busy(r)'
          PROVE  /\ shAsked'[r] <= shEpoch'[shKey'[r]]
                 /\ shAsked'[r] = shEpoch'[shKey'[r]] => shRegistry'[shKey'[r]] = SlotOf(r)'
                 /\ \A l \in ShKeys : shRegistry'[l] = SlotOf(r)' => l = shKey'[r] /\ shAsked'[r] = shEpoch'[l]
      <3>1. Busy(r) /\ SlotOf(r)' = SlotOf(r) /\ SlotOf(r) # Unset
        BY <1>1, <2>1, Holder DEF Busy, SlotOf
      <3>2. /\ shKey[r] \in ShKeys /\ shAsked[r] \in Nat /\ shEpoch[shKey[r]] \in Nat
            /\ shAsked[r] <= shEpoch[shKey[r]]
        BY <3>1 DEF ShTypeOK, Registered
      <3>3. CASE shKey[r] = k
        BY <1>1, <3>1, <3>2, <3>3 DEF ShTypeOK, Registered
      <3>4. CASE shKey[r] # k
        BY <1>1, <3>1, <3>2, <3>4 DEF ShTypeOK, Registered
      <3> QED BY <3>3, <3>4
    <2>2. \A l, j \in ShKeys : shRegistry'[l] = shRegistry'[j] /\ shRegistry'[l] # Unset => l = j
      BY <1>1 DEF ShTypeOK, Registered
    <2> QED BY <2>1, <2>2 DEF Registered
  <1>5. Belongs' /\ Alone'
    BY <1>1 DEF Belongs, Alone, Exists
  <1>6. Admissible'
    BY <1>1 DEF Admissible, Admitted, SameKind
  <1> QED BY <1>2, <1>3, <1>4, <1>5, <1>6

\* A sweep takes no slot away that somebody has.
LEMMA Sweep ==
    ASSUME ShInv, NEW k \in ShKeys
    PROVE  /\ Swept(k) \in [ShKeys -> ShSlots \cup {Unset}]
           /\ \A l \in ShKeys : Swept(k)[l] \in {Unset, shRegistry[l]}
           /\ \A l \in ShKeys : Live(shRegistry[l]) => Swept(k)[l] = shRegistry[l]
           /\ Swept(k)[k] # Unset => Live(Swept(k)[k])
  BY DEF ShInv, ShTypeOK, Swept, SameKind

LEMMA NoRoomNext ==
    ASSUME ShInv, NEW r \in ShRequests, ShNoRoom(r)
    PROVE  ShInv'
  <1> USE DEF ShInv
  <1> DEFINE k == shKey[r]
  <1>1. /\ shRegistry' = Swept(k) /\ k \in ShKeys
        /\ UNCHANGED <<shOwner, shContent, shAlive, shAt, shKey, shSlot, shHeld, shInside, shEpoch,
                       shAsked, shStarted>>
    BY DEF ShNoRoom, ShTypeOK
  <1> HIDE DEF k
  <1>2. ShTypeOK' /\ (\A q \in ShRequests : HoldsSlot(q)')
    BY <1>1, Sweep DEF ShTypeOK, HoldsSlot
  <1>3. OneSlot'
    BY <1>1 DEF OneSlot, Busy, SlotOf
  <1>4. Registered'
    <2>1. ASSUME NEW q \in ShRequests, Busy(q)'
          PROVE  /\ shAsked'[q] <= shEpoch'[shKey'[q]]
                 /\ shAsked'[q] = shEpoch'[shKey'[q]] => shRegistry'[shKey'[q]] = SlotOf(q)'
                 /\ \A l \in ShKeys : shRegistry'[l] = SlotOf(q)' => l = shKey'[q] /\ shAsked'[q] = shEpoch'[l]
      <3>1. Busy(q) /\ SlotOf(q)' = SlotOf(q) /\ SlotOf(q) # Unset /\ Live(SlotOf(q)) /\ shKey[q] \in ShKeys
        BY <1>1, <2>1, Holder DEF Busy, SlotOf, ShTypeOK
      <3> QED BY <1>1, <3>1, Sweep DEF Registered
    <2>2. \A l, j \in ShKeys : shRegistry'[l] = shRegistry'[j] /\ shRegistry'[l] # Unset => l = j
      BY <1>1, Sweep DEF Registered
    <2> QED BY <2>1, <2>2 DEF Registered
  <1>5. Belongs' /\ Alone'
    BY <1>1 DEF Belongs, Alone, Exists
  <1>6. Admissible'
    BY <1>1 DEF Admissible, Admitted, SameKind
  <1> QED BY <1>2, <1>3, <1>4, <1>5, <1>6

LEMMA AskNext ==
    ASSUME ShInv, NEW r \in ShRequests, ShAsk(r)
    PROVE  ShInv'
  <1> USE DEF ShInv
  <1> DEFINE k == shKey[r]
  <1>1. PICK s \in ShSlots :
          /\ shSlot' = [shSlot EXCEPT ![r] = s]
          /\ \/ /\ Swept(k)[k] = s
                /\ shRegistry' = Swept(k) /\ UNCHANGED shContent
             \/ /\ Swept(k)[k] = Unset /\ ~Live(s) /\ \A l \in ShKeys : Swept(k)[l] # s
                /\ shRegistry' = [Swept(k) EXCEPT ![k] = s]
                /\ shContent' = [shContent EXCEPT ![s] = Unset]
    <2>1. k \in ShKeys /\ Swept(k)[k] \in ShSlots \cup {Unset}
      BY Sweep DEF ShTypeOK
    <2> QED BY <2>1 DEF ShAsk, IsFirst
  <1>2. /\ shAt[r] = "idle" /\ k \in ShKeys
        /\ shAt' = [shAt EXCEPT ![r] = "waiting"] /\ shAsked' = [shAsked EXCEPT ![r] = shEpoch[k]]
        /\ UNCHANGED <<shOwner, shAlive, shKey, shHeld, shInside, shEpoch, shStarted>>
    BY DEF ShAsk, ShTypeOK
  <1> HIDE DEF k
  <1>3. shHeld[r] = Unset /\ s # Unset /\ k = shKey[r]
    BY <1>2 DEF HoldsSlot, k
  <1>4. /\ \A l \in ShKeys : shRegistry'[l] # s => shRegistry'[l] = Swept(k)[l]
        /\ \A l \in ShKeys : shRegistry'[l] = s => l = k \/ (Swept(k)[l] = s /\ Swept(k)[k] = s)
        /\ shRegistry'[k] = s
        /\ shRegistry' \in [ShKeys -> ShSlots \cup {Unset}]
    <2>1. Swept(k) \in [ShKeys -> ShSlots \cup {Unset}]
      BY <1>2, Sweep
    <2>2. CASE Swept(k)[k] = s /\ shRegistry' = Swept(k)
      BY <1>2, <2>1, <2>2
    <2>3. CASE (\A l \in ShKeys : Swept(k)[l] # s) /\ shRegistry' = [Swept(k) EXCEPT ![k] = s]
      BY <1>2, <2>1, <2>3
    <2> QED BY <1>1, <2>2, <2>3
  <1>5. \A l \in ShKeys : shRegistry'[l] = s <=> l = k
    <2>1. ASSUME NEW l \in ShKeys, Swept(k)[l] = s, Swept(k)[k] = s PROVE l = k
      BY <1>2, <1>3, <2>1, Sweep DEF Registered
    <2> QED BY <1>2, <1>4, <2>1
  <1>6. ShTypeOK'
    BY <1>1, <1>2, <1>4 DEF ShTypeOK
  <1>7. ASSUME NEW q \in ShRequests PROVE HoldsSlot(q)'
    <2>1. CASE q = r
      BY <1>1, <1>2, <1>3, <2>1 DEF ShTypeOK, HoldsSlot
    <2>2. CASE q # r
      BY <1>1, <1>2, <2>2 DEF ShTypeOK, HoldsSlot
    <2> QED BY <2>1, <2>2
  \* The others, and what r has in common with those that have the slot already.
  <1>8. ASSUME NEW q \in ShRequests, q # r, Busy(q)'
        PROVE  /\ Busy(q) /\ SlotOf(q)' = SlotOf(q) /\ shAsked'[q] = shAsked[q]
               /\ SlotOf(q) \in ShSlots /\ Live(SlotOf(q)) /\ shKey[q] \in ShKeys
    BY <1>1, <1>2, <1>8, Holder DEF ShTypeOK, Busy, SlotOf
  <1>9. SlotOf(r)' = s /\ shAsked'[r] = shEpoch[k] /\ Busy(r)'
    BY <1>1, <1>2, <1>3 DEF ShTypeOK, SlotOf, Busy
  <1>10. ASSUME NEW q \in ShRequests, q # r, Busy(q)'
         PROVE  SlotOf(q) = s <=> shKey[q] = k /\ shAsked[q] = shEpoch[k]
    <2>1. CASE Swept(k)[k] = s
      <3>1. shRegistry[k] = s
        BY <1>2, <1>3, <2>1, Sweep
      <3> QED BY <1>2, <1>8, <1>10, <3>1 DEF Registered
    <2>2. CASE Swept(k)[k] = Unset
      <3>1. ~Live(s)
        BY <1>1, <1>3, <2>2
      <3>2. ~(shKey[q] = k /\ shAsked[q] = shEpoch[k])
        BY <1>2, <1>8, <1>10, <2>2, Sweep DEF Registered
      <3> QED BY <1>8, <1>10, <3>1, <3>2
    <2> QED BY <1>1, <2>1, <2>2
  <1>11. OneSlot'
    BY <1>2, <1>3, <1>8, <1>9, <1>10 DEF OneSlot
  <1>12. Registered'
    <2>1. ASSUME NEW q \in ShRequests, Busy(q)'
          PROVE  /\ shAsked'[q] <= shEpoch'[shKey'[q]]
                 /\ shAsked'[q] = shEpoch'[shKey'[q]] => shRegistry'[shKey'[q]] = SlotOf(q)'
                 /\ \A l \in ShKeys : shRegistry'[l] = SlotOf(q)' => l = shKey'[q] /\ shAsked'[q] = shEpoch'[l]
      <3>1. CASE q = r
        <4>1. shEpoch[k] <= shEpoch[k]
          BY <1>2 DEF ShTypeOK
        <4> QED BY <1>2, <1>3, <1>5, <1>9, <3>1, <4>1
      <3>2. CASE q # r
        <4>1. /\ Busy(q) /\ SlotOf(q)' = SlotOf(q) /\ shAsked'[q] = shAsked[q]
              /\ SlotOf(q) \in ShSlots /\ Live(SlotOf(q)) /\ shKey[q] \in ShKeys
              /\ SlotOf(q) = s <=> shKey[q] = k /\ shAsked[q] = shEpoch[k]
          BY <1>8, <1>10, <2>1, <3>2
        <4>2. CASE SlotOf(q) = s
          BY <1>2, <1>5, <4>1, <4>2 DEF Registered
        <4>3. CASE SlotOf(q) # s
          <5>1. ASSUME shAsked[q] = shEpoch[shKey[q]] PROVE shRegistry'[shKey[q]] = SlotOf(q)
            <6>1. shRegistry[shKey[q]] = SlotOf(q) /\ shKey[q] # k
              BY <4>1, <4>3, <5>1 DEF Registered
            <6> QED BY <1>2, <1>4, <1>5, <4>1, <6>1, Sweep
          <5>2. ASSUME NEW l \in ShKeys, shRegistry'[l] = SlotOf(q)
                PROVE  l = shKey[q] /\ shAsked[q] = shEpoch[l]
            <6>1. shRegistry[l] = SlotOf(q)
              BY <1>2, <1>4, <4>1, <4>3, <5>2, Sweep
            <6> QED BY <4>1, <6>1 DEF Registered
          <5>3. shAsked[q] <= shEpoch[shKey[q]]
            BY <4>1 DEF Registered
          <5> QED BY <1>2, <4>1, <5>1, <5>2, <5>3
        <4> QED BY <4>2, <4>3
      <3> QED BY <3>1, <3>2
    <2>2. \A l, j \in ShKeys : shRegistry'[l] = shRegistry'[j] /\ shRegistry'[l] # Unset => l = j
      BY <1>2, <1>4, <1>5, Sweep DEF Registered
    <2> QED BY <2>1, <2>2 DEF Registered
  <1>13. Belongs'
    <2>1. ASSUME NEW q \in ShRequests, shHeld[q] # Unset PROVE q # r
      BY <1>3, <2>1
    <2>2. ASSUME NEW t \in ShSlots, shContent'[t] # Unset PROVE shContent'[t] = shContent[t]
      BY <1>1, <2>2 DEF ShTypeOK
    <2>3. ASSUME NEW m \in ShShared, m \in shAlive PROVE shContent'[shInside[m]] = m
      <3>1. shContent[shInside[m]] = m /\ Exists(m) /\ shInside[m] # Unset
        BY <2>3 DEF Belongs, Exists
      <3>2. shInside[m] \in ShSlots /\ Live(shInside[m])
        BY <3>1 DEF ShTypeOK, Live
      <3> QED BY <1>1, <1>3, <3>1, <3>2 DEF ShTypeOK
    <2> QED BY <1>2, <2>1, <2>2, <2>3 DEF ShTypeOK, Belongs, Exists
  <1>14. Alone'
    <2>1. ASSUME NEW q \in ShRequests, shAt'[q] = "starting" PROVE shContent'[shSlot'[q]] \notin shAlive'
      <3>1. q # r /\ shAt[q] = "starting" /\ shSlot'[q] = shSlot[q]
        BY <1>1, <1>2, <2>1 DEF ShTypeOK
      <3>2. shSlot[q] \in ShSlots /\ shContent[shSlot[q]] \notin shAlive
        BY <3>1 DEF ShTypeOK, HoldsSlot, Alone
      <3>3. shContent'[shSlot[q]] \in {shContent[shSlot[q]], Unset}
        BY <1>1, <3>2 DEF ShTypeOK
      <3> QED BY <1>2, <3>1, <3>2, <3>3 DEF ShTypeOK
    <2> QED BY <2>1 DEF Alone
  <1>15. Admissible'
    <2>1. \A l \in ShKeys : Admitted(l)' \subseteq Admitted(l)
      BY <1>2 DEF ShTypeOK, Admitted, SameKind
    <2> QED BY <2>1, NoneAdded
  <1> QED BY <1>6, <1>7, <1>11, <1>12, <1>13, <1>14, <1>15

-----------------------------------------------------------------------------
\* The inductive invariant of shared masters and listeners: a slot of its own for each key, from one
\* invalidation of it to the next, and in the slot the one that answers.
THEOREM SharingInv == ShSpec => []ShInv
  <1>1. ShInit => ShInv
    BY ShInitial
  <1>2. ShInv /\ [ShNext]_shVars => ShInv'
    <2> SUFFICES ASSUME ShInv, [ShNext]_shVars PROVE ShInv'
      OBVIOUS
    <2>1. CASE \E r \in ShRequests :
                  \/ ShAsk(r) \/ ShNoRoom(r) \/ ShLock(r) \/ ShJoin(r) \/ ShBegin(r) \/ ShShare(r)
                  \/ ShGiveUp(r) \/ ShRelease(r)
      BY <2>1, AskNext, NoRoomNext, LockNext, JoinNext, BeginNext, ShareNext, GiveUpNext, ReleaseNext
    <2>2. CASE \E m \in ShShared : ShDies(m)
      BY <2>2, DiesNext
    <2>3. CASE \E k \in ShKeys : ShInvalidate(k)
      BY <2>3, InvalidateNext
    <2>4. CASE UNCHANGED shVars
      <3> USE <2>4 DEF shVars
      <3>1. ShTypeOK' /\ \A r \in ShRequests : HoldsSlot(r)'
        BY DEF ShInv, ShTypeOK, HoldsSlot
      <3>2. OneSlot' /\ Registered'
        BY DEF ShInv, OneSlot, Registered, Busy, SlotOf
      <3>3. Belongs' /\ Alone'
        BY DEF ShInv, Belongs, Alone, Exists
      <3>4. Admissible'
        BY DEF ShInv, Admissible, Admitted, SameKind
      <3> QED BY <3>1, <3>2, <3>3, <3>4 DEF ShInv
    <2> QED BY <2>1, <2>2, <2>3, <2>4 DEF ShNext
  <1> QED BY <1>1, <1>2, PTL DEF ShSpec

\* ssh_shared.rs, ssh_local.rs: two masters or listeners of one key are separated by an invalidation,
\* nobody is given what was started for another key or before the last invalidation he could know
\* of, and there are never more than the permits.
THEOREM SharedByKey == ShSpec => []ShSharedByKey
  <1>1. ASSUME ShInv PROVE ShSharedByKey
    <2> USE <1>1 DEF ShInv
    <2>1. ASSUME NEW m \in shAlive, NEW n \in shAlive, m # n, KeyOf(m) = KeyOf(n)
          PROVE  shStarted[m] # shStarted[n]
      <3>1. m \in ShShared /\ n \in ShShared /\ Exists(m) /\ Exists(n)
        BY DEF ShTypeOK, Belongs
      <3>2. PICK r \in ShRequests : shHeld[r] = m /\ shKey[r] = KeyOf(m)
        BY <3>1 DEF Exists, KeyOf
      <3>3. PICK q \in ShRequests : shHeld[q] = n /\ shKey[q] = KeyOf(n)
        BY <3>1 DEF Exists, KeyOf
      <3>4. /\ Busy(r) /\ SlotOf(r) = shInside[m] /\ shStarted[m] = shAsked[r]
            /\ Busy(q) /\ SlotOf(q) = shInside[n] /\ shStarted[n] = shAsked[q]
        BY <3>1, <3>2, <3>3 DEF HoldsSlot, Busy, SlotOf, Belongs
      <3>5. shInside[m] # shInside[n]
        BY <2>1, <3>1 DEF Belongs
      <3> QED BY <2>1, <3>2, <3>3, <3>4, <3>5 DEF OneSlot
    <2>2. ASSUME NEW r \in ShRequests, shHeld[r] # Unset
          PROVE  /\ shStarted[shHeld[r]] >= shAsked[r]
                 /\ \A q \in ShRequests : shHeld[q] = shHeld[r] => shKey[q] = shKey[r]
      <3>1. shStarted[shHeld[r]] = shAsked[r] /\ shAsked[r] \in Nat
        BY <2>2 DEF ShTypeOK, Belongs
      <3>2. ASSUME NEW q \in ShRequests, shHeld[q] = shHeld[r] PROVE shKey[q] = shKey[r]
        <4>1. Busy(q) /\ Busy(r) /\ SlotOf(q) = SlotOf(r)
          BY <2>2, <3>2 DEF HoldsSlot, Busy, SlotOf
        <4> QED BY <4>1 DEF OneSlot
      <3> QED BY <3>1, <3>2
    <2>3. \A k \in ShKeys : Cardinality(Admitted(k)) <= ShPermits
      BY DEF Admissible
    <2> QED BY <2>1, <2>2, <2>3 DEF ShSharedByKey
  <1> QED BY <1>1, SharingInv, PTL

=============================================================================
