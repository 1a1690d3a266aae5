------------------------ MODULE BackendSessions_proofs ------------------------
(***************************************************************************)
(* Proofs about BackendSessions: what the registry of the backend promises *)
(* its clients holds for any sessions, shells, terminals, queue length,    *)
(* clocks and restarts, and whatever POSTs are lost or overtake others.    *)
(***************************************************************************)
EXTENDS BackendSessions, SequenceTheorems, WellFoundedInduction, TLAPS

-----------------------------------------------------------------------------
(* Induction over the naturals, stated of a set. *)

Below == {ss \in Nat \X Nat : ss[1] < ss[2]}

LEMMA BelowIsWellFounded == IsWellFoundedOn(Below, Nat)
  BY NatLessThanWellFounded DEF OpToRel, Below

LEMMA LeastNatural ==
    ASSUME NEW T, T \subseteq Nat, T # {}
    PROVE  \E n \in T : \A k \in T : n <= k
  <1>1. PICK n \in T : \A k \in T : ~(<<k, n>> \in Below)
    BY BelowIsWellFounded, WFMin
  <1>2. ASSUME NEW k \in T PROVE n <= k
    <2>1. <<k, n>> \in Nat \X Nat
      OBVIOUS
    <2>2. ~(k < n)
      BY <1>1, <2>1 DEF Below
    <2>3. QED
      BY <2>2
  <1>3. QED
    BY <1>2

LEMMA NaturalInduction ==
    ASSUME NEW S, 0 \in S, \A n \in Nat : n \in S => n + 1 \in S
    PROVE  Nat \subseteq S
  <1> DEFINE T == Nat \ S
  <1>1. SUFFICES ASSUME T # {} PROVE FALSE
    OBVIOUS
  <1>2. PICK n \in T : \A k \in T : n <= k
    BY <1>1, LeastNatural
  <1>3. n # 0 /\ n - 1 \in Nat
    OBVIOUS
  <1>4. n - 1 \in S
    BY <1>2, <1>3
  <1>5. QED
    BY <1>3, <1>4

-----------------------------------------------------------------------------
(* The session manager and its file. *)

Shape(m) ==
    /\ DOMAIN m = {"entries", "shown", "timer", "saved"}
    /\ m.entries \in [Ids -> Entry] /\ m.saved \in [Ids -> Entry]

(* The shells only the gateway reports about. *)
Own == Shells \ Shared

(* A session has a name; an own shell's is bound to no terminal and, as    *)
(* long as it is registered, neither over nor paused.                      *)
EntryOK(i, e) ==
    /\ e.status # "none" => e.name # "none"
    /\ i \in Own => e.ref = NoRef /\ e.status \notin Over \cup {"paused"}

(* The file has only sessions that are there and not over, shells' all.    *)
FileOK(i, e, f) ==
    /\ f.updAt = 0 /\ (i \in Own => f.ref = NoRef)
    /\ f # Absent => f.name # "none" /\ e.status \notin Over \cup {"none"}
    /\ i \in Own /\ e.status # "none" => f # Absent

EntriesOK(m) == \A i \in Ids : EntryOK(i, m.entries[i])

RegistryOK(m) == Shape(m) /\ EntriesOK(m) /\ \A i \in Ids : FileOK(i, m.entries[i], m.saved[i])

(* Nothing but the entry of i differs from m to n. *)
Only(m, n, i) == \A j \in Ids \ {i} : n.entries[j] = m.entries[j]

(* A method changed the entry of i, which is there after as before; the    *)
(* file is as it was.                                                      *)
Change(m, n, i) ==
    /\ Shape(n) /\ n.saved = m.saved /\ Only(m, n, i) /\ EntryOK(i, n.entries[i])
    /\ n.entries[i].status = "none" <=> m.entries[i].status = "none"
    /\ m.entries[i].meta => n.entries[i].meta

LEMMA WithFacts ==
    ASSUME NEW m, Shape(m), NEW i \in Ids, NEW e \in Entry
    PROVE  /\ Shape(With(m, i, e)) /\ With(m, i, e).saved = m.saved
           /\ With(m, i, e).entries[i] = e /\ Only(m, With(m, i, e), i)
  <1> DEFINE n == With(m, i, e)
  <1>1. DOMAIN n = DOMAIN m /\ n.entries = [m.entries EXCEPT ![i] = e] /\ n.saved = m.saved
    BY DEF With, Shape
  <1> HIDE DEF n
  <1>2. Shape(n) /\ n.entries[i] = e /\ Only(m, n, i)
    BY <1>1 DEF Shape, Only
  <1>3. QED
    BY <1>1, <1>2 DEF n

(* The windows are told, at once or soon: entries and file stay. *)
LEMMA EmitFacts ==
    ASSUME NEW m, Shape(m)
    PROVE  /\ Shape(Emit(m)) /\ Emit(m).entries = m.entries /\ Emit(m).saved = m.saved
           /\ Shape(EmitDebounced(m)) /\ EmitDebounced(m).entries = m.entries
           /\ EmitDebounced(m).saved = m.saved
           /\ Shape(Fire(m)) /\ Fire(m).entries = m.entries /\ Fire(m).saved = m.saved
  BY DEF Emit, EmitDebounced, Fire, Shape

LEMMA AbsentFacts ==
    Absent \in Entry /\ Absent.status = "none" /\ Absent.updAt = 0 /\ Absent.ref = NoRef /\ ~Absent.meta
      /\ Absent.name = "none"
  BY DEF Absent, Entry, Names

(* What is written to the file passes, whatever the file held. *)
LEMMA SaveFacts ==
    ASSUME NEW m, Shape(m), EntriesOK(m)
    PROVE  RegistryOK(Save(m)) /\ Save(m).entries = m.entries
  <1>1. DOMAIN Save(m) = DOMAIN m /\ Save(m).entries = m.entries /\ Save(m).saved = Savable(m.entries)
    BY DEF Save, Shape
  <1>2. ASSUME NEW i \in Ids
        PROVE  Savable(m.entries)[i] \in Entry /\ FileOK(i, m.entries[i], Savable(m.entries)[i])
    <2> DEFINE e == m.entries[i]
               f == [Absent EXCEPT !.name = e.name, !.ref = e.ref, !.meta = e.meta]
    <2>1. e \in Entry /\ EntryOK(i, e)
      BY DEF Shape, EntriesOK
    <2>2. f \in Entry /\ f.updAt = 0 /\ f.name = e.name /\ f.ref = e.ref
      BY <2>1 DEF Entry, Absent
    <2>3. Savable(m.entries)[i] = IF e.status \in Over \cup {"none"} THEN Absent ELSE f
      BY DEF Savable
    <2> HIDE DEF e, f
    <2>4. CASE e.status \in Over \cup {"none"}
      BY <2>1, <2>3, <2>4, AbsentFacts DEF FileOK, EntryOK, e
    <2>5. CASE e.status \notin Over \cup {"none"}
      <3>1. e.name # "none" /\ f # Absent
        BY <2>1, <2>2, <2>5, AbsentFacts DEF EntryOK
      <3>2. QED
        BY <2>1, <2>2, <2>3, <2>5, <3>1 DEF FileOK, EntryOK, e
    <2>6. QED
      BY <2>4, <2>5
  <1>3. Savable(m.entries) \in [Ids -> Entry]
    BY <1>2 DEF Savable
  <1>4. QED
    BY <1>1, <1>2, <1>3 DEF RegistryOK, Shape, EntriesOK

(* saveSessionsAfterTerminalStatusChange is enough: a change that is not   *)
(* followed by a save is none the file would tell.                         *)
LEMMA SavedIfOverFacts ==
    ASSUME NEW m, RegistryOK(m), NEW n, NEW i \in Ids, Change(m, n, i)
    PROVE  RegistryOK(SavedIfOver(m, n, i)) /\ SavedIfOver(m, n, i).entries = n.entries
  <1>1. EntriesOK(n)
    BY DEF Change, RegistryOK, EntriesOK, Only
  <1>2. CASE {m.entries[i].status, n.entries[i].status} \cap Over # {}
    <2>1. SavedIfOver(m, n, i) = Save(n)
      BY <1>2 DEF SavedIfOver
    <2>2. QED
      BY <1>1, <2>1, SaveFacts DEF Change
  <1>3. CASE {m.entries[i].status, n.entries[i].status} \cap Over = {}
    <2>1. SavedIfOver(m, n, i) = n
      BY <1>3 DEF SavedIfOver
    <2>2. m.entries[i].status \notin Over /\ n.entries[i].status \notin Over
      BY <1>3
    <2>3. FileOK(i, n.entries[i], n.saved[i])
      BY <2>2 DEF Change, RegistryOK, FileOK
    <2>4. \A j \in Ids \ {i} : FileOK(j, n.entries[j], n.saved[j])
      BY DEF Change, RegistryOK, Only
    <2>5. QED
      BY <1>1, <2>1, <2>3, <2>4 DEF Change, RegistryOK
  <1>4. QED
    BY <1>2, <1>3

(* The manager's methods, one entry at a time.                             *)

LEMMA EntryFacts ==
    ASSUME NEW m, RegistryOK(m), NEW i \in Ids
    PROVE  m.entries[i] \in Entry /\ EntryOK(i, m.entries[i]) /\ Shape(m)
  BY DEF RegistryOK, Shape, EntriesOK

LEMMA NoChange ==
    ASSUME NEW m, RegistryOK(m), NEW i \in Ids
    PROVE  Change(m, m, i)
  BY EntryFacts DEF Change, Only

(* An entry is put in the place of another, and the windows are told. *)
LEMMA PutFacts ==
    ASSUME NEW m, Shape(m), NEW i \in Ids, NEW e \in Entry, EntryOK(i, e),
           e.status = "none" <=> m.entries[i].status = "none", m.entries[i].meta => e.meta,
           NEW n, n \in {With(m, i, e), Emit(With(m, i, e)), EmitDebounced(With(m, i, e))}
    PROVE  Change(m, n, i) /\ n.entries[i] = e
  <1> DEFINE w == With(m, i, e)
  <1>1. Shape(w) /\ w.saved = m.saved /\ w.entries[i] = e /\ Only(m, w, i)
    BY WithFacts
  <1> HIDE DEF w
  <1>2. Shape(n) /\ n.saved = w.saved /\ n.entries = w.entries
    BY <1>1, EmitFacts DEF w
  <1>3. QED
    BY <1>1, <1>2 DEF Change, Only

LEMMA ChangeTwice ==
    ASSUME NEW m, NEW n, NEW q, NEW i \in Ids, Change(m, n, i), Change(n, q, i)
    PROVE  Change(m, q, i)
  BY DEF Change, Only

(* applyTerminalUpdate *)
LEMMA AppliedFacts ==
    ASSUME NEW m, Shape(m), NEW i \in Ids, EntryOK(i, m.entries[i]), m.entries[i].status # "none",
           NEW status \in Statuses, NEW at \in Nat, i \in Own => status \notin Over \cup {"paused"},
           NEW n, n = Applied(m, i, status, at)
    PROVE  /\ Change(m, n, i) /\ n.entries[i].status = status /\ n.entries[i].updAt = at
           /\ n.entries[i].meta = m.entries[i].meta
  <1> DEFINE e == [m.entries[i] EXCEPT !.status = status, !.updAt = at]
  <1>1. m.entries[i] \in Entry
    BY DEF Shape
  <1>2. /\ e \in Entry /\ e.status = status /\ e.updAt = at /\ e.meta = m.entries[i].meta
        /\ e.name = m.entries[i].name /\ e.ref = m.entries[i].ref
    BY <1>1 DEF Entry
  <1>3. n \in {Emit(With(m, i, e)), EmitDebounced(With(m, i, e))}
    BY DEF Applied
  <1> HIDE DEF e
  <1>4. EntryOK(i, e) /\ e.status # "none"
    BY <1>2 DEF EntryOK, Statuses
  <1>5. QED
    BY <1>2, <1>3, <1>4, PutFacts

(* An update changes the status and the time, unless it is late or the     *)
(* session is not to be updated; for a shell's, only being late counts.    *)
LEMMA UpdateFacts ==
    ASSUME NEW m, RegistryOK(m), NEW i \in Ids, NEW status \in Statuses, NEW at \in Nat,
           i \in Own => status \notin Over \cup {"paused"},
           NEW u, u = [id |-> i, status |-> status, at |-> at],
           NEW n, n = AppliedUpdate(m, u)
    PROVE  /\ RegistryOK(n) /\ Only(m, n, i)
           /\ n.entries[i].status = "none" <=> m.entries[i].status = "none"
           /\ n.entries[i].meta = m.entries[i].meta
           /\ i \in Own /\ m.entries[i].status # "none" =>
                 IF at < m.entries[i].updAt THEN n.entries[i] = m.entries[i]
                 ELSE n.entries[i].status = status /\ n.entries[i].updAt = at
  <1> DEFINE e == m.entries[i]
             q == UpdateTerminalState(m, u)
             skip == e.status \in {"none", "detached"} \/ (e.status = "paused" /\ status # "running") \/ at < e.updAt
  <1>1. u.id = i /\ u.status = status /\ u.at = at
    OBVIOUS
  <1>2. e \in Entry /\ EntryOK(i, e) /\ Shape(m)
    BY EntryFacts
  <1>3. q = IF skip THEN m ELSE Applied(m, i, status, at)
    BY <1>1 DEF UpdateTerminalState
  <1>4. /\ Change(m, q, i) /\ q.entries[i].meta = e.meta
        /\ IF skip THEN q = m ELSE q.entries[i].status = status /\ q.entries[i].updAt = at
    BY <1>2, <1>3, NoChange, AppliedFacts
  <1>5. n = SavedIfOver(m, q, i)
    BY <1>1 DEF AppliedUpdate
  <1> HIDE DEF q
  <1>6. RegistryOK(n) /\ n.entries = q.entries
    BY <1>4, <1>5, SavedIfOverFacts
  <1>7. i \in Own /\ e.status # "none" => (skip <=> at < e.updAt)
    BY <1>2 DEF EntryOK, Over
  <1>8. QED
    BY <1>4, <1>6, <1>7 DEF Change, Only

(* A change of an entry that does not end it leaves the file right. *)
LEMMA ChangeFacts ==
    ASSUME NEW m, RegistryOK(m), NEW i \in Ids, NEW n, Change(m, n, i),
           n.entries[i].status \in Over => m.entries[i].status \in Over
    PROVE  RegistryOK(n)
  <1>1. EntriesOK(n)
    BY DEF Change, RegistryOK, EntriesOK, Only
  <1>2. FileOK(i, n.entries[i], n.saved[i])
    BY DEF Change, RegistryOK, FileOK
  <1>3. \A j \in Ids \ {i} : FileOK(j, n.entries[j], n.saved[j])
    BY DEF Change, RegistryOK, Only
  <1>4. QED
    BY <1>1, <1>2, <1>3 DEF Change, RegistryOK

LEMMA BoundFacts ==
    ASSUME NEW e \in Entry, NEW ref \in Refs \cup {NoRef}
    PROVE  /\ Bound(e, ref) \in Entry /\ Bound(e, ref).status = e.status
           /\ Bound(e, ref).name = e.name /\ Bound(e, ref).meta = e.meta
  BY DEF Bound, Entry

(* A session that no gateway runs may be bound to a terminal, again. *)
LEMMA BindFacts ==
    ASSUME NEW m, RegistryOK(m), NEW i \in Ids, i \notin Own, NEW ref \in Refs \cup {NoRef},
           NEW n, n = BindSessionToTerminal(m, i, ref)
    PROVE  /\ RegistryOK(n) /\ Only(m, n, i)
           /\ n.entries[i].status = "none" <=> m.entries[i].status = "none"
           /\ m.entries[i].meta => n.entries[i].meta
  <1> DEFINE e == m.entries[i]
             g == Bound(e, ref)
             h == [g EXCEPT !.status = "needs_attention"]
  <1>1. e \in Entry /\ EntryOK(i, e) /\ Shape(m)
    BY EntryFacts
  <1>2. g \in Entry /\ g.status = e.status /\ g.name = e.name /\ g.meta = e.meta
    BY <1>1, BoundFacts
  <1> HIDE DEF g
  <1>3. h \in Entry /\ h.status = "needs_attention" /\ h.name = e.name /\ h.meta = e.meta
    BY <1>2 DEF Entry, Statuses
  <1>4. CASE e.status = "none"
    BY <1>4, NoChange DEF BindSessionToTerminal, Only
  <1>5. CASE e.status = "detached"
    <2>1. n = Emit(With(m, i, h))
      BY <1>5 DEF BindSessionToTerminal, g
    <2> HIDE DEF h
    <2>2. EntryOK(i, h) /\ h.status # "none"
      BY <1>1, <1>3, <1>5 DEF EntryOK
    <2>3. Change(m, n, i) /\ n.entries[i] = h
      BY <1>1, <1>3, <1>5, <2>1, <2>2, PutFacts
    <2>4. QED
      BY <1>5, <2>3, ChangeFacts DEF Change, Over
  <1>6. CASE e.status \notin {"none", "detached"}
    <2>1. n = IF Rebinds(e, ref) THEN EmitDebounced(With(m, i, g)) ELSE m
      BY <1>6 DEF BindSessionToTerminal, g
    <2>2. EntryOK(i, g)
      BY <1>1, <1>2 DEF EntryOK
    <2>3. Change(m, n, i) /\ (n.entries[i] = g \/ n.entries[i] = e)
      BY <1>1, <1>2, <2>1, <2>2, PutFacts, NoChange
    <2>4. QED
      BY <1>2, <2>3, ChangeFacts DEF Change
  <1>7. QED
    BY <1>4, <1>5, <1>6

(* What a terminal event says, once it is known whose it is. *)
Event(i) == [id : {i}, ref : Refs \cup {NoRef}, at : Nat, kind : EventKinds,
             status : Statuses \cup {"same"}]

LEMMA OutcomeFacts ==
    ASSUME NEW k \in EventKinds
    PROVE  EventOutcomes(k) \subseteq Statuses \cup {"same"}
  BY BackendAssumption DEF EventOutcomes, Statuses

LEMMA EventFacts ==
    ASSUME NEW m, RegistryOK(m), NEW i \in Ids, i \notin Own, NEW ev \in Event(i),
           NEW n, n = AppliedEvent(m, ev)
    PROVE  /\ RegistryOK(n) /\ Only(m, n, i)
           /\ n.entries[i].status = "none" <=> m.entries[i].status = "none"
           /\ m.entries[i].meta => n.entries[i].meta
  <1> DEFINE d == m.entries[i]
             w == [d EXCEPT !.status = "needs_attention"]
             r == Restored(m, ev)
             e == r.entries[i]
             g == Bound(e, ev.ref)
             b == With(r, i, g)
             q == [b.entries[i] EXCEPT !.updAt = ev.at]
             quiet == With(b, i, q)
             done == IF ev.status = "same" \/ (e.status = "paused" /\ ev.status # "running")
                     THEN quiet ELSE Applied(b, i, ev.status, ev.at)
             u == UpdateTerminalEvent(m, ev)
  <1>1. ev.id = i /\ ev.ref \in Refs \cup {NoRef} /\ ev.at \in Nat /\ ev.status \in Statuses \cup {"same"}
    BY DEF Event
  <1>2. d \in Entry /\ EntryOK(i, d) /\ Shape(m)
    BY EntryFacts
  <1>3. Change(m, r, i)
    <2>1. w \in Entry /\ w.status = "needs_attention" /\ w.name = d.name /\ w.meta = d.meta
      BY <1>2 DEF Entry, Statuses
    <2>2. r = m \/ (r = With(m, i, w) /\ d.status = "detached")
      BY <1>1 DEF Restored
    <2> HIDE DEF w, r
    <2>3. EntryOK(i, w) \/ d.status # "detached"
      BY <1>2, <2>1 DEF EntryOK
    <2>4. QED
      BY <1>2, <2>1, <2>2, <2>3, PutFacts, NoChange
  <1> HIDE DEF r
  <1>4. e \in Entry /\ EntryOK(i, e) /\ Shape(r)
    BY <1>3 DEF Change, Shape
  <1>5. g \in Entry /\ g.status = e.status /\ g.name = e.name /\ g.meta = e.meta
    BY <1>1, <1>4, BoundFacts
  <1> HIDE DEF g
  <1>6. Change(r, b, i) /\ b.entries[i] = g
    <2>1. EntryOK(i, g)
      BY <1>4, <1>5 DEF EntryOK
    <2>2. QED
      BY <1>4, <1>5, <2>1, PutFacts
  <1>7. q \in Entry /\ q.status = e.status /\ q.name = e.name /\ q.meta = e.meta
    BY <1>1, <1>5, <1>6 DEF Entry
  <1> HIDE DEF b
  <1>8. /\ Shape(b) /\ EntryOK(i, b.entries[i])
        /\ b.entries[i].status = e.status /\ b.entries[i].meta = e.meta
    BY <1>5, <1>6 DEF Change
  <1>9. Change(b, quiet, i)
    <2>1. EntryOK(i, q)
      BY <1>4, <1>7 DEF EntryOK
    <2>2. QED
      BY <1>7, <1>8, <2>1, PutFacts
  <1> HIDE DEF q
  <1>10. ev.status # "same" /\ e.status # "none" => Change(b, Applied(b, i, ev.status, ev.at), i)
    BY <1>1, <1>8, AppliedFacts
  <1>11. e.status # "none" => Change(b, done, i)
    BY <1>9, <1>10
  <1>12. u \in {r, done, EmitDebounced(done)} /\ (e.status = "none" => u = r)
    BY <1>1 DEF UpdateTerminalEvent, r, g, b, q
  <1> HIDE DEF done, u
  <1>13. Change(m, u, i)
    <2>1. CASE u = r
      BY <1>3, <2>1
    <2>2. CASE u # r
      <3>1. Change(m, done, i)
        BY <1>3, <1>6, <1>11, <1>12, <2>2, ChangeTwice
      <3>2. CASE u = EmitDebounced(done)
        BY <3>1, <3>2, EmitFacts DEF Change, Only
      <3>3. QED
        BY <1>12, <2>2, <3>1, <3>2
    <2>3. QED
      BY <2>1, <2>2
  <1>14. n = SavedIfOver(m, u, i)
    BY <1>1 DEF AppliedEvent, u
  <1>15. QED
    BY <1>13, <1>14, SavedIfOverFacts DEF Change, Only

(* What any number of events of a session leave of the registry: by        *)
(* induction on how many were applied.                                     *)
Kept(m, n, i) ==
    /\ RegistryOK(n) /\ Only(m, n, i) /\ (n.entries[i].status = "none" <=> m.entries[i].status = "none")
    /\ m.entries[i].meta => n.entries[i].meta

LEMMA KeptTwice ==
    ASSUME NEW m, NEW n, NEW q, NEW i \in Ids, Kept(m, n, i), Kept(n, q, i)
    PROVE  Kept(m, q, i)
  BY DEF Kept, Only

LEMMA EventsFacts ==
    ASSUME NEW m, RegistryOK(m), NEW i \in Ids, NEW evs \in Seq(Event(i)), i \in Own => evs = <<>>,
           NEW q, q = AppliedEvents(m, evs)
    PROVE  Kept(m, q, i) /\ (evs = <<>> => q = m)
  <1> DEFINE L == Len(evs)
             Upto(f, n) == f = [k \in 0 .. n |-> IF k = 0 THEN m ELSE AppliedEvent(f[k - 1], evs[k])]
             F == CHOOSE f : Upto(f, L)
  <1>1. L \in Nat /\ \A k \in 1 .. L : evs[k] \in Event(i) /\ i \notin Own
    OBVIOUS
  <1>2. \A n \in Nat : \E f : Upto(f, n)
    <2> DEFINE S == {n \in Nat : \E f : Upto(f, n)}
    <2>1. 0 \in S
      <3>1. Upto([k \in 0 .. 0 |-> m], 0)
        OBVIOUS
      <3>2. QED
        BY <3>1
    <2>2. ASSUME NEW n \in Nat, n \in S
          PROVE  n + 1 \in S
      <3>1. PICK f : Upto(f, n)
        BY <2>2
      <3> DEFINE h == [k \in 0 .. n + 1 |-> IF k = n + 1 THEN AppliedEvent(f[n], evs[n + 1]) ELSE f[k]]
      <3>2. \A k \in 0 .. n : h[k] = f[k]
        OBVIOUS
      <3>3. \A k \in 0 .. n : f[k] = IF k = 0 THEN m ELSE AppliedEvent(f[k - 1], evs[k])
        BY <3>1
      <3>4. ASSUME NEW k \in 0 .. n + 1
            PROVE  h[k] = IF k = 0 THEN m ELSE AppliedEvent(h[k - 1], evs[k])
        <4>1. CASE k = n + 1
          BY <3>2, <4>1
        <4>2. CASE k # n + 1
          <5>1. k \in 0 .. n /\ (k # 0 => k - 1 \in 0 .. n)
            BY <4>2
          <5>2. QED
            BY <3>2, <3>3, <5>1
        <4>3. QED
          BY <4>1, <4>2
      <3>5. h = [k \in 0 .. n + 1 |-> h[k]]
        OBVIOUS
      <3> HIDE DEF h
      <3>6. Upto(h, n + 1)
        BY <3>4, <3>5
      <3>7. QED
        BY <3>6
    <2> HIDE DEF S
    <2>3. Nat \subseteq S
      BY <2>1, <2>2, NaturalInduction
    <2>4. QED
      BY <2>3 DEF S
  <1>3. Upto(F, L)
    BY <1>1, <1>2
  <1>4. q = F[L]
    BY DEF AppliedEvents
  <1> HIDE DEF F
  <1>5. F[0] = m /\ \A k \in 1 .. L : F[k] = AppliedEvent(F[k - 1], evs[k])
    BY <1>1, <1>3
  <1>6. \A n \in Nat : n <= L => Kept(m, F[n], i)
    <2> DEFINE S == {n \in Nat : n <= L => Kept(m, F[n], i)}
    <2>1. 0 \in S
      BY <1>5 DEF Kept, Only
    <2>2. ASSUME NEW n \in Nat, n \in S
          PROVE  n + 1 \in S
      <3>1. SUFFICES ASSUME n + 1 <= L PROVE Kept(m, F[n + 1], i)
        OBVIOUS
      <3>2. Kept(m, F[n], i) /\ n + 1 \in 1 .. L
        BY <1>1, <2>2, <3>1
      <3>3. F[n + 1] = AppliedEvent(F[n], evs[n + 1]) /\ evs[n + 1] \in Event(i) /\ i \in Ids \ Own
        BY <1>1, <1>5, <3>2
      <3>4. Kept(F[n], F[n + 1], i)
        BY <3>2, <3>3, EventFacts DEF Kept
      <3>5. QED
        BY <3>2, <3>4, KeptTwice
    <2> HIDE DEF S
    <2>3. Nat \subseteq S
      BY <2>1, <2>2, NaturalInduction
    <2>4. QED
      BY <2>3 DEF S
  <1>7. QED
    BY <1>1, <1>4, <1>5, <1>6

(* What may wait for a session: nothing, for a shell's. *)
Waiting(i, u, evs) ==
    /\ u \in {NoUpdate} \cup [id : {i}, status : Statuses, at : Nat]
    /\ evs \in Seq(Event(i))
    /\ i \in Own => u = NoUpdate /\ evs = <<>>

LEMMA FlushedFacts ==
    ASSUME NEW m, RegistryOK(m), NEW i \in Ids, Waiting(i, pendUpd[i], pendEvt[i]),
           NEW q, q = Flushed(m, i)
    PROVE  Kept(m, q, i) /\ (i \in Own => q = m)
  <1> DEFINE u == pendUpd[i]
             n == IF u # NoUpdate THEN AppliedUpdate(m, u) ELSE m
  <1>1. q = AppliedEvents(n, pendEvt[i])
    BY DEF Flushed
  <1>2. Kept(m, n, i) /\ (i \in Own => n = m)
    <2>1. CASE u = NoUpdate
      BY <2>1 DEF Kept, Only
    <2>2. CASE u # NoUpdate
      <3>1. PICK status \in Statuses, at \in Nat : u = [id |-> i, status |-> status, at |-> at]
        BY <2>2 DEF Waiting
      <3>2. i \notin Own
        BY <2>2 DEF Waiting
      <3>3. QED
        BY <2>2, <3>1, <3>2, UpdateFacts DEF Kept
    <2>3. QED
      BY <2>1, <2>2
  <1> HIDE DEF n
  <1>3. RegistryOK(n) /\ pendEvt[i] \in Seq(Event(i)) /\ (i \in Own => pendEvt[i] = <<>>)
    BY <1>2 DEF Waiting, Kept
  <1>4. Kept(n, q, i) /\ (i \in Own => q = n)
    BY <1>1, <1>3, EventsFacts
  <1>5. QED
    BY <1>2, <1>4, KeptTwice

(* Between a change and its save the entries are right, the file may lag.  *)
Sound(m) == Shape(m) /\ EntriesOK(m)

LEMMA SoundChange ==
    ASSUME NEW m, Sound(m), NEW i \in Ids, NEW e \in Entry, EntryOK(i, e),
           NEW n, n \in {With(m, i, e), Emit(With(m, i, e)), EmitDebounced(With(m, i, e))}
    PROVE  Sound(n) /\ Only(m, n, i) /\ n.entries[i] = e /\ n.saved = m.saved
  <1> DEFINE w == With(m, i, e)
  <1>1. Shape(w) /\ w.saved = m.saved /\ w.entries[i] = e /\ Only(m, w, i)
    BY WithFacts DEF Sound
  <1> HIDE DEF w
  <1>2. Shape(n) /\ n.saved = w.saved /\ n.entries = w.entries
    BY <1>1, EmitFacts DEF w
  <1>3. QED
    BY <1>1, <1>2 DEF Sound, EntriesOK, Only

LEMMA SoundEntry ==
    ASSUME NEW m, Sound(m), NEW i \in Ids
    PROVE  m.entries[i] \in Entry /\ EntryOK(i, m.entries[i])
  BY DEF Sound, Shape, EntriesOK

LEMMA CreateFacts ==
    ASSUME NEW m, Sound(m), NEW i \in Ids, NEW name \in Names, name # "none",
           NEW n, n = CreateSession(m, i, name, NoRef)
    PROVE  /\ Sound(n) /\ Only(m, n, i)
           /\ n.entries[i].status = "needs_attention" /\ n.entries[i].updAt = 0
           /\ n.entries[i].meta = m.entries[i].meta
  <1> DEFINE e == m.entries[i]
             g == [e EXCEPT !.status = "needs_attention", !.updAt = 0, !.name = name, !.ref = e.ref]
  <1>1. e \in Entry /\ EntryOK(i, e)
    BY SoundEntry
  <1>2. /\ g \in Entry /\ g.status = "needs_attention" /\ g.updAt = 0 /\ g.meta = e.meta
        /\ g.name = name /\ g.ref = e.ref
    BY <1>1 DEF Entry, Statuses
  <1>3. n \in {With(m, i, g), Emit(With(m, i, g)), EmitDebounced(With(m, i, g))}
    BY DEF CreateSession
  <1> HIDE DEF g
  <1>4. EntryOK(i, g)
    BY <1>1, <1>2 DEF EntryOK, Over
  <1>5. QED
    BY <1>2, <1>3, <1>4, SoundChange

(* A method gave the entry of i another name, its metadata, or nothing. *)
Gentle(m, n, i) ==
    /\ Sound(n) /\ Only(m, n, i) /\ n.entries[i].status = m.entries[i].status
    /\ n.entries[i].updAt = m.entries[i].updAt /\ (m.entries[i].meta => n.entries[i].meta)

LEMMA RenameFacts ==
    ASSUME NEW m, Sound(m), NEW i \in Ids, NEW name \in Names, name # "none",
           NEW n, n = RenameSession(m, i, name)
    PROVE  Gentle(m, n, i)
  <1> DEFINE e == m.entries[i]
             g == [e EXCEPT !.name = name]
  <1>1. e \in Entry /\ EntryOK(i, e)
    BY SoundEntry
  <1>2. /\ g \in Entry /\ g.status = e.status /\ g.updAt = e.updAt /\ g.meta = e.meta
        /\ g.name = name /\ g.ref = e.ref
    BY <1>1 DEF Entry
  <1>3. n \in {m, Emit(With(m, i, g))}
    BY DEF RenameSession
  <1> HIDE DEF g
  <1>4. EntryOK(i, g)
    BY <1>1, <1>2 DEF EntryOK
  <1>5. QED
    BY <1>2, <1>3, <1>4, SoundChange DEF Gentle, Only

LEMMA MetadataFacts ==
    ASSUME NEW m, Sound(m), NEW i \in Live(m),
           NEW n, n = WithMetadata(m, i)
    PROVE  Gentle(m, n, i) /\ n.entries[i].meta
  <1> DEFINE e == m.entries[i]
             g == [e EXCEPT !.meta = TRUE]
             c == SetClientMetadata(m, i)
  <1>1. e \in Entry /\ EntryOK(i, e) /\ i \in Ids
    BY SoundEntry DEF Live
  <1>2. /\ g \in Entry /\ g.status = e.status /\ g.updAt = e.updAt /\ g.meta
        /\ g.name = e.name /\ g.ref = e.ref
    BY <1>1 DEF Entry
  <1>3. (c = m /\ e.meta) \/ c = Emit(With(m, i, g))
    BY <1>1 DEF SetClientMetadata, Entry
  <1> HIDE DEF g, c
  <1>4. EntryOK(i, g)
    BY <1>1, <1>2 DEF EntryOK
  <1>5. Gentle(m, c, i) /\ c.entries[i].meta
    BY <1>1, <1>2, <1>3, <1>4, SoundChange DEF Gentle, Only
  <1>6. n = c \/ n = RenameSession(c, i, "folder")
    BY DEF WithMetadata, MaybeRename, c
  <1>7. Gentle(c, n, i)
    <2>1. CASE n = c
      BY <1>5, <2>1 DEF Gentle, Only
    <2>2. CASE n = RenameSession(c, i, "folder")
      <3>1. Sound(c)
        BY <1>5 DEF Gentle
      <3>2. "folder" \in Names /\ "folder" # "none"
        BY DEF Names
      <3>3. QED
        BY <1>1, <2>2, <3>1, <3>2, RenameFacts
    <2>3. QED
      BY <1>6, <2>1, <2>2
  <1>8. QED
    BY <1>5, <1>7 DEF Gentle, Only

LEMMA RemoveFacts ==
    ASSUME NEW m, Sound(m), NEW i \in Ids,
           NEW n, n = RemoveSession(m, i)
    PROVE  Sound(n) /\ Only(m, n, i) /\ n.entries[i].status = "none"
  <1>1. CASE i \in Live(m)
    <2>1. n = Emit(With(m, i, Absent))
      BY <1>1 DEF RemoveSession
    <2>2. EntryOK(i, Absent) /\ Absent \in Entry
      BY AbsentFacts DEF EntryOK, Over
    <2>3. QED
      BY <2>1, <2>2, SoundChange, AbsentFacts
  <1>2. CASE i \notin Live(m)
    BY <1>2 DEF RemoveSession, Live, Only
  <1>3. QED
    BY <1>1, <1>2

LEMMA PauseFacts ==
    ASSUME NEW m, Sound(m), NEW i \in Ids, i \notin Own,
           NEW n, n = PauseSession(m, i)
    PROVE  /\ Sound(n) /\ Only(m, n, i) /\ (n.entries[i].status = "none" <=> m.entries[i].status = "none")
           /\ m.entries[i].meta => n.entries[i].meta
  <1> DEFINE e == m.entries[i]
             g == [m.entries[i] EXCEPT !.status = "paused"]
  <1>1. e \in Entry /\ EntryOK(i, e)
    BY SoundEntry
  <1>2. g \in Entry /\ g.status = "paused" /\ g.name = e.name /\ g.meta = e.meta
    BY <1>1 DEF Entry, Statuses
  <1>3. n = m \/ (n = Emit(With(m, i, g)) /\ e.status # "none")
    BY DEF PauseSession
  <1> HIDE DEF g
  <1>4. EntryOK(i, g) \/ e.status = "none"
    BY <1>1, <1>2 DEF EntryOK
  <1>5. QED
    BY <1>2, <1>3, <1>4, SoundChange DEF Only

(* A git check leaves the status and the file alone. *)
LEMMA GitFacts ==
    ASSUME NEW m, RegistryOK(m), NEW i \in Ids,
           NEW n, n = GitChecked(m, i)
    PROVE  RegistryOK(n) /\ Gentle(m, n, i)
  <1> DEFINE e == m.entries[i]
             g == [e EXCEPT !.git = ~e.git]
  <1>1. e \in Entry /\ EntryOK(i, e) /\ Sound(m)
    BY EntryFacts DEF RegistryOK, Sound
  <1>2. /\ g \in Entry /\ g.status = e.status /\ g.updAt = e.updAt /\ g.meta = e.meta
        /\ g.name = e.name /\ g.ref = e.ref
    BY <1>1 DEF Entry
  <1>3. n = EmitDebounced(With(m, i, g))
    BY DEF GitChecked
  <1> HIDE DEF g
  <1>4. EntryOK(i, g)
    BY <1>1, <1>2 DEF EntryOK
  <1>5. Gentle(m, n, i) /\ Change(m, n, i)
    <2>1. Sound(n) /\ Only(m, n, i) /\ n.entries[i] = g /\ n.saved = m.saved
      BY <1>1, <1>2, <1>3, <1>4, SoundChange
    <2>2. QED
      BY <1>2, <1>4, <2>1 DEF Gentle, Change, Sound
  <1>6. QED
    BY <1>5, ChangeFacts DEF Gentle

LEMMA SavedFacts ==
    ASSUME NEW m, Sound(m)
    PROVE  RegistryOK(Save(m)) /\ Save(m).entries = m.entries
  BY SaveFacts DEF Sound

-----------------------------------------------------------------------------
(* The inductive invariant.                                                *)

(* A POST that someone may send: of an own shell, none changes the status  *)
(* but the gateway's.                                                      *)
PostOK(p) ==
    /\ p.id \in Ids
    /\ p.op \in {"create", "remove", "rename", "touch", "pause", "update", "event", "status", "meta"}
    /\ p.op \in {"pause", "update", "event"} => p.id \notin Own
    /\ p.op \in {"status", "meta"} => p.id \in Shells
    /\ p.op = "create" => p.name \in {"auto", "user"}
    /\ p.op = "status" => p.status \in {"working", "needs_input"} /\ p.at \in Nat
    /\ p.op = "update" => p.status \in {"running", "stopped"} /\ p.at \in Nat
    /\ p.op = "event" => /\ p.ref \in Refs \cup {NoRef} /\ p.at \in Nat
                         /\ p.kind \in EventKinds /\ p.status \in EventOutcomes(p.kind)

PostsOK == \A p \in posts : PostOK(p)

QueuesOK ==
    /\ DOMAIN pendUpd = Ids /\ DOMAIN pendEvt = Ids
    /\ \A i \in Ids : Waiting(i, pendUpd[i], pendEvt[i])

(* The maps know registered sessions only; terminals are bound to others'. *)
TablesOK ==
    /\ removed \subseteq Ids /\ pendMeta \subseteq Ids
    /\ mapped \subseteq Live(mgr)
    /\ \A r \in DOMAIN refMap : refMap[r] \in Ids /\ refMap[r] \notin Own

(* What was told of a registered shell is what its entry shows. *)
ToldOK ==
    /\ DOMAIN told = Shells
    /\ \A i \in Own :
          /\ DOMAIN told[i] = {"at", "says"}
          /\ i \in Live(mgr) => /\ told[i].at = mgr.entries[i].updAt
                                /\ told[i].says # {} => mgr.entries[i].status \in told[i].says

ClocksOK ==
    now \in Nat /\ damaged \in BOOLEAN /\ shell \in [Shells -> {"unborn", "alive", "gone"}]

(* What decides which sessions exist: these POSTs must not be lost. *)
Vital == {"create", "remove", "meta"}

(* A removal has been sent, by the gateway or by a client. *)
Removing(i) == i \in removed \/ \E p \in posts : p.id = i /\ p.op = "remove"

(* Whatever a shell's session still lacks is on its way.                   *)
ShellOK(i) ==
    /\ Removing(i) <=> shell[i] = "gone" \/ i \in dismissed
    /\ shell[i] = "unborn" => /\ \A p \in posts : p.id = i => p.op \notin {"create", "meta"}
                              /\ i \notin Live(mgr) /\ i \notin pendMeta
    /\ shell[i] = "alive" /\ ~Removing(i) =>
          /\ (\E p \in posts : p.id = i /\ p.op = "create") \/ i \in Live(mgr)
          /\ \/ \E p \in posts : p.id = i /\ p.op = "meta"
             \/ i \in pendMeta
             \/ i \in Live(mgr) /\ mgr.entries[i].meta

ShellsOK == damaged \/ \A i \in Shells : ShellOK(i)

IInv ==
    /\ RegistryOK(mgr) /\ PostsOK /\ QueuesOK /\ TablesOK /\ NothingLeftPending
    /\ ToldOK /\ ClocksOK /\ ShellsOK

LEMMA InitInv == Init => IInv
  <1> SUFFICES ASSUME Init PROVE IInv
    OBVIOUS
  <1>1. /\ DOMAIN mgr = {"entries", "shown", "timer", "saved"}
        /\ mgr.entries = [i \in Ids |-> Absent] /\ mgr.saved = [i \in Ids |-> Absent]
    BY DEF Init, RegistryInit
  <1>2. \A i \in Ids : mgr.entries[i] = Absent /\ mgr.saved[i] = Absent
    BY <1>1
  <1>3. RegistryOK(mgr)
    <2>1. \A i \in Ids : EntryOK(i, Absent) /\ FileOK(i, Absent, Absent)
      BY AbsentFacts DEF EntryOK, FileOK, Over
    <2>2. Shape(mgr)
      BY <1>1, AbsentFacts DEF Shape
    <2>3. QED
      BY <1>2, <2>1, <2>2 DEF RegistryOK, EntriesOK
  <1>4. Live(mgr) = {}
    BY <1>2, AbsentFacts DEF Live
  <1>5. PostsOK /\ QueuesOK
    BY DEF Init, PostsOK, QueuesOK, Waiting
  <1>6. TablesOK /\ NothingLeftPending
    BY <1>4 DEF Init, TablesOK, NothingLeftPending
  <1>7. ToldOK
    BY <1>4 DEF Init, ToldOK, Untold, Own
  <1>8. ClocksOK /\ ShellsOK
    BY <1>4 DEF Init, ClocksOK, ShellsOK, ShellOK, Removing
  <1>9. QED
    BY <1>3, <1>5, <1>6, <1>7, <1>8 DEF IInv

(* The sessions are those there were, and no shell's lost its metadata.    *)
Stays(m, n) ==
    /\ RegistryOK(n) /\ Live(n) = Live(m)
    /\ \A j \in Shells : m.entries[j].meta => n.entries[j].meta

(* ... and the shells' entries say what they did. *)
Same(m, n) ==
    /\ Stays(m, n)
    /\ \A j \in Own : /\ n.entries[j].status = m.entries[j].status
                         /\ n.entries[j].updAt = m.entries[j].updAt

LEMMA SameItself ==
    ASSUME NEW m, RegistryOK(m)
    PROVE  Same(m, m)
  BY DEF Same, Stays

LEMMA SameFromKept ==
    ASSUME NEW m, NEW n, NEW i \in Ids, i \notin Own, Kept(m, n, i)
    PROVE  Same(m, n)
  BY BackendAssumption DEF Same, Stays, Kept, Only, Live, Own

LEMMA SameFromGentle ==
    ASSUME NEW m, NEW n, NEW i \in Ids, Gentle(m, n, i),
           NEW q, RegistryOK(q), q.entries = n.entries
    PROVE  Same(m, q)
  BY BackendAssumption DEF Same, Stays, Gentle, Only, Live, Own

(* No POST that decides which of the shells' sessions exist was sent, and  *)
(* none went, unless the history says so.                                  *)
OnTheirWay ==
    /\ \A p \in posts' : PostOK(p)
    /\ \A p \in posts' : p \in posts \/ p.op \notin Vital \/ p.id \notin Shells
    /\ damaged' \in BOOLEAN /\ (damaged => damaged')
    /\ damaged' \/ \A p \in posts : p.op \in Vital /\ p.id \in Shells => p \in posts'

(* What is left to show of a step that leaves the sessions as they are.    *)
LEMMA SameStep ==
    ASSUME IInv, Stays(mgr, mgr'), OnTheirWay, UNCHANGED <<removed, pendMeta, shell, dismissed>>,
           now' \in Nat, QueuesOK', mapped' \subseteq Live(mgr), ToldOK',
           \A r \in DOMAIN refMap' : refMap'[r] \in Ids /\ refMap'[r] \notin Own,
           \A i \in Live(mgr) \cup removed : pendUpd'[i] = NoUpdate /\ pendEvt'[i] = <<>>
    PROVE  IInv'
  <1>1. RegistryOK(mgr') /\ Live(mgr') = Live(mgr)
    BY DEF Same, Stays
  <1>2. PostsOK' /\ ClocksOK'
    BY DEF OnTheirWay, PostsOK, IInv, ClocksOK
  <1>3. TablesOK'
    BY <1>1 DEF IInv, TablesOK
  <1>4. NothingLeftPending'
    BY <1>1 DEF IInv, NothingLeftPending
  <1>5. ShellsOK'
    <2>1. SUFFICES ASSUME damaged' # TRUE, NEW i \in Shells PROVE ShellOK(i)'
      BY DEF ShellsOK
    <2>2. ShellOK(i) /\ ~damaged'
      BY <2>1 DEF OnTheirWay, IInv, ShellsOK
    <2>3. i \in Ids /\ (i \in Live(mgr) /\ mgr.entries[i].meta => mgr'.entries[i].meta)
      BY BackendAssumption DEF Stays
    <2>4. \A p \in posts' : p \in posts \/ p.op \notin Vital \/ p.id # i
      BY DEF OnTheirWay
    <2>5. \A p \in posts : p.op \in Vital /\ p.id = i => p \in posts'
      BY <2>2 DEF OnTheirWay
    <2>6. Removing(i)' <=> Removing(i)
      BY <2>4, <2>5 DEF Removing, Vital
    <2>7. shell[i] = "unborn" => /\ \A p \in posts' : p.id = i => p.op \notin {"create", "meta"}
                                 /\ i \notin Live(mgr') /\ i \notin pendMeta'
      BY <1>1, <2>2, <2>4 DEF ShellOK, Vital
    <2>8. shell[i] = "alive" /\ ~Removing(i) =>
              /\ (\E p \in posts' : p.id = i /\ p.op = "create") \/ i \in Live(mgr')
              /\ \/ \E p \in posts' : p.id = i /\ p.op = "meta"
                 \/ i \in pendMeta'
                 \/ i \in Live(mgr') /\ mgr'.entries[i].meta
      BY <1>1, <2>2, <2>3, <2>5 DEF ShellOK, Vital
    <2>9. QED
      BY <2>2, <2>6, <2>7, <2>8 DEF ShellOK
  <1>6. QED
    BY <1>1, <1>2, <1>3, <1>4, <1>5 DEF IInv

LEMMA ToldSame ==
    ASSUME IInv, Same(mgr, mgr'), told' = told
    PROVE  ToldOK'
  BY DEF IInv, ToldOK, Same, Stays

LEMMA NothingNew ==
    ASSUME IInv, NEW p \in posts, posts' = posts \ {p}, damaged' = damaged,
           p.op \notin Vital \/ p.id \notin Shells
    PROVE  OnTheirWay
  BY DEF OnTheirWay, IInv, PostsOK, ClocksOK

(* An update meets the session, or waits for it. *)
LEMMA HandleFacts ==
    ASSUME IInv, NEW i \in Ids, NEW status \in Statuses, NEW at \in Nat,
           i \in Own => i \in Live(mgr) /\ status \notin Over \cup {"paused"},
           HandleTerminalUpdate([id |-> i, status |-> status, at |-> at]), pendEvt' = pendEvt
    PROVE  /\ RegistryOK(mgr') /\ Only(mgr, mgr', i) /\ Live(mgr') = Live(mgr)
           /\ QueuesOK'
           /\ \A j \in Live(mgr) \cup removed : pendUpd'[j] = NoUpdate /\ pendEvt'[j] = <<>>
           /\ mgr'.entries[i].meta = mgr.entries[i].meta
           /\ i \in Own =>
                 IF at < mgr.entries[i].updAt THEN mgr'.entries[i] = mgr.entries[i]
                 ELSE mgr'.entries[i].status = status /\ mgr'.entries[i].updAt = at
  <1> DEFINE u == [id |-> i, status |-> status, at |-> at]
             n == AppliedUpdate(mgr, u)
  <1>1. u.id = i /\ u \in [id : {i}, status : Statuses, at : Nat]
    OBVIOUS
  <1>2. RegistryOK(mgr) /\ QueuesOK /\ NothingLeftPending
    BY DEF IInv
  <1>3. \A j \in Live(mgr) \cup removed : pendUpd[j] = NoUpdate /\ pendEvt[j] = <<>>
    BY <1>2 DEF NothingLeftPending
  <1>4. /\ RegistryOK(n) /\ Only(mgr, n, i)
        /\ n.entries[i].status = "none" <=> mgr.entries[i].status = "none"
        /\ n.entries[i].meta = mgr.entries[i].meta
        /\ i \in Own /\ mgr.entries[i].status # "none" =>
              IF at < mgr.entries[i].updAt THEN n.entries[i] = mgr.entries[i]
              ELSE n.entries[i].status = status /\ n.entries[i].updAt = at
    BY <1>2, UpdateFacts
  <1> HIDE DEF n
  <1>5. Live(n) = Live(mgr)
    BY <1>4 DEF Live, Only
  <1>6. \/ i \in removed /\ UNCHANGED <<mgr, pendUpd>>
        \/ i \in Live(mgr) /\ mgr' = n /\ UNCHANGED pendUpd
        \/ /\ i \notin removed /\ i \notin Live(mgr)
           /\ pendUpd' = [pendUpd EXCEPT ![i] = u] /\ UNCHANGED mgr
    BY <1>1 DEF HandleTerminalUpdate, n
  <1>7. CASE i \in removed /\ UNCHANGED <<mgr, pendUpd>>
    <2>1. i \notin Own
      BY <1>2, <1>7 DEF NothingLeftPending
    <2>2. QED
      BY <1>2, <1>3, <1>7, <2>1 DEF QueuesOK, Only
  <1>8. CASE i \in Live(mgr) /\ mgr' = n /\ UNCHANGED pendUpd
    <2>1. mgr.entries[i].status # "none"
      BY <1>8 DEF Live
    <2>2. QED
      BY <1>2, <1>3, <1>4, <1>5, <1>8, <2>1 DEF QueuesOK
  <1>9. CASE /\ i \notin removed /\ i \notin Live(mgr)
             /\ pendUpd' = [pendUpd EXCEPT ![i] = u] /\ UNCHANGED mgr
    <2>1. i \notin Own
      BY <1>9
    <2>2. pendUpd'[i] = u /\ \A j \in Ids \ {i} : pendUpd'[j] = pendUpd[j]
      BY <1>2, <1>9 DEF QueuesOK
    <2>3. DOMAIN pendUpd' = Ids
      BY <1>2, <1>9 DEF QueuesOK
    <2> HIDE DEF u
    <2>4. Waiting(i, pendUpd'[i], pendEvt'[i])
      BY <1>1, <1>2, <2>1, <2>2 DEF QueuesOK, Waiting
    <2>5. QueuesOK'
      BY <1>2, <2>2, <2>3, <2>4 DEF QueuesOK
    <2>6. \A j \in Live(mgr) \cup removed : pendUpd'[j] = NoUpdate
      BY <1>3, <1>9, <2>2, <1>2 DEF Live, IInv, TablesOK
    <2>7. QED
      BY <1>2, <1>3, <1>9, <2>1, <2>5, <2>6 DEF Only
  <1>10. QED
    BY <1>6, <1>7, <1>8, <1>9

LEMMA UpdatePostStep ==
    ASSUME IInv, NEW p \in posts, posts' = posts \ {p}, UNCHANGED <<env, damaged>>, TerminalUpdatePost(p)
    PROVE  IInv'
  <1>1. /\ p.op = "update" /\ p.id \in Ids /\ p.id \notin Own /\ p.status \in Statuses /\ p.at \in Nat
        /\ HandleTerminalUpdate([id |-> p.id, status |-> p.status, at |-> p.at])
        /\ UNCHANGED <<removed, mapped, refMap, pendEvt, pendMeta, told>>
    BY DEF TerminalUpdatePost, IInv, PostsOK, PostOK, Statuses
  <1>2. /\ RegistryOK(mgr') /\ Only(mgr, mgr', p.id) /\ Live(mgr') = Live(mgr) /\ QueuesOK'
        /\ \A j \in Live(mgr) \cup removed : pendUpd'[j] = NoUpdate /\ pendEvt'[j] = <<>>
        /\ mgr'.entries[p.id].meta = mgr.entries[p.id].meta
    BY <1>1, HandleFacts
  <1>3. Same(mgr, mgr')
    BY <1>1, <1>2, BackendAssumption DEF Same, Stays, Only, Own
  <1>4. OnTheirWay
    BY <1>1, NothingNew DEF Vital
  <1>5. ToldOK'
    BY <1>1, <1>3, ToldSame
  <1>6. now' \in Nat /\ UNCHANGED <<shell, dismissed>>
    BY DEF env, IInv, ClocksOK
  <1>7. mapped' \subseteq Live(mgr) /\ \A r \in DOMAIN refMap' : refMap'[r] \in Ids /\ refMap'[r] \notin Own
    BY <1>1 DEF IInv, TablesOK
  <1>8. QED
    BY <1>1, <1>2, <1>3, <1>4, <1>5, <1>6, <1>7, SameStep DEF Same

LEMMA QueuedFacts ==
    ASSUME NEW T, NEW q \in Seq(T), NEW ev \in T
    PROVE  Queued(q, ev) \in Seq(T)
  <1> DEFINE r == Append(q, ev)
  <1>1. r \in Seq(T) /\ r # <<>>
    BY AppendProperties
  <1>2. Queued(q, ev) \in {r, Tail(r)}
    BY DEF Queued
  <1> HIDE DEF r
  <1>3. QED
    BY <1>1, <1>2

LEMMA EventPostStep ==
    ASSUME IInv, NEW p \in posts, posts' = posts \ {p}, UNCHANGED <<env, damaged>>, TerminalEventPost(p)
    PROVE  IInv'
  <1> DEFINE i == TaskOf(p)
             ev == [id |-> i, ref |-> p.ref, at |-> p.at, kind |-> p.kind, status |-> p.status]
             m == BindSessionToTerminal(mgr, i, p.ref)
             n == AppliedEvent(m, ev)
  <1>1. /\ p.op = "event" /\ p.id \in Ids /\ p.id \notin Own /\ p.ref \in Refs \cup {NoRef}
        /\ p.at \in Nat /\ p.kind \in EventKinds /\ p.status \in Statuses \cup {"same"}
    BY OutcomeFacts DEF TerminalEventPost, IInv, PostsOK, PostOK
  <1>2. RegistryOK(mgr) /\ QueuesOK /\ NothingLeftPending /\ TablesOK
    BY DEF IInv
  <1>3. i \in Ids /\ i \notin Own
    BY <1>1, <1>2 DEF TaskOf, TablesOK
  <1> HIDE DEF i
  <1>4. ev \in Event(i)
    BY <1>1 DEF Event
  <1> HIDE DEF ev
  <1>5. Kept(mgr, m, i)
    BY <1>1, <1>2, <1>3, BindFacts DEF Kept
  <1> HIDE DEF m
  <1>6. Kept(m, n, i)
    BY <1>3, <1>4, <1>5, EventFacts DEF Kept
  <1> HIDE DEF n
  <1>7. Live(m) = Live(mgr)
    BY <1>5 DEF Kept, Only, Live
  <1>8. /\ refMap' = BoundRefs(i, p.ref)
        /\ \/ i \in removed /\ mgr' = m /\ UNCHANGED pendEvt
           \/ mgr' = n /\ UNCHANGED pendEvt
           \/ /\ i \notin removed /\ i \notin Live(m)
              /\ mgr' = m /\ pendEvt' = [pendEvt EXCEPT ![i] = Queued(@, ev)]
        /\ UNCHANGED <<removed, mapped, pendUpd, pendMeta, told>>
    BY DEF TerminalEventPost, i, ev, m, n
  <1>9. Same(mgr, mgr')
    BY <1>3, <1>5, <1>6, <1>8, KeptTwice, SameFromKept
  <1>10. \A r \in DOMAIN refMap' : refMap'[r] \in Ids /\ refMap'[r] \notin Own
    <2> DEFINE kept == DOMAIN refMap \ (IF p.ref # NoRef /\ mgr.entries[i].ref # p.ref
                                        THEN {mgr.entries[i].ref} ELSE {})
    <2>1. refMap' = [r \in kept \cup ({p.ref} \ {NoRef}) |-> IF r = p.ref THEN i ELSE refMap[r]]
      BY <1>8 DEF BoundRefs
    <2>2. kept \subseteq DOMAIN refMap
      OBVIOUS
    <2> HIDE DEF kept
    <2>3. QED
      BY <1>2, <1>3, <2>1, <2>2 DEF TablesOK
  <1>11. QueuesOK' /\ \A j \in Live(mgr) \cup removed : pendUpd'[j] = NoUpdate /\ pendEvt'[j] = <<>>
    <2>1. CASE UNCHANGED pendEvt
      BY <1>2, <1>8, <2>1 DEF QueuesOK, NothingLeftPending
    <2>2. CASE /\ i \notin removed /\ i \notin Live(m)
               /\ pendEvt' = [pendEvt EXCEPT ![i] = Queued(@, ev)]
      <3>1. /\ DOMAIN pendEvt' = Ids /\ pendEvt'[i] = Queued(pendEvt[i], ev)
            /\ \A j \in Ids \ {i} : pendEvt'[j] = pendEvt[j]
        BY <1>2, <1>3, <2>2 DEF QueuesOK
      <3>2. Waiting(i, pendUpd[i], pendEvt'[i])
        BY <1>2, <1>3, <1>4, <3>1, QueuedFacts DEF QueuesOK, Waiting
      <3>3. QueuesOK'
        BY <1>2, <1>8, <3>1, <3>2 DEF QueuesOK
      <3>4. Live(mgr) \cup removed \subseteq Ids \ {i}
        BY <1>2, <1>7, <2>2 DEF Live, TablesOK
      <3>5. QED
        BY <1>2, <1>8, <3>1, <3>3, <3>4 DEF NothingLeftPending
    <2>3. QED
      BY <1>8, <2>1, <2>2
  <1>12. OnTheirWay
    BY <1>1, NothingNew DEF Vital
  <1>13. ToldOK' /\ now' \in Nat /\ UNCHANGED <<shell, dismissed>> /\ mapped' \subseteq Live(mgr)
    BY <1>2, <1>8, <1>9, ToldSame DEF env, IInv, ClocksOK, TablesOK
  <1>14. QED
    BY <1>8, <1>9, <1>10, <1>11, <1>12, <1>13, SameStep DEF Same

(* Steps that leave the tables alone: only the sessions' looks change, or  *)
(* POSTs come and go that decide nothing.                                  *)
LEMMA PlainStep ==
    ASSUME IInv, Same(mgr, mgr'), OnTheirWay, UNCHANGED <<shell, dismissed>>, now' \in Nat,
           UNCHANGED <<removed, mapped, refMap, pendUpd, pendEvt, pendMeta, told>>
    PROVE  IInv'
  <1>1. QueuesOK' /\ mapped' \subseteq Live(mgr)
    BY DEF IInv, QueuesOK, TablesOK
  <1>2. ToldOK'
    BY ToldSame
  <1>3. \A r \in DOMAIN refMap' : refMap'[r] \in Ids /\ refMap'[r] \notin Own
    BY DEF IInv, TablesOK
  <1>4. \A i \in Live(mgr) \cup removed : pendUpd'[i] = NoUpdate /\ pendEvt'[i] = <<>>
    BY DEF IInv, NothingLeftPending
  <1>5. QED
    BY <1>1, <1>2, <1>3, <1>4, SameStep DEF Same

LEMMA TouchFacts ==
    ASSUME NEW m, RegistryOK(m), NEW n, n.entries = m.entries, n.saved = m.saved, Shape(n)
    PROVE  Same(m, n)
  BY DEF Same, Stays, RegistryOK, EntriesOK, Live

LEMMA DeliverPlain ==
    ASSUME IInv, NEW p \in posts, posts' = posts \ {p}, UNCHANGED <<env, damaged>>,
           RenameSessionPost(p) \/ TouchSessionPost(p) \/ PauseSessionPost(p)
    PROVE  IInv'
  <1>1. /\ p.op \in {"rename", "touch", "pause"} /\ p.id \in Ids
        /\ UNCHANGED <<removed, mapped, refMap, pendUpd, pendEvt, pendMeta, told>>
    BY DEF RenameSessionPost, TouchSessionPost, PauseSessionPost, IInv, PostsOK, PostOK
  <1>2. RegistryOK(mgr) /\ Sound(mgr)
    BY DEF IInv, RegistryOK, Sound
  <1>3. OnTheirWay
    BY <1>1, NothingNew DEF Vital
  <1>4. now' \in Nat /\ UNCHANGED <<shell, dismissed>>
    BY DEF env, IInv, ClocksOK
  <1>5. CASE RenameSessionPost(p)
    <2> DEFINE n == RenameSession(mgr, p.id, "user")
    <2>1. Gentle(mgr, n, p.id)
      BY <1>1, <1>2, RenameFacts DEF Names
    <2> HIDE DEF n
    <2>2. RegistryOK(Save(n)) /\ Save(n).entries = n.entries
      BY <2>1, SavedFacts DEF Gentle
    <2>3. Same(mgr, Save(n))
      BY <1>1, <2>1, <2>2, SameFromGentle
    <2>4. mgr' = Save(n) \/ mgr' = mgr
      BY <1>5 DEF RenameSessionPost, n
    <2>5. Same(mgr, mgr')
      BY <1>2, <2>3, <2>4, SameItself
    <2>6. QED
      BY <1>1, <1>3, <1>4, <2>5, PlainStep
  <1>6. CASE TouchSessionPost(p)
    <2>1. mgr' = Emit(mgr) \/ mgr' = mgr
      BY <1>6 DEF TouchSessionPost, TouchSession
    <2>2. Same(mgr, Emit(mgr))
      BY <1>2, EmitFacts, TouchFacts DEF Sound
    <2>3. Same(mgr, mgr')
      BY <1>2, <2>1, <2>2, SameItself
    <2>4. QED
      BY <1>1, <1>3, <1>4, <2>3, PlainStep
  <1>7. CASE PauseSessionPost(p)
    <2> DEFINE n == PauseSession(mgr, p.id)
    <2>1. p.id \notin Own
      BY <1>7 DEF PauseSessionPost, IInv, PostsOK, PostOK
    <2>2. /\ Sound(n) /\ Only(mgr, n, p.id) /\ (n.entries[p.id].status = "none" <=> mgr.entries[p.id].status = "none")
          /\ mgr.entries[p.id].meta => n.entries[p.id].meta
      BY <1>1, <1>2, <2>1, PauseFacts
    <2> HIDE DEF n
    <2>3. Kept(mgr, Save(n), p.id)
      BY <2>2, SavedFacts DEF Kept, Only
    <2>4. mgr' = Save(n) \/ mgr' = mgr
      BY <1>7 DEF PauseSessionPost, n
    <2>5. Same(mgr, mgr')
      BY <1>1, <1>2, <2>1, <2>3, <2>4, SameFromKept, SameItself
    <2>6. QED
      BY <1>1, <1>3, <1>4, <2>5, PlainStep
  <1>8. QED
    BY <1>5, <1>6, <1>7

(* A step about one session is none about a shell of another id. *)
LEMMA OtherShell ==
    ASSUME IInv, ~damaged, NEW j \in Shells,
           \A q \in posts \cup posts' : q.id = j => (q \in posts <=> q \in posts'),
           shell'[j] = shell[j], mgr'.entries[j] = mgr.entries[j], j \in dismissed' <=> j \in dismissed,
           j \in removed' <=> j \in removed, j \in pendMeta' <=> j \in pendMeta
    PROVE  ShellOK(j)'
  <1>1. ShellOK(j)
    BY DEF IInv, ShellsOK
  <1>2. j \in Live(mgr') <=> j \in Live(mgr)
    BY BackendAssumption DEF Live
  <1>3. Removing(j)' <=> Removing(j)
    BY DEF Removing
  <1>4. QED
    BY <1>1, <1>2, <1>3 DEF ShellOK

(* The steps that are no delivery and leave every table alone. *)
LEMMA OtherPlain ==
    ASSUME IInv,
           \/ \E p \in posts : Lose(p)
           \/ \E i \in Ids : GitCheck(i) \/ ClientPost(i)
           \/ \E i \in Shells : StatusChanged(i)
           \/ TimerFires \/ Tick
    PROVE  IInv'
  <1>1. /\ RegistryOK(mgr) /\ now \in Nat /\ damaged \in BOOLEAN /\ Same(mgr, mgr)
        /\ \A p \in posts : PostOK(p)
    BY SameItself DEF IInv, ClocksOK, PostsOK
  <1>2. ASSUME posts' = posts, damaged' = damaged PROVE OnTheirWay
    BY <1>1, <1>2 DEF OnTheirWay
  <1>3. ASSUME NEW p \in posts, Lose(p) PROVE IInv'
    <2>1. /\ posts' = posts \ {p} /\ damaged' = (damaged \/ p.op \in Vital)
          /\ UNCHANGED <<shell, dismissed>> /\ now' = now /\ mgr' = mgr
          /\ UNCHANGED <<removed, mapped, refMap, pendUpd, pendEvt, pendMeta, told>>
      BY <1>3 DEF Lose, Vital, tables, env
    <2>2. OnTheirWay
      BY <1>1, <2>1 DEF OnTheirWay
    <2>3. QED
      BY <1>1, <2>1, <2>2, PlainStep
  <1>4. ASSUME NEW i \in Ids, GitCheck(i) PROVE IInv'
    <2>1. /\ mgr' = GitChecked(mgr, i) /\ posts' = posts /\ damaged' = damaged /\ UNCHANGED <<shell, dismissed>> /\ now' = now
          /\ UNCHANGED <<removed, mapped, refMap, pendUpd, pendEvt, pendMeta, told>>
      BY <1>4 DEF GitCheck
    <2>2. RegistryOK(mgr') /\ Gentle(mgr, mgr', i)
      BY <1>1, <2>1, GitFacts
    <2>3. Same(mgr, mgr')
      BY <2>2, SameFromGentle
    <2>4. QED
      BY <1>1, <1>2, <2>1, <2>3, PlainStep
  <1>5. ASSUME NEW i \in Ids, ClientPost(i) PROVE IInv'
    <2>1. PICK p \in PostsFor(i) :
                 /\ p.op \in ClientPosts \cap Offered(i) /\ posts' = posts \cup {p}
                 /\ dismissed' = IF p.op = "remove" THEN dismissed \cup {i} ELSE dismissed
      BY <1>5 DEF ClientPost
    <2>2. /\ damaged' = damaged /\ shell' = shell /\ now' = now /\ mgr' = mgr
          /\ UNCHANGED <<removed, mapped, refMap, pendUpd, pendEvt, pendMeta, told>>
      BY <1>5 DEF ClientPost, tables
    <2>3. /\ p.op \in {"create", "pause", "update", "event"} => i \notin Own
          /\ p.op = "create" => i \notin Shells
      BY <2>1 DEF Offered, Own
    <2>4. p.id = i /\ PostOK(p)
      <3>1. CASE p \in [op : {"create"}, id : {i}, name : {"user"}]
        BY <2>1, <3>1 DEF PostOK
      <3>2. CASE p \in [op : {"remove"}, id : {i}, by : {"client"}]
        BY <2>1, <3>2 DEF PostOK
      <3>3. CASE p \in [op : {"rename", "touch", "pause"}, id : {i}]
        BY <2>1, <2>3, <3>3 DEF PostOK
      <3>4. CASE p \in [op : {"update"}, id : {i}, status : {"running", "stopped"}, at : {now}]
        BY <1>1, <2>1, <2>3, <3>4 DEF PostOK
      <3>5. ASSUME NEW k \in EventKinds,
                   p \in [op : {"event"}, id : {i}, ref : Refs \cup {NoRef}, at : {now}, kind : {k},
                          status : EventOutcomes(k)]
            PROVE  p.id = i /\ PostOK(p)
        <4>1. /\ p.op = "event" /\ p.id = i /\ p.ref \in Refs \cup {NoRef} /\ p.at \in Nat /\ p.kind = k
              /\ p.status \in EventOutcomes(k)
          BY <1>1, <3>5
        <4>2. QED
          BY <2>1, <2>3, <4>1 DEF PostOK
      <3>6. QED
        BY <2>1, <3>1, <3>2, <3>3, <3>4, <3>5 DEF PostsFor
    <2>5. CASE p.op # "remove"
      <3>1. p.op \in Vital => i \notin Shells
        <4>1. p.op # "meta"
          BY <2>1 DEF Offered
        <4>2. QED
          BY <2>3, <2>5, <4>1 DEF Vital
      <3>2. OnTheirWay
        BY <1>1, <2>1, <2>2, <2>4, <3>1 DEF OnTheirWay
      <3>3. QED
        BY <1>1, <2>1, <2>2, <2>5, <3>2, PlainStep
    <2>6. CASE p.op = "remove"
      <3>1. dismissed' = dismissed \cup {i} /\ posts' = posts \cup {p} /\ p.id = i
        BY <2>1, <2>4, <2>6
      <3>2. RegistryOK(mgr') /\ QueuesOK' /\ TablesOK' /\ NothingLeftPending' /\ ToldOK' /\ PostsOK' /\ ClocksOK'
        BY <1>1, <2>2, <2>4, <3>1
        DEF IInv, QueuesOK, TablesOK, NothingLeftPending, ToldOK, PostsOK, ClocksOK
      <3>3. ShellsOK'
        <4>1. SUFFICES ASSUME ~damaged, NEW j \in Shells PROVE ShellOK(j)'
          BY <2>2 DEF ShellsOK
        <4>2. CASE j # i
          <5>1. \A q \in posts \cup posts' : q.id = j => (q \in posts <=> q \in posts')
            BY <3>1, <4>2
          <5>2. QED
            BY <2>2, <3>1, <4>1, <4>2, <5>1, OtherShell
        <4>3. CASE j = i
          <5>1. ShellOK(j) /\ Removing(j)' /\ j \in dismissed'
            BY <2>6, <3>1, <4>1, <4>3 DEF IInv, ShellsOK, Removing
          <5>2. \A q \in posts' : q.id = j /\ q.op \in {"create", "meta"} => q \in posts
            BY <2>6, <3>1
          <5>3. QED
            BY <2>2, <5>1, <5>2 DEF ShellOK
        <4>4. QED
          BY <4>2, <4>3
      <3>4. QED
        BY <3>2, <3>3 DEF IInv
    <2>7. QED
      BY <2>5, <2>6
  <1>6. ASSUME NEW i \in Shells, StatusChanged(i) PROVE IInv'
    <2>1. PICK s \in {"working", "needs_input"} :
                posts' = posts \cup {[op |-> "status", id |-> i, status |-> s, at |-> now]}
      BY <1>6 DEF StatusChanged
    <2>2. /\ damaged' = damaged /\ UNCHANGED <<shell, dismissed>> /\ now' = now /\ mgr' = mgr
          /\ UNCHANGED <<removed, mapped, refMap, pendUpd, pendEvt, pendMeta, told>>
      BY <1>6 DEF StatusChanged, tables
    <2> DEFINE p == [op |-> "status", id |-> i, status |-> s, at |-> now]
    <2>3. p.op = "status" /\ PostOK(p) /\ posts' = posts \cup {p}
      BY <1>1, <2>1, BackendAssumption DEF PostOK
    <2> HIDE DEF p
    <2>4. OnTheirWay
      BY <1>1, <2>2, <2>3 DEF OnTheirWay, Vital
    <2>5. QED
      BY <1>1, <2>2, <2>4, PlainStep
  <1>7. CASE TimerFires
    <2>1. /\ mgr' = Fire(mgr) /\ posts' = posts /\ damaged' = damaged /\ UNCHANGED <<shell, dismissed>> /\ now' = now
          /\ UNCHANGED <<removed, mapped, refMap, pendUpd, pendEvt, pendMeta, told>>
      BY <1>7 DEF TimerFires, env
    <2>2. Same(mgr, mgr')
      BY <1>1, <2>1, EmitFacts, TouchFacts DEF RegistryOK
    <2>3. QED
      BY <1>1, <1>2, <2>1, <2>2, PlainStep
  <1>8. CASE Tick
    <2>1. /\ now' = now + 1 /\ posts' = posts /\ damaged' = damaged /\ UNCHANGED <<shell, dismissed>> /\ mgr' = mgr
          /\ UNCHANGED <<removed, mapped, refMap, pendUpd, pendEvt, pendMeta, told>>
      BY <1>8 DEF Tick, tables
    <2>2. QED
      BY <1>1, <1>2, <2>1, PlainStep
  <1>9. QED
    BY <1>3, <1>4, <1>5, <1>6, <1>7, <1>8

(* A report of a shell's analyzer: the newest wins, the registry and what  *)
(* was told agree on which that is.                                        *)
LEMMA StatusStep ==
    ASSUME IInv, NEW p \in posts, posts' = posts \ {p}, UNCHANGED <<env, damaged>>, AgentStatusPost(p)
    PROVE  IInv'
  <1> DEFINE i == p.id
             status == Translated(p.status)
             t == told[i]
             e == mgr.entries[i]
             e2 == mgr'.entries[i]
  <1>1. p.op = "status" /\ i \in Ids /\ i \in Shells /\ p.at \in Nat
    BY DEF AgentStatusPost, IInv, PostsOK, PostOK
  <1>2. status \in Statuses /\ status \notin Over \cup {"paused"}
    BY DEF Translated, Statuses, Over
  <1>3. OnTheirWay
    BY <1>1, NothingNew DEF Vital
  <1>4. now' \in Nat /\ UNCHANGED <<shell, dismissed>> /\ UNCHANGED <<removed, refMap, pendEvt, pendMeta>>
    BY DEF env, IInv, ClocksOK, AgentStatusPost
  <1>5. Resolved(i) <=> i \in Live(mgr)
    BY DEF Resolved, IInv, TablesOK
  <1>6. CASE i \notin Live(mgr)
    <2>1. UNCHANGED <<mapped, mgr, pendUpd, told>>
      BY <1>5, <1>6 DEF AgentStatusPost
    <2>2. Same(mgr, mgr')
      BY <2>1, SameItself DEF IInv
    <2>3. QED
      BY <1>3, <1>4, <2>1, <2>2, PlainStep
  <1>7. CASE i \in Live(mgr)
    <2>1. /\ mapped' = mapped \cup {i} /\ told' = [told EXCEPT ![i] = Newest(@, p)]
          /\ HandleTerminalUpdate([id |-> i, status |-> status, at |-> p.at])
      BY <1>5, <1>7 DEF AgentStatusPost
    <2>2. /\ RegistryOK(mgr') /\ Only(mgr, mgr', i) /\ Live(mgr') = Live(mgr) /\ QueuesOK'
          /\ \A j \in Live(mgr) \cup removed : pendUpd'[j] = NoUpdate /\ pendEvt'[j] = <<>>
          /\ e2.meta = e.meta
          /\ i \in Own => IF p.at < e.updAt THEN e2 = e ELSE e2.status = status /\ e2.updAt = p.at
      BY <1>1, <1>2, <1>4, <1>7, <2>1, HandleFacts
    <2>3. Stays(mgr, mgr')
      BY <2>2, BackendAssumption DEF Stays, Only
    <2>4. mapped' \subseteq Live(mgr) /\ \A r \in DOMAIN refMap' : refMap'[r] \in Ids /\ refMap'[r] \notin Own
      BY <1>4, <1>7, <2>1 DEF IInv, TablesOK
    <2>5. /\ DOMAIN told = Shells
          /\ i \in Own => /\ DOMAIN t = {"at", "says"} /\ t.at = e.updAt /\ e.updAt \in Nat
                          /\ t.says # {} => e.status \in t.says
      <3>1. e \in Entry
        BY <1>1, EntryFacts DEF IInv
      <3>2. e.updAt \in Nat
        BY <3>1 DEF Entry
      <3>3. QED
        BY <1>1, <1>7, <3>2 DEF IInv, ToldOK
    <2>6. /\ DOMAIN told' = Shells /\ told'[i] = Newest(t, p)
          /\ \A j \in Shells \ {i} : told'[j] = told[j]
      BY <1>1, <2>1, <2>5
    <2> DEFINE w == Newest(t, p)
    <2>7. ASSUME i \in Own
          PROVE  DOMAIN w = {"at", "says"} /\ w.at = e2.updAt /\ (w.says # {} => e2.status \in w.says)
      <3>0. /\ DOMAIN t = {"at", "says"} /\ t.at = e.updAt /\ e.updAt \in Nat
            /\ t.says # {} => e.status \in t.says
            /\ IF p.at < e.updAt THEN e2 = e ELSE e2.status = status /\ e2.updAt = p.at
        BY <2>2, <2>5, <2>7
      <3>1. CASE p.at > t.at
        <4>0. p.at # t.at
          BY <1>1, <3>0, <3>1
        <4>1. w = [at |-> p.at, says |-> {status}]
          BY <3>1, <4>0, Zenon DEF Newest
        <4>2. e2.status = status /\ e2.updAt = p.at
          BY <1>1, <3>0, <3>1
        <4>3. QED
          BY <4>1, <4>2
      <3>2. CASE p.at = t.at
        <4>0. ~(p.at > t.at)
          BY <3>0, <3>2
        <4>1. w = [t EXCEPT !.says = t.says \cup {status}]
          BY <3>2, <4>0, Zenon DEF Newest
        <4>2. DOMAIN w = {"at", "says"} /\ w.at = t.at /\ w.says = t.says \cup {status}
          BY <3>0, <4>1
        <4>3. e2.status = status /\ e2.updAt = p.at
          BY <1>1, <3>0, <3>2
        <4>4. QED
          BY <3>2, <4>2, <4>3
      <3>3. CASE p.at < t.at
        <4>1. w = t
          BY <1>1, <3>0, <3>3 DEF Newest
        <4>2. e2 = e
          BY <3>0, <3>3
        <4>3. QED
          BY <3>0, <4>1, <4>2
      <3>4. QED
        BY <1>1, <3>0, <3>1, <3>2, <3>3
    <2> HIDE DEF w
    <2>8. ToldOK'
      <3>1. ASSUME NEW j \in Own, j # i
            PROVE  /\ DOMAIN told'[j] = {"at", "says"}
                   /\ j \in Live(mgr') => /\ told'[j].at = mgr'.entries[j].updAt
                                          /\ told'[j].says # {} => mgr'.entries[j].status \in told'[j].says
        <4>1. mgr'.entries[j] = mgr.entries[j] /\ told'[j] = told[j]
          BY <2>2, <2>6, <3>1, BackendAssumption DEF Only, Own
        <4>2. QED
          BY <2>2, <4>1 DEF IInv, ToldOK
      <3>2. told'[i] = w
        BY <2>6 DEF w
      <3>3. QED
        BY <2>6, <2>7, <3>1, <3>2 DEF ToldOK
    <2>9. QED
      BY <1>3, <1>4, <2>2, <2>3, <2>4, <2>8, SameStep
  <1>8. QED
    BY <1>6, <1>7

(* Metadata finds its session, or waits for it. *)
LEMMA MetaStep ==
    ASSUME IInv, NEW p \in posts, posts' = posts \ {p}, UNCHANGED <<env, damaged>>, ClientMetadataPost(p)
    PROVE  IInv'
  <1> DEFINE i == p.id
             n == WithMetadata(mgr, i)
  <1>1. p.op = "meta" /\ i \in Ids /\ i \in Shells /\ UNCHANGED <<removed, refMap, pendUpd, pendEvt, told>>
    BY DEF ClientMetadataPost, IInv, PostsOK, PostOK
  <1>2. RegistryOK(mgr) /\ Sound(mgr) /\ now' \in Nat /\ UNCHANGED <<shell, dismissed>> /\ damaged' = damaged
    BY DEF IInv, RegistryOK, Sound, env, ClocksOK
  <1>3. /\ Resolved(i) <=> i \in Live(mgr)
        /\ \A q \in posts' : q \in posts
        /\ \A q \in posts : (q.op = "meta" /\ q.id = i) \/ q \in posts'
    BY <1>1 DEF Resolved, IInv, TablesOK
  <1>4. \/ i \in Live(mgr) /\ mgr' = Save(n) /\ pendMeta' = pendMeta /\ mapped' = mapped \cup {i}
        \/ i \notin Live(mgr) /\ mgr' = mgr /\ pendMeta' = pendMeta \cup {i} /\ mapped' = mapped
    BY <1>3 DEF ClientMetadataPost
  <1>5. Same(mgr, mgr') /\ (i \in Live(mgr) => mgr'.entries[i].meta)
    <2>1. CASE i \notin Live(mgr)
      BY <1>2, <1>4, <2>1, SameItself
    <2>2. CASE i \in Live(mgr)
      <3>1. Gentle(mgr, n, i) /\ n.entries[i].meta
        BY <1>2, <2>2, MetadataFacts
      <3>2. mgr' = Save(n)
        BY <1>4, <2>2
      <3> HIDE DEF n
      <3>3. RegistryOK(Save(n)) /\ Save(n).entries = n.entries
        BY <3>1, SavedFacts DEF Gentle
      <3>4. QED
        BY <1>1, <3>1, <3>2, <3>3, SameFromGentle
    <2>3. QED
      BY <2>1, <2>2
  <1>6. RegistryOK(mgr') /\ Live(mgr') = Live(mgr)
    BY <1>5 DEF Same, Stays
  <1>7. PostsOK' /\ QueuesOK' /\ ClocksOK' /\ ToldOK'
    BY <1>1, <1>2, <1>3, <1>5, ToldSame DEF IInv, PostsOK, QueuesOK, ClocksOK
  <1>8. TablesOK' /\ NothingLeftPending'
    BY <1>1, <1>4, <1>6 DEF IInv, TablesOK, NothingLeftPending
  <1>9. ShellsOK'
    <2>1. SUFFICES ASSUME ~damaged, NEW j \in Shells PROVE ShellOK(j)'
      BY <1>2 DEF ShellsOK
    <2>2. ShellOK(j)
      BY <2>1 DEF IInv, ShellsOK
    <2>3. j \in Live(mgr) /\ mgr.entries[j].meta => mgr'.entries[j].meta
      BY <1>5 DEF Same, Stays
    <2>4. Removing(j)' <=> Removing(j)
      BY <1>1, <1>3 DEF Removing
    <2>5. shell[j] = "unborn" => /\ \A q \in posts' : q.id = j => q.op \notin {"create", "meta"}
                                 /\ j \notin Live(mgr') /\ j \notin pendMeta'
      <3>1. shell[j] = "unborn" => j # i
        BY <1>1, <2>2 DEF ShellOK
      <3>2. QED
        BY <1>3, <1>4, <1>6, <2>2, <3>1 DEF ShellOK
    <2>6. ASSUME shell[j] = "alive", ~Removing(j)
          PROVE  /\ (\E q \in posts' : q.id = j /\ q.op = "create") \/ j \in Live(mgr')
                 /\ \/ \E q \in posts' : q.id = j /\ q.op = "meta"
                    \/ j \in pendMeta'
                    \/ j \in Live(mgr') /\ mgr'.entries[j].meta
      <3>1. (\E q \in posts' : q.id = j /\ q.op = "create") \/ j \in Live(mgr')
        BY <1>3, <1>6, <2>2, <2>6 DEF ShellOK
      <3>2. CASE j = i
        BY <1>4, <1>5, <1>6, <3>1, <3>2
      <3>3. CASE j # i
        BY <1>3, <1>4, <1>6, <2>2, <2>3, <2>6, <3>1, <3>3 DEF ShellOK
      <3>4. QED
        BY <3>2, <3>3
    <2>7. QED
      BY <1>2, <2>2, <2>4, <2>5, <2>6 DEF ShellOK
  <1>10. QED
    BY <1>6, <1>7, <1>8, <1>9 DEF IInv

LEMMA CreateStep ==
    ASSUME IInv, NEW p \in posts, posts' = posts \ {p}, UNCHANGED <<env, damaged>>, CreateSessionPost(p)
    PROVE  IInv'
  <1> DEFINE i == p.id
             c == CreateSession(mgr, i, p.name, NoRef)
             d == IF i \in pendMeta THEN WithMetadata(c, i) ELSE c
             s == Save(d)
             n == Flushed(s, i)
  <1>1. p.op = "create" /\ i \in Ids /\ p.name \in Names /\ p.name # "none"
    BY DEF CreateSessionPost, IInv, PostsOK, PostOK, Names
  <1>2. /\ RegistryOK(mgr) /\ Sound(mgr) /\ now' = now /\ UNCHANGED <<shell, dismissed>> /\ damaged' = damaged
        /\ \A q \in posts' : q \in posts
        /\ \A q \in posts : (q.op = "create" /\ q.id = i) \/ q \in posts'
    BY <1>1 DEF IInv, RegistryOK, Sound, env
  <1>3. PostsOK' /\ ClocksOK'
    BY <1>2 DEF IInv, PostsOK, ClocksOK
  <1>4. \A q \in posts \cup posts' : q.id # i => (q \in posts <=> q \in posts')
    BY <1>2
  <1>5. /\ i \in Shells /\ ~damaged => ShellOK(i) /\ shell[i] # "unborn"
        /\ \A q \in posts : q.op = "remove" => q \in posts'
    BY <1>1, <1>2 DEF IInv, ShellsOK, ShellOK
  <1>6. CASE i \in removed
    <2>1. UNCHANGED <<mgr, removed, mapped, refMap, pendUpd, pendEvt, pendMeta, told>>
      BY <1>6 DEF CreateSessionPost, tables
    <2>2. QueuesOK' /\ TablesOK' /\ NothingLeftPending' /\ ToldOK'
      BY <2>1 DEF IInv, QueuesOK, TablesOK, NothingLeftPending, ToldOK
    <2>3. ShellsOK'
      <3>1. SUFFICES ASSUME ~damaged, NEW j \in Shells PROVE ShellOK(j)'
        BY <1>2 DEF ShellsOK
      <3>2. CASE j # i
        BY <1>2, <1>4, <2>1, <3>1, <3>2, OtherShell
      <3>3. CASE j = i
        <4>1. ShellOK(i) /\ shell[i] # "unborn" /\ Removing(i) /\ Removing(i)'
          BY <1>5, <1>6, <2>1, <3>1, <3>3 DEF Removing
        <4>2. QED
          BY <1>2, <3>3, <4>1 DEF ShellOK
      <3>4. QED
        BY <3>2, <3>3
    <2>4. QED
      BY <1>2, <1>3, <2>1, <2>2, <2>3 DEF IInv
  <1>7. CASE i \notin removed
    <2>1. /\ mgr' = n /\ removed' = removed /\ refMap' = refMap /\ pendMeta' = pendMeta \ {i}
          /\ mapped' = (IF i \in Shells THEN mapped \cup {i} ELSE mapped)
          /\ pendUpd' = [pendUpd EXCEPT ![i] = NoUpdate] /\ pendEvt' = [pendEvt EXCEPT ![i] = <<>>]
          /\ told' = IF i \in Shells THEN [told EXCEPT ![i] = Untold] ELSE told
      BY <1>7 DEF CreateSessionPost
    <2>2. /\ Sound(c) /\ Only(mgr, c, i) /\ c.entries[i].status = "needs_attention"
          /\ c.entries[i].updAt = 0 /\ c.entries[i].meta = mgr.entries[i].meta
      BY <1>1, <1>2, CreateFacts
    <2> HIDE DEF c
    <2>3. /\ Gentle(c, d, i) /\ (i \in pendMeta => d.entries[i].meta)
      <3>1. i \in Live(c)
        BY <1>1, <2>2 DEF Live
      <3>2. CASE i \in pendMeta
        BY <2>2, <3>1, <3>2, MetadataFacts
      <3>3. CASE i \notin pendMeta
        BY <2>2, <3>3 DEF Gentle, Only
      <3>4. QED
        BY <3>2, <3>3
    <2> HIDE DEF d
    <2>4. RegistryOK(s) /\ s.entries = d.entries
      BY <2>3, SavedFacts DEF Gentle
    <2> HIDE DEF s
    <2>5. Kept(s, n, i) /\ (i \in Own => n = s)
      BY <1>1, <2>4, FlushedFacts DEF IInv, QueuesOK
    <2> HIDE DEF n
    <2>6. /\ Only(mgr, n, i) /\ RegistryOK(n) /\ n.entries[i].status # "none"
          /\ i \in Own => n.entries[i].updAt = 0
          /\ i \in pendMeta \/ mgr.entries[i].meta => n.entries[i].meta
      BY <2>2, <2>3, <2>4, <2>5 DEF Kept, Gentle, Only
    <2>7. Live(mgr') = Live(mgr) \cup {i}
      BY <1>1, <2>1, <2>6 DEF Live, Only
    <2>8. /\ DOMAIN pendUpd' = Ids /\ DOMAIN pendEvt' = Ids
          /\ pendUpd'[i] = NoUpdate /\ pendEvt'[i] = <<>>
          /\ \A j \in Ids \ {i} : pendUpd'[j] = pendUpd[j] /\ pendEvt'[j] = pendEvt[j]
      BY <1>1, <2>1 DEF IInv, QueuesOK
    <2>9. QueuesOK'
      <3>1. Waiting(i, NoUpdate, <<>>)
        BY DEF Waiting
      <3>2. QED
        BY <2>8, <3>1 DEF IInv, QueuesOK
    <2>10. TablesOK'
      BY <2>1, <2>7 DEF IInv, TablesOK
    <2>11. NothingLeftPending'
      <3>1. Live(mgr) \subseteq Ids /\ removed \subseteq Ids
        BY DEF Live, IInv, TablesOK
      <3>2. QED
        BY <1>1, <1>7, <2>1, <2>7, <2>8, <3>1 DEF IInv, NothingLeftPending
    <2>12. ToldOK'
      <3>1. DOMAIN told = Shells
        BY DEF IInv, ToldOK
      <3>2. /\ DOMAIN told' = Shells /\ \A j \in Shells \ {i} : told'[j] = told[j]
            /\ i \in Shells => told'[i] = Untold
        BY <2>1, <3>1
      <3>3. ASSUME NEW j \in Own
            PROVE  /\ DOMAIN told'[j] = {"at", "says"}
                   /\ j \in Live(mgr') => /\ told'[j].at = mgr'.entries[j].updAt
                                          /\ told'[j].says # {} => mgr'.entries[j].status \in told'[j].says
        <4>1. CASE j = i
          BY <2>1, <2>6, <3>2, <4>1 DEF Untold, Own
        <4>2. CASE j # i
          <5>1. mgr'.entries[j] = mgr.entries[j] /\ told'[j] = told[j] /\ (j \in Live(mgr') => j \in Live(mgr))
            BY <2>1, <2>6, <2>7, <3>2, <4>2, BackendAssumption DEF Only, Own
          <5>2. QED
            BY <5>1 DEF IInv, ToldOK
        <4>3. QED
          BY <4>1, <4>2
      <3>4. QED
        BY <3>2, <3>3 DEF ToldOK
    <2>13. ShellsOK'
      <3>1. SUFFICES ASSUME ~damaged, NEW j \in Shells PROVE ShellOK(j)'
        BY <1>2 DEF ShellsOK
      <3>2. CASE j # i
        <4>1. mgr'.entries[j] = mgr.entries[j]
          BY <2>1, <2>6, <3>2, BackendAssumption DEF Only
        <4>2. QED
          BY <1>2, <1>4, <2>1, <3>1, <3>2, <4>1, OtherShell
      <3>3. CASE j = i
        <4>1. ShellOK(i) /\ shell[i] # "unborn"
          BY <1>5, <3>1, <3>3
        <4>2. Removing(i)' <=> Removing(i)
          BY <1>2, <1>5, <2>1 DEF Removing
        <4>3. shell[i] = "alive" /\ ~Removing(i) =>
                 \/ \E q \in posts' : q.id = i /\ q.op = "meta"
                 \/ i \in Live(mgr') /\ mgr'.entries[i].meta
          BY <1>2, <2>1, <2>6, <2>7, <4>1 DEF ShellOK
        <4>4. QED
          BY <1>2, <2>7, <3>3, <4>1, <4>2, <4>3 DEF ShellOK
      <3>4. QED
        BY <3>1, <3>2, <3>3
    <2>14. QED
      BY <1>3, <2>1, <2>6, <2>9, <2>10, <2>11, <2>12, <2>13 DEF IInv
  <1>8. QED
    BY <1>6, <1>7

LEMMA RemoveStep ==
    ASSUME IInv, NEW p \in posts, posts' = posts \ {p}, UNCHANGED <<env, damaged>>, RemoveSessionPost(p)
    PROVE  IInv'
  <1> DEFINE i == p.id
             n == RemoveSession(mgr, i)
  <1>1. p.op = "remove" /\ i \in Ids
    BY DEF RemoveSessionPost, IInv, PostsOK, PostOK
  <1>2. /\ RegistryOK(mgr) /\ Sound(mgr) /\ now' = now /\ UNCHANGED <<shell, dismissed>> /\ damaged' = damaged
        /\ \A q \in posts' : q \in posts
    BY DEF IInv, RegistryOK, Sound, env
  <1>3. PostsOK' /\ ClocksOK'
    BY <1>2 DEF IInv, PostsOK, ClocksOK
  <1>4. /\ mgr' = Save(n) /\ removed' = removed \cup {i} /\ mapped' = mapped \ {i}
        /\ pendUpd' = [pendUpd EXCEPT ![i] = NoUpdate] /\ pendEvt' = [pendEvt EXCEPT ![i] = <<>>]
        /\ UNCHANGED <<refMap, pendMeta, told>>
    BY DEF RemoveSessionPost
  <1>5. Sound(n) /\ Only(mgr, n, i) /\ n.entries[i].status = "none"
    BY <1>1, <1>2, RemoveFacts
  <1> HIDE DEF n
  <1>6. RegistryOK(mgr') /\ mgr'.entries = n.entries
    BY <1>4, <1>5, SavedFacts
  <1>7. Live(mgr') = Live(mgr) \ {i} /\ \A j \in Ids \ {i} : mgr'.entries[j] = mgr.entries[j]
    BY <1>1, <1>5, <1>6 DEF Live, Only
  <1>8. /\ DOMAIN pendUpd' = Ids /\ DOMAIN pendEvt' = Ids
        /\ pendUpd'[i] = NoUpdate /\ pendEvt'[i] = <<>>
        /\ \A j \in Ids \ {i} : pendUpd'[j] = pendUpd[j] /\ pendEvt'[j] = pendEvt[j]
    BY <1>1, <1>4 DEF IInv, QueuesOK
  <1>9. QueuesOK'
    <2>1. Waiting(i, NoUpdate, <<>>)
      BY DEF Waiting
    <2>2. QED
      BY <1>8, <2>1 DEF IInv, QueuesOK
  <1>10. TablesOK'
    BY <1>1, <1>4, <1>7 DEF IInv, TablesOK
  <1>11. NothingLeftPending'
    <2>1. Live(mgr) \subseteq Ids /\ removed \subseteq Ids
      BY DEF Live, IInv, TablesOK
    <2>2. QED
      BY <1>1, <1>4, <1>7, <1>8, <2>1 DEF IInv, NothingLeftPending
  <1>12. ToldOK'
    <2>1. ASSUME NEW j \in Own, j \in Live(mgr')
          PROVE  j \in Live(mgr) /\ mgr'.entries[j] = mgr.entries[j]
      BY <1>7, <2>1, BackendAssumption DEF Own
    <2>2. QED
      BY <1>4, <2>1 DEF IInv, ToldOK
  <1>13. ShellsOK'
    <2>1. SUFFICES ASSUME ~damaged, NEW j \in Shells PROVE ShellOK(j)'
      BY <1>2 DEF ShellsOK
    <2>2. CASE j # i
      <3>1. \A q \in posts \cup posts' : q.id = j => (q \in posts <=> q \in posts')
        BY <2>2
      <3>2. mgr'.entries[j] = mgr.entries[j]
        BY <1>7, <2>2, BackendAssumption
      <3>3. QED
        BY <1>2, <1>4, <2>1, <2>2, <3>1, <3>2, OtherShell
    <2>3. CASE j = i
      <3>1. ShellOK(i) /\ Removing(i) /\ Removing(i)'
        BY <1>1, <1>4, <2>1, <2>3 DEF IInv, ShellsOK, Removing
      <3>2. \A q \in posts' : q \in posts
        BY <1>2
      <3>3. QED
        BY <1>2, <1>4, <1>7, <2>3, <3>1, <3>2 DEF ShellOK
    <2>4. QED
      BY <2>2, <2>3
  <1>14. QED
    BY <1>3, <1>6, <1>9, <1>10, <1>11, <1>12, <1>13 DEF IInv

(* What the file brings back: the sessions in it, each asking for the user. *)
LEMMA RestartStep ==
    ASSUME IInv, Restart
    PROVE  IInv'
  <1> DEFINE back == SavedIds(mgr)
             again(i) == [mgr.saved[i] EXCEPT !.status = "needs_attention"]
             entries == [i \in Ids |-> IF i \in back THEN again(i) ELSE Absent]
             refs == {mgr.saved[i].ref : i \in back} \ {NoRef}
  <1>1. /\ mgr' = [mgr EXCEPT !.entries = entries, !.shown = View(entries), !.timer = FALSE]
        /\ mapped' = back /\ removed' = {} /\ pendMeta' = {}
        /\ pendUpd' = [i \in Ids |-> NoUpdate] /\ pendEvt' = [i \in Ids |-> <<>>]
        /\ damaged' = TRUE /\ told' = [i \in Shells |-> Untold]
        /\ UNCHANGED <<posts, shell, now>>
    BY DEF Restart
  <1>2. PICK f \in [refs -> back] : (\A r \in refs : mgr.saved[f[r]].ref = r) /\ refMap' = f
    BY DEF Restart
  <1>3. RegistryOK(mgr) /\ Shape(mgr) /\ back \subseteq Ids
    BY DEF IInv, RegistryOK, SavedIds
  <1>4. ASSUME NEW i \in Ids
        PROVE  /\ entries[i] \in Entry /\ EntryOK(i, entries[i]) /\ FileOK(i, entries[i], mgr.saved[i])
               /\ entries[i].status = (IF i \in back THEN "needs_attention" ELSE "none")
               /\ entries[i].updAt = 0
    <2> DEFINE g == mgr.saved[i]
               e == again(i)
    <2>1. g \in Entry /\ FileOK(i, mgr.entries[i], g)
      BY <1>3 DEF Shape, RegistryOK
    <2>2. e \in Entry /\ e.status = "needs_attention" /\ e.updAt = g.updAt /\ e.name = g.name /\ e.ref = g.ref
      BY <2>1 DEF Entry, Statuses
    <2>3. entries[i] = IF i \in back THEN e ELSE Absent
      OBVIOUS
    <2>4. i \in back <=> g # Absent
      BY DEF SavedIds
    <2> HIDE DEF e, g, entries
    <2>5. CASE i \in back
      BY <2>1, <2>2, <2>3, <2>4, <2>5 DEF EntryOK, FileOK, Over, g
    <2>6. CASE i \notin back
      BY <2>3, <2>4, <2>6, AbsentFacts DEF EntryOK, FileOK, Over, g
    <2>7. QED
      BY <2>5, <2>6
  <1>5. /\ DOMAIN mgr' = DOMAIN mgr /\ mgr'.entries = entries /\ mgr'.saved = mgr.saved
    BY <1>1, <1>3 DEF Shape
  <1>6. entries = [i \in Ids |-> entries[i]]
    OBVIOUS
  <1> HIDE DEF entries
  <1>7. RegistryOK(mgr')
    <2>1. Shape(mgr')
      BY <1>3, <1>4, <1>5, <1>6 DEF Shape
    <2>2. QED
      BY <1>4, <1>5, <2>1 DEF RegistryOK, EntriesOK
  <1>8. Live(mgr') = back
    BY <1>3, <1>4, <1>5 DEF Live
  <1>9. PostsOK' /\ ClocksOK' /\ ShellsOK'
    BY <1>1 DEF IInv, PostsOK, ClocksOK, ShellsOK
  <1>10. QueuesOK' /\ NothingLeftPending'
    BY <1>1, <1>3, <1>8 DEF QueuesOK, Waiting, NothingLeftPending
  <1>11. TablesOK'
    <2>1. ASSUME NEW r \in refs PROVE f[r] \in Ids /\ f[r] \notin Own
      <3>1. f[r] \in back /\ mgr.saved[f[r]].ref # NoRef
        BY <1>2
      <3>2. QED
        BY <1>3, <3>1 DEF RegistryOK, FileOK
    <2>2. QED
      BY <1>1, <1>2, <1>8, <2>1 DEF TablesOK
  <1>12. ToldOK'
    BY <1>1, <1>4, <1>5, BackendAssumption DEF ToldOK, Untold, Own
  <1>13. QED
    BY <1>7, <1>9, <1>10, <1>11, <1>12 DEF IInv

(* The gateway starts a shell, or loses it, and says so. *)
LEMMA ShellStep ==
    ASSUME IInv, NEW i \in Shells, ShellStarted(i) \/ ShellRemoved(i)
    PROVE  IInv'
  <1> DEFINE m == [op |-> "meta", id |-> i]
             c == [op |-> "create", id |-> i, name |-> "auto"]
             r == [op |-> "remove", id |-> i, by |-> "gateway"]
  <1>1. /\ PostOK(m) /\ PostOK(c) /\ PostOK(r) /\ m.id = i /\ c.id = i /\ r.id = i
        /\ m.op = "meta" /\ c.op = "create" /\ r.op = "remove"
    BY BackendAssumption DEF PostOK
  <1>2. /\ UNCHANGED <<mgr, removed, mapped, refMap, pendUpd, pendEvt, pendMeta, now, damaged, told>>
        /\ UNCHANGED dismissed
        /\ \/ shell[i] = "unborn" /\ shell' = [shell EXCEPT ![i] = "alive"] /\ posts' = posts \cup {m, c}
           \/ shell[i] = "alive" /\ shell' = [shell EXCEPT ![i] = "gone"] /\ posts' = posts \cup {r}
    BY DEF ShellStarted, ShellRemoved, tables
  <1> HIDE DEF m, c, r
  <1>3. /\ shell' \in [Shells -> {"unborn", "alive", "gone"}]
        /\ \A j \in Shells \ {i} : shell'[j] = shell[j]
        /\ shell'[i] = IF shell[i] = "unborn" THEN "alive" ELSE "gone"
    BY <1>2 DEF IInv, ClocksOK
  <1>4. RegistryOK(mgr') /\ QueuesOK' /\ TablesOK' /\ NothingLeftPending' /\ ToldOK' /\ PostsOK' /\ ClocksOK'
    BY <1>1, <1>2, <1>3
    DEF IInv, QueuesOK, TablesOK, NothingLeftPending, ToldOK, PostsOK, ClocksOK
  <1>5. ShellsOK'
    <2>1. SUFFICES ASSUME ~damaged, NEW j \in Shells PROVE ShellOK(j)'
      BY <1>2 DEF ShellsOK
    <2>2. CASE j # i
      <3>1. \A q \in posts \cup posts' : q.id = j => (q \in posts <=> q \in posts')
        BY <1>1, <1>2, <2>2
      <3>2. QED
        BY <1>2, <1>3, <2>1, <2>2, <3>1, OtherShell
    <2>3. CASE j = i
      <3>1. ShellOK(i)
        BY <2>1 DEF IInv, ShellsOK
      <3>2. CASE shell[i] = "unborn"
        <4>1. posts' = posts \cup {m, c} /\ shell'[i] = "alive"
          BY <1>2, <1>3, <3>2
        <4>2. Removing(i)' <=> Removing(i)
          BY <1>1, <1>2, <4>1 DEF Removing
        <4>3. (\E q \in posts' : q.id = i /\ q.op = "create") /\ (\E q \in posts' : q.id = i /\ q.op = "meta")
          BY <1>1, <4>1
        <4>4. QED
          BY <1>2, <2>3, <3>1, <3>2, <4>1, <4>2, <4>3 DEF ShellOK
      <3>3. CASE shell[i] # "unborn"
        <4>1. posts' = posts \cup {r} /\ shell'[i] = "gone"
          BY <1>2, <1>3, <3>3
        <4>2. Removing(i)'
          BY <1>1, <4>1 DEF Removing
        <4>3. QED
          BY <2>3, <4>1, <4>2 DEF ShellOK
      <3>4. QED
        BY <3>2, <3>3
    <2>4. QED
      BY <2>2, <2>3
  <1>6. QED
    BY <1>4, <1>5 DEF IInv

LEMMA NextInv == IInv /\ [Next]_vars => IInv'
  <1> SUFFICES ASSUME IInv, [Next]_vars PROVE IInv'
    OBVIOUS
  <1>1. ASSUME NEW p \in posts, Deliver(p) PROVE IInv'
    BY <1>1, UpdatePostStep, EventPostStep, CreateStep, RemoveStep, DeliverPlain, StatusStep, MetaStep
    DEF Deliver
  <1>2. CASE UNCHANGED vars
    <2>1. /\ UNCHANGED <<mgr, removed, mapped, refMap, pendUpd, pendEvt, pendMeta, posts, damaged, told>>
          /\ UNCHANGED <<shell, dismissed>> /\ now' = now
      BY <1>2 DEF vars, tables, env
    <2>2. OnTheirWay
      BY <2>1 DEF OnTheirWay, IInv, PostsOK, ClocksOK
    <2>3. Same(mgr, mgr') /\ now' \in Nat
      BY <2>1, SameItself DEF IInv, ClocksOK
    <2>4. QED
      BY <2>1, <2>2, <2>3, PlainStep
  <1>3. QED
    BY <1>1, <1>2, OtherPlain, RestartStep, ShellStep DEF Next

LEMMA Invariance == Spec => []IInv
  BY InitInv, NextInv, PTL DEF Spec

-----------------------------------------------------------------------------
(* No update, event or metadata stays behind for a session that exists, or *)
(* for one that was removed: creation applies what waited, everything else *)
(* goes straight to the session (flushPendingTerminalUpdate and            *)
(* flushPendingTerminalEvents of terminals/apply.ts).                      *)
THEOREM NothingStaysBehind == Spec => []NothingLeftPending
  <1>1. IInv => NothingLeftPending
    BY DEF IInv
  <1>2. QED
    BY <1>1, Invariance, PTL

(* The sessions file has every session of a running shell, and none that   *)
(* was removed or is over, after every step: each handler saves when it    *)
(* must, so a crash at any moment loses no running session.                *)
THEOREM SessionsSurviveRestarts == Spec => []RestartKeepsSessions
  <1>1. IInv => RestartKeepsSessions
    BY BackendAssumption DEF IInv, RegistryOK, FileOK, RestartKeepsSessions, Live, SavedIds, Own
  <1>2. QED
    BY <1>1, Invariance, PTL

(* Whatever the order the reports of an analyzer arrive in, the session    *)
(* has the status of the newest since it was registered                    *)
(* (updateTerminalState drops what is older than lastTerminalUpdateAt).    *)
THEOREM NewestReportDecides == Spec => []LatestReportWins
  <1>1. IInv => LatestReportWins
    BY DEF IInv, ToldOK, LatestReportWins, Own
  <1>2. QED
    BY <1>1, Invariance, PTL

(* When every POST has arrived and none was lost, the registry has exactly *)
(* the shells that run and that no client removed, each with its client's  *)
(* metadata, whatever overtook what and whatever else clients ask of the   *)
(* sessions: a removal beats the creation it overtakes, by its tombstone,  *)
(* and metadata waits for the creation (sessions/index.ts).                *)
THEOREM RegistryIsRight == Spec => []RegistryConverges
  <1>1. ASSUME IInv, posts = {}, ~damaged, NEW i \in Shells
        PROVE  /\ i \in Live(mgr) <=> shell[i] = "alive" /\ i \notin dismissed
               /\ i \in Live(mgr) => mgr.entries[i].meta
    <2>1. ShellOK(i) /\ shell[i] \in {"unborn", "alive", "gone"} /\ NothingLeftPending
      BY <1>1 DEF IInv, ShellsOK, ClocksOK
    <2>2. Removing(i) <=> i \in removed
      BY <1>1 DEF Removing
    <2>3. i \in Live(mgr) => shell[i] = "alive" /\ ~Removing(i)
      BY <2>1, <2>2 DEF ShellOK, NothingLeftPending
    <2>4. shell[i] = "alive" /\ ~Removing(i) => i \in Live(mgr) /\ (i \in pendMeta \/ mgr.entries[i].meta)
      BY <1>1, <2>1 DEF ShellOK
    <2>5. shell[i] = "alive" => (Removing(i) <=> i \in dismissed)
      BY <2>1 DEF ShellOK
    <2>6. QED
      BY <2>1, <2>3, <2>4, <2>5 DEF NothingLeftPending
  <1>2. IInv => RegistryConverges
    BY <1>1 DEF RegistryConverges
  <1>3. QED
    BY <1>2, Invariance, PTL

=============================================================================
