---------------------------- MODULE TaskSync_proofs ----------------------------
(***************************************************************************)
(* For any tasks, caps, tokens, changes and faults: the publisher of the   *)
(* backend never sleeps on work, and what reaches the desktop on two       *)
(* streams that break and come back is the list of the backend.            *)
(***************************************************************************)
EXTENDS TaskSync, SequenceTheorems, TLAPS

Fields == {"sock", "ready", "connecting", "timer", "pending", "disabled"}

(* The publisher's variables agree.  The three flags are set in different  *)
(* callbacks; each conjunct is what one of them relies on: Enqueue leaves  *)
(* an attempt alone because it has a socket, it queues nothing once the    *)
(* token is refused, and it sends only on a socket that was opened.        *)
PubOK(p) ==
    /\ DOMAIN p = Fields
    /\ p.ready \in BOOLEAN /\ p.connecting \in BOOLEAN
    /\ p.timer \in BOOLEAN /\ p.disabled \in BOOLEAN
    /\ p.connecting => p.sock = "opening"
    /\ p.ready => p.sock \in {"open", "dead"}
    /\ p.disabled => p.sock = "none" /\ ~p.ready /\ ~p.connecting /\ p.pending = <<>>

Pursued(p) == p.pending # <<>> => p.timer \/ p.sock # "none"

IInv == PubOK(pub) /\ Pursued(pub)

(* connectBackendWebSocket pursues what is pending, timer or not. *)
LEMMA ConnectPursues ==
    ASSUME NEW p, PubOK(p.pub)
    PROVE  PubOK(PubConnect(p).pub) /\ Pursued(PubConnect(p).pub)
<1> DEFINE q == p.pub
           r == [q EXCEPT !.timer = FALSE, !.connecting = TRUE, !.sock = "opening"]
<1>1. CASE q.ready \/ q.connecting \/ q.disabled
  BY <1>1 DEF PubConnect, PubOK, Pursued
<1>2. CASE ~(q.ready \/ q.connecting \/ q.disabled)
  <2>1. PubConnect(p).pub = r
    BY <1>2 DEF PubConnect
  <2>2. PubOK(r) /\ r.sock = "opening"
    BY <1>2 DEF PubOK, Fields
  <2> QED
    BY <2>1, <2>2 DEF Pursued
<1> QED
  BY <1>1, <1>2

(* enqueueBackendWebSocketMessage, whatever the message. *)
LEMMA EnqueuePursues ==
    ASSUME NEW p, NEW m, DOMAIN p = {"pub", "out"}, PubOK(p.pub), Pursued(p.pub)
    PROVE  /\ DOMAIN Enqueue(p, m) = {"pub", "out"}
           /\ PubOK(Enqueue(p, m).pub) /\ Pursued(Enqueue(p, m).pub)
<1> DEFINE kept == LastOf(Append(p.pub.pending, m), PendingCap)
           q == [p EXCEPT !.pub.pending = kept]
<1>1. CASE p.pub.disabled \/ (p.pub.ready /\ p.pub.sock \in {"open", "dead"})
  <2>1. DOMAIN Enqueue(p, m) = {"pub", "out"} /\ Enqueue(p, m).pub = p.pub
    BY <1>1 DEF Enqueue, Sent
  <2> QED
    BY <2>1
<1>2. CASE ~(p.pub.disabled \/ (p.pub.ready /\ p.pub.sock \in {"open", "dead"}))
  <2>1. Enqueue(p, m) = PubConnect(q)
    BY <1>2 DEF Enqueue
  <2>2. DOMAIN q = {"pub", "out"} /\ q.pub = [p.pub EXCEPT !.pending = kept]
    OBVIOUS
  <2> HIDE DEF kept
  <2>3. PubOK(q.pub)
    BY <1>2, <2>2 DEF PubOK, Fields
  <2> HIDE DEF q
  <2>4. DOMAIN PubConnect(q) = {"pub", "out"}
    BY <2>2 DEF PubConnect
  <2> QED
    BY <2>1, <2>3, <2>4, ConnectPursues
<1> QED
  BY <1>1, <1>2

LEMMA InitIInv == Init => IInv
BY DEF Init, IInv, PubOK, Pursued, PubInit, Fields

LEMMA NextIInv == IInv /\ [Next]_vars => IInv'
<1> SUFFICES ASSUME IInv, [Next]_vars
             PROVE  PubOK(pub') /\ Pursued(pub')
  BY DEF IInv, PubOK, Pursued
<1> USE DEF IInv
<1>0. PubOK(PubInit) /\ Pursued(PubInit)
  BY DEF PubInit, PubOK, Pursued, Fields
<1>1. DOMAIN Publisher = {"pub", "out"} /\ Publisher.pub = pub
  BY DEF Publisher
<1>2. CASE SocketOpens
  BY <1>2 DEF SocketOpens, PubOK, Pursued, Fields
<1>3. CASE SocketReady
  BY <1>3 DEF SocketReady, PubOK, Pursued, Fields
<1>4. CASE SocketRefused
  BY <1>4 DEF SocketRefused, PubInit, PubOK, Pursued, Fields
<1>5. CASE SocketCloses
  BY <1>5 DEF SocketCloses, PubOK, Pursued, Fields
<1>6. CASE ReconnectTimer
  <2> DEFINE p == [Publisher EXCEPT !.pub.timer = FALSE]
             r == [pub EXCEPT !.timer = FALSE]
  <2>1. p.pub = r
    BY <1>1
  <2>2. PubOK(r)
    BY DEF PubOK, Fields
  <2>3. PubOK(p.pub)
    BY ONLY <2>1, <2>2
  <2> QED
    BY <1>6, <2>3, ConnectPursues DEF ReconnectTimer, Publish
<1>7. ASSUME NEW t \in Tasks, StoreManualTask(t)
      PROVE  PubOK(pub') /\ Pursued(pub')
  <2> DEFINE list == FirstOf(<<t>> \o Except(tasks, t), Cap)
             p == Enqueue(Publisher, Snapshot(list))
  <2>1. DOMAIN p = {"pub", "out"} /\ PubOK(p.pub) /\ Pursued(p.pub)
    BY <1>1, EnqueuePursues
  <2>2. pub' = Enqueue(p, Added(t)).pub
    BY <1>7 DEF StoreManualTask, Publish
  <2> QED
    BY <2>1, <2>2, EnqueuePursues
<1>8. ASSUME NEW t \in Tasks, RemoveManualTask(t)
      PROVE  PubOK(pub') /\ Pursued(pub')
  BY <1>1, <1>8, EnqueuePursues DEF RemoveManualTask, Publish
<1>9. CASE GatewayStops
  BY <1>9 DEF GatewayStops, PubOK, Pursued, Fields
<1>10. CASE BackendRestarts
  BY <1>0, <1>10 DEF BackendRestarts
<1>11. CASE UNCHANGED pub
  BY <1>11
<1>12. ASSUME NEW t, RemovalAnswered(t) \/ DesktopAdds(t) \/ DesktopRemoves(t)
       PROVE  UNCHANGED pub
  BY <1>12 DEF RemovalAnswered, DesktopAdds, DesktopRemoves, pubVars
<1>13. CASE \/ GatewayReads \/ GatewayStarts \/ DesktopConnects \/ DesktopDisconnected
            \/ DesktopReads \/ EventsConnect \/ EventRead \/ EventsEnd
  <2>1. UNCHANGED pub
    BY <1>13 DEF GatewayReads, GatewayStarts, DesktopConnects, DesktopDisconnected,
                 DesktopReads, EventsConnect, EventRead, EventsEnd, pubVars
  <2> QED
    BY <2>1
<1>14. CASE UNCHANGED vars
  BY <1>14 DEF vars, pubVars
<1> QED
  BY <1>2, <1>3, <1>4, <1>5, <1>6, <1>7, <1>8, <1>9, <1>10, <1>11, <1>12, <1>13, <1>14
  DEF Next

(* The publisher never sleeps on work: whatever is pending has a socket    *)
(* that is opening or open, or a timer that will open one                  *)
(* (websocket-events.ts, scheduleReconnect).                               *)
THEOREM PublisherPursues == Spec => []PendingIsPursued
<1>1. IInv => PendingIsPursued
  BY DEF IInv, Pursued, PendingIsPursued
<1> QED
  BY <1>1, InitIInv, NextIInv, PTL DEF Spec

-----------------------------------------------------------------------------
(* Lists: no task twice. *)
Lists == {l \in Seq(Tasks) : \A i, j \in 1 .. Len(l) : l[i] = l[j] => i = j}

LEMMA NoListIsNone == NoList \notin Lists
<1>1. SUFFICES ASSUME NoList \in Lists PROVE FALSE
  OBVIOUS
<1>2. NoList \in Seq(Tasks) /\ Len(NoList) = 1 /\ NoList[1] = "none"
  BY <1>1 DEF Lists, NoList
<1>3. NoList[1] \in Tasks
  <2>1. 1 \in 1 .. Len(NoList)
    BY <1>2
  <2> QED
    BY <1>2, <2>1, ElementOfSeq
<1> QED
  BY <1>2, <1>3, TaskSyncAssumption

(* removeManualTask and its like: the other tasks stay, in their order. *)
LEMMA ExceptFacts ==
    ASSUME NEW l \in Lists, NEW t \in Tasks
    PROVE  /\ Except(l, t) \in Lists
           /\ Range(Except(l, t)) = Range(l) \ {t}
           /\ t \notin Range(l) => Except(l, t) = l
<1>0. l \in Seq(Tasks) /\ Len(l) \in Nat /\ DOMAIN l = 1 .. Len(l)
  BY DEF Lists
<1>1. CASE t \notin Range(l)
  BY <1>1 DEF Except
<1>2. CASE t \in Range(l)
  <2> DEFINE n == CHOOSE k \in DOMAIN l : l[k] = t
             L == Len(l) - 1
             e == [k \in 1 .. L |-> IF k < n THEN l[k] ELSE l[k + 1]]
  <2>1. n \in 1 .. Len(l) /\ l[n] = t
    BY <1>0, <1>2 DEF Range
  <2>2. Except(l, t) = e
    BY <1>2 DEF Except
  <2>3. L \in Nat /\ n \in Nat
    BY <1>0, <2>1
  <2> HIDE DEF n, L
  <2>4. L + 1 = Len(l)
    BY <1>0 DEF L
  <2>5. \A k \in 1 .. Len(l) : l[k] \in Tasks
    BY <1>0, ElementOfSeq
  <2>6. \A k \in 1 .. L : e[k] \in Tasks
    BY <2>3, <2>4, <2>5
  <2>7. e \in [1 .. L -> Tasks]
    BY <2>6
  <2>8. e \in Seq(Tasks) /\ Len(e) = L /\ DOMAIN e = 1 .. L
    <3>1. e \in Seq(Tasks)
      BY <2>3, <2>7, SeqDef
    <3>2. DOMAIN e = 1 .. L
      OBVIOUS
    <3>3. DOMAIN e = 1 .. Len(e) /\ Len(e) \in Nat
      BY <3>1, LenProperties
    <3> QED
      BY <2>3, <3>1, <3>2, <3>3
  <2>9. \A k \in 1 .. L : e[k] = (IF k < n THEN l[k] ELSE l[k + 1])
    OBVIOUS
  <2> HIDE DEF e
  <2>10. \A i, j \in 1 .. Len(l) : l[i] = l[j] => i = j
    BY DEF Lists
  <2>11. \A i, j \in 1 .. L : e[i] = e[j] => i = j
    BY <2>3, <2>4, <2>9, <2>10
  <2>12. e \in Lists
    BY <2>8, <2>11 DEF Lists
  <2>13. ASSUME NEW x \in Range(e) PROVE x \in Range(l) \ {t}
    <3>1. PICK k \in 1 .. L : x = e[k]
      BY <2>8 DEF Range
    <3>2. PICK j \in 1 .. Len(l) : j # n /\ x = l[j]
      BY <2>3, <2>4, <2>9, <3>1
    <3> QED
      BY <1>0, <2>1, <2>10, <3>2 DEF Range
  <2>14. ASSUME NEW x \in Range(l) \ {t} PROVE x \in Range(e)
    <3>1. PICK j \in 1 .. Len(l) : x = l[j]
      BY <1>0 DEF Range
    <3>2. j # n
      BY <2>1, <3>1
    <3>3. CASE j < n
      <4>1. j \in 1 .. L /\ e[j] = x
        BY <2>1, <2>3, <2>4, <2>9, <3>1, <3>3
      <4> QED
        BY <2>8, <4>1 DEF Range
    <3>4. CASE j > n
      <4>1. j - 1 \in 1 .. L /\ e[j - 1] = x
        BY <2>1, <2>3, <2>4, <2>9, <3>1, <3>4
      <4> QED
        BY <2>8, <4>1 DEF Range
    <3> QED
      BY <2>3, <3>2, <3>3, <3>4
  <2> QED
    BY <1>2, <2>2, <2>12, <2>13, <2>14
<1> QED
  BY <1>1, <1>2

(* A new task is put in front. *)
LEMMA PutInFront ==
    ASSUME NEW l \in Lists, NEW t \in Tasks,
           NEW e, e = <<t>> \o Except(l, t)
    PROVE  /\ e \in Lists /\ e # <<>> /\ e[1] = t
           /\ Range(e) = Range(l) \cup {t}
<1> DEFINE x == Except(l, t)
<1>1. x \in Lists /\ Range(x) = Range(l) \ {t}
  BY ExceptFacts
<1> HIDE DEF x
<1>2. x \in Seq(Tasks) /\ Len(x) \in Nat /\ DOMAIN x = 1 .. Len(x)
  BY <1>1 DEF Lists
<1>3. <<t>> \in Seq(Tasks) /\ Len(<<t>>) = 1 /\ <<t>>[1] = t
  OBVIOUS
<1>4. e = <<t>> \o x
  BY DEF x
<1>5. /\ e \in Seq(Tasks) /\ Len(e) = 1 + Len(x)
      /\ \A i \in 1 .. 1 + Len(x) : e[i] = IF i <= 1 THEN <<t>>[i] ELSE x[i - 1]
  <2> DEFINE one == <<t>>
  <2>1. one \in Seq(Tasks) /\ Len(one) = 1
    BY <1>3
  <2> HIDE DEF one
  <2>2. /\ one \o x \in Seq(Tasks) /\ Len(one \o x) = Len(one) + Len(x)
        /\ \A i \in 1 .. Len(one) + Len(x) :
               (one \o x)[i] = IF i <= Len(one) THEN one[i] ELSE x[i - Len(one)]
    BY <1>2, <2>1, ConcatProperties
  <2>3. e = one \o x
    BY <1>4 DEF one
  <2>4. /\ e \in Seq(Tasks) /\ Len(e) = 1 + Len(x)
        /\ \A i \in 1 .. 1 + Len(x) : e[i] = IF i <= 1 THEN one[i] ELSE x[i - 1]
    BY <2>1, <2>2, <2>3
  <2> QED
    BY <2>4 DEF one
<1>6. DOMAIN e = 1 .. 1 + Len(x)
  BY <1>2, <1>5, LenProperties
<1>7. /\ e[1] = t
      /\ \A k \in 1 .. Len(x) : k + 1 \in 1 .. Len(e) /\ e[k + 1] = x[k]
      /\ \A i \in 1 .. Len(e) : i = 1 \/ (i - 1 \in 1 .. Len(x) /\ e[i] = x[i - 1])
  <2> DEFINE N == Len(x)
  <2>1. N \in Nat /\ Len(e) = 1 + N
    BY <1>2, <1>5
  <2>2. \A i \in 1 .. 1 + N : e[i] = IF i <= 1 THEN <<t>>[i] ELSE x[i - 1]
    BY <1>5
  <2> HIDE DEF N
  <2>3. e[1] = t
    BY <1>3, <2>1, <2>2
  <2>4. \A k \in 1 .. N : k + 1 \in 1 .. 1 + N /\ e[k + 1] = x[k]
    <3> TAKE k \in 1 .. N
    <3>1. k + 1 \in 1 .. 1 + N /\ ~(k + 1 <= 1) /\ (k + 1) - 1 = k
      BY <2>1
    <3> QED
      BY <2>2, <3>1
  <2>5. \A i \in 1 .. 1 + N : i = 1 \/ (i - 1 \in 1 .. N /\ e[i] = x[i - 1])
    BY <2>1, <2>2
  <2> QED
    BY <2>1, <2>3, <2>4, <2>5 DEF N
<1>8. \A k \in 1 .. Len(x) : x[k] # t /\ x[k] \in Range(l)
  BY <1>1, <1>2 DEF Range
<1>9. \A i, j \in 1 .. Len(x) : x[i] = x[j] => i = j
  BY <1>1 DEF Lists
<1>10. \A i, j \in 1 .. Len(e) : e[i] = e[j] => i = j
  <2> SUFFICES ASSUME NEW i \in 1 .. Len(e), NEW j \in 1 .. Len(e), e[i] = e[j] PROVE i = j
    OBVIOUS
  <2>1. (i = 1 /\ e[i] = t) \/ (i - 1 \in 1 .. Len(x) /\ e[i] = x[i - 1] /\ e[i] # t)
    BY <1>7, <1>8
  <2>2. (j = 1 /\ e[j] = t) \/ (j - 1 \in 1 .. Len(x) /\ e[j] = x[j - 1] /\ e[j] # t)
    BY <1>7, <1>8
  <2>3. CASE i = 1 /\ j = 1
    BY <2>3
  <2>4. CASE i - 1 \in 1 .. Len(x) /\ e[i] = x[i - 1] /\ j - 1 \in 1 .. Len(x) /\ e[j] = x[j - 1]
    <3>1. i - 1 = j - 1
      BY <1>9, <2>4
    <3> QED
      BY <3>1
  <2> QED
    BY <2>1, <2>2, <2>3, <2>4
<1>11. e \in Lists
  BY <1>5, <1>10 DEF Lists
<1>12. ASSUME NEW y \in Range(e) PROVE y \in Range(l) \cup {t}
  <2>1. PICK i \in 1 .. Len(e) : y = e[i]
    BY <1>5, <1>6 DEF Range
  <2> QED
    BY <1>7, <1>8, <2>1
<1>13. ASSUME NEW y \in Range(l) \cup {t} PROVE y \in Range(e)
  <2>0. DOMAIN e = 1 .. Len(e) /\ 1 \in 1 .. Len(e)
    BY <1>2, <1>5, <1>6
  <2>1. CASE y = t
    BY <1>7, <2>0, <2>1 DEF Range
  <2>2. CASE y # t
    <3>1. PICK k \in 1 .. Len(x) : y = x[k]
      BY <1>1, <1>2, <2>2 DEF Range
    <3> QED
      BY <1>7, <2>0, <3>1 DEF Range
  <2> QED
    BY <2>1, <2>2
<1>14. e # <<>>
  BY <1>2, <1>5
<1> QED
  BY <1>7, <1>11, <1>12, <1>13, <1>14

(* The front of a list put in front of it changes nothing. *)
LEMMA FrontAgain ==
    ASSUME NEW l \in Lists, l # <<>>
    PROVE  l[1] \in Tasks /\ <<l[1]>> \o Except(l, l[1]) = l
<1>0. l \in Seq(Tasks) /\ Len(l) \in Nat \ {0} /\ DOMAIN l = 1 .. Len(l)
  BY EmptySeq DEF Lists
<1> DEFINE t == l[1]
           n == CHOOSE k \in DOMAIN l : l[k] = t
           L == Len(l) - 1
           e == [k \in 1 .. L |-> IF k < n THEN l[k] ELSE l[k + 1]]
<1>1. \A i, j \in 1 .. Len(l) : l[i] = l[j] => i = j
  BY DEF Lists
<1>2. 1 \in DOMAIN l /\ n \in DOMAIN l /\ l[n] = l[1]
  BY <1>0
<1>3. n = 1
  BY <1>0, <1>1, <1>2
<1>4. t \in Range(l) /\ t \in Tasks
  BY <1>0, <1>2, ElementOfSeq DEF Range
<1>5. Except(l, t) = e
  BY <1>4 DEF Except
<1>6. Except(l, t) \in Lists
  BY <1>4, ExceptFacts
<1> HIDE DEF n
<1>7. \A k \in 1 .. L : e[k] = l[k + 1]
  BY <1>0, <1>3
<1>8. e \in Seq(Tasks)
  BY <1>5, <1>6 DEF Lists
<1>9. Len(e) = L
  <2>1. DOMAIN e = 1 .. L
    OBVIOUS
  <2>2. DOMAIN e = 1 .. Len(e) /\ Len(e) \in Nat
    BY <1>8, LenProperties
  <2>3. L \in Nat
    BY <1>0
  <2> QED
    BY <2>1, <2>2, <2>3
<1> HIDE DEF e
<1>10. <<t>> \in Seq(Tasks) /\ Len(<<t>>) = 1 /\ <<t>>[1] = t
  BY <1>4
<1>11. /\ <<t>> \o e \in Seq(Tasks) /\ Len(<<t>> \o e) = 1 + L
       /\ \A i \in 1 .. 1 + L : (<<t>> \o e)[i] = IF i <= 1 THEN <<t>>[i] ELSE e[i - 1]
  BY <1>8, <1>9, <1>10, ConcatProperties
<1>12. \A i \in 1 .. Len(l) : (<<t>> \o e)[i] = l[i]
  BY <1>0, <1>7, <1>10, <1>11
<1>13. Len(<<t>> \o e) = Len(l)
  <2>1. L = Len(l) - 1 /\ Len(l) \in Nat
    BY <1>0
  <2> QED
    BY <1>11, <2>1
<1>14. <<t>> \o e = l
  BY Zenon, <1>0, <1>11, <1>12, <1>13, SeqEqual
<1> QED
  BY <1>4, <1>5, <1>14

(* What the cap leaves of a list. *)
LEMMA CapFacts ==
    ASSUME NEW e \in Lists, e # <<>>, NEW f, f = FirstOf(e, Cap)
    PROVE  f \in Lists /\ f # <<>> /\ f[1] = e[1] /\ Range(f) \subseteq Range(e)
<1>0. /\ e \in Seq(Tasks) /\ Len(e) \in Nat \ {0} /\ DOMAIN e = 1 .. Len(e)
      /\ \A i, j \in 1 .. Len(e) : e[i] = e[j] => i = j
  BY EmptySeq DEF Lists
<1>1. Cap \in Nat \ {0}
  BY TaskSyncAssumption
<1>2. CASE ~(Len(e) > Cap)
  BY <1>2 DEF FirstOf
<1>3. CASE Len(e) > Cap
  <2>1. f = SubSeq(e, 1, Cap)
    BY <1>3 DEF FirstOf
  <2>2. \A i \in 1 .. Cap : e[i] \in Tasks
    BY <1>0, <1>1, <1>3, ElementOfSeq
  <2>3. f \in Seq(Tasks) /\ Len(f) = Cap /\ \A i \in 1 .. Cap : f[i] = e[i]
    <3>1. /\ f \in Seq(Tasks) /\ Len(f) = (IF 1 <= Cap THEN Cap - 1 + 1 ELSE 0)
          /\ \A i \in 1 .. Cap - 1 + 1 : f[i] = e[1 + i - 1]
      BY <1>1, <2>1, <2>2, SubSeqProperties
    <3> QED
      BY <1>1, <3>1
  <2>4. DOMAIN f = 1 .. Cap
    BY <2>3, LenProperties
  <2>5. f \in Lists
    BY <1>0, <1>1, <1>3, <2>3 DEF Lists
  <2> QED
    BY <1>0, <1>1, <1>3, <2>3, <2>4, <2>5 DEF Range
<1> QED
  BY <1>2, <1>3

-----------------------------------------------------------------------------
(* Messages and queues of them. *)

Messages == [type : {"manual_tasks"}, tasks : Lists]
            \cup [type : {"manual_task_created"}, task : Tasks]

(* The queue brings the list l: its last message is l, or names the first  *)
(* task of l after l itself.                                               *)
Ends(q, l) ==
    /\ q # <<>>
    /\ \/ q[Len(q)] = Snapshot(l)
       \/ Len(q) > 1 /\ l # <<>> /\ q[Len(q)] = Added(l[1]) /\ q[Len(q) - 1] = Snapshot(l)

(* All that is left of that is the name. *)
OnlyAdds(q, l) == l # <<>> /\ q = <<Added(l[1])>>

LEMMA MessageFacts ==
    /\ \A l \in Lists : Snapshot(l) \in Messages /\ Snapshot(l).type = "manual_tasks" /\ Snapshot(l).tasks = l
    /\ \A t \in Tasks : Added(t) \in Messages /\ Added(t).type = "manual_task_created" /\ Added(t).task = t
    /\ \A m \in Messages : \/ m.tasks \in Lists /\ m = Snapshot(m.tasks)
                           \/ m.task \in Tasks /\ m = Added(m.task)
BY DEF Messages, Snapshot, Added

(* What is read from a queue that brings l. *)
LEMMA EndsTail ==
    ASSUME NEW q \in Seq(Messages), NEW l \in Lists, Ends(q, l)
    PROVE  /\ q # <<>>
           /\ \/ Ends(Tail(q), l)
              \/ Head(q) = Snapshot(l) /\ (Tail(q) = <<>> \/ OnlyAdds(Tail(q), l))
<1> DEFINE L == Len(q)
           r == Tail(q)
<1>1. q # <<>> /\ L \in Nat \ {0} /\ L = Len(q)
  BY EmptySeq DEF Ends
<1>2. /\ r \in Seq(Messages) /\ Len(r) = L - 1
      /\ \A i \in 1 .. L - 1 : r[i] = q[i + 1]
  BY <1>1, HeadTailProperties
<1>3. Head(q) = q[1]
  BY <1>1
<1>4. \/ q[L] = Snapshot(l)
      \/ L > 1 /\ l # <<>> /\ q[L] = Added(l[1]) /\ q[L - 1] = Snapshot(l)
  BY DEF Ends
<1> HIDE DEF L, r
<1>5. CASE L = 1
  <2>1. r = <<>>
    BY <1>2, <1>5, EmptySeq
  <2> QED
    BY <1>1, <1>3, <1>4, <1>5, <2>1 DEF r
<1>6. CASE L > 1 /\ q[L] = Snapshot(l)
  <2>1. r # <<>> /\ r[Len(r)] = q[L]
    BY <1>1, <1>2, <1>6
  <2> QED
    BY <1>1, <1>6, <2>1 DEF Ends, r
<1>7. CASE L = 2 /\ l # <<>> /\ q[L] = Added(l[1]) /\ q[L - 1] = Snapshot(l)
  <2>1. Len(r) = 1 /\ r[1] = Added(l[1])
    BY <1>2, <1>7
  <2>2. r = <<Added(l[1])>>
    <3> DEFINE m == Added(l[1])
    <3>1. m \in Messages /\ r[1] = m
      <4>1. 1 \in 1 .. Len(r)
        BY <2>1
      <4>2. r[1] \in Messages
        BY <1>2, <4>1, ElementOfSeq
      <4> QED
        BY <2>1, <4>2
    <3> HIDE DEF m
    <3>2. <<m>> \in Seq(Messages) /\ Len(<<m>>) = 1 /\ <<m>>[1] = m
      BY <3>1
    <3>3. \A i \in 1 .. Len(r) : r[i] = <<m>>[i]
      BY <2>1, <3>1, <3>2
    <3>4. r = <<m>>
      BY <1>2, <2>1, <3>2, <3>3, SeqEqual
    <3> QED
      BY <3>4 DEF m
  <2> QED
    BY <1>1, <1>3, <1>7, <2>2 DEF OnlyAdds, r
<1>8. CASE L > 2 /\ l # <<>> /\ q[L] = Added(l[1]) /\ q[L - 1] = Snapshot(l)
  <2>1. /\ r # <<>> /\ Len(r) > 1 /\ r[Len(r)] = q[L] /\ r[Len(r) - 1] = q[L - 1]
    BY <1>1, <1>2, <1>8
  <2> QED
    BY <1>1, <1>8, <2>1 DEF Ends, r
<1> QED
  BY <1>1, <1>4, <1>5, <1>6, <1>7, <1>8

LEMMA EndsConcat ==
    ASSUME NEW a \in Seq(Messages), NEW b \in Seq(Messages), NEW l, Ends(b, l)
    PROVE  Ends(a \o b, l)
<1> DEFINE c == a \o b
           A == Len(a)
           N == Len(b)
<1>1. A \in Nat /\ N \in Nat \ {0} /\ N = Len(b)
  BY EmptySeq DEF Ends
<1>2. /\ c \in Seq(Messages) /\ Len(c) = A + N
      /\ \A i \in 1 .. A + N : c[i] = IF i <= A THEN a[i] ELSE b[i - A]
  BY ConcatProperties
<1>3. \/ b[N] = Snapshot(l)
      \/ N > 1 /\ l # <<>> /\ b[N] = Added(l[1]) /\ b[N - 1] = Snapshot(l)
  BY DEF Ends
<1> HIDE DEF A, N, c
<1>4. c # <<>> /\ c[Len(c)] = b[N]
  BY <1>1, <1>2
<1>5. N > 1 => c[Len(c) - 1] = b[N - 1]
  BY <1>1, <1>2
<1> QED
  BY <1>1, <1>2, <1>3, <1>4, <1>5 DEF Ends, c

LEMMA EndsSnapshot ==
    ASSUME NEW l PROVE Ends(<<Snapshot(l)>>, l)
BY DEF Ends

(* A list, and then what is left of its announcement. *)
LEMMA EndsRest ==
    ASSUME NEW l \in Lists, NEW b, b = <<>> \/ OnlyAdds(b, l)
    PROVE  Ends(<<Snapshot(l)>> \o b, l)
<1>1. CASE b = <<>>
  <2>1. <<Snapshot(l)>> \in Seq(Messages)
    BY MessageFacts
  <2>2. <<Snapshot(l)>> \o <<>> = <<Snapshot(l)>>
    BY <2>1, ConcatEmptySeq
  <2> QED
    BY <1>1, <2>2, EndsSnapshot
<1>2. CASE OnlyAdds(b, l)
  <2> DEFINE s == Snapshot(l)
             m == Added(l[1])
             a == <<s>>
             c == a \o b
  <2>1. s \in Messages /\ m \in Messages /\ l # <<>> /\ b = <<m>>
    <3>1. l # <<>> /\ b = <<m>>
      BY <1>2 DEF OnlyAdds
    <3> QED
      BY <3>1, FrontAgain, MessageFacts
  <2> HIDE DEF s, m
  <2>2. a \in Seq(Messages) /\ Len(a) = 1 /\ a[1] = s
    BY <2>1
  <2>3. b \in Seq(Messages) /\ Len(b) = 1 /\ b[1] = m
    BY <2>1
  <2> HIDE DEF a
  <2>4. /\ c \in Seq(Messages) /\ Len(c) = Len(a) + Len(b)
        /\ \A i \in 1 .. Len(a) + Len(b) : c[i] = IF i <= Len(a) THEN a[i] ELSE b[i - Len(a)]
    BY <2>2, <2>3, ConcatProperties
  <2> HIDE DEF c
  <2>5. Len(c) = 2 /\ c[1] = s /\ c[2] = m /\ c # <<>>
    BY <2>2, <2>3, <2>4
  <2>6. Ends(c, l)
    BY <2>1, <2>5 DEF Ends, s, m
  <2> QED
    BY <2>6 DEF c, a, s
<1> QED
  BY <1>1, <1>2

(* Concatenation associates. *)
LEMMA Regroup ==
    ASSUME NEW a \in Seq(Messages), NEW b \in Seq(Messages), NEW c \in Seq(Messages)
    PROVE  (a \o b) \o c = a \o (b \o c)
BY ONLY ConcatAssociative, SMT

(* The head of a queue moves on to the end of the queue before it. *)
Shifted(d, s, p, h, r) ==
    /\ Append(d, h) \o (r \o p) = d \o (s \o p)
    /\ r \o p = Tail(s \o p) /\ h = Head(s \o p) /\ s \o p # <<>>
    /\ h \in Messages /\ r \in Seq(Messages)

LEMMA Shift ==
    ASSUME NEW d \in Seq(Messages), NEW s \in Seq(Messages), s # <<>>, NEW p \in Seq(Messages),
           NEW h, h = Head(s), NEW r, r = Tail(s)
    PROVE  Shifted(d, s, p, h, r)
<1>1. h \in Messages /\ r \in Seq(Messages)
  BY HeadTailProperties
<1> DEFINE a == <<h>>
           q == r \o p
<1>2. s = a \o r
  OBVIOUS
<1>3. a \in Seq(Messages) /\ Len(a) = 1 /\ a[1] = h
  BY <1>1
<1>4. Append(d, h) = d \o a
  BY <1>1, AppendIsConcat
<1> HIDE DEF a, q
<1>5. q \in Seq(Messages)
  BY <1>1, ConcatProperties DEF q
<1>6. (d \o a) \o q = d \o (a \o q)
  BY ONLY <1>3, <1>5, Regroup
<1>7. (a \o r) \o p = a \o (r \o p)
  BY ONLY <1>1, <1>3, Regroup
<1>8. s \o p = a \o q
  BY ONLY <1>2, <1>7, Zenon DEF q
<1>9. \A x \in Seq(Messages) : Head(<<h>> \o x) = h /\ Tail(<<h>> \o x) = x /\ <<h>> \o x # <<>>
  BY <1>1
<1>10. /\ Head(a \o q) = h /\ Tail(a \o q) = q /\ a \o q # <<>>
  BY <1>5, <1>9, Zenon DEF a
<1> QED
  BY ONLY <1>1, <1>4, <1>6, <1>8, <1>10, Zenon DEF q, Shifted

-----------------------------------------------------------------------------
(* The publisher's queues. *)

Last(q) == q[Len(q)]
LastButOne(q) == q[Len(q) - 1]

LEMMA LastOfFacts ==
    ASSUME NEW s \in Seq(Messages), s # <<>>, NEW k, k = LastOf(s, PendingCap)
    PROVE  /\ k \in Seq(Messages) /\ k # <<>> /\ Last(k) = Last(s)
           /\ Len(s) > 1 => Len(k) > 1 /\ LastButOne(k) = LastButOne(s)
<1> DEFINE L == Len(s)
           N == PendingCap
<1>1. L \in Nat \ {0} /\ N \in Nat /\ N > 1 /\ L = Len(s)
  BY EmptySeq, TaskSyncAssumption
<1>2. CASE ~(L > N)
  BY <1>2 DEF LastOf
<1>3. CASE L > N
  <2>1. k = SubSeq(s, L - N + 1, L)
    BY <1>3 DEF LastOf
  <2>2. \A i \in L - N + 1 .. L : s[i] \in Messages
    BY <1>1, <1>3, ElementOfSeq
  <2> HIDE DEF L, N
  <2>3. L - N + 1 \in Int /\ L \in Int
    BY <1>1
  <2>4. /\ k \in Seq(Messages)
        /\ Len(k) = (IF L - N + 1 <= L THEN L - (L - N + 1) + 1 ELSE 0)
        /\ \A i \in 1 .. L - (L - N + 1) + 1 : k[i] = s[L - N + 1 + i - 1]
    BY <2>1, <2>2, <2>3, SubSeqProperties
  <2>5. Len(k) = N /\ \A i \in 1 .. N : k[i] = s[L - N + i]
    BY <1>1, <2>4
  <2>6. N \in 1 .. N /\ N - 1 \in 1 .. N /\ L - N + N = L /\ L - N + (N - 1) = L - 1
    BY <1>1
  <2>7. k[N] = s[L] /\ k[N - 1] = s[L - 1]
    BY <2>5, <2>6
  <2> QED
    BY <1>1, <2>4, <2>5, <2>7 DEF Last, LastButOne
<1> QED
  BY <1>2, <1>3

LEMMA AppendFacts ==
    ASSUME NEW s \in Seq(Messages), NEW m \in Messages, NEW k, k = Append(s, m)
    PROVE  /\ k \in Seq(Messages) /\ k # <<>> /\ Last(k) = m
           /\ s # <<>> => Len(k) > 1 /\ LastButOne(k) = Last(s)
<1>1. /\ k \in Seq(Messages) /\ k # <<>> /\ Len(k) = Len(s) + 1 /\ Len(s) \in Nat
      /\ \A i \in 1 .. Len(s) : k[i] = s[i]
      /\ k[Len(s) + 1] = m
  BY AppendProperties
<1>2. s # <<>> => Len(s) > 0
  BY <1>1, EmptySeq
<1> QED
  BY <1>1, <1>2 DEF Last, LastButOne

(* What the publisher has not delivered yet. *)
Undelivered(p) == p.out \o p.pub.pending

QueueOK(p) ==
    /\ DOMAIN p = {"pub", "out"} /\ PubOK(p.pub)
    /\ p.out \in Seq(Messages) /\ p.pub.pending \in Seq(Messages)
    /\ p.pub.ready => p.pub.pending = <<>>
    /\ ~p.pub.ready => p.out = <<>>

(* The message is the last of the queue now, and the last one before it,   *)
(* unless there was none, comes just before it; whatever was dropped.      *)
LEMMA EnqueueFacts ==
    ASSUME NEW p, QueueOK(p), ~p.pub.disabled, p.pub.sock = "dead" => ~p.pub.ready,
           NEW m \in Messages, NEW q, q = Enqueue(p, m)
    PROVE  /\ QueueOK(q) /\ q.pub.ready = p.pub.ready /\ ~q.pub.disabled
           /\ q.pub.sock = "dead" => p.pub.sock = "dead"
           /\ q.pub.ready => q.pub.sock = "open"
           /\ Undelivered(q) # <<>> /\ Last(Undelivered(q)) = m
           /\ Undelivered(p) # <<>> =>
                  Len(Undelivered(q)) > 1 /\ LastButOne(Undelivered(q)) = Last(Undelivered(p))
<1>1. CASE p.pub.ready
  <2>1. p.pub.sock = "open" /\ p.pub.pending = <<>>
    BY <1>1 DEF PubOK, QueueOK
  <2>2. q = [p EXCEPT !.out = Append(@, m)]
    BY <1>1, <2>1 DEF Enqueue, Sent
  <2> DEFINE o == Append(p.out, m)
  <2>3. /\ o \in Seq(Messages) /\ o # <<>> /\ Last(o) = m
        /\ p.out # <<>> => Len(o) > 1 /\ LastButOne(o) = Last(p.out)
    BY AppendFacts DEF QueueOK
  <2>4. q.out = o /\ q.pub = p.pub /\ DOMAIN q = {"pub", "out"}
    BY <2>2 DEF QueueOK
  <2> HIDE DEF o
  <2>5. Undelivered(q) = o /\ Undelivered(p) = p.out
    BY <2>1, <2>3, <2>4, ConcatEmptySeq DEF Undelivered, QueueOK
  <2>6. QueueOK(q)
    BY <1>1, <2>1, <2>3, <2>4 DEF QueueOK
  <2> QED
    BY <1>1, <2>1, <2>3, <2>4, <2>5, <2>6
<1>2. CASE ~p.pub.ready
  <2> DEFINE s == Append(p.pub.pending, m)
             k == LastOf(s, PendingCap)
             r == [p EXCEPT !.pub.pending = k]
  <2>1. /\ s \in Seq(Messages) /\ s # <<>> /\ Last(s) = m
        /\ p.pub.pending # <<>> => Len(s) > 1 /\ LastButOne(s) = Last(p.pub.pending)
    BY AppendFacts DEF QueueOK
  <2>2. q = PubConnect(r)
    BY <1>2 DEF Enqueue
  <2> HIDE DEF s
  <2>3. /\ k \in Seq(Messages) /\ k # <<>> /\ Last(k) = Last(s)
        /\ Len(s) > 1 => Len(k) > 1 /\ LastButOne(k) = LastButOne(s)
    BY <2>1, LastOfFacts
  <2> HIDE DEF k
  <2>4. /\ DOMAIN r = {"pub", "out"} /\ r.out = p.out /\ r.pub = [p.pub EXCEPT !.pending = k]
        /\ p.out = <<>>
    BY <1>2 DEF QueueOK
  <2> HIDE DEF r
  <2>5. /\ PubOK(r.pub) /\ r.pub.pending = k /\ ~r.pub.ready /\ ~r.pub.disabled
        /\ r.pub.sock = p.pub.sock /\ r.pub.connecting = p.pub.connecting
    BY <1>2, <2>4 DEF QueueOK, PubOK, Fields
  <2>6. /\ DOMAIN q = {"pub", "out"} /\ q.out = <<>> /\ q.pub.pending = k
        /\ ~q.pub.ready /\ ~q.pub.disabled
        /\ q.pub.sock = "dead" => p.pub.sock = "dead"
    <3>1. CASE r.pub.connecting
      BY <2>2, <2>4, <2>5, <3>1 DEF PubConnect
    <3>2. CASE ~r.pub.connecting
      <4>1. q = [pub |-> [r.pub EXCEPT !.timer = FALSE, !.connecting = TRUE, !.sock = "opening"],
                 out |-> <<>>]
        BY <2>2, <2>5, <3>2 DEF PubConnect
      <4> DEFINE u == [r.pub EXCEPT !.timer = FALSE, !.connecting = TRUE, !.sock = "opening"]
      <4>2. u.pending = k /\ ~u.ready /\ ~u.disabled /\ u.sock = "opening"
        BY <2>5 DEF PubOK, Fields
      <4> HIDE DEF u
      <4>3. q = [pub |-> u, out |-> <<>>]
        BY <4>1 DEF u
      <4> QED
        BY <4>2, <4>3
    <3> QED
      BY <3>1, <3>2
  <2>7. PubOK(q.pub)
    BY <2>2, <2>5, ConnectPursues
  <2>8. QueueOK(q)
    BY <2>3, <2>6, <2>7, EmptySeq DEF QueueOK
  <2>9. Undelivered(q) = k /\ Undelivered(p) = p.pub.pending
    BY <2>3, <2>4, <2>6, ConcatEmptySeq DEF Undelivered, QueueOK
  <2>10. p.pub.ready \in BOOLEAN /\ q.pub.ready \in BOOLEAN
    BY <2>7 DEF PubOK, QueueOK
  <2> QED
    BY <1>2, <2>1, <2>3, <2>6, <2>8, <2>9, <2>10
<1> QED
  BY <1>1, <1>2

-----------------------------------------------------------------------------
(* The event stream. *)

Reads(f, s, lines, n) == f = [k \in 0 .. n |-> IF k = 0 THEN s ELSE StreamRead(f[k - 1], lines[k])]

LEMMA OneMoreLine ==
    ASSUME NEW s, NEW lines, NEW n \in Nat, \E f : Reads(f, s, lines, n)
    PROVE  \E f : Reads(f, s, lines, n + 1)
<1>1. PICK f : Reads(f, s, lines, n)
  OBVIOUS
<1> DEFINE h == [k \in 0 .. n + 1 |-> IF k = n + 1 THEN StreamRead(f[n], lines[n + 1]) ELSE f[k]]
<1>2. \A k \in 0 .. n : h[k] = f[k]
  OBVIOUS
<1>3. \A k \in 0 .. n : f[k] = IF k = 0 THEN s ELSE StreamRead(f[k - 1], lines[k])
  BY <1>1 DEF Reads
<1>4. ASSUME NEW k \in 0 .. n + 1
      PROVE  h[k] = IF k = 0 THEN s ELSE StreamRead(h[k - 1], lines[k])
  <2>1. CASE k = n + 1
    BY <1>2, <2>1
  <2>2. CASE k # n + 1
    <3>1. k \in 0 .. n /\ (k # 0 => k - 1 \in 0 .. n)
      BY <2>2
    <3> QED
      BY <1>2, <1>3, <3>1
  <2> QED
    BY <2>1, <2>2
<1>5. h = [k \in 0 .. n + 1 |-> h[k]]
  OBVIOUS
<1> HIDE DEF h
<1>6. Reads(h, s, lines, n + 1)
  BY <1>4, <1>5 DEF Reads
<1> QED
  BY <1>6

(* A chunk is read line by line; none here has more than five. *)
LEMMA ChunkSteps ==
    ASSUME NEW s, NEW lines, Len(lines) \in 0 .. 5
    PROVE  \E f : /\ f[0] = s
                  /\ \A k \in 1 .. Len(lines) : f[k] = StreamRead(f[k - 1], lines[k])
                  /\ ChunkRead(s, lines) = f[Len(lines)]
<1> DEFINE L == Len(lines)
           F == CHOOSE f : Reads(f, s, lines, L)
<1>0. \E f : Reads(f, s, lines, 0)
  <2>1. Reads([k \in 0 .. 0 |-> s], s, lines, 0)
    BY DEF Reads
  <2> QED
    BY <2>1
<1>1. \E f : Reads(f, s, lines, 1)
  BY <1>0, OneMoreLine
<1>2. \E f : Reads(f, s, lines, 2)
  BY <1>1, OneMoreLine
<1>3. \E f : Reads(f, s, lines, 3)
  BY <1>2, OneMoreLine
<1>4. \E f : Reads(f, s, lines, 4)
  BY <1>3, OneMoreLine
<1>5. \E f : Reads(f, s, lines, 5)
  BY <1>4, OneMoreLine
<1>6. \E f : Reads(f, s, lines, L)
  <2>1. L = 0 \/ L = 1 \/ L = 2 \/ L = 3 \/ L = 4 \/ L = 5
    OBVIOUS
  <2> HIDE DEF L
  <2> QED
    BY <1>0, <1>1, <1>2, <1>3, <1>4, <1>5, <2>1
<1>7. Reads(F, s, lines, L)
  BY <1>6
<1>8. ChunkRead(s, lines) = F[L]
  BY DEF ChunkRead, Reads
<1> HIDE DEF F
<1>9. F[0] = s /\ \A k \in 1 .. L : F[k] = StreamRead(F[k - 1], lines[k])
  BY <1>7 DEF Reads
<1> QED
  BY <1>8, <1>9

ParserOK(p) == DOMAIN p = {"buf", "cur", "data"} /\ p.buf # "blank"

Plain(w) == \E l \in Lists : w = Event(l)
First(w) == \E l \in Lists : w = Preamble \o Event(l)

LEMMA LineFacts ==
    ASSUME NEW s, ParserOK(s.p), NEW line, NEW r, r = StreamRead(s, line)
    PROVE  ParserOK(r.p) /\ r.p.buf = "none"
<1>1. r.p = LineRead(s.p, line)
  BY DEF StreamRead
<1> DEFINE p == s.p
           q == [p EXCEPT !.buf = "none"]
           kind == IF p.buf = "none" THEN line.kind ELSE p.buf
<1>2. DOMAIN q = {"buf", "cur", "data"} /\ q.buf = "none"
  BY DEF ParserOK
<1>3. CASE kind = "event"
  <2>1. \E c : LineRead(p, line) = [q EXCEPT !.cur = c]
    BY <1>3 DEF LineRead
  <2> HIDE DEF q
  <2> QED
    BY <1>1, <1>2, <2>1 DEF ParserOK
<1>4. CASE kind = "data"
  <2>1. \E c : LineRead(p, line) = [q EXCEPT !.data = c]
    BY <1>4 DEF LineRead
  <2> HIDE DEF q
  <2> QED
    BY <1>1, <1>2, <2>1 DEF ParserOK
<1>5. CASE kind = "blank"
  <2>1. LineRead(p, line) = IdleParser
    BY <1>5 DEF LineRead
  <2> QED
    BY <1>1, <2>1 DEF ParserOK, IdleParser
<1>6. CASE kind \notin {"event", "data", "blank"}
  <2>1. LineRead(p, line) = q
    BY <1>6 DEF LineRead
  <2> QED
    BY <1>1, <1>2, <2>1 DEF ParserOK
<1> QED
  BY <1>3, <1>4, <1>5, <1>6

(* The first lines of a chunk, whatever they are. *)
LEMMA PrefixFacts ==
    ASSUME NEW s, ParserOK(s.p), NEW lines, Len(lines) \in 0 .. 5, NEW r, r = ChunkRead(s, lines)
    PROVE  ParserOK(r.p)
<1>1. PICK f : /\ f[0] = s
               /\ \A k \in 1 .. Len(lines) : f[k] = StreamRead(f[k - 1], lines[k])
               /\ r = f[Len(lines)]
  BY ChunkSteps
<1> DEFINE L == Len(lines)
<1>2. L \in 0 .. 5 /\ \A k \in 1 .. L : f[k] = StreamRead(f[k - 1], lines[k])
  BY <1>1
<1> HIDE DEF L
<1>3. \A k \in 1 .. L : ParserOK(f[k - 1].p) => ParserOK(f[k].p)
  BY <1>2, LineFacts
<1>4. ParserOK(f[0].p)
  BY <1>1
<1>5. L >= 1 => ParserOK(f[1].p)
  BY <1>2, <1>3, <1>4
<1>6. L >= 2 => ParserOK(f[2].p)
  BY <1>2, <1>3, <1>5
<1>7. L >= 3 => ParserOK(f[3].p)
  BY <1>2, <1>3, <1>6
<1>8. L >= 4 => ParserOK(f[4].p)
  BY <1>2, <1>3, <1>7
<1>9. L >= 5 => ParserOK(f[5].p)
  BY <1>2, <1>3, <1>8
<1>10. L = 0 \/ L = 1 \/ L = 2 \/ L = 3 \/ L = 4 \/ L = 5
  BY <1>2
<1>11. L = Len(lines) /\ r = f[L]
  BY <1>1 DEF L
<1>12. ParserOK(f[L].p)
  BY ONLY <1>4, <1>5, <1>6, <1>7, <1>8, <1>9, <1>10
<1> QED
  BY ONLY <1>11, <1>12

(* Three lines of an event, read by an idle parser. *)
LEMMA ThreeLines ==
    ASSUME NEW l, NEW a, a.p = IdleParser,
           NEW b, b = StreamRead(a, [kind |-> "event", val |-> "state"]),
           NEW c, c = StreamRead(b, [kind |-> "data", val |-> l]),
           NEW d, d = StreamRead(c, [kind |-> "blank", val |-> "none"])
    PROVE  d.p = IdleParser /\ d.list = [tasks |-> l, own |-> FALSE]
<1>1. b.p = [buf |-> "none", cur |-> "state", data |-> <<>>]
  <2>1. b.p = LineRead(IdleParser, [kind |-> "event", val |-> "state"])
    BY DEF StreamRead
  <2> QED
    BY <2>1 DEF LineRead, IdleParser
<1>2. c.p = [buf |-> "none", cur |-> "state", data |-> <<[whole |-> TRUE, list |-> l]>>]
  <2> DEFINE x == [buf |-> "none", cur |-> "state", data |-> <<>>]
  <2>1. c.p = LineRead(x, [kind |-> "data", val |-> l])
    BY <1>1 DEF StreamRead
  <2>2. LineRead(x, [kind |-> "data", val |-> l]) =
            [x EXCEPT !.buf = "none", !.data = Append(@, [whole |-> TRUE, list |-> l])]
    BY DEF LineRead
  <2>3. Append(<<>>, [whole |-> TRUE, list |-> l]) = <<[whole |-> TRUE, list |-> l]>>
    OBVIOUS
  <2> QED
    BY <2>1, <2>2, <2>3
<1>3. d.p = IdleParser
  <2>1. d.p = LineRead(c.p, [kind |-> "blank", val |-> "none"])
    BY DEF StreamRead
  <2> QED
    BY <1>2, <2>1 DEF LineRead
<1>4. d.list = [tasks |-> l, own |-> FALSE]
  <2>1. d.list = Dispatched(c.p, [kind |-> "blank", val |-> "none"], c.list)
    BY DEF StreamRead
  <2> DEFINE e == [whole |-> TRUE, list |-> l]
             x == <<e>>
  <2>3. e.whole /\ e.list = l
    OBVIOUS
  <2>5. c.p = [buf |-> "none", cur |-> "state", data |-> x]
    BY <1>2
  <2>6. x = <<e>>
    OBVIOUS
  <2> HIDE DEF e, x
  <2>2. c.p.buf = "none" /\ c.p.cur = "state" /\ c.p.data = <<e>>
    BY <2>5, <2>6
  <2>4. Len(c.p.data) = 1 /\ c.p.data[1] = e
    BY <2>2
  <2> QED
    BY <2>1, <2>2, <2>3, <2>4 DEF Dispatched
<1> QED
  BY <1>3, <1>4

LEMMA EventLines ==
    ASSUME NEW l
    PROVE  /\ Len(Event(l)) = 3
           /\ Event(l)[1] = [kind |-> "event", val |-> "state"]
           /\ Event(l)[2] = [kind |-> "data", val |-> l]
           /\ Event(l)[3] = [kind |-> "blank", val |-> "none"]
<1> DEFINE a == [kind |-> "event", val |-> "state"]
           b == [kind |-> "data", val |-> l]
           c == [kind |-> "blank", val |-> "none"]
<1>1. Event(l) = <<a, b, c>>
  BY DEF Event
<1> HIDE DEF a, b, c
<1>2. Len(<<a, b, c>>) = 3 /\ <<a, b, c>>[1] = a /\ <<a, b, c>>[2] = b /\ <<a, b, c>>[3] = c
  OBVIOUS
<1> QED
  BY <1>1, <1>2 DEF a, b, c

LEMMA FirstLines ==
    ASSUME NEW l, NEW w, w = Preamble \o Event(l)
    PROVE  /\ Len(w) = 5
           /\ w[1] = [kind |-> "comment", val |-> "none"]
           /\ w[2] = [kind |-> "blank", val |-> "none"]
           /\ w[3] = [kind |-> "event", val |-> "state"]
           /\ w[4] = [kind |-> "data", val |-> l]
           /\ w[5] = [kind |-> "blank", val |-> "none"]
<1> DEFINE a == [kind |-> "event", val |-> "state"]
           b == [kind |-> "data", val |-> l]
           c == [kind |-> "blank", val |-> "none"]
           d == [kind |-> "comment", val |-> "none"]
<1>1. w = <<d, c>> \o <<a, b, c>>
  BY DEF Event, Preamble
<1> HIDE DEF a, b, c, d
<1> DEFINE x == <<d, c>>
           y == <<a, b, c>>
           S == {a, b, c, d}
<1>2. x \in Seq(S) /\ Len(x) = 2 /\ x[1] = d /\ x[2] = c
  OBVIOUS
<1>3. y \in Seq(S) /\ Len(y) = 3 /\ y[1] = a /\ y[2] = b /\ y[3] = c
  OBVIOUS
<1>4. w = x \o y
  BY <1>1
<1> HIDE DEF x, y, S
<1>5. /\ Len(x \o y) = Len(x) + Len(y)
      /\ \A i \in 1 .. Len(x) + Len(y) : (x \o y)[i] = IF i <= Len(x) THEN x[i] ELSE y[i - Len(x)]
  BY <1>2, <1>3, ConcatProperties
<1>6. \A i \in 1 .. 5 : w[i] = IF i <= 2 THEN x[i] ELSE y[i - 2]
  BY <1>2, <1>3, <1>4, <1>5
<1>7. w[1] = x[1] /\ w[2] = x[2] /\ w[3] = y[1] /\ w[4] = y[2] /\ w[5] = y[3] /\ Len(w) = 5
  BY <1>2, <1>3, <1>4, <1>5, <1>6
<1> QED
  BY <1>2, <1>3, <1>7 DEF a, b, c, d

(* A whole chunk: the desktop takes its list over and is between events.   *)
LEMMA ChunkFacts ==
    ASSUME NEW s, ParserOK(s.p), NEW l, NEW w,
           \/ w = Event(l) /\ s.p = IdleParser
           \/ w = Preamble \o Event(l),
           NEW r, r = ChunkRead(s, w)
    PROVE  r.p = IdleParser /\ r.list = [tasks |-> l, own |-> FALSE]
<1>1. CASE w = Event(l) /\ s.p = IdleParser
  <2>0. Len(w) = 3
    BY <1>1, EventLines
  <2>1. /\ w[1] = [kind |-> "event", val |-> "state"]
        /\ w[2] = [kind |-> "data", val |-> l]
        /\ w[3] = [kind |-> "blank", val |-> "none"]
    BY <1>1, EventLines
  <2>6. Len(w) \in 0 .. 5
    BY <2>0
  <2>5. \E f : /\ f[0] = s
              /\ \A k \in 1 .. Len(w) : f[k] = StreamRead(f[k - 1], w[k])
              /\ ChunkRead(s, w) = f[Len(w)]
    BY <2>6, ChunkSteps
  <2>2. PICK f : /\ f[0] = s
                 /\ \A k \in 1 .. 3 : f[k] = StreamRead(f[k - 1], w[k])
                 /\ r = f[3]
    BY <2>0, <2>5
  <2>3. f[1] = StreamRead(f[0], w[1]) /\ f[2] = StreamRead(f[1], w[2]) /\ f[3] = StreamRead(f[2], w[3])
    BY <2>2
  <2>4. f[0].p = IdleParser
    BY <1>1, <2>2
  <2> QED
    BY <2>1, <2>2, <2>3, <2>4, ThreeLines
<1>2. CASE w = Preamble \o Event(l)
  <2>0. Len(w) = 5
    BY <1>2, FirstLines
  <2>1. /\ w[2] = [kind |-> "blank", val |-> "none"]
        /\ w[3] = [kind |-> "event", val |-> "state"]
        /\ w[4] = [kind |-> "data", val |-> l]
        /\ w[5] = [kind |-> "blank", val |-> "none"]
    BY <1>2, FirstLines
  <2>7. Len(w) \in 0 .. 5
    BY <2>0
  <2>6. \E f : /\ f[0] = s
              /\ \A k \in 1 .. Len(w) : f[k] = StreamRead(f[k - 1], w[k])
              /\ ChunkRead(s, w) = f[Len(w)]
    BY <2>7, ChunkSteps
  <2>2. PICK f : /\ f[0] = s
                 /\ \A k \in 1 .. 5 : f[k] = StreamRead(f[k - 1], w[k])
                 /\ r = f[5]
    BY <2>0, <2>6
  <2>3. /\ f[1] = StreamRead(s, w[1]) /\ f[2] = StreamRead(f[1], w[2]) /\ f[3] = StreamRead(f[2], w[3])
        /\ f[4] = StreamRead(f[3], w[4]) /\ f[5] = StreamRead(f[4], w[5])
    <3>1. f[1] = StreamRead(f[1 - 1], w[1]) /\ f[2] = StreamRead(f[2 - 1], w[2])
      BY <2>2
    <3>2. f[3] = StreamRead(f[3 - 1], w[3]) /\ f[4] = StreamRead(f[4 - 1], w[4])
      BY <2>2
    <3>3. f[5] = StreamRead(f[5 - 1], w[5])
      BY <2>2
    <3>4. f[1 - 1] = s /\ 2 - 1 = 1 /\ 3 - 1 = 2 /\ 4 - 1 = 3 /\ 5 - 1 = 4
      BY <2>2
    <3> QED
      BY <3>1, <3>2, <3>3, <3>4
  <2>4. f[1].p.buf = "none"
    BY <2>3, LineFacts
  <2>5. f[2].p = IdleParser
    <3>1. f[2].p = LineRead(f[1].p, w[2])
      BY <2>3 DEF StreamRead
    <3> QED
      BY <2>1, <2>4, <3>1 DEF LineRead
  <2> QED
    BY <2>1, <2>2, <2>3, <2>5, ThreeLines
<1> QED
  BY <1>1, <1>2

-----------------------------------------------------------------------------
(* What is on its way: to the gateway, and through it to the desktop. *)
Unread == toGw \o pub.pending
Unseen == toDesk \o Unread

Chunks == {Event(l) : l \in Lists} \cup {Preamble \o Event(l) : l \in Lists}

ListInv ==
    /\ tasks \in Lists /\ latest \in Lists \cup {NoList}
    /\ gone \cap Range(tasks) = {} /\ gone \subseteq Tasks /\ replies \subseteq gone \cup OwnTasks

QueueInv ==
    /\ QueueOK(Publisher) /\ toDesk \in Seq(Messages)
    /\ \A t \in Tasks : pub.pending # <<Added(t)>>
    /\ toGw # <<>> => pub.sock = "open"
    /\ pub.sock = "dead" => latest = NoList
    /\ latest = NoList \/ ws # "open" => toDesk = <<>>
    /\ ws \in {"closed", "open", "refused"}
    /\ auth = "bad" => latest = NoList /\ ws # "open" /\ ~pub.ready
    /\ auth # "bad" => ws # "refused" /\ ~pub.disabled

StreamInv ==
    /\ ParserOK(parser) /\ sse \in {"open", "closed"}
    /\ wire \in Seq(Chunks) /\ (sse = "closed" => wire = <<>>)
    /\ \A k \in 2 .. Len(wire) : Plain(wire[k])
    /\ sse = "open" => parser = IdleParser \/ (wire # <<>> /\ First(wire[1]))
    /\ wire # <<>> => wire[Len(wire)] \in {Event(tasks), Preamble \o Event(tasks)}

Idle == sse = "open" /\ wire = <<>>

Follows == shown = tasks \/ strayed

Arrives ==
    /\ ~lost => \/ Ends(Unread, tasks)
                \/ OnlyAdds(Unread, tasks) /\ latest = tasks
                \/ Unread = <<>> /\ latest \in {tasks, NoList}
    /\ ~lost /\ ws = "open" => Ends(Unseen, tasks) \/ OnlyAdds(Unseen, tasks) \/ Unseen = <<>>
    /\ ~lost /\ Idle /\ ws = "open" => Ends(Unseen, tasks) \/ Follows
    /\ ~lost /\ Idle /\ ws = "closed" => Ends(Unread, tasks) \/ latest = tasks \/ Follows
    /\ Idle /\ auth = "bad" => Follows

DInv == ListInv /\ QueueInv /\ StreamInv /\ Arrives

LEMMA QueueFacts ==
    ASSUME QueueOK(Publisher)
    PROVE  /\ PubOK(pub) /\ toGw \in Seq(Messages) /\ pub.pending \in Seq(Messages)
           /\ (pub.ready => pub.pending = <<>>) /\ (~pub.ready => toGw = <<>>)
           /\ Undelivered(Publisher) = Unread
           /\ Publisher.pub = pub /\ Publisher.out = toGw
           /\ Unread \in Seq(Messages)
           /\ (Unread = <<>> <=> toGw = <<>> /\ pub.pending = <<>>)
<1>1. Publisher.pub = pub /\ Publisher.out = toGw
  BY DEF Publisher
<1>2. toGw \in Seq(Messages) /\ pub.pending \in Seq(Messages)
  BY <1>1 DEF QueueOK
<1> QED
  BY <1>1, <1>2, ConcatProperties, ConcatEqualIffEmpty DEF QueueOK, Undelivered, Unread

LEMMA PublishFacts ==
    ASSUME NEW q, QueueOK(q), Publish(q)
    PROVE  QueueOK(Publisher)' /\ Unread' = Undelivered(q)
BY DEF Publish, QueueOK, Publisher, Unread, Undelivered

-----------------------------------------------------------------------------
(* A change is told, unless the publisher is refused or its connection is  *)
(* dead: then the gateway has no list either.                              *)
Told(p, l) ==
    /\ QueueOK(p)
    /\ \/ /\ p.pub = pub /\ p.out = toGw /\ Undelivered(p) = <<>> /\ latest = NoList
       \/ /\ Ends(Undelivered(p), l) /\ p.pub.ready = pub.ready /\ ~p.pub.disabled
          /\ p.pub.sock = "dead" => pub.sock = "dead"
          /\ p.pub.ready => p.pub.sock = "open"
          /\ \A t \in Tasks : p.pub.pending # <<Added(t)>>

LEMMA NothingToTell ==
    ASSUME QueueInv, pub.disabled \/ (pub.ready /\ pub.sock = "dead"), NEW m
    PROVE  /\ Enqueue(Publisher, m) = Publisher /\ QueueOK(Publisher)
           /\ Undelivered(Publisher) = <<>> /\ latest = NoList
           /\ Publisher.pub = pub /\ Publisher.out = toGw
<1>0. /\ QueueOK(Publisher) /\ Publisher.pub = pub /\ Publisher.out = toGw
      /\ Undelivered(Publisher) = Unread /\ PubOK(pub)
      /\ (pub.ready => pub.pending = <<>>) /\ (~pub.ready => toGw = <<>>)
      /\ (Unread = <<>> <=> toGw = <<>> /\ pub.pending = <<>>)
  BY QueueFacts DEF QueueInv
<1>1. CASE pub.disabled
  <2>1. ~pub.ready /\ pub.pending = <<>> /\ latest = NoList
    BY <1>0, <1>1 DEF PubOK, QueueInv
  <2>2. Enqueue(Publisher, m) = Publisher
    BY <1>0, <1>1 DEF Enqueue
  <2> QED
    BY <1>0, <2>1, <2>2
<1>2. CASE ~pub.disabled /\ pub.ready /\ pub.sock = "dead"
  <2>1. toGw = <<>> /\ latest = NoList
    BY <1>2 DEF QueueInv
  <2>2. Enqueue(Publisher, m) = Publisher
    BY <1>0, <1>2 DEF Enqueue, Sent
  <2> QED
    BY <1>0, <1>2, <2>1, <2>2
<1> QED
  BY <1>0, <1>1, <1>2 DEF PubOK

LEMMA RemovalIsTold ==
    ASSUME QueueInv, NEW l \in Lists, NEW p, p = Enqueue(Publisher, Snapshot(l))
    PROVE  Told(p, l)
<1>1. CASE pub.disabled \/ (pub.ready /\ pub.sock = "dead")
  BY <1>1, NothingToTell DEF Told
<1>2. CASE ~(pub.disabled \/ (pub.ready /\ pub.sock = "dead"))
  <2> DEFINE m == Snapshot(l)
             u == Undelivered(p)
  <2>0. QueueOK(Publisher) /\ Publisher.pub = pub /\ m \in Messages /\ m.type = "manual_tasks"
    BY QueueFacts, MessageFacts DEF QueueInv
  <2>1. p = Enqueue(Publisher, m)
    OBVIOUS
  <2> HIDE DEF m
  <2>2. /\ QueueOK(p) /\ p.pub.ready = pub.ready /\ ~p.pub.disabled
        /\ p.pub.sock = "dead" => pub.sock = "dead"
        /\ p.pub.ready => p.pub.sock = "open"
        /\ u # <<>> /\ Last(u) = m
    BY <1>2, <2>0, <2>1, EnqueueFacts
  <2>3. Ends(u, l)
    BY <2>2 DEF Ends, Last, m
  <2>4. ASSUME NEW t \in Tasks, p.pub.pending = <<Added(t)>> PROVE FALSE
    <3>1. ~p.pub.ready /\ p.out = <<>>
      BY <2>2, <2>4 DEF QueueOK, PubOK
    <3>2. u = p.pub.pending
      BY <2>2, <3>1, ConcatEmptySeq DEF QueueOK, Undelivered
    <3>3. Last(u) = Added(t)
      BY <2>4, <3>2 DEF Last
    <3> QED
      BY <2>0, <2>2, <3>3, MessageFacts
  <2> QED
    BY <2>2, <2>3, <2>4 DEF Told
<1> QED
  BY <1>1, <1>2

LEMMA CreationIsTold ==
    ASSUME QueueInv, NEW l \in Lists, l # <<>>,
           NEW p, p = Enqueue(Enqueue(Publisher, Snapshot(l)), Added(l[1]))
    PROVE  Told(p, l)
<1>1. CASE pub.disabled \/ (pub.ready /\ pub.sock = "dead")
  <2>1. p = Publisher
    BY <1>1, NothingToTell
  <2> QED
    BY <1>1, <2>1, NothingToTell DEF Told
<1>2. CASE ~(pub.disabled \/ (pub.ready /\ pub.sock = "dead"))
  <2> DEFINE m == Snapshot(l)
             n == Added(l[1])
             q == Enqueue(Publisher, m)
             v == Undelivered(q)
             u == Undelivered(p)
  <2>0. QueueOK(Publisher) /\ Publisher.pub = pub /\ m \in Messages /\ n \in Messages
    BY QueueFacts, MessageFacts, FrontAgain DEF QueueInv
  <2>1. p = Enqueue(q, n)
    OBVIOUS
  <2> HIDE DEF m, n
  <2>2. /\ QueueOK(q) /\ q.pub.ready = pub.ready /\ ~q.pub.disabled
        /\ q.pub.sock = "dead" => pub.sock = "dead"
        /\ q.pub.ready => q.pub.sock = "open"
        /\ v # <<>> /\ Last(v) = m
    BY <1>2, <2>0, EnqueueFacts
  <2> HIDE DEF q
  <2>3. /\ QueueOK(p) /\ p.pub.ready = q.pub.ready /\ ~p.pub.disabled
        /\ p.pub.sock = "dead" => q.pub.sock = "dead"
        /\ p.pub.ready => p.pub.sock = "open"
        /\ u # <<>> /\ Last(u) = n
        /\ Len(u) > 1 /\ LastButOne(u) = Last(v)
    BY <2>0, <2>1, <2>2, EnqueueFacts
  <2>4. Ends(u, l)
    BY <2>2, <2>3 DEF Ends, Last, LastButOne, m, n
  <2>5. ASSUME NEW t \in Tasks, p.pub.pending = <<Added(t)>> PROVE FALSE
    <3>1. ~p.pub.ready /\ p.out = <<>>
      BY <2>3, <2>5 DEF QueueOK, PubOK
    <3>2. u = p.pub.pending
      BY <2>3, <3>1, ConcatEmptySeq DEF QueueOK, Undelivered
    <3>3. Len(u) = 1
      BY <2>5, <3>2
    <3> QED
      BY <2>3, <3>3
  <2> QED
    BY <2>2, <2>3, <2>4, <2>5 DEF Told
<1> QED
  BY <1>1, <1>2

-----------------------------------------------------------------------------
(* A change of the list: the event stream and the publisher take it. *)

LEMMA ChangeStream ==
    ASSUME StreamInv, NEW l \in Lists, tasks' = l, Announce(l), UNCHANGED <<sse, parser>>
    PROVE  StreamInv' /\ ~Idle'
<1>0. /\ ParserOK(parser) /\ sse \in {"open", "closed"}
      /\ wire \in Seq(Chunks) /\ (sse = "closed" => wire = <<>>)
      /\ \A k \in 2 .. Len(wire) : Plain(wire[k])
      /\ sse = "open" => parser = IdleParser \/ (wire # <<>> /\ First(wire[1]))
  BY DEF StreamInv
<1>1. CASE sse = "closed"
  <2>1. wire' = <<>> /\ sse' = "closed"
    BY <1>0, <1>1 DEF Announce
  <2> QED
    BY <1>0, <2>1, EmptySeq DEF StreamInv, Idle
<1>2. CASE sse = "open"
  <2> DEFINE e == Event(l)
             w == Append(wire, e)
             L == Len(wire)
  <2>1. wire' = w
    BY <1>2 DEF Announce
  <2>2. e \in Chunks /\ Plain(e)
    BY DEF Chunks, Plain
  <2>3. e = Event(tasks')
    OBVIOUS
  <2> HIDE DEF e
  <2>4. /\ w \in Seq(Chunks) /\ w # <<>> /\ Len(w) = L + 1 /\ L \in Nat
        /\ \A i \in 1 .. L : w[i] = wire[i]
        /\ w[L + 1] = e
    BY <1>0, <2>2, AppendProperties
  <2> HIDE DEF w
  <2>5. \A k \in 2 .. Len(w) : Plain(w[k])
    <3> TAKE k \in 2 .. Len(w)
    <3>1. CASE k = L + 1
      BY <2>2, <2>4, <3>1
    <3>2. CASE k # L + 1
      <4>1. k \in 2 .. L /\ k \in 1 .. L
        BY <2>4, <3>2
      <4> QED
        BY <1>0, <2>4, <4>1
    <3> QED
      BY <3>1, <3>2
  <2>6. parser = IdleParser \/ (w # <<>> /\ First(w[1]))
    <3>1. wire # <<>> => 1 \in 1 .. L
      BY <1>0, <2>4, EmptySeq
    <3> QED
      BY <1>0, <1>2, <2>4, <3>1
  <2>7. w[Len(w)] \in {Event(tasks'), Preamble \o Event(tasks')}
    BY <2>3, <2>4
  <2>8. sse' = "open" /\ parser' = parser
    BY <1>2
  <2>9. StreamInv'
    BY <1>0, <2>1, <2>4, <2>5, <2>6, <2>7, <2>8 DEF StreamInv
  <2>10. ~Idle'
    BY <2>1, <2>4 DEF Idle
  <2> QED
    BY <2>9, <2>10
<1> QED
  BY <1>0, <1>1, <1>2

LEMMA ChangeQueues ==
    ASSUME QueueInv, NEW l \in Lists, NEW p, Told(p, l), Publish(p),
           UNCHANGED <<latest, ws, toDesk, auth>>
    PROVE  /\ QueueInv'
           /\ \/ Ends(Unread', l) /\ (ws = "open" => Ends(Unseen', l))
              \/ Unread' = <<>> /\ Unseen' = <<>> /\ latest' = NoList
<1>0. QueueOK(p) /\ pub' = p.pub /\ toGw' = p.out
  BY DEF Told, Publish
<1>1. QueueOK(Publisher)' /\ Unread' = Undelivered(p)
  BY <1>0, PublishFacts
<1>2. CASE p.pub = pub /\ p.out = toGw /\ Undelivered(p) = <<>> /\ latest = NoList
  <2>1. QueueInv'
    BY <1>0, <1>1, <1>2 DEF QueueInv
  <2>2. toDesk' = <<>> /\ Unread' = <<>>
    BY <1>1, <1>2 DEF QueueInv
  <2>3. Unseen' = <<>>
    BY <2>2 DEF Unseen
  <2> QED
    BY <1>2, <2>1, <2>2, <2>3
<1>3. CASE /\ Ends(Undelivered(p), l) /\ p.pub.ready = pub.ready /\ ~p.pub.disabled
           /\ p.pub.sock = "dead" => pub.sock = "dead"
           /\ p.pub.ready => p.pub.sock = "open"
           /\ \A t \in Tasks : p.pub.pending # <<Added(t)>>
  <2>1. ~p.pub.ready => p.out = <<>>
    BY <1>0 DEF QueueOK
  <2>2. QueueInv'
    BY <1>0, <1>1, <1>3, <2>1 DEF QueueInv
  <2>3. Unread' \in Seq(Messages) /\ toDesk' \in Seq(Messages)
    <3>1. p.out \in Seq(Messages) /\ p.pub.pending \in Seq(Messages)
      BY <1>0 DEF QueueOK
    <3> QED
      BY <1>1, <3>1, ConcatProperties DEF Undelivered, QueueInv
  <2>4. Ends(toDesk' \o Unread', l)
    BY <1>1, <1>3, <2>3, EndsConcat
  <2>5. Unseen' = toDesk' \o Unread'
    BY DEF Unseen
  <2> QED
    BY <1>1, <1>3, <2>2, <2>4, <2>5
<1> QED
  BY <1>2, <1>3 DEF Told

LEMMA ChangeArrives ==
    ASSUME DInv, NEW l \in Lists, NEW p, Told(p, l), Publish(p), tasks' = l, Announce(l),
           UNCHANGED <<latest, ws, toDesk, sse, parser, auth>>
    PROVE  QueueInv' /\ StreamInv' /\ Arrives'
<1>1. StreamInv' /\ ~Idle'
  BY ChangeStream DEF DInv
<1>2. /\ QueueInv'
      /\ \/ Ends(Unread', l) /\ (ws = "open" => Ends(Unseen', l))
         \/ Unread' = <<>> /\ Unseen' = <<>> /\ latest' = NoList
  BY ChangeQueues DEF DInv
<1>3. Arrives'
  BY <1>1, <1>2 DEF Arrives
<1> QED
  BY <1>1, <1>2, <1>3

LEMMA StoreStep ==
    ASSUME DInv, NEW t \in Tasks, StoreManualTask(t)
    PROVE  DInv'
<1> DEFINE e == <<t>> \o Except(tasks, t)
           l == FirstOf(e, Cap)
           p == Enqueue(Enqueue(Publisher, Snapshot(l)), Added(t))
<1>0. /\ t \notin gone /\ tasks' = l /\ Announce(l) /\ Publish(p)
      /\ UNCHANGED <<gone, latest, ws, toDesk, sse, parser, replies, auth>>
  BY DEF StoreManualTask, gwVars
<1>1. tasks \in Lists
  BY DEF DInv, ListInv
<1>2. e \in Lists /\ e # <<>> /\ e[1] = t /\ Range(e) = Range(tasks) \cup {t}
  BY <1>1, PutInFront
<1> HIDE DEF e
<1>3. l \in Lists /\ l # <<>> /\ l[1] = t /\ Range(l) \subseteq Range(tasks) \cup {t}
  BY <1>2, CapFacts
<1> HIDE DEF l
<1>4. Told(p, l)
  <2>1. p = Enqueue(Enqueue(Publisher, Snapshot(l)), Added(l[1]))
    BY <1>3
  <2> HIDE DEF p
  <2> QED
    BY <1>3, <2>1, CreationIsTold DEF DInv
<1> HIDE DEF p
<1>5. ListInv'
  BY <1>0, <1>3 DEF DInv, ListInv
<1>6. QueueInv' /\ StreamInv' /\ Arrives'
  BY <1>0, <1>3, <1>4, ChangeArrives
<1> QED
  BY <1>5, <1>6 DEF DInv

LEMMA RemoveStep ==
    ASSUME DInv, NEW t \in Tasks, RemoveManualTask(t)
    PROVE  DInv'
<1> DEFINE l == Except(tasks, t)
           p == Enqueue(Publisher, Snapshot(l))
<1>0. /\ tasks' = l /\ Announce(l) /\ Publish(p) /\ gone' = gone \cup {t}
      /\ replies' \subseteq replies \cup {t}
      /\ UNCHANGED <<latest, ws, toDesk, sse, parser, auth>>
  BY DEF RemoveManualTask, gwVars
<1>1. tasks \in Lists
  BY DEF DInv, ListInv
<1>2. l \in Lists /\ Range(l) = Range(tasks) \ {t}
  BY <1>1, ExceptFacts
<1> HIDE DEF l
<1>3. Told(p, l)
  BY <1>2, RemovalIsTold DEF DInv
<1> HIDE DEF p
<1>4. ListInv'
  BY <1>0, <1>2 DEF DInv, ListInv
<1>5. QueueInv' /\ StreamInv' /\ Arrives'
  BY <1>0, <1>2, <1>3, ChangeArrives
<1> QED
  BY <1>4, <1>5 DEF DInv

-----------------------------------------------------------------------------
(* The gateway. *)

LEMMA GatewayReadsStep ==
    ASSUME DInv, GatewayReads
    PROVE  DInv'
<1> DEFINE m == Head(toGw)
           r == Tail(toGw)
<1>0. /\ toGw # <<>> /\ toGw' = r
      /\ latest' = IF m.type = "manual_tasks" THEN m.tasks
                   ELSE <<m.task>> \o (IF latest = NoList THEN <<>> ELSE Except(latest, m.task))
      /\ toDesk' = IF ws = "open" THEN Append(toDesk, m) ELSE toDesk
      /\ UNCHANGED <<tasks, gone, pub, ws, sse, wire, parser, shown, replies, auth, lost, strayed>>
  BY DEF GatewayReads, bounds
<1>1. /\ QueueOK(Publisher) /\ PubOK(pub) /\ toGw \in Seq(Messages) /\ pub.pending \in Seq(Messages)
      /\ (~pub.ready => toGw = <<>>) /\ Unread \in Seq(Messages)
      /\ Publisher.pub = pub /\ Publisher.out = toGw
      /\ toDesk \in Seq(Messages)
  BY QueueFacts DEF DInv, QueueInv
<1>2. /\ Append(toDesk, m) \o (r \o pub.pending) = toDesk \o (toGw \o pub.pending)
      /\ r \o pub.pending = Tail(toGw \o pub.pending) /\ m = Head(toGw \o pub.pending)
      /\ toGw \o pub.pending # <<>> /\ m \in Messages /\ r \in Seq(Messages)
  <2>1. toDesk \in Seq(Messages) /\ toGw \in Seq(Messages) /\ toGw # <<>> /\ pub.pending \in Seq(Messages)
    BY <1>0, <1>1
  <2> DEFINE q == pub.pending
  <2>2. q \in Seq(Messages) /\ m = Head(toGw) /\ r = Tail(toGw)
    BY <2>1
  <2> HIDE DEF q, m, r
  <2>3. Shifted(toDesk, toGw, q, m, r)
    BY ONLY <2>1, <2>2, Shift
  <2> QED
    BY <2>3 DEF q, Shifted
<1> HIDE DEF m, r
<1>3. Unread' = Tail(Unread) /\ m = Head(Unread) /\ Unread # <<>>
  BY <1>0, <1>2 DEF Unread
<1>4. ws = "open" => Unseen' = Unseen
  BY <1>0, <1>2 DEF Unseen, Unread
<1>5. pub.ready /\ pub.sock = "open" /\ auth # "bad"
  BY <1>0, <1>1 DEF DInv, QueueInv, PubOK
<1>6. latest' \in Lists
  <2>1. CASE m.tasks \in Lists /\ m = Snapshot(m.tasks)
    BY <1>0, <2>1, MessageFacts
  <2>2. CASE m.task \in Tasks /\ m = Added(m.task)
    <3>1. m.type # "manual_tasks"
      BY <2>2, MessageFacts
    <3>2. CASE latest = NoList
      <4> DEFINE t == m.task
                 l == <<t>>
      <4>1. latest' = <<t>> \o <<>> /\ t \in Tasks
        BY <1>0, <2>2, <3>1, <3>2
      <4> HIDE DEF t
      <4>2. l \in Seq(Tasks) /\ Len(l) = 1 /\ latest' = l
        BY <4>1
      <4> HIDE DEF l
      <4>3. \A i, j \in 1 .. Len(l) : i = j
        BY <4>2
      <4>4. l \in Lists
        BY <4>2, <4>3 DEF Lists
      <4> QED
        BY <4>2, <4>4
    <3>3. CASE latest # NoList
      <4>1. latest \in Lists
        BY <3>3 DEF DInv, ListInv
      <4> DEFINE t == m.task
                 e == <<t>> \o Except(latest, t)
      <4>2. t \in Tasks
        BY <2>2
      <4>3. latest' = e
        BY <1>0, <3>1, <3>3
      <4> HIDE DEF t
      <4>4. e \in Lists
        BY <4>1, <4>2, PutInFront
      <4> QED
        BY <4>3, <4>4
    <3> QED
      BY <3>2, <3>3
  <2> QED
    BY <1>2, <2>1, <2>2, MessageFacts
<1>7. latest' # NoList
  BY <1>6, NoListIsNone
<1>8. ListInv'
  BY <1>0, <1>6 DEF DInv, ListInv
<1>9. QueueInv'
  <2>1. QueueOK(Publisher)'
    <3>1. Publisher' = [pub |-> pub', out |-> toGw']
      BY DEF Publisher
    <3>2. QueueOK([pub |-> pub, out |-> r])
      BY <1>1, <1>2, <1>5 DEF QueueOK
    <3> QED
      BY <1>0, <3>1, <3>2 DEF QueueOK
  <2>2. toDesk' \in Seq(Messages)
    BY <1>0, <1>1, <1>2, AppendProperties
  <2> QED
    BY <1>0, <1>5, <1>7, <2>1, <2>2 DEF DInv, QueueInv
<1>10. StreamInv'
  BY <1>0 DEF DInv, StreamInv
<1>11. ~lost => Ends(Unread', tasks) \/ (latest' = tasks /\ (Unread' = <<>> \/ OnlyAdds(Unread', tasks)))
  <2>1. SUFFICES ASSUME ~lost
                 PROVE  Ends(Unread', tasks) \/ (latest' = tasks /\ (Unread' = <<>> \/ OnlyAdds(Unread', tasks)))
    OBVIOUS
  <2>2. tasks \in Lists
    BY DEF DInv, ListInv
  <2>3. CASE Ends(Unread, tasks)
    <3>1. \/ Ends(Tail(Unread), tasks)
          \/ Head(Unread) = Snapshot(tasks) /\ (Tail(Unread) = <<>> \/ OnlyAdds(Tail(Unread), tasks))
      BY <1>1, <2>2, <2>3, EndsTail
    <3>2. m = Snapshot(tasks) => latest' = tasks
      BY <1>0, <2>2, MessageFacts
    <3> QED
      BY <1>3, <3>1, <3>2
  <2>4. CASE OnlyAdds(Unread, tasks) /\ latest = tasks
    <3> DEFINE t == tasks[1]
               n == Added(t)
    <3>1. tasks # <<>> /\ Unread = <<n>>
      BY <2>4 DEF OnlyAdds
    <3>2. n.type = "manual_task_created" /\ n.task = t /\ <<t>> \o Except(tasks, t) = tasks
      BY <2>2, <3>1, FrontAgain, MessageFacts
    <3> HIDE DEF n
    <3>3. m = n /\ Unread' = <<>>
      BY <1>3, <3>1
    <3>4. latest # NoList
      BY <2>2, <2>4, NoListIsNone
    <3> QED
      BY <1>0, <2>4, <3>2, <3>3, <3>4
  <2> QED
    BY <1>3, <2>1, <2>3, <2>4 DEF DInv, Arrives
<1>12. Arrives'
  BY <1>0, <1>4, <1>5, <1>7, <1>11 DEF DInv, Arrives, Idle, Follows
<1> QED
  BY <1>8, <1>9, <1>10, <1>12 DEF DInv

-----------------------------------------------------------------------------
(* The publisher's connection. *)

others == <<tasks, gone, latest, ws, toDesk, sse, wire, parser, shown, replies, auth, lost, strayed>>

(* A step of the connection that loses nothing. *)
LEMMA ConnectionStep ==
    ASSUME DInv, UNCHANGED others, QueueOK(Publisher)', Unread' = Unread,
           pub'.disabled = pub.disabled,
           pub'.pending = pub.pending \/ pub'.pending = <<>>,
           toGw' # <<>> => pub'.sock = "open",
           pub'.sock = "dead" => pub.sock = "dead",
           auth = "bad" => ~pub'.ready
    PROVE  DInv'
<1>1. ListInv' /\ StreamInv'
  BY DEF DInv, ListInv, StreamInv, others
<1>2. QueueInv'
  <2>1. \A t \in Tasks : pub'.pending # <<Added(t)>>
    BY DEF DInv, QueueInv
  <2> QED
    BY <2>1 DEF DInv, QueueInv, others
<1>3. Unseen' = Unseen
  BY DEF Unseen, others
<1>4. Arrives'
  BY <1>3 DEF DInv, Arrives, Idle, Follows, others
<1> QED
  BY <1>1, <1>2, <1>4 DEF DInv

LEMMA PubFacts ==
    ASSUME DInv
    PROVE  /\ QueueOK(Publisher) /\ PubOK(pub) /\ toGw \in Seq(Messages) /\ pub.pending \in Seq(Messages)
           /\ (pub.ready => pub.pending = <<>>) /\ (~pub.ready => toGw = <<>>)
           /\ (toGw # <<>> => pub.sock = "open")
           /\ Publisher.pub = pub /\ Publisher.out = toGw
BY QueueFacts DEF DInv, QueueInv

(* The variables of the publisher are sound after a step when these are. *)
LEMMA PubStep ==
    ASSUME PubOK(pub'), toGw' \in Seq(Messages), pub'.pending \in Seq(Messages),
           pub'.ready => pub'.pending = <<>>, ~pub'.ready => toGw' = <<>>
    PROVE  QueueOK(Publisher)'
BY DEF QueueOK, Publisher

LEMMA SocketOpensStep == ASSUME DInv, SocketOpens PROVE DInv'
<1>1. /\ pub.sock = "opening" /\ toGw' = toGw /\ UNCHANGED others
      /\ pub' = [pub EXCEPT !.sock = "open", !.connecting = FALSE]
  BY DEF SocketOpens, others, gwVars, deskVars, bounds
<1>2. /\ PubOK(pub') /\ pub'.disabled = pub.disabled /\ pub'.pending = pub.pending
      /\ pub'.sock = "open" /\ pub'.ready = pub.ready
  BY <1>1, PubFacts DEF PubOK, Fields
<1>3. QueueOK(Publisher)'
  BY <1>1, <1>2, PubFacts, PubStep
<1>4. auth = "bad" => ~pub'.ready
  BY <1>2 DEF DInv, QueueInv
<1> QED
  BY <1>1, <1>2, <1>3, <1>4, ConnectionStep DEF Unread

LEMMA SocketReadyStep == ASSUME DInv, SocketReady PROVE DInv'
<1>1. /\ pub.sock = "open" /\ ~pub.ready /\ auth # "bad" /\ UNCHANGED others
      /\ pub' = [pub EXCEPT !.ready = TRUE, !.connecting = FALSE, !.pending = <<>>]
      /\ toGw' = toGw \o pub.pending
  BY DEF SocketReady, others, gwVars, deskVars, bounds
<1>2. /\ PubOK(pub') /\ pub'.disabled = pub.disabled /\ pub'.pending = <<>>
      /\ pub'.sock = "open" /\ pub'.ready
  BY <1>1, PubFacts DEF PubOK, Fields
<1>3. toGw' \in Seq(Messages) /\ toGw' \o <<>> = toGw'
  BY <1>1, PubFacts, ConcatProperties, ConcatEmptySeq
<1>4. QueueOK(Publisher)'
  BY <1>2, <1>3, PubStep, EmptySeq
<1>5. Unread' = Unread
  BY <1>1, <1>2, <1>3 DEF Unread
<1> QED
  BY <1>1, <1>2, <1>4, <1>5, ConnectionStep

LEMMA SocketClosesStep == ASSUME DInv, SocketCloses PROVE DInv'
<1>1. /\ pub.sock \in {"dead", "opening"} /\ toGw' = toGw /\ UNCHANGED others
      /\ pub' = [pub EXCEPT !.sock = "none", !.ready = FALSE, !.connecting = FALSE,
                            !.timer = @ \/ pub.pending # <<>>]
  BY DEF SocketCloses, others, gwVars, deskVars, bounds
<1>2. toGw = <<>> /\ toGw' = toGw /\ UNCHANGED others
  BY <1>1, PubFacts
<1>3. /\ PubOK(pub') /\ pub'.disabled = pub.disabled /\ pub'.pending = pub.pending
      /\ pub'.sock = "none" /\ ~pub'.ready
  BY <1>1, PubFacts DEF PubOK, Fields
<1>4. QueueOK(Publisher)'
  BY <1>2, <1>3, PubFacts, PubStep
<1> QED
  BY <1>2, <1>3, <1>4, ConnectionStep DEF Unread

LEMMA ReconnectStep == ASSUME DInv, ReconnectTimer PROVE DInv'
<1> DEFINE p == [Publisher EXCEPT !.pub.timer = FALSE]
           q == PubConnect(p)
<1>1. pub' = q.pub /\ toGw' = q.out /\ UNCHANGED others
  BY DEF ReconnectTimer, Publish, others, gwVars, deskVars, bounds
<1>2. p.out = toGw /\ p.pub = [pub EXCEPT !.timer = FALSE]
  BY DEF Publisher
<1> HIDE DEF p
<1>3. /\ PubOK(p.pub) /\ p.pub.disabled = pub.disabled /\ p.pub.pending = pub.pending
      /\ p.pub.sock = pub.sock /\ p.pub.ready = pub.ready
  BY <1>2, PubFacts DEF PubOK, Fields
<1>4. PubOK(q.pub)
  BY <1>3, ConnectPursues
<1>5. CASE p.pub.ready \/ p.pub.connecting \/ p.pub.disabled
  <2>1. q = p
    BY <1>5 DEF PubConnect
  <2>2. /\ pub'.pending = pub.pending /\ pub'.sock = pub.sock /\ toGw' = toGw
        /\ pub'.ready = pub.ready /\ pub'.disabled = pub.disabled
    BY <1>1, <1>2, <1>3, <2>1
  <2>3. QueueOK(Publisher)'
    BY <1>1, <1>4, <2>2, PubFacts, PubStep
  <2>4. auth = "bad" => ~pub'.ready
    BY <2>2 DEF DInv, QueueInv
  <2> QED
    BY <1>1, <2>2, <2>3, <2>4, PubFacts, ConnectionStep DEF Unread
<1>6. CASE ~(p.pub.ready \/ p.pub.connecting \/ p.pub.disabled)
  <2> DEFINE u == [p.pub EXCEPT !.timer = FALSE, !.connecting = TRUE, !.sock = "opening"]
  <2>1. u.pending = pub.pending /\ u.sock = "opening" /\ ~u.ready /\ u.disabled = pub.disabled
    BY <1>3, <1>6 DEF PubOK, Fields
  <2> HIDE DEF u
  <2>2. q = [pub |-> u, out |-> <<>>]
    BY <1>6 DEF PubConnect, u
  <2>3. pub' = u /\ toGw' = <<>> /\ toGw = <<>>
    BY <1>1, <1>3, <1>6, <2>2, PubFacts
  <2>4. QueueOK(Publisher)'
    BY <1>1, <1>4, <2>1, <2>3, PubFacts, PubStep
  <2> QED
    BY <1>1, <2>1, <2>3, <2>4, ConnectionStep DEF Unread
<1> QED
  BY <1>5, <1>6

LEMMA SocketRefusedStep == ASSUME DInv, SocketRefused PROVE DInv'
<1>1. /\ ~pub.ready /\ auth = "bad" /\ UNCHANGED others /\ toGw' = <<>>
      /\ pub' = [PubInit EXCEPT !.disabled = TRUE, !.timer = pub.timer]
  BY DEF SocketRefused, others, gwVars, deskVars, bounds
<1>2. /\ PubOK(pub') /\ pub'.pending = <<>> /\ ~pub'.ready /\ pub'.disabled /\ pub'.sock = "none"
  BY <1>1, PubFacts DEF PubOK, Fields, PubInit
<1>3. QueueOK(Publisher)'
  BY <1>1, <1>2, PubStep, EmptySeq
<1>4. latest = NoList /\ ws # "open"
  BY <1>1 DEF DInv, QueueInv
<1>5. \A t \in Tasks : pub'.pending # <<Added(t)>>
  BY <1>2
<1>6. QueueInv'
  BY <1>1, <1>2, <1>3, <1>4, <1>5 DEF DInv, QueueInv, others
<1>7. ListInv' /\ StreamInv'
  BY <1>1 DEF DInv, ListInv, StreamInv, others
<1>8. Unread' = <<>>
  BY <1>1, <1>2 DEF Unread
<1>9. Arrives'
  BY <1>1, <1>4, <1>8 DEF DInv, Arrives, Idle, Follows, others
<1> QED
  BY <1>6, <1>7, <1>9 DEF DInv

-----------------------------------------------------------------------------
(* The gateway stops: nothing of it is left, and news is lost unless the   *)
(* desktop had seen it.                                                    *)
LEMMA GatewayStopsStep == ASSUME DInv, GatewayStops PROVE DInv'
<1>0. /\ latest' = NoList /\ toGw' = <<>> /\ toDesk' = <<>>
      /\ pub' = IF pub.sock = "open" THEN [pub EXCEPT !.sock = "dead"] ELSE pub
      /\ ws' = (IF ws = "open" THEN "closed" ELSE ws)
      /\ lost' = (lost \/ toGw # <<>> \/ toDesk # <<>> \/ ws = "closed")
      /\ UNCHANGED <<tasks, gone, sse, wire, parser, shown, replies, auth, strayed>>
  BY DEF GatewayStops
<1>1. /\ PubOK(pub') /\ pub'.pending = pub.pending /\ pub'.ready = pub.ready
      /\ pub'.disabled = pub.disabled
  BY <1>0, PubFacts DEF PubOK, Fields
<1>2. QueueOK(Publisher)'
  BY <1>0, <1>1, PubFacts, PubStep, EmptySeq
<1>3. ListInv'
  BY <1>0 DEF DInv, ListInv
<1>4. QueueInv'
  <2>1. toDesk' \in Seq(Messages)
    BY <1>0, EmptySeq
  <2> QED
    BY <1>0, <1>1, <1>2, <2>1 DEF DInv, QueueInv
<1>5. StreamInv'
  BY <1>0 DEF DInv, StreamInv
<1>6. ~lost' => ~lost /\ toGw = <<>> /\ toDesk = <<>> /\ ws # "closed"
  BY <1>0
<1>7. toGw = <<>> /\ toDesk = <<>> => Unread = pub.pending /\ Unread' = Unread /\ Unseen = Unread
  <2>1. <<>> \o pub.pending = pub.pending
    BY PubFacts, ConcatEmptySeq
  <2> QED
    BY <1>0, <1>1, <2>1 DEF Unread, Unseen
<1>8. toGw = <<>> => ~OnlyAdds(Unread, tasks)
  <2>1. SUFFICES ASSUME toGw = <<>>, OnlyAdds(Unread, tasks) PROVE FALSE
    OBVIOUS
  <2>2. Unread = pub.pending
    BY <2>1, PubFacts, ConcatEmptySeq DEF Unread
  <2>3. tasks \in Lists /\ tasks # <<>> /\ pub.pending = <<Added(tasks[1])>>
    BY <2>1, <2>2 DEF OnlyAdds, DInv, ListInv
  <2> QED
    BY <2>3, FrontAgain DEF DInv, QueueInv
<1>9. Unread = <<>> => ~Ends(Unread, tasks)
  BY DEF Ends
<1>10. ws \in {"open", "refused"} \/ ws = "closed"
  BY DEF DInv, QueueInv
<1>11. ws = "refused" => auth = "bad"
  BY DEF DInv, QueueInv
<1>12. Arrives'
  BY <1>0, <1>6, <1>7, <1>8, <1>9, <1>10, <1>11 DEF DInv, Arrives, Idle, Follows
<1> QED
  BY <1>3, <1>4, <1>5, <1>12 DEF DInv

LEMMA GatewayStartsStep == ASSUME DInv, GatewayStarts PROVE DInv'
<1>1. UNCHANGED others /\ pub' = pub /\ toGw' = toGw
  BY DEF GatewayStarts, pubVars, deskVars, bounds, others
<1>2. ListInv' /\ StreamInv'
  BY <1>1 DEF DInv, ListInv, StreamInv, others
<1>3. QueueInv'
  <2>1. Publisher' = Publisher
    BY <1>1 DEF Publisher
  <2>2. QueueOK(Publisher)'
    BY <2>1 DEF DInv, QueueInv
  <2> QED
    BY <1>1, <2>2 DEF DInv, QueueInv, others
<1>4. Unread' = Unread /\ Unseen' = Unseen
  BY <1>1 DEF Unread, Unseen, others
<1>5. Arrives'
  BY <1>1, <1>4 DEF DInv, Arrives, Idle, Follows, others
<1> QED
  BY <1>2, <1>3, <1>5 DEF DInv

-----------------------------------------------------------------------------
(* The desktop's WebSocket. *)

(* These steps leave the publisher and the event stream alone. *)
LEMMA DesktopFrame ==
    ASSUME DInv, UNCHANGED <<pub, toGw, tasks, gone, latest, sse, wire, parser, replies>>
    PROVE  /\ ListInv' /\ StreamInv' /\ QueueOK(Publisher)'
           /\ Unread' = Unread /\ Unread \in Seq(Messages) /\ tasks \in Lists
<1>1. Publisher' = Publisher /\ Unread' = Unread
  BY DEF Publisher, Unread
<1> QED
  BY <1>1, QueueFacts DEF DInv, ListInv, StreamInv, QueueInv

LEMMA DesktopConnectsStep == ASSUME DInv, DesktopConnects PROVE DInv'
<1>0. /\ ws = "closed"
      /\ ws' = (IF auth = "bad" THEN "refused" ELSE "open")
      /\ toDesk' = (IF auth # "bad" /\ latest # NoList THEN <<Snapshot(latest)>> ELSE <<>>)
      /\ UNCHANGED <<pub, toGw, tasks, gone, latest, sse, wire, parser, replies>>
      /\ UNCHANGED <<shown, auth, lost, strayed>>
  BY DEF DesktopConnects, pubVars, gwVars, bounds
<1>1. /\ ListInv' /\ StreamInv' /\ QueueOK(Publisher)'
      /\ Unread' = Unread /\ Unread \in Seq(Messages) /\ tasks \in Lists
  BY <1>0, DesktopFrame
<1>2. latest # NoList => latest \in Lists
  BY DEF DInv, ListInv
<1>3. toDesk' \in Seq(Messages)
  <2>1. latest # NoList => <<Snapshot(latest)>> \in Seq(Messages)
    BY <1>2, MessageFacts
  <2> QED
    BY <1>0, <2>1, EmptySeq
<1>4. QueueInv'
  BY <1>0, <1>1, <1>3 DEF DInv, QueueInv
<1>5. Unread = <<>> => ~Ends(Unread, tasks)
  BY DEF Ends
<1>6. CASE auth = "bad"
  <2>1. Arrives'
    BY <1>0, <1>1, <1>6 DEF DInv, Arrives, Idle, Follows
  <2> QED
    BY <1>1, <1>4, <2>1 DEF DInv
<1>7. CASE auth # "bad" /\ latest = NoList
  <2>1. toDesk' = <<>> /\ Unseen' = Unread
    <3>1. <<>> \o Unread = Unread
      BY <1>1, ConcatEmptySeq
    <3> QED
      BY <1>0, <1>1, <1>7, <3>1 DEF Unseen
  <2>2. latest # tasks
    BY <1>1, <1>7, NoListIsNone
  <2>3. Arrives'
    BY <1>0, <1>1, <1>5, <1>7, <2>1, <2>2 DEF DInv, Arrives, Idle, Follows
  <2> QED
    BY <1>1, <1>4, <2>3 DEF DInv
<1>8. CASE auth # "bad" /\ latest # NoList
  <2> DEFINE s == <<Snapshot(latest)>>
  <2>1. s \in Seq(Messages) /\ Unseen' = s \o Unread
    BY <1>0, <1>1, <1>2, <1>8, MessageFacts DEF Unseen
  <2>2. Ends(Unread, tasks) => Ends(Unseen', tasks)
    BY <1>1, <2>1, EndsConcat
  <2>3. latest = tasks /\ (Unread = <<>> \/ OnlyAdds(Unread, tasks)) => Ends(Unseen', tasks)
    BY <1>1, <2>1, EndsRest
  <2>4. ~lost => Ends(Unseen', tasks)
    BY <1>8, <2>2, <2>3 DEF DInv, Arrives
  <2> HIDE DEF s
  <2>5. Arrives'
    BY <1>0, <1>1, <1>8, <2>4 DEF DInv, Arrives, Idle, Follows
  <2> QED
    BY <1>1, <1>4, <2>5 DEF DInv
<1> QED
  BY <1>6, <1>7, <1>8

LEMMA DesktopDisconnectedStep == ASSUME DInv, DesktopDisconnected PROVE DInv'
<1>0. /\ ws = "open" /\ ws' = "closed" /\ toDesk' = <<>>
      /\ UNCHANGED <<pub, toGw, tasks, gone, latest, sse, wire, parser, replies>>
      /\ UNCHANGED <<shown, auth, lost, strayed>>
  BY DEF DesktopDisconnected, pubVars, gwVars
<1>1. /\ ListInv' /\ StreamInv' /\ QueueOK(Publisher)'
      /\ Unread' = Unread /\ Unread \in Seq(Messages) /\ tasks \in Lists
  BY <1>0, DesktopFrame
<1>2. QueueInv'
  BY <1>0, <1>1, EmptySeq DEF DInv, QueueInv
<1>3. Unread = <<>> /\ latest = NoList => Unseen = <<>> /\ ~Ends(Unseen, tasks)
  <2>1. latest = NoList => toDesk = <<>>
    BY DEF DInv, QueueInv
  <2> QED
    BY <2>1 DEF Unseen, Ends
<1>4. Arrives'
  BY <1>0, <1>1, <1>3 DEF DInv, Arrives, Idle, Follows
<1> QED
  BY <1>1, <1>2, <1>4 DEF DInv

LEMMA DesktopReadsStep == ASSUME DInv, DesktopReads PROVE DInv'
<1> DEFINE m == Head(toDesk)
           r == Tail(toDesk)
<1>0. /\ ws = "open" /\ toDesk # <<>> /\ toDesk' = r
      /\ shown' = (IF m.type = "manual_tasks" THEN m.tasks ELSE <<m.task>> \o Except(shown, m.task))
      /\ strayed' = (strayed /\ m.type # "manual_tasks")
      /\ UNCHANGED <<pub, toGw, tasks, gone, latest, sse, wire, parser, replies>>
      /\ UNCHANGED <<ws, auth, lost>>
  BY DEF DesktopReads, pubVars, gwVars, bounds
<1>1. /\ ListInv' /\ StreamInv' /\ QueueOK(Publisher)'
      /\ Unread' = Unread /\ Unread \in Seq(Messages) /\ tasks \in Lists
  BY <1>0, DesktopFrame
<1>2. toDesk \in Seq(Messages) /\ toDesk # <<>> /\ m = Head(toDesk) /\ r = Tail(toDesk)
  BY <1>0 DEF DInv, QueueInv
<1> HIDE DEF m, r
<1>3. /\ r \o Unread = Tail(toDesk \o Unread) /\ m = Head(toDesk \o Unread)
      /\ m \in Messages /\ r \in Seq(Messages) /\ toDesk \o Unread # <<>>
  <2>1. <<>> \in Seq(Messages)
    OBVIOUS
  <2>2. Shifted(<<>>, toDesk, Unread, m, r)
    BY ONLY <1>1, <1>2, <2>1, Shift
  <2> QED
    BY <2>2 DEF Shifted
<1>4. Unseen' = Tail(Unseen) /\ m = Head(Unseen) /\ Unseen # <<>>
  BY <1>0, <1>1, <1>3 DEF Unseen
<1>5. Unseen \in Seq(Messages)
  BY <1>1, <1>2, ConcatProperties DEF Unseen
<1>6. auth # "bad"
  BY <1>0 DEF DInv, QueueInv
<1>7. QueueInv'
  <2>1. latest = NoList => toDesk = <<>>
    BY DEF DInv, QueueInv
  <2> QED
    BY <1>0, <1>1, <1>3, <2>1 DEF DInv, QueueInv
<1>8. Ends(Unseen, tasks) =>
          Ends(Unseen', tasks) \/ (shown' = tasks /\ (Unseen' = <<>> \/ OnlyAdds(Unseen', tasks)))
  <2>1. SUFFICES ASSUME Ends(Unseen, tasks)
                 PROVE  Ends(Unseen', tasks) \/ (shown' = tasks /\ (Unseen' = <<>> \/ OnlyAdds(Unseen', tasks)))
    OBVIOUS
  <2>2. \/ Ends(Tail(Unseen), tasks)
        \/ Head(Unseen) = Snapshot(tasks) /\ (Tail(Unseen) = <<>> \/ OnlyAdds(Tail(Unseen), tasks))
    BY <1>1, <1>5, <2>1, EndsTail
  <2>3. m = Snapshot(tasks) => shown' = tasks
    BY <1>0, <1>1, MessageFacts
  <2> QED
    BY <1>4, <2>2, <2>3
<1>9. OnlyAdds(Unseen, tasks) => Unseen' = <<>> /\ (Follows => Follows')
  <2>1. SUFFICES ASSUME OnlyAdds(Unseen, tasks) PROVE Unseen' = <<>> /\ (Follows => Follows')
    OBVIOUS
  <2> DEFINE t == tasks[1]
             n == Added(t)
  <2>2. tasks # <<>> /\ Unseen = <<n>>
    BY <2>1 DEF OnlyAdds
  <2>3. n.type = "manual_task_created" /\ n.task = t /\ <<t>> \o Except(tasks, t) = tasks
    BY <1>1, <2>2, FrontAgain, MessageFacts
  <2> HIDE DEF n
  <2>4. m = n /\ Unseen' = <<>>
    BY <1>4, <2>2
  <2>5. shown' = <<t>> \o Except(shown, t) /\ (strayed => strayed')
    <3>1. m.type = "manual_task_created" /\ m.task = t
      BY <2>3, <2>4
    <3>2. shown' = <<t>> \o Except(shown, t)
      BY <1>0, <3>1
    <3>3. strayed => strayed'
      BY <1>0, <3>1
    <3> QED
      BY <3>2, <3>3
  <2> QED
    BY <1>0, <2>3, <2>4, <2>5 DEF Follows
<1>10. Unseen = <<>> => FALSE
  BY <1>4
<1>11. OnlyAdds(Unseen, tasks) => ~Ends(Unseen, tasks)
  <2>1. SUFFICES ASSUME OnlyAdds(Unseen, tasks), Ends(Unseen, tasks) PROVE FALSE
    OBVIOUS
  <2>2. Len(Unseen) = 1 /\ Unseen[1] = Added(tasks[1]) /\ tasks # <<>>
    BY <2>1 DEF OnlyAdds
  <2>3. Added(tasks[1]) = Snapshot(tasks)
    BY <2>1, <2>2 DEF Ends
  <2> QED
    BY <1>1, <2>2, <2>3, FrontAgain, MessageFacts
<1>12. Arrives'
  BY <1>0, <1>1, <1>6, <1>8, <1>9, <1>10, <1>11 DEF DInv, Arrives, Idle, Follows
<1> QED
  BY <1>1, <1>7, <1>12 DEF DInv

(* No task of the desktop's own is on a list of the backend. *)
LEMMA OwnIsNew == ASSUME NEW l \in Lists, NEW t \in OwnTasks PROVE t \notin Range(l)
<1>1. l \in Seq(Tasks) /\ DOMAIN l = 1 .. Len(l)
  BY DEF Lists
<1>2. \A k \in 1 .. Len(l) : l[k] \in Tasks
  BY <1>1, ElementOfSeq
<1> QED
  BY <1>1, <1>2, TaskSyncAssumption DEF Range

(* Whatever the desktop does to its list itself: the others keep theirs.   *)
LEMMA OwnStep ==
    ASSUME DInv, NEW t \in OwnTasks, DesktopAdds(t) \/ DesktopRemoves(t) PROVE DInv'
<1>0. /\ UNCHANGED <<pub, toGw, tasks, gone, latest, ws, toDesk, sse, wire, parser, auth, lost>>
      /\ replies' \subseteq replies \cup {t}
      /\ strayed' \/ (strayed' = strayed /\ shown' \in {shown, Except(shown, t)})
  BY DEF DesktopAdds, DesktopRemoves, pubVars, gwVars
<1>1. ListInv' /\ StreamInv'
  BY <1>0 DEF DInv, ListInv, StreamInv
<1>2. QueueInv'
  <2>1. Publisher' = Publisher
    BY <1>0 DEF Publisher
  <2>2. QueueOK(Publisher)'
    BY <2>1 DEF DInv, QueueInv
  <2> QED
    BY <1>0, <2>2 DEF DInv, QueueInv
<1>3. Unread' = Unread /\ Unseen' = Unseen
  BY <1>0 DEF Unread, Unseen
<1>4. Follows => Follows'
  <2>1. tasks \in Lists
    BY DEF DInv, ListInv
  <2>2. shown = tasks => Except(shown, t) = shown
    BY <2>1, OwnIsNew DEF Except
  <2> QED
    BY <1>0, <2>2 DEF Follows
<1>5. Arrives'
  BY <1>0, <1>3, <1>4 DEF DInv, Arrives, Idle
<1> QED
  BY <1>1, <1>2, <1>5 DEF DInv

LEMMA RemovalAnsweredStep ==
    ASSUME DInv, NEW t \in Tasks \cup OwnTasks, RemovalAnswered(t) PROVE DInv'
<1>0. /\ t \in replies /\ replies' = replies \ {t} /\ shown' = Except(shown, t)
      /\ UNCHANGED <<tasks, gone, pub, toGw, latest, ws, toDesk, sse, wire, parser, auth, lost, strayed>>
  BY DEF RemovalAnswered, pubVars, gwVars, bounds
<1>1. ListInv' /\ StreamInv'
  BY <1>0 DEF DInv, ListInv, StreamInv
<1>2. QueueInv'
  <2>1. Publisher' = Publisher
    BY <1>0 DEF Publisher
  <2>2. QueueOK(Publisher)'
    BY <2>1 DEF DInv, QueueInv
  <2> QED
    BY <1>0, <2>2 DEF DInv, QueueInv
<1>3. Unread' = Unread /\ Unseen' = Unseen
  BY <1>0 DEF Unread, Unseen
<1>4. shown = tasks => shown' = tasks
  <2>1. tasks \in Lists /\ t \notin Range(tasks)
    BY <1>0, OwnIsNew DEF DInv, ListInv
  <2> QED
    BY <1>0, <2>1 DEF Except
<1>5. Arrives'
  BY <1>0, <1>3, <1>4 DEF DInv, Arrives, Idle, Follows
<1> QED
  BY <1>1, <1>2, <1>5 DEF DInv

-----------------------------------------------------------------------------
(* The event stream. *)

(* What the stream does concerns the publisher and the WebSocket only      *)
(* through the list that is shown.                                         *)
LEMMA StreamFrame ==
    ASSUME DInv, UNCHANGED <<pub, toGw, tasks, gone, latest, ws, toDesk, replies, auth, lost>>,
           Idle' => shown' = tasks
    PROVE  ListInv' /\ QueueInv' /\ Arrives'
<1>1. ListInv'
  BY DEF DInv, ListInv
<1>2. QueueInv'
  <2>1. Publisher' = Publisher
    BY DEF Publisher
  <2>2. QueueOK(Publisher)'
    BY <2>1 DEF DInv, QueueInv
  <2> QED
    BY <2>2 DEF DInv, QueueInv
<1>3. Unread' = Unread /\ Unseen' = Unseen
  BY DEF Unread, Unseen
<1>4. Arrives'
  BY <1>3 DEF DInv, Arrives, Follows
<1> QED
  BY <1>1, <1>2, <1>4

LEMMA ChunkLength ==
    ASSUME NEW w \in Chunks PROVE Len(w) \in {3, 5}
<1>1. PICK l \in Lists : w = Event(l) \/ w = Preamble \o Event(l)
  BY DEF Chunks
<1>2. CASE w = Event(l)
  BY <1>2, EventLines
<1>3. CASE w = Preamble \o Event(l)
  BY <1>3, FirstLines
<1> QED
  BY <1>1, <1>2, <1>3

LEMMA EventsConnectStep == ASSUME DInv, EventsConnect PROVE DInv'
<1> DEFINE e == Preamble \o Event(tasks)
           w == <<e>>
<1>0. /\ sse' = "open" /\ wire' = w
      /\ UNCHANGED <<pub, toGw, tasks, gone, latest, ws, toDesk, replies, auth, lost>>
      /\ UNCHANGED parser
  BY DEF EventsConnect, pubVars, gwVars, bounds
<1>1. e \in Chunks /\ First(e) /\ e = Preamble \o Event(tasks)
  BY DEF DInv, ListInv, Chunks, First
<1> HIDE DEF e
<1>2. w \in Seq(Chunks) /\ Len(w) = 1 /\ w[1] = e /\ w # <<>>
  BY <1>1
<1> HIDE DEF w
<1>3. ParserOK(parser)
  BY DEF DInv, StreamInv
<1>4. \A k \in 2 .. Len(w) : Plain(w[k])
  BY <1>2
<1>5. StreamInv'
  BY <1>0, <1>1, <1>2, <1>3, <1>4 DEF StreamInv
<1>6. ~Idle'
  BY <1>0, <1>2 DEF Idle
<1> QED
  BY <1>0, <1>5, <1>6, StreamFrame DEF DInv

LEMMA EventReadStep == ASSUME DInv, EventRead PROVE DInv'
<1> DEFINE s == Stream
           h == Head(wire)
           r == ChunkRead(s, h)
           t == Tail(wire)
<1>0. /\ sse = "open" /\ wire # <<>> /\ wire' = t
      /\ parser' = r.p /\ shown' = r.list.tasks
      /\ UNCHANGED <<pub, toGw, tasks, gone, latest, ws, toDesk, replies, auth, lost>>
      /\ UNCHANGED sse
  BY DEF EventRead, Apply, Shows, pubVars, gwVars
<1>1. /\ ParserOK(parser) /\ wire \in Seq(Chunks)
      /\ \A k \in 2 .. Len(wire) : Plain(wire[k])
      /\ parser = IdleParser \/ First(wire[1])
      /\ wire[Len(wire)] \in {Event(tasks), Preamble \o Event(tasks)}
  BY <1>0 DEF DInv, StreamInv
<1>2. s.p = parser
  BY DEF Stream
<1>3. /\ h \in Chunks /\ h = wire[1] /\ Len(wire) \in Nat \ {0}
      /\ t \in Seq(Chunks) /\ Len(t) = Len(wire) - 1
      /\ \A i \in 1 .. Len(t) : t[i] = wire[i + 1]
  BY <1>0, <1>1, HeadTailProperties, EmptySeq
<1> HIDE DEF s, h, t
<1>4. \A l : h = Event(l) => ~First(h)
  <2>1. \A l : Len(Event(l)) = 3
    BY EventLines
  <2>2. First(h) => Len(h) = 5
    <3>1. SUFFICES ASSUME NEW l \in Lists, h = Preamble \o Event(l) PROVE Len(h) = 5
      BY DEF First
    <3> QED
      BY <3>1, FirstLines
  <2> QED
    BY <2>1, <2>2
<1>5. ASSUME NEW l, h = Event(l) \/ h = Preamble \o Event(l)
      PROVE  parser' = IdleParser /\ shown' = l
  <2>1. (h = Event(l) /\ s.p = IdleParser) \/ h = Preamble \o Event(l)
    BY <1>1, <1>2, <1>3, <1>4, <1>5
  <2>2. r.p = IdleParser /\ r.list.tasks = l
    <3>1. ParserOK(s.p) /\ r = ChunkRead(s, h)
      BY <1>1, <1>2
    <3> HIDE DEF r
    <3>2. r.p = IdleParser /\ r.list = [tasks |-> l, own |-> FALSE]
      BY <2>1, <3>1, ChunkFacts
    <3> QED
      BY <3>2
  <2> QED
    BY <1>0, <2>2
<1> HIDE DEF r
<1>6. parser' = IdleParser
  <2>1. PICK l \in Lists : h = Event(l) \/ h = Preamble \o Event(l)
    BY <1>3 DEF Chunks
  <2> QED
    BY <1>5, <2>1
<1>7. t = <<>> => shown' = tasks
  <2>1. SUFFICES ASSUME t = <<>> PROVE shown' = tasks
    OBVIOUS
  <2>2. Len(t) = 0
    BY <2>1
  <2>3. Len(wire) = 1
    BY <1>3, <2>2
  <2>4. h = Event(tasks) \/ h = Preamble \o Event(tasks)
    BY <1>1, <1>3, <2>3
  <2> QED
    BY <1>5, <2>4
<1>8. \A k \in 1 .. Len(t) : Plain(t[k])
  <2> TAKE k \in 1 .. Len(t)
  <2>1. k + 1 \in 2 .. Len(wire)
    BY <1>3
  <2> QED
    BY <1>1, <1>3, <2>1
<1>9. t # <<>> => t[Len(t)] = wire[Len(wire)]
  <2>1. SUFFICES ASSUME t # <<>> PROVE t[Len(t)] = wire[Len(wire)]
    OBVIOUS
  <2>2. Len(t) \in 1 .. Len(t) /\ Len(t) + 1 = Len(wire)
    BY <1>3, <2>1, EmptySeq
  <2> QED
    BY <1>3, <2>2
<1>10. \A k \in 2 .. Len(t) : Plain(t[k])
  BY <1>3, <1>8
<1>11. ParserOK(IdleParser)
  BY DEF ParserOK, IdleParser
<1>12. StreamInv'
  BY <1>0, <1>1, <1>3, <1>6, <1>9, <1>10, <1>11 DEF StreamInv
<1>13. Idle' => shown' = tasks
  BY <1>0, <1>7 DEF Idle
<1> QED
  BY <1>0, <1>12, <1>13, StreamFrame DEF DInv

(* What the parser is left with when the stream is cut. *)
LEMMA CutFacts ==
    ASSUME StreamInv, Cut \/ UNCHANGED parser
    PROVE  ParserOK(parser')
<1>1. ParserOK(parser) /\ wire \in Seq(Chunks)
  BY DEF StreamInv
<1>2. CASE UNCHANGED parser
  BY <1>1, <1>2
<1>3. CASE wire # <<>> /\ Cut
  <2> DEFINE s == Stream
             h == Head(wire)
  <2>1. h \in Chunks /\ Len(h) \in {3, 5} /\ s.p = parser
    BY <1>1, <1>3, HeadTailProperties, ChunkLength DEF Stream
  <2>2. PICK n \in 0 .. Len(h) - 1, torn \in BOOLEAN :
            LET r == ChunkRead(s, SubSeq(h, 1, n))
            IN  parser' = IF torn /\ r.p.buf = "none" /\ h[n + 1].kind # "blank"
                          THEN [r.p EXCEPT !.buf = h[n + 1].kind] ELSE r.p
    BY <1>3 DEF Cut
  <2> DEFINE lines == SubSeq(h, 1, n)
             r == ChunkRead(s, lines)
             k == h[n + 1].kind
  <2>3. parser' = IF torn /\ r.p.buf = "none" /\ k # "blank" THEN [r.p EXCEPT !.buf = k] ELSE r.p
    BY <2>2
  <2>4. n \in 0 .. 4
    <3>1. Len(h) = 3 \/ Len(h) = 5
      BY <2>1
    <3>2. n \in 0 .. Len(h) - 1
      OBVIOUS
    <3>3. CASE Len(h) = 3
      <4>1. n \in 0 .. 3 - 1
        BY <3>2, <3>3
      <4> QED
        BY <4>1
    <3>4. CASE Len(h) = 5
      <4>1. n \in 0 .. 5 - 1
        BY <3>2, <3>4
      <4> QED
        BY <4>1
    <3> QED
      BY <3>1, <3>3, <3>4
  <2> HIDE DEF s, h
  <2>5. Len(lines) \in 0 .. 5
    <3> DEFINE S == {h[i] : i \in 1 .. n}
    <3>1. \A i \in 1 .. n : h[i] \in S
      OBVIOUS
    <3> HIDE DEF S
    <3>2. Len(lines) = IF 1 <= n THEN n - 1 + 1 ELSE 0
      BY <2>4, <3>1, SubSeqProperties
    <3> QED
      BY <2>4, <3>2
  <2> HIDE DEF lines
  <2>6. ParserOK(r.p)
    BY <1>1, <2>1, <2>5, PrefixFacts
  <2> HIDE DEF r, k
  <2> QED
    BY <2>3, <2>6 DEF ParserOK
<1>4. CASE wire = <<>> /\ Cut
  BY <1>1, <1>4 DEF Cut
<1> QED
  BY <1>2, <1>3, <1>4

LEMMA EventsEndStep == ASSUME DInv, EventsEnd PROVE DInv'
<1>0. /\ sse' = "closed" /\ wire' = <<>> /\ Cut
      /\ UNCHANGED <<pub, toGw, tasks, gone, latest, ws, toDesk, replies, auth, lost>>
  BY DEF EventsEnd, pubVars, gwVars
<1>1. ParserOK(parser')
  BY <1>0, CutFacts DEF DInv
<1>2. StreamInv'
  BY <1>0, <1>1, EmptySeq DEF StreamInv
<1>3. ~Idle'
  BY <1>0 DEF Idle
<1> QED
  BY <1>0, <1>2, <1>3, StreamFrame DEF DInv

LEMMA BackendRestartsStep == ASSUME DInv, BackendRestarts PROVE DInv'
<1>0. /\ toGw = <<>> /\ toGw' = toGw /\ pub' = PubInit
      /\ lost' = (lost \/ pub.pending # <<>>)
      /\ sse' = "closed" /\ wire' = <<>> /\ (Cut \/ UNCHANGED parser)
      /\ UNCHANGED <<tasks, gone, latest, ws, toDesk, replies, auth>>
  BY DEF BackendRestarts, gwVars
<1>1. ParserOK(parser')
  BY <1>0, CutFacts DEF DInv
<1>2. StreamInv'
  BY <1>0, <1>1, EmptySeq DEF StreamInv
<1>3. ~Idle'
  BY <1>0 DEF Idle
<1>4. ListInv'
  BY <1>0 DEF DInv, ListInv
<1>5. /\ PubOK(pub') /\ pub'.pending = <<>> /\ ~pub'.ready /\ ~pub'.disabled /\ pub'.sock = "none"
  BY <1>0 DEF PubOK, PubInit, Fields
<1>6. QueueOK(Publisher)'
  BY <1>0, <1>5, PubStep, EmptySeq
<1>7. QueueInv'
  BY <1>0, <1>5, <1>6 DEF DInv, QueueInv
<1>8. ~lost' => ~lost /\ Unread' = Unread /\ Unseen' = Unseen
  BY <1>0, <1>5 DEF Unread, Unseen
<1>9. Arrives'
  BY <1>0, <1>3, <1>8 DEF DInv, Arrives
<1> QED
  BY <1>2, <1>4, <1>7, <1>9 DEF DInv

-----------------------------------------------------------------------------
LEMMA InitDInv == Init => DInv
<1> SUFFICES ASSUME Init PROVE DInv
  OBVIOUS
<1>0. <<>> \in Lists
  BY EmptySeq DEF Lists
<1>1. ListInv
  BY <1>0 DEF Init, ListInv, Range
<1>2. PubOK(pub) /\ pub.pending = <<>> /\ ~pub.ready /\ ~pub.disabled /\ pub.sock = "none"
  BY DEF Init, PubOK, PubInit, Fields
<1>3. QueueOK(Publisher)
  BY <1>2, EmptySeq DEF Init, QueueOK, Publisher
<1>4. QueueInv
  BY <1>2, <1>3, EmptySeq DEF Init, QueueInv
<1>5. StreamInv
  BY EmptySeq DEF Init, StreamInv, ParserOK, IdleParser
<1>6. Unread = <<>> /\ Unseen = <<>>
  BY <1>2 DEF Init, Unread, Unseen
<1>7. Arrives
  BY <1>6 DEF Init, Arrives, Idle
<1> QED
  BY <1>1, <1>4, <1>5, <1>7 DEF DInv

LEMMA NextDInv == DInv /\ [Next]_vars => DInv'
<1> SUFFICES ASSUME DInv, [Next]_vars PROVE DInv'
  OBVIOUS
<1>1. CASE SocketOpens \/ SocketReady \/ SocketRefused \/ SocketCloses \/ ReconnectTimer
  BY <1>1, SocketOpensStep, SocketReadyStep, SocketRefusedStep, SocketClosesStep, ReconnectStep
<1>2. ASSUME NEW t \in Tasks, StoreManualTask(t) \/ RemoveManualTask(t) \/ RemovalAnswered(t)
      PROVE  DInv'
  BY <1>2, StoreStep, RemoveStep, RemovalAnsweredStep
<1>7. ASSUME NEW t \in OwnTasks, DesktopAdds(t) \/ DesktopRemoves(t) \/ RemovalAnswered(t)
      PROVE  DInv'
  BY <1>7, OwnStep, RemovalAnsweredStep
<1>3. CASE GatewayReads \/ GatewayStops \/ GatewayStarts
  BY <1>3, GatewayReadsStep, GatewayStopsStep, GatewayStartsStep
<1>4. CASE DesktopConnects \/ DesktopDisconnected \/ DesktopReads
  BY <1>4, DesktopConnectsStep, DesktopDisconnectedStep, DesktopReadsStep
<1>5. CASE EventsConnect \/ EventRead \/ EventsEnd \/ BackendRestarts
  BY <1>5, EventsConnectStep, EventReadStep, EventsEndStep, BackendRestartsStep
<1>6. CASE UNCHANGED vars
  <2>1. UNCHANGED <<tasks, gone, pub, toGw, latest, ws, toDesk, sse, wire, parser, shown, replies, auth, lost, strayed>>
    BY <1>6 DEF vars, pubVars, gwVars, deskVars, bounds
  <2>2. Publisher' = Publisher /\ Unread' = Unread /\ Unseen' = Unseen
    BY <2>1 DEF Publisher, Unread, Unseen
  <2>3. QueueOK(Publisher)'
    BY <2>2 DEF DInv, QueueInv
  <2>4. QueueInv'
    BY <2>1, <2>3 DEF DInv, QueueInv
  <2>5. ListInv' /\ StreamInv'
    BY <2>1 DEF DInv, ListInv, StreamInv
  <2>6. Arrives'
    BY <2>1, <2>2 DEF DInv, Arrives, Idle, Follows
  <2> QED
    BY <2>4, <2>5, <2>6 DEF DInv
<1> QED
  BY <1>1, <1>2, <1>3, <1>4, <1>5, <1>6, <1>7 DEF Next

(* Whatever was interleaved, torn and restarted, on two streams: once      *)
(* nothing is under way the desktop shows the list of the backend, unless  *)
(* the last change was lost with a process that had not passed it on, or   *)
(* the desktop has added to it since it was last sent a whole list         *)
(* (main.ts, applyStandaloneBackendManualTasks and                         *)
(* applyStandaloneBackendManualTask).                                      *)
THEOREM ListsAgreeWhenQuiet == Spec => []QuietMeansEqual
<1>1. DInv => QuietMeansEqual
  <2> SUFFICES ASSUME DInv, Quiet, ~lost, ~strayed PROVE shown = tasks
    BY DEF QuietMeansEqual
  <2>1. Idle /\ (ws = "open" \/ auth = "bad")
    BY DEF Quiet, Idle, DInv, QueueInv
  <2>2. Unseen = <<>>
    BY DEF Quiet, Unread, Unseen
  <2>3. ~Ends(Unseen, tasks)
    BY <2>2 DEF Ends
  <2> QED
    BY <2>1, <2>3 DEF DInv, Arrives, Follows
<1> QED
  BY <1>1, InitDInv, NextDInv, PTL DEF Spec

=============================================================================
