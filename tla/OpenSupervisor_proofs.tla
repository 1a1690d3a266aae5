----------------------- MODULE OpenSupervisor_proofs -----------------------
(***************************************************************************)
(* Theorems about the supervisor in an arbitrary environment, for every    *)
(* number of sessions, connections and processes, every ring capacity and  *)
(* every set of requests.                                                  *)
(***************************************************************************)
EXTENDS OpenSupervisor, TLAPS

USE DEF LargerOf

-----------------------------------------------------------------------------
(* Frames and messages have their types. *)

(* The frames the supervisor builds are server frames. *)
LEMMA FramesTyped ==
    /\ \A t \in ServerFrameTypes, s \in Sessions \cup {NoSession}, id \in Nat :
          Frame(t, s, id) \in ServerFrame
    /\ \A t \in ServerFrameTypes, s \in Sessions \cup {NoSession}, id, lo, hi \in Nat :
          OutputFrame(t, s, id, lo, hi) \in ServerFrame
    /\ \A id \in Nat : \A L \in SUBSET Sessions : SessionsFrame(id, L) \in ServerFrame
  BY DEF ServerFrame, ServerFrameTypes, Frame, OutputFrame, SessionsFrame

(* The first line on a connection is a client message; one about a session
   names a session. *)
LEMMA HeadTyped ==
    ASSUME TypeOK, NEW c \in Conns, toSup[c] # <<>>
    PROVE  /\ Head(toSup[c]) \in ClientMessage
           /\ Head(toSup[c]).id \in Nat
           /\ Head(toSup[c]).sid \in Sessions \cup {NoSession}
           /\ Head(toSup[c]).type \in ClientMessageTypes
           /\ Head(toSup[c]).type \notin {"hello", "list"} => Head(toSup[c]).sid \in Sessions
           /\ Head(toSup[c]).size \in Sizes \cup {0}
           /\ Tail(toSup[c]) \in Seq(ClientMessage)
  <1>1. toSup[c] \in Seq(ClientMessage)
    BY DEF TypeOK, IpcTypeOK
  <1>2. Head(toSup[c]) \in ClientMessage /\ Tail(toSup[c]) \in Seq(ClientMessage)
    BY <1>1
  <1>. QED
    BY <1>2 DEF ClientMessage, ClientMessageTypes

(* An unused process number is a process number. *)
LEMMA NextIncTyped ==
    ASSUME NEW s \in Sessions, FreeIncs(s) # {}
    PROVE  NextInc(s) \in Incs
  BY DEF FreeIncs, NextInc

(* A process record stays one when some fields of it are updated. *)
LEMMA ProcessTyped ==
    ASSUME NEW p \in Process
    PROVE  /\ [p EXCEPT !.alive = FALSE] \in Process
           /\ [p EXCEPT !.stream = "open"] \in Process
           /\ [p EXCEPT !.alive = FALSE, !.stream = "closed"] \in Process
           /\ \A z \in Sizes \cup {0} : [p EXCEPT !.size = z] \in Process
  <1>1. [p EXCEPT !.alive = FALSE] \in Process
    BY DEF Process
  <1>2. [p EXCEPT !.stream = "open"] \in Process
    BY DEF Process
  <1>3. [p EXCEPT !.alive = FALSE, !.stream = "closed"] \in Process
    BY DEF Process
  <1>4. \A z \in Sizes \cup {0} : [p EXCEPT !.size = z] \in Process
    BY DEF Process
  <1>. QED
    BY <1>1, <1>2, <1>3, <1>4

(* What is sent reaches the queue of its connection if that is open. *)
LEMMA SentQueues ==
    ASSUME NEW q \in [Conns -> Seq(ServerFrame)], NEW c \in Conns, NEW f \in ServerFrame
    PROVE  /\ Sent(q, c, f) \in [Conns -> Seq(ServerFrame)]
           /\ \A d \in Conns : d # c \/ ~Live(c) => Sent(q, c, f)[d] = q[d]
           /\ Live(c) => Sent(q, c, f)[c] = Append(q[c], f)
  <1>1. Append(q[c], f) \in Seq(ServerFrame)
    OBVIOUS
  <1>. QED
    BY <1>1 DEF Sent

(* Queues stay queues of frames, whatever frame is written to whom. *)
LEMMA WritesTyped ==
    ASSUME TypeOK, NEW f \in ServerFrame
    PROVE  /\ Broadcast(toGw, f) \in [Conns -> Seq(ServerFrame)]
           /\ \A s \in Sessions : FanOut(toGw, s, f) \in [Conns -> Seq(ServerFrame)]
           /\ \A c \in Conns : SendTo(c, f) => toGw' \in [Conns -> Seq(ServerFrame)]
  <1>1. toGw \in [Conns -> Seq(ServerFrame)]
    BY DEF TypeOK, IpcTypeOK
  <1>2. \A d \in Conns : Append(toGw[d], f) \in Seq(ServerFrame) /\ toGw[d] \in Seq(ServerFrame)
    BY <1>1
  <1>. QED
    BY <1>1, <1>2, SentQueues DEF Broadcast, FanOut, SendTo

(* The supervisor's state is typed, and the queues, are two halves of TypeOK. *)
LEMMA ReceiveTyped ==
    ASSUME TypeOK, NEW c \in Conns, NEW t, Receive(c, t)
    PROVE  toSup' \in [Conns -> Seq(ClientMessage)] /\ toSup[c] # <<>>
  BY HeadTyped DEF Receive, TypeOK, IpcTypeOK

LEMMA ReplyTyped ==
    ASSUME TypeOK, NEW c \in Conns, toSup[c] # <<>>, NEW t \in ServerFrameTypes
    PROVE  Reply(c, t) \in ServerFrame
  BY HeadTyped, FramesTyped DEF Reply

LEMMA ReplySent ==
    ASSUME TypeOK, NEW c \in Conns, toSup[c] # <<>>, NEW t \in ServerFrameTypes,
           SendTo(c, Reply(c, t))
    PROVE  toGw' \in [Conns -> Seq(ServerFrame)]
  <1>1. Reply(c, t) \in ServerFrame
    BY ReplyTyped
  <1>. QED
    BY <1>1, WritesTyped

LEMMA EmitTyped ==
    ASSUME TypeOK, NEW s \in Sessions, Emit(s)
    PROVE  /\ toGw' \in [Conns -> Seq(ServerFrame)]
           /\ scrollback' \in [Sessions -> Nat]
           /\ produced' \in [Sessions -> Nat]
  <1>1. produced[s] + 1 \in Nat /\ scrollback[s] \in Nat
    BY DEF TypeOK, SupTypeOK
  <1>2. Trimmed(scrollback[s], produced[s] + 1) \in Nat
    BY <1>1, SupervisorAssumption DEF Trimmed
  <1>3. OutputFrame("output", s, 0, produced[s] + 1, produced[s] + 1) \in ServerFrame
    BY <1>1, FramesTyped DEF ServerFrameTypes
  <1>. QED
    BY <1>1, <1>2, <1>3, WritesTyped DEF Emit, TypeOK, SupTypeOK

LEMMA EmitExitTyped ==
    ASSUME TypeOK, NEW s \in Sessions, NEW q \in Seq(Immediate), EmitExit(s, q)
    PROVE  /\ toGw' \in [Conns -> Seq(ServerFrame)]
           /\ immediates' \in Seq(Immediate)
  <1>1. Frame("exit", s, 0) \in ServerFrame
    BY FramesTyped DEF ServerFrameTypes
  <1>2. [run |-> "removed", sid |-> s] \in Immediate
    BY DEF Immediate
  <1>. QED
    BY <1>1, <1>2, WritesTyped DEF EmitExit

LEMMA StartTyped ==
    ASSUME TypeOK, NEW c \in Conns, toSup[c] # <<>>,
           Head(toSup[c]).type \notin {"hello", "list"},
           NEW p \in Process, CanStart(Head(toSup[c])),
           Start(c, Head(toSup[c]), p)
    PROVE  /\ toGw' \in [Conns -> Seq(ServerFrame)]
           /\ scrollback' \in [Sessions -> Nat]
           /\ current' \in [Sessions -> 0 .. MaxIncs]
           /\ proc' \in [Sessions -> [Incs -> Process]]
  <1>. DEFINE m == Head(toSup[c])
  <1>1. m.sid \in Sessions /\ m.id \in Nat
    BY HeadTyped
  <1>2. NextInc(m.sid) \in Incs
    BY <1>1, NextIncTyped DEF CanStart
  <1>3. /\ Frame("created", m.sid, 0) \in ServerFrame
        /\ Frame("created", m.sid, m.id) \in ServerFrame
    BY <1>1, FramesTyped DEF ServerFrameTypes
  <1>4. toGw' \in [Conns -> Seq(ServerFrame)]
    <2>1. Broadcast(toGw, Frame("created", m.sid, 0)) \in [Conns -> Seq(ServerFrame)]
      BY <1>3, WritesTyped
    <2>. QED
      BY <1>3, <2>1, SentQueues DEF Start
  <1>5. current' \in [Sessions -> 0 .. MaxIncs]
    BY <1>1, <1>2, SupervisorAssumption DEF Start, Incs, TypeOK, SupTypeOK
  <1>6. proc' \in [Sessions -> [Incs -> Process]]
    BY <1>1, <1>2 DEF Start, TypeOK, SupTypeOK
  <1>7. scrollback' \in [Sessions -> Nat]
    BY <1>1 DEF Start, TypeOK, SupTypeOK
  <1>. QED
    BY <1>4, <1>5, <1>6, <1>7

(* Every step of the system keeps the types: one step of the proof per action. *)
LEMMA TypeStep == TypeOK /\ [Next]_vars => TypeOK'
  <1>. SUFFICES ASSUME TypeOK, [Next]_vars PROVE TypeOK'
    OBVIOUS
  <1>. USE DEF IpcTypeOK, SupTypeOK, connVars
  <1>1. ASSUME NEW s \in Sessions, NEW i \in Incs, Data(s, i) PROVE TypeOK'
    BY <1>1, EmitTyped DEF Data, TypeOK
  <1>2. ASSUME NEW s \in Sessions, NEW i \in Incs, PtyExit(s, i) PROVE TypeOK'
    <2>0. proc[s][i] \in Process /\ proc \in [Sessions -> [Incs -> Process]]
      BY DEF TypeOK
    <2>1. proc' \in [Sessions -> [Incs -> Process]]
      <3>1. [proc[s][i] EXCEPT !.alive = FALSE, !.stream = "closed"] \in Process
        BY <2>0, ProcessTyped
      <3>. QED
        BY <1>2, <2>0, <3>1 DEF PtyExit
    <2>2. immediates \in Seq(Immediate)
      BY DEF TypeOK
    <2>. QED
      BY <1>2, <2>1, <2>2, EmitExitTyped DEF PtyExit, TypeOK
  <1>3. ASSUME NEW s \in Sessions, NEW i \in Incs, SshReady(s, i) PROVE TypeOK'
    <2>0. proc[s][i] \in Process /\ proc \in [Sessions -> [Incs -> Process]]
      BY DEF TypeOK
    <2>1. proc' \in [Sessions -> [Incs -> Process]]
      <3>1. [proc[s][i] EXCEPT !.stream = "open"] \in Process
        BY <2>0, ProcessTyped
      <3>. QED
        BY <1>3, <2>0, <3>1 DEF SshReady
    <2>. QED
      BY <1>3, <2>1 DEF SshReady, TypeOK, ipcVars
  <1>4. ASSUME NEW s \in Sessions, NEW i \in Incs, SshFatal(s, i) PROVE TypeOK'
    <2>0. proc[s][i] \in Process /\ proc \in [Sessions -> [Incs -> Process]]
      BY DEF TypeOK
    <2>1. proc' \in [Sessions -> [Incs -> Process]]
      <3>1. [proc[s][i] EXCEPT !.alive = FALSE] \in Process
        BY <2>0, ProcessTyped
      <3>. QED
        BY <1>4, <2>0, <3>1 DEF SshFatal
    <2>2. immediates' \in Seq(Immediate)
      BY <1>4 DEF SshFatal, Immediate, TypeOK
    <2>. QED
      BY <1>4, <2>1, <2>2, EmitTyped DEF SshFatal, TypeOK
  <1>5. ASSUME NEW s \in Sessions, NEW i \in Incs, SshStreamClose(s, i) PROVE TypeOK'
    <2>0. proc[s][i] \in Process /\ proc \in [Sessions -> [Incs -> Process]]
      BY DEF TypeOK
    <2>1. proc' \in [Sessions -> [Incs -> Process]]
      <3>1. [proc[s][i] EXCEPT !.alive = FALSE, !.stream = "closed"] \in Process
        BY <2>0, ProcessTyped
      <3>. QED
        BY <1>5, <2>0, <3>1 DEF SshStreamClose
    <2>2. immediates \in Seq(Immediate)
      BY DEF TypeOK
    <2>. QED
      BY <1>5, <2>1, <2>2, EmitExitTyped DEF SshStreamClose, TypeOK
  <1>6. CASE RunImmediate
    <2>1. /\ Head(immediates) \in Immediate
          /\ Tail(immediates) \in Seq(Immediate)
          /\ Head(immediates).sid \in Sessions
      <3>1. immediates \in Seq(Immediate) /\ immediates # <<>>
        BY <1>6 DEF RunImmediate, TypeOK
      <3>2. Head(immediates) \in Immediate /\ Tail(immediates) \in Seq(Immediate)
        BY <3>1
      <3>. QED
        BY <3>2 DEF Immediate
    <2>2. ASSUME RunExit(Head(immediates).sid) PROVE TypeOK'
      BY <1>6, <2>1, <2>2, EmitExitTyped DEF RunImmediate, RunExit, TypeOK
    <2>3. ASSUME RunRemoved(Head(immediates).sid) PROVE TypeOK'
      <3>1. Frame("removed", Head(immediates).sid, 0) \in ServerFrame
        BY <2>1, FramesTyped DEF ServerFrameTypes
      <3>2. toGw' \in [Conns -> Seq(ServerFrame)]
        BY <2>3, <3>1, WritesTyped DEF RunRemoved
      <3>3. current' \in [Sessions -> 0 .. MaxIncs]
        BY <2>1, <2>3, SupervisorAssumption DEF RunRemoved, TypeOK
      <3>. QED
        BY <1>6, <2>1, <2>3, <3>2, <3>3 DEF RunImmediate, RunRemoved, TypeOK
    <2>. QED
      BY <1>6, <2>2, <2>3 DEF RunImmediate
  <1>7. ASSUME NEW c \in Conns, Hello(c) PROVE TypeOK'
    <2>. DEFINE m == Head(toSup[c])
    <2>1. toSup' \in [Conns -> Seq(ClientMessage)] /\ toSup[c] # <<>>
      BY <1>7, ReceiveTyped DEF Hello
    <2>2. m.id \in Nat
      BY <2>1, HeadTyped
    <2>3. /\ Frame("hello", NoSession, 0) \in ServerFrame
          /\ Frame("error", NoSession, m.id) \in ServerFrame
          /\ SessionsFrame(m.id, Listed) \in ServerFrame
      BY <2>2, FramesTyped DEF ServerFrameTypes, Listed
    <2>4. toGw' \in [Conns -> Seq(ServerFrame)]
      <3>. DEFINE f == Frame("hello", NoSession, 0)
                  g == SessionsFrame(m.id, Listed)
      <3>1. toGw \in [Conns -> Seq(ServerFrame)]
        BY DEF TypeOK
      <3>2. Sent(Sent(toGw, c, f), c, g) \in [Conns -> Seq(ServerFrame)]
        <4>1. Sent(toGw, c, f) \in [Conns -> Seq(ServerFrame)]
          BY <2>3, <3>1, SentQueues
        <4>. QED
          BY <2>3, <4>1, SentQueues
      <3>3. CASE SendTo(c, Frame("error", NoSession, m.id))
        BY <2>3, <3>3, WritesTyped
      <3>4. CASE toGw' = Sent(Sent(toGw, c, f), c, g)
        BY <3>2, <3>4
      <3>. QED
        BY <1>7, <3>3, <3>4 DEF Hello
    <2>. QED
      BY <1>7, <2>1, <2>4 DEF Hello, TypeOK
  <1>8. ASSUME NEW c \in Conns, Unauthorized(c) PROVE TypeOK'
    <2>1. toSup' \in [Conns -> Seq(ClientMessage)] /\ toSup[c] # <<>>
      BY <1>8, ReceiveTyped DEF Unauthorized
    <2>2. toGw' \in [Conns -> Seq(ServerFrame)]
      BY <1>8, <2>1, ReplySent DEF Unauthorized, ServerFrameTypes
    <2>. QED
      BY <1>8, <2>1, <2>2 DEF Unauthorized, TypeOK, supVars
  <1>9. ASSUME NEW c \in Conns, List(c) PROVE TypeOK'
    <2>1. toSup' \in [Conns -> Seq(ClientMessage)] /\ toSup[c] # <<>>
      BY <1>9, ReceiveTyped DEF List
    <2>2. SessionsFrame(Head(toSup[c]).id, Listed) \in ServerFrame
      BY <2>1, HeadTyped, FramesTyped DEF Listed
    <2>3. toGw' \in [Conns -> Seq(ServerFrame)]
      BY <1>9, <2>2, WritesTyped DEF List
    <2>. QED
      BY <1>9, <2>1, <2>3 DEF List, TypeOK, supVars
  <1>10. ASSUME NEW c \in Conns, Create(c) \/ CreateSsh(c) PROVE TypeOK'
    <2>. DEFINE m == Head(toSup[c])
    <2>1. /\ toSup' \in [Conns -> Seq(ClientMessage)] /\ toSup[c] # <<>>
          /\ m.type \notin {"hello", "list"}
      BY <1>10, ReceiveTyped DEF Create, CreateSsh, Receive
    <2>2. UNCHANGED <<conn, authenticated, subscriptions, subscribers, produced, immediates>>
      BY <1>10 DEF Create, CreateSsh
    <2>3. CASE CanStart(m) /\ \E p \in Process : Start(c, m, p)
      BY <2>1, <2>2, <2>3, StartTyped DEF TypeOK
    <2>4. CASE SendTo(c, Reply(c, "error")) /\ UNCHANGED <<current, proc, scrollback>>
      BY <2>1, <2>2, <2>4, ReplySent DEF TypeOK, ServerFrameTypes
    <2>5. m.size \in Sizes \cup {0}
      BY <2>1, HeadTyped
    <2>6. /\ [kind |-> "pty", alive |-> TRUE, stream |-> "open", size |-> m.size] \in Process
          /\ [kind |-> "ssh", alive |-> TRUE, stream |-> "none", size |-> m.size] \in Process
      BY <2>5 DEF Process
    <2>. QED
      BY <1>10, <2>3, <2>4, <2>6 DEF Create, CreateSsh
  <1>11. ASSUME NEW c \in Conns, Subscribe(c) PROVE TypeOK'
    <2>. DEFINE m == Head(toSup[c])
    <2>1. /\ toSup' \in [Conns -> Seq(ClientMessage)] /\ toSup[c] # <<>>
          /\ m.type \notin {"hello", "list"}
      BY <1>11, ReceiveTyped DEF Subscribe, Receive
    <2>2. m.sid \in Sessions /\ m.id \in Nat
      BY <2>1, HeadTyped
    <2>3. /\ OutputFrame("subscribed", m.sid, m.id, scrollback[m.sid], produced[m.sid]) \in ServerFrame
          /\ Reply(c, "error") \in ServerFrame
      BY <2>1, <2>2, FramesTyped, ReplyTyped DEF ServerFrameTypes, TypeOK
    <2>4. toGw' \in [Conns -> Seq(ServerFrame)]
      BY <1>11, <2>3, WritesTyped DEF Subscribe
    <2>. QED
      <3>1. subscribers' \in [Sessions -> SUBSET Conns]
        BY <1>11, <2>2 DEF Subscribe, TypeOK
      <3>2. subscriptions' \in [Conns -> SUBSET Sessions]
        <4>1. subscriptions \in [Conns -> SUBSET Sessions]
          BY DEF TypeOK
        <4>2. subscriptions[c] \cup {m.sid} \in SUBSET Sessions
          BY <2>2, <4>1
        <4>3. \/ subscriptions' = [subscriptions EXCEPT ![c] = @ \cup {m.sid}]
              \/ subscriptions' = subscriptions
          BY <1>11 DEF Subscribe
        <4>. QED
          BY <4>1, <4>2, <4>3
      <3>. QED
        BY <1>11, <2>1, <2>4, <3>1, <3>2 DEF Subscribe, TypeOK
  <1>12. ASSUME NEW c \in Conns, Unsubscribe(c) PROVE TypeOK'
    <2>1. /\ toSup' \in [Conns -> Seq(ClientMessage)] /\ toSup[c] # <<>>
          /\ Head(toSup[c]).type \notin {"hello", "list"}
      BY <1>12, ReceiveTyped DEF Unsubscribe, Receive
    <2>2. Head(toSup[c]).sid \in Sessions
      BY <2>1, HeadTyped
    <2>3. toGw' \in [Conns -> Seq(ServerFrame)]
      BY <1>12, <2>1, ReplySent DEF Unsubscribe, ServerFrameTypes
    <2>. QED
      BY <1>12, <2>1, <2>2, <2>3 DEF Unsubscribe, TypeOK
  <1>13. ASSUME NEW c \in Conns, Forward(c) PROVE TypeOK'
    <2>1. toSup' \in [Conns -> Seq(ClientMessage)] /\ toSup[c] # <<>>
      BY <1>13, ReceiveTyped DEF Forward
    <2>2. CASE SendTo(c, Reply(c, "error"))
      <3>1. toGw' \in [Conns -> Seq(ServerFrame)]
        BY <2>1, <2>2, ReplySent DEF ServerFrameTypes
      <3>. QED
        BY <1>13, <2>1, <3>1 DEF Forward, TypeOK, supVars
    <2>3. CASE UNCHANGED toGw
      BY <1>13, <2>1, <2>3 DEF Forward, TypeOK, supVars
    <2>. QED
      BY <1>13, <2>2, <2>3 DEF Forward
  <1>14. ASSUME NEW c \in Conns, Resize(c) PROVE TypeOK'
    <2>. DEFINE m == Head(toSup[c])
    <2>1. /\ toSup' \in [Conns -> Seq(ClientMessage)] /\ toSup[c] # <<>>
          /\ m.type \notin {"hello", "list"}
      BY Zenon, <1>14, ReceiveTyped DEF Resize, Receive
    <2>2. m.sid \in Sessions /\ m.size \in Sizes \cup {0}
      BY <2>1, HeadTyped
    <2>3. toGw' \in [Conns -> Seq(ServerFrame)]
      <3>1. CASE SendTo(c, Reply(c, "error"))
        BY <2>1, <3>1, ReplySent DEF ServerFrameTypes
      <3>2. CASE UNCHANGED toGw
        <4>1. toGw \in [Conns -> Seq(ServerFrame)]
          BY DEF TypeOK
        <4>. QED
          BY <3>2, <4>1
      <3>. QED
        BY Zenon, <1>14, <3>1, <3>2 DEF Resize
    <2>4. proc' \in [Sessions -> [Incs -> Process]]
      <3>. DEFINE i == current[m.sid]
      <3>1. CASE UNCHANGED proc
        BY <3>1 DEF TypeOK
      <3>2. CASE i # 0 /\ proc' = [proc EXCEPT ![m.sid][i].size = m.size]
        <4>1. i \in Incs
          BY <2>2, <3>2, SupervisorAssumption DEF TypeOK, Incs
        <4>2. proc[m.sid][i] \in Process /\ proc \in [Sessions -> [Incs -> Process]]
          BY <2>2, <4>1 DEF TypeOK
        <4>3. [proc[m.sid][i] EXCEPT !.size = m.size] \in Process
          BY Zenon, <2>2, <4>2, ProcessTyped
        <4>. QED
          BY Zenon, <2>2, <3>2, <4>1, <4>2, <4>3
      <3>. QED
        BY Zenon, <1>14, <3>1, <3>2 DEF Resize
    <2>5. UNCHANGED <<connVars, subscribers, scrollback, current, produced, immediates>>
      BY Zenon, <1>14 DEF Resize
    <2> HIDE DEF m
    <2>. QED
      BY <2>1, <2>3, <2>4, <2>5 DEF TypeOK
  <1>15. ASSUME NEW c \in Conns, Accept(c) \/ Destroy(c) \/ Close(c) PROVE TypeOK'
    <2>1. CASE Accept(c)
      BY <2>1 DEF Accept, TypeOK, ipcVars
    <2>2. CASE Destroy(c)
      BY <2>2 DEF Destroy, TypeOK, ipcVars
    <2>3. CASE Close(c)
      <3>1. subscribers' \in [Sessions -> SUBSET Conns]
        BY <2>3 DEF Close, TypeOK
      <3>2. conn' \in [Conns -> {"none", "open", "destroyed", "closed"}]
        BY <2>3 DEF Close, TypeOK
      <3>. QED
        BY <2>3, <3>1, <3>2 DEF Close, TypeOK, ipcVars
    <2>. QED
      BY <1>15, <2>1, <2>2, <2>3
  <1>16. ASSUME NEW c \in Conns, GatewayWrite(c) PROVE TypeOK'
    BY <1>16, OpenAssumption DEF GatewayWrite, TypeOK, supVars
  <1>17. ASSUME NEW c \in Conns, GatewayRead(c) PROVE TypeOK'
    BY <1>17 DEF GatewayRead, TypeOK, supVars
  <1>18. CASE UNCHANGED vars
    BY <1>18 DEF vars, ipcVars, supVars, TypeOK
  <1>. QED
    BY <1>1, <1>2, <1>3, <1>4, <1>5, <1>6, <1>7, <1>8, <1>9, <1>10, <1>11, <1>12,
       <1>13, <1>14, <1>15, <1>16, <1>17, <1>18
       DEF Next, SupervisorNext, HandleMessage

(* In every reachable state the queues hold messages and frames of the
   protocol, and the supervisor's tables relate sessions to connections. *)
THEOREM TypeCorrect == Spec => []TypeOK
  <1>1. Init => TypeOK
    BY SupervisorAssumption
       DEF Init, IpcInit, SupInit, TypeOK, IpcTypeOK, SupTypeOK, Process, Unborn
  <1>. QED
    BY <1>1, TypeStep, PTL DEF Spec

-----------------------------------------------------------------------------
(* Who is subscribed to what. *)

Registered == TypeOK /\ NoStaleSubscriber /\ RingIffListed

(* The tables stay consistent.  Only six actions touch them; the others
   leave every variable the two invariants read unchanged. *)
LEMMA RegisteredStep == Registered /\ [Next]_vars => NoStaleSubscriber' /\ RingIffListed'
  <1>. SUFFICES ASSUME Registered, [Next]_vars PROVE NoStaleSubscriber' /\ RingIffListed'
    OBVIOUS
  <1>. USE DEF Registered, NoStaleSubscriber, RingIffListed, connVars
  <1>1. ASSUME UNCHANGED <<conn, authenticated, subscriptions, subscribers, scrollback, current>>
        PROVE  NoStaleSubscriber' /\ RingIffListed'
    BY <1>1
  <1>2. ASSUME NEW s \in Sessions, Emit(s),
               UNCHANGED <<conn, authenticated, subscriptions, subscribers, current>>
        PROVE  NoStaleSubscriber' /\ RingIffListed'
    <2>1. scrollback[s] \in Nat /\ produced[s] \in Nat /\ scrollback \in [Sessions -> Nat]
      BY DEF TypeOK, SupTypeOK
    <2>2. scrollback[s] # 0 => Trimmed(scrollback[s], produced[s] + 1) # 0
      BY <2>1, SupervisorAssumption DEF Trimmed
    <2>3. \A t \in Sessions : scrollback'[t] # 0 <=> scrollback[t] # 0
      BY <1>2, <2>1, <2>2 DEF Emit
    <2>. QED
      BY <1>2, <2>3
  <1>3. ASSUME NEW s \in Sessions, RunRemoved(s), UNCHANGED connVars
        PROVE  NoStaleSubscriber' /\ RingIffListed'
    BY <1>3 DEF RunRemoved, TypeOK, SupTypeOK
  <1>4. ASSUME NEW c \in Conns, NEW p, Receive(c, "create") \/ Receive(c, "create_ssh"),
               CanStart(Head(toSup[c])), Start(c, Head(toSup[c]), p),
               UNCHANGED <<connVars, subscribers>>
        PROVE  NoStaleSubscriber' /\ RingIffListed'
    <2>. DEFINE s == Head(toSup[c]).sid
    <2>1. s \in Sessions
      BY <1>4, HeadTyped DEF Receive
    <2>2. NextInc(s) # 0
      BY <1>4, <2>1, NextIncTyped DEF CanStart, Incs
    <2>3. produced[s] + 1 # 0 /\ current[s] = 0 /\ scrollback[s] = 0
      BY <1>4, <2>1 DEF CanStart, TypeOK, SupTypeOK
    <2>4. current' = [current EXCEPT ![s] = NextInc(s)]
      BY <1>4 DEF Start
    <2>5. scrollback' = [scrollback EXCEPT ![s] = produced[s] + 1]
      BY <1>4, <2>3 DEF Start, TypeOK, SupTypeOK
    <2>6. \A t \in Sessions : current[t] # 0 => current'[t] # 0
      BY <2>1, <2>2, <2>4 DEF TypeOK, SupTypeOK
    <2>7. NoStaleSubscriber'
      BY <1>4, <2>6
    <2>8. RingIffListed'
      BY <2>1, <2>2, <2>3, <2>4, <2>5 DEF TypeOK, SupTypeOK
    <2>. QED
      BY <2>7, <2>8
  <1>5. ASSUME NEW c \in Conns, Subscribe(c) PROVE NoStaleSubscriber' /\ RingIffListed'
    <2>. DEFINE s == Head(toSup[c]).sid
    <2>1. s \in Sessions
      BY <1>5, HeadTyped DEF Subscribe, Receive
    <2>2. conn[c] \in {"open", "destroyed"} /\ c \in authenticated
      BY <1>5 DEF Subscribe, Receive
    <2>3. CASE /\ current[s] # 0
               /\ subscribers' = [subscribers EXCEPT ![s] = @ \cup {c}]
               /\ subscriptions' = [subscriptions EXCEPT ![c] = @ \cup {s}]
      BY <1>5, <2>1, <2>2, <2>3 DEF Subscribe, TypeOK, SupTypeOK
    <2>4. CASE UNCHANGED <<subscribers, subscriptions>>
      BY <1>5, <2>4 DEF Subscribe
    <2>. QED
      BY <1>5, <2>3, <2>4 DEF Subscribe
  <1>6. ASSUME NEW c \in Conns, Unsubscribe(c) PROVE NoStaleSubscriber' /\ RingIffListed'
    <2>1. Head(toSup[c]).sid \in Sessions
      BY <1>6, HeadTyped DEF Unsubscribe, Receive
    <2>. QED
      BY <1>6, <2>1 DEF Unsubscribe, TypeOK, SupTypeOK
  <1>7. ASSUME NEW c \in Conns, Hello(c) PROVE NoStaleSubscriber' /\ RingIffListed'
    BY <1>7 DEF Hello
  <1>8. ASSUME NEW c \in Conns, Create(c) \/ CreateSsh(c)
        PROVE  NoStaleSubscriber' /\ RingIffListed'
    <2>1. UNCHANGED <<connVars, subscribers>> /\ (Receive(c, "create") \/ Receive(c, "create_ssh"))
      BY <1>8 DEF Create, CreateSsh
    <2>2. \/ CanStart(Head(toSup[c])) /\ \E p : Start(c, Head(toSup[c]), p)
          \/ UNCHANGED <<current, scrollback>>
      BY <1>8 DEF Create, CreateSsh
    <2>. QED
      BY <1>1, <1>4, <2>1, <2>2
  <1>9. ASSUME NEW c \in Conns, Accept(c) \/ Destroy(c) PROVE NoStaleSubscriber' /\ RingIffListed'
    <2>1. \A d \in Conns : conn[d] \in {"open", "destroyed"} => conn'[d] \in {"open", "destroyed"}
      BY <1>9 DEF Accept, Destroy, TypeOK, SupTypeOK
    <2>2. UNCHANGED <<authenticated, subscriptions, subscribers, scrollback, current>>
      BY <1>9 DEF Accept, Destroy
    <2>3. \A s \in Sessions : subscribers[s] \subseteq Conns
      BY DEF TypeOK, SupTypeOK
    <2>. QED
      BY <2>1, <2>2, <2>3
  <1>10. ASSUME NEW c \in Conns, Close(c) PROVE NoStaleSubscriber' /\ RingIffListed'
    BY <1>10 DEF Close, TypeOK, SupTypeOK
  <1>11. CASE RunImmediate
    <2>1. Head(immediates).sid \in Sessions
      <3>1. immediates \in Seq(Immediate) /\ immediates # <<>>
        BY <1>11 DEF RunImmediate, TypeOK, SupTypeOK
      <3>2. Head(immediates) \in Immediate
        BY <3>1
      <3>. QED
        BY <3>2 DEF Immediate
    <2>. QED
      BY <1>1, <1>3, <1>11, <2>1 DEF RunImmediate, RunExit
  <1>12. ASSUME NEW s \in Sessions, NEW i \in Incs,
                Data(s, i) \/ PtyExit(s, i) \/ SshReady(s, i) \/ SshFatal(s, i) \/ SshStreamClose(s, i)
         PROVE  NoStaleSubscriber' /\ RingIffListed'
    <2>1. CASE Data(s, i) \/ SshFatal(s, i)
      BY <1>1, <1>2, <2>1 DEF Data, SshFatal
    <2>2. CASE PtyExit(s, i) \/ SshStreamClose(s, i)
      BY <1>1, <1>2, <2>2 DEF PtyExit, SshStreamClose
    <2>3. CASE SshReady(s, i)
      BY <1>1, <1>2, <2>3 DEF SshReady
    <2>. QED
      BY <1>12, <2>1, <2>2, <2>3
  <1>13. ASSUME NEW c \in Conns,
                \/ Unauthorized(c) \/ List(c) \/ Forward(c) \/ Resize(c)
                \/ GatewayWrite(c) \/ GatewayRead(c)
         PROVE  NoStaleSubscriber' /\ RingIffListed'
    BY Zenon, <1>1, <1>13 DEF Unauthorized, List, Forward, Resize, GatewayWrite, GatewayRead, supVars
  <1>14. CASE UNCHANGED vars
    BY <1>1, <1>14 DEF vars, supVars
  <1>. QED
    BY <1>5, <1>6, <1>7, <1>8, <1>9, <1>10, <1>11, <1>12, <1>13, <1>14
       DEF Next, SupervisorNext, HandleMessage

(* At the start nobody is connected and there is no session. *)
LEMMA RegisteredInit == Init => Registered
  BY SupervisorAssumption
     DEF Init, IpcInit, SupInit, Registered, TypeOK, IpcTypeOK, SupTypeOK, Process, Unborn,
         NoStaleSubscriber, RingIffListed

(* Together with the types the two invariants are inductive. *)
LEMMA RegisteredInvariant == Spec => []Registered
  <1>1. Registered /\ [Next]_vars => Registered'
    BY RegisteredStep, TypeStep DEF Registered
  <1>. QED
    BY RegisteredInit, <1>1, PTL DEF Spec

(* Whoever is sent a session's output authenticated, is not closed, recorded
   the subscription where its close handler looks for it, and the session
   exists: for any number of gateways subscribing, closing and racing with
   the removal and re-creation of sessions. *)
THEOREM NoStaleSubscribers == Spec => []NoStaleSubscriber
  <1>1. Registered => NoStaleSubscriber
    BY DEF Registered
  <1>. QED
    BY RegisteredInvariant, <1>1, PTL

(* A session has a ring exactly while it is in the session map. *)
THEOREM RingsFollowSessions == Spec => []RingIffListed
  <1>1. Registered => RingIffListed
    BY DEF Registered
  <1>. QED
    BY RegisteredInvariant, <1>1, PTL

-----------------------------------------------------------------------------
(* What is in the queues.  First, what one more frame, or one fewer, does to
   the order of the output in a queue. *)

(* A frame that is no live chunk of s leaves the order of s alone. *)
LEMMA AppendContinues ==
    ASSUME NEW q \in Seq(ServerFrame), NEW f \in ServerFrame, NEW s \in Sessions,
           Continues(q, s), ~(f.sid = s /\ f.type = "output")
    PROVE  Continues(Append(q, f), s)
  <1>. DEFINE r == Append(q, f)
  <1>1. /\ DOMAIN r = 1 .. Len(q) + 1 /\ r[Len(q) + 1] = f
        /\ \A k \in 1 .. Len(q) : r[k] = q[k]
        /\ DOMAIN q = 1 .. Len(q) /\ Len(q) \in Nat
    OBVIOUS
  <1>. SUFFICES ASSUME NEW i \in DOMAIN r, NEW j \in DOMAIN r, i < j,
                       CarriesOutput(r[i], s), CarriesOutput(r[j], s),
                       NoneBetween(r, i, j, s), r[j].type = "output"
                PROVE  r[j].from = r[i].to + 1
    BY DEF Continues
  <1>2. j # Len(q) + 1
    BY <1>1 DEF CarriesOutput
  <1>3. i \in DOMAIN q /\ j \in DOMAIN q /\ r[i] = q[i] /\ r[j] = q[j]
    BY <1>1, <1>2
  <1>4. NoneBetween(q, i, j, s)
    BY <1>1, <1>3 DEF NoneBetween
  <1>. QED
    BY <1>3, <1>4 DEF Continues

(* The live chunk that comes next may follow a queue that is caught up. *)
LEMMA AppendNextChunk ==
    ASSUME NEW q \in Seq(ServerFrame), NEW f \in ServerFrame, NEW s \in Sessions, NEW n \in Nat,
           Continues(q, s), EndsAt(q, s, n), f.from = n + 1
    PROVE  Continues(Append(q, f), s)
  <1>. DEFINE r == Append(q, f)
  <1>1. /\ DOMAIN r = 1 .. Len(q) + 1 /\ r[Len(q) + 1] = f
        /\ \A k \in 1 .. Len(q) : r[k] = q[k]
        /\ DOMAIN q = 1 .. Len(q) /\ Len(q) \in Nat
    OBVIOUS
  <1>. SUFFICES ASSUME NEW i \in DOMAIN r, NEW j \in DOMAIN r, i < j,
                       CarriesOutput(r[i], s), CarriesOutput(r[j], s),
                       NoneBetween(r, i, j, s), r[j].type = "output"
                PROVE  r[j].from = r[i].to + 1
    BY DEF Continues
  <1>2. i \in DOMAIN q /\ r[i] = q[i]
    BY <1>1
  <1>3. NoneBetween(q, i, j, s)
    BY <1>1, <1>2 DEF NoneBetween
  <1>4. CASE j = Len(q) + 1
    BY <1>1, <1>2, <1>3, <1>4 DEF EndsAt
  <1>5. CASE j \in DOMAIN q
    BY <1>1, <1>2, <1>3, <1>5 DEF Continues
  <1>. QED
    BY <1>1, <1>4, <1>5

(* A frame without output of s does not move the end; one with output is it. *)
LEMMA AppendEnds ==
    ASSUME NEW q \in Seq(ServerFrame), NEW f \in ServerFrame, NEW s \in Sessions, NEW n \in Nat,
           \/ EndsAt(q, s, n) /\ ~CarriesOutput(f, s)
           \/ CarriesOutput(f, s) /\ f.to = n
    PROVE  EndsAt(Append(q, f), s, n)
  <1>. DEFINE r == Append(q, f)
  <1>1. /\ DOMAIN r = 1 .. Len(q) + 1 /\ Len(r) = Len(q) + 1 /\ r[Len(q) + 1] = f
        /\ \A k \in 1 .. Len(q) : r[k] = q[k]
        /\ DOMAIN q = 1 .. Len(q) /\ Len(q) \in Nat
    OBVIOUS
  <1>. SUFFICES ASSUME NEW i \in DOMAIN r, CarriesOutput(r[i], s),
                       NoneBetween(r, i, Len(r) + 1, s)
                PROVE  r[i].to = n
    BY DEF EndsAt
  <1>2. CASE i = Len(q) + 1
    BY <1>1, <1>2
  <1>3. CASE i \in DOMAIN q
    <2>1. ~CarriesOutput(f, s)
      BY <1>1, <1>3 DEF NoneBetween
    <2>2. NoneBetween(q, i, Len(q) + 1, s)
      BY <1>1, <1>3 DEF NoneBetween
    <2>. QED
      BY <1>1, <1>3, <2>1, <2>2 DEF EndsAt
  <1>. QED
    BY <1>1, <1>2, <1>3

(* Reading a frame keeps the order and the end. *)
LEMMA TailOrdered ==
    ASSUME NEW q \in Seq(ServerFrame), q # <<>>, NEW s \in Sessions, NEW n \in Nat
    PROVE  /\ Continues(q, s) => Continues(Tail(q), s)
           /\ EndsAt(q, s, n) => EndsAt(Tail(q), s, n)
  <1>. DEFINE r == Tail(q)
  <1>1. /\ DOMAIN r = 1 .. Len(q) - 1 /\ Len(r) = Len(q) - 1
        /\ \A k \in 1 .. Len(q) - 1 : r[k] = q[k + 1]
        /\ DOMAIN q = 1 .. Len(q) /\ Len(q) \in Nat
    OBVIOUS
  <1>2. ASSUME NEW i \in Int, NEW j \in Int, 0 < i, j <= Len(q), NoneBetween(r, i, j, s)
        PROVE  NoneBetween(q, i + 1, j + 1, s)
    <2>. SUFFICES ASSUME NEW k \in i + 2 .. j PROVE ~CarriesOutput(q[k], s)
      BY DEF NoneBetween
    <2>1. k - 1 \in i + 1 .. j - 1 /\ k - 1 \in 1 .. Len(q) - 1
      BY <1>1, <1>2
    <2>2. r[k - 1] = q[k]
      BY <1>1, <2>1
    <2>. QED
      BY <1>2, <2>1, <2>2 DEF NoneBetween
  <1>3. ASSUME Continues(q, s) PROVE Continues(r, s)
    <2>. SUFFICES ASSUME NEW i \in DOMAIN r, NEW j \in DOMAIN r, i < j,
                         CarriesOutput(r[i], s), CarriesOutput(r[j], s),
                         NoneBetween(r, i, j, s), r[j].type = "output"
                  PROVE  r[j].from = r[i].to + 1
      BY DEF Continues
    <2>1. NoneBetween(q, i + 1, j + 1, s)
      BY <1>1, <1>2
    <2>2. /\ i + 1 \in DOMAIN q /\ j + 1 \in DOMAIN q /\ i + 1 < j + 1
          /\ r[i] = q[i + 1] /\ r[j] = q[j + 1]
      BY <1>1
    <2>. QED
      BY <1>3, <2>1, <2>2 DEF Continues
  <1>4. ASSUME EndsAt(q, s, n) PROVE EndsAt(r, s, n)
    <2>. SUFFICES ASSUME NEW i \in DOMAIN r, CarriesOutput(r[i], s),
                         NoneBetween(r, i, Len(r) + 1, s)
                  PROVE  r[i].to = n
      BY DEF EndsAt
    <2>1. NoneBetween(q, i + 1, Len(q) + 1, s)
      BY <1>1, <1>2
    <2>. QED
      BY <1>1, <1>4, <2>1 DEF EndsAt
  <1>. QED
    BY <1>3, <1>4

(* From queue q to queue r nothing happened to the output in it. *)
Quietly(q, r) ==
    \A s \in Sessions :
        /\ Continues(q, s) => Continues(r, s)
        /\ \A n \in Nat : EndsAt(q, s, n) => EndsAt(r, s, n)

QuietFrame(f) == f \in ServerFrame /\ f.type \notin {"subscribed", "output"}

(* Appending a frame without output is quiet. *)
LEMMA QuietAppend ==
    ASSUME NEW q \in Seq(ServerFrame), NEW f, QuietFrame(f)
    PROVE  Quietly(q, Append(q, f))
  <1>1. f \in ServerFrame /\ \A s \in Sessions : ~CarriesOutput(f, s)
    BY DEF QuietFrame, CarriesOutput
  <1>2. \A s \in Sessions : ~(f.sid = s /\ f.type = "output")
    BY DEF QuietFrame
  <1>. QED
    BY <1>1, <1>2, AppendContinues, AppendEnds DEF Quietly

(* The frames without output. *)
LEMMA QuietFrames ==
    /\ \A t \in ServerFrameTypes \ {"subscribed", "output"},
          s \in Sessions \cup {NoSession}, id \in Nat : QuietFrame(Frame(t, s, id))
    /\ \A id \in Nat : \A L \in SUBSET Sessions : QuietFrame(SessionsFrame(id, L))
  BY FramesTyped DEF QuietFrame, Frame, SessionsFrame

(* Writing a quiet frame, to some connections or to one, is quiet for all. *)
LEMMA QuietWrites ==
    ASSUME TypeOK, NEW f, QuietFrame(f)
    PROVE  /\ \A d \in Conns : Quietly(toGw[d], Broadcast(toGw, f)[d])
           /\ \A s \in Sessions, d \in Conns : Quietly(toGw[d], FanOut(toGw, s, f)[d])
           /\ \A c, d \in Conns : SendTo(c, f) => Quietly(toGw[d], toGw'[d])
  <1>1. \A d \in Conns : toGw[d] \in Seq(ServerFrame) /\ Quietly(toGw[d], toGw[d])
    BY DEF TypeOK, IpcTypeOK, Quietly
  <1>2. \A d \in Conns : Quietly(toGw[d], Append(toGw[d], f))
    BY <1>1, QuietAppend
  <1>3. toGw \in [Conns -> Seq(ServerFrame)]
    BY DEF TypeOK, IpcTypeOK
  <1>. QED
    <2>1. ASSUME NEW c \in Conns, NEW d \in Conns, SendTo(c, f)
          PROVE  Quietly(toGw[d], toGw'[d])
      <3>1. f \in ServerFrame /\ toGw' = Sent(toGw, c, f)
        BY <2>1 DEF SendTo, QuietFrame
      <3>2. CASE d = c /\ Live(c)
        BY <1>2, <1>3, <3>1, <3>2, SentQueues
      <3>3. CASE d # c \/ ~Live(c)
        BY <1>1, <1>3, <3>1, <3>3, SentQueues
      <3>. QED
        BY <3>2, <3>3
    <2>. QED
      BY <1>1, <1>2, <1>3, <2>1 DEF Broadcast, FanOut

(* So is sending a quiet frame after whatever was quiet. *)
LEMMA QuietSent ==
    ASSUME toGw \in [Conns -> Seq(ServerFrame)],
           NEW q \in [Conns -> Seq(ServerFrame)], NEW c \in Conns, NEW f, QuietFrame(f),
           \A d \in Conns : Quietly(toGw[d], q[d])
    PROVE  /\ Sent(q, c, f) \in [Conns -> Seq(ServerFrame)]
           /\ \A d \in Conns : Quietly(toGw[d], Sent(q, c, f)[d])
  <1>1. f \in ServerFrame
    BY DEF QuietFrame
  <1>2. ASSUME NEW d \in Conns PROVE Quietly(toGw[d], Append(q[d], f))
    <2>1. Quietly(q[d], Append(q[d], f))
      BY QuietAppend
    <2>. QED
      BY <2>1 DEF Quietly
  <1>3. ASSUME NEW d \in Conns PROVE Quietly(toGw[d], Sent(q, c, f)[d])
    <2>1. CASE d = c /\ Live(c)
      BY <1>1, <1>2, <2>1, SentQueues
    <2>2. CASE d # c \/ ~Live(c)
      BY <1>1, <2>2, SentQueues
    <2>. QED
      BY <2>1, <2>2
  <1>. QED
    BY <1>1, <1>3, SentQueues

Ordered == Registered /\ SnapshotThenLive /\ CaughtUp

(* A step that is quiet on every queue and subscribes nobody keeps the order. *)
LEMMA QuietStep ==
    ASSUME Ordered,
           \A d \in Conns : Quietly(toGw[d], toGw'[d]),
           \A s \in Sessions : subscribers'[s] \subseteq subscribers[s],
           \A s \in Sessions : \A d \in subscribers[s] : conn'[d] = "open" => conn[d] = "open",
           UNCHANGED produced
    PROVE  SnapshotThenLive' /\ CaughtUp'
  <1>1. \A s \in Sessions : produced[s] \in Nat /\ subscribers[s] \subseteq Conns
    BY DEF Ordered, Registered, TypeOK, SupTypeOK
  <1>2. SnapshotThenLive'
    BY DEF Ordered, SnapshotThenLive, Quietly
  <1>3. CaughtUp'
    BY <1>1 DEF Ordered, CaughtUp, Quietly
  <1>. QED
    BY <1>2, <1>3

(* Output of s continues what every subscriber was written before. *)
LEMMA EmitOrdered ==
    ASSUME Ordered, NEW s \in Sessions, Emit(s), UNCHANGED <<conn, subscribers>>
    PROVE  SnapshotThenLive' /\ CaughtUp'
  <1>. DEFINE n == produced[s] + 1
              f == OutputFrame("output", s, 0, n, n)
  <1>1. /\ produced[s] \in Nat /\ n \in Nat /\ produced \in [Sessions -> Nat]
        /\ toGw \in [Conns -> Seq(ServerFrame)]
        /\ \A t \in Sessions : subscribers[t] \subseteq Conns /\ produced[t] \in Nat
    BY DEF Ordered, Registered, TypeOK, IpcTypeOK, SupTypeOK
  <1>2. f \in ServerFrame
    BY <1>1, FramesTyped DEF ServerFrameTypes
  <1>3. f.sid = s /\ f.type = "output" /\ f.from = n /\ f.to = n
    BY DEF OutputFrame
  <1>4. CarriesOutput(f, s) /\ \A t \in Sessions \ {s} : ~CarriesOutput(f, t)
    BY <1>3 DEF CarriesOutput
  <1>5. /\ toGw' = [d \in Conns |-> IF d \in subscribers[s] /\ Live(d)
                                      THEN Append(toGw[d], f) ELSE toGw[d]]
        /\ produced' = [produced EXCEPT ![s] = n]
    BY DEF Emit, FanOut
  <1>. HIDE DEF f, n
  <1>6. SnapshotThenLive'
    <2>. SUFFICES ASSUME NEW d \in Conns, NEW t \in Sessions PROVE Continues(toGw'[d], t)
      BY DEF SnapshotThenLive
    <2>1. Continues(toGw[d], t) /\ toGw[d] \in Seq(ServerFrame)
      BY <1>1 DEF Ordered, SnapshotThenLive
    <2>2. CASE ~(d \in subscribers[s] /\ Live(d))
      BY <1>5, <2>1, <2>2
    <2>3. CASE d \in subscribers[s] /\ Live(d) /\ t # s
      BY <1>2, <1>3, <1>5, <2>1, <2>3, AppendContinues
    <2>4. CASE d \in subscribers[s] /\ Live(d) /\ t = s
      <3>1. EndsAt(toGw[d], s, produced[s])
        BY <2>4 DEF Ordered, CaughtUp, Live
      <3>2. Continues(Append(toGw[d], f), s)
        BY <1>1, <1>2, <1>3, <2>1, <2>4, <3>1, AppendNextChunk DEF n
      <3>. QED
        BY <1>5, <2>4, <3>2
    <2>. QED
      BY <2>2, <2>3, <2>4
  <1>7. CaughtUp'
    <2>. SUFFICES ASSUME NEW t \in Sessions, NEW d \in subscribers[t], conn[d] = "open"
                  PROVE  EndsAt(toGw'[d], t, produced'[t])
      BY DEF CaughtUp
    <2>1. /\ d \in Conns /\ toGw[d] \in Seq(ServerFrame)
          /\ EndsAt(toGw[d], t, produced[t]) /\ produced[t] \in Nat
      BY <1>1 DEF Ordered, CaughtUp
    <2>2. CASE t = s
      <3>1. EndsAt(Append(toGw[d], f), s, n)
        BY <1>1, <1>2, <1>3, <1>4, <2>1, AppendEnds
      <3>. QED
        BY <1>1, <1>5, <2>1, <2>2, <3>1 DEF Live
    <2>3. CASE t # s
      <3>1. EndsAt(Append(toGw[d], f), t, produced[t])
        BY <1>2, <1>4, <2>1, <2>3, AppendEnds
      <3>. QED
        BY <1>1, <1>5, <2>1, <2>3, <3>1
    <2>. QED
      BY <2>2, <2>3
  <1>. QED
    BY <1>6, <1>7

(* `subscribed' puts its connection level with the session. *)
LEMMA SubscribeOrdered ==
    ASSUME Ordered, NEW c \in Conns, Subscribe(c)
    PROVE  SnapshotThenLive' /\ CaughtUp'
  <1>. DEFINE m == Head(toSup[c])
              f == OutputFrame("subscribed", m.sid, m.id, scrollback[m.sid], produced[m.sid])
  <1>1. TypeOK /\ toSup[c] # <<>> /\ m.sid \in Sessions /\ m.id \in Nat
    BY HeadTyped DEF Subscribe, Receive, Ordered, Registered
  <1>2. /\ produced[m.sid] \in Nat /\ scrollback[m.sid] \in Nat
        /\ toGw \in [Conns -> Seq(ServerFrame)]
        /\ subscribers \in [Sessions -> SUBSET Conns] /\ produced \in [Sessions -> Nat]
    BY <1>1 DEF TypeOK, IpcTypeOK, SupTypeOK
  <1>3. f \in ServerFrame
    BY <1>1, <1>2, FramesTyped DEF ServerFrameTypes
  <1>4. /\ CarriesOutput(f, m.sid) /\ f.to = produced[m.sid] /\ f.type = "subscribed"
        /\ \A t \in Sessions \ {m.sid} : ~CarriesOutput(f, t)
    BY DEF CarriesOutput, OutputFrame
  <1>5. CASE /\ toGw' = Sent(toGw, c, f)
             /\ subscribers' = [subscribers EXCEPT ![m.sid] = @ \cup {c}]
             /\ UNCHANGED <<conn, produced>>
    <2>. HIDE DEF f
    <2>0. \A d \in Conns : toGw'[d] = IF d = c /\ Live(c) THEN Append(toGw[d], f) ELSE toGw[d]
      BY <1>2, <1>3, <1>5 DEF Sent
    <2>1. ASSUME NEW d \in Conns, NEW t \in Sessions PROVE Continues(toGw'[d], t)
      <3>1. Continues(toGw[d], t) /\ toGw[d] \in Seq(ServerFrame)
        BY <1>2 DEF Ordered, SnapshotThenLive
      <3>2. Continues(Append(toGw[d], f), t)
        BY <1>3, <1>4, <3>1, AppendContinues
      <3>. QED
        BY <2>0, <3>1, <3>2
    <2>2. ASSUME NEW t \in Sessions, NEW d \in subscribers'[t], conn[d] = "open"
          PROVE  EndsAt(toGw'[d], t, produced[t])
      <3>1. d \in Conns /\ toGw[d] \in Seq(ServerFrame) /\ produced[t] \in Nat
        BY <1>1, <1>2, <1>5, <2>2
      <3>2. CASE d = c /\ t = m.sid
        <4>1. EndsAt(Append(toGw[d], f), t, produced[t])
          BY <1>3, <1>4, <3>1, <3>2, AppendEnds
        <4>. QED
          BY <2>0, <2>2, <3>1, <3>2, <4>1 DEF Live
      <3>3. CASE ~(d = c /\ t = m.sid)
        <4>1. d \in subscribers[t]
          BY <1>1, <1>2, <1>5, <2>2, <3>3
        <4>2. EndsAt(toGw[d], t, produced[t])
          BY <2>2, <4>1 DEF Ordered, CaughtUp
        <4>3. CASE d # c
          BY <2>0, <3>1, <4>2, <4>3
        <4>4. CASE d = c /\ t # m.sid
          <5>1. EndsAt(Append(toGw[d], f), t, produced[t])
            BY <1>3, <1>4, <3>1, <4>2, <4>4, AppendEnds
          <5>. QED
            BY <2>0, <3>1, <4>2, <4>4, <5>1
        <4>. QED
          BY <3>3, <4>3, <4>4
      <3>. QED
        BY <3>2, <3>3
    <2>. QED
      BY <1>5, <2>1, <2>2 DEF SnapshotThenLive, CaughtUp
  <1>6. CASE SendTo(c, Reply(c, "error")) /\ UNCHANGED <<conn, produced, subscribers>>
    <2>1. QuietFrame(Reply(c, "error"))
      BY <1>1, QuietFrames DEF Reply, ServerFrameTypes
    <2>2. \A d \in Conns : Quietly(toGw[d], toGw'[d])
      BY <1>1, <1>6, <2>1, QuietWrites
    <2>. QED
      BY <1>6, <2>2, QuietStep
  <1>. QED
    BY <1>5, <1>6 DEF Subscribe, SendTo

(* Every step keeps the order: Emit and Subscribe are the two that write
   output, the rest is quiet. *)
LEMMA OrderedStep == Ordered /\ [Next]_vars => SnapshotThenLive' /\ CaughtUp'
  <1>. SUFFICES ASSUME Ordered, [Next]_vars PROVE SnapshotThenLive' /\ CaughtUp'
    OBVIOUS
  <1>. DEFINE Kept == UNCHANGED <<conn, subscribers, produced>>
  <1>1. /\ TypeOK /\ NoStaleSubscriber
        /\ toGw \in [Conns -> Seq(ServerFrame)]
        /\ subscribers \in [Sessions -> SUBSET Conns]
        /\ \A d \in Conns : Quietly(toGw[d], toGw[d])
    BY DEF Ordered, Registered, TypeOK, IpcTypeOK, SupTypeOK, Quietly
  <1>2. ASSUME Kept, UNCHANGED toGw PROVE SnapshotThenLive' /\ CaughtUp'
    BY <1>1, <1>2, QuietStep
  <1>3. ASSUME Kept, NEW c \in Conns, NEW f, QuietFrame(f), SendTo(c, f)
        PROVE  SnapshotThenLive' /\ CaughtUp'
    BY <1>1, <1>3, QuietWrites, QuietStep
  <1>4. ASSUME NEW s \in Sessions, NEW q, EmitExit(s, q), Kept
        PROVE  SnapshotThenLive' /\ CaughtUp'
    <2>1. QuietFrame(Frame("exit", s, 0))
      BY QuietFrames DEF ServerFrameTypes
    <2>. QED
      BY <1>1, <1>4, <2>1, QuietWrites, QuietStep DEF EmitExit
  <1>5. ASSUME NEW c \in Conns, NEW t, Receive(c, t)
        PROVE  \A u \in ServerFrameTypes \ {"subscribed", "output"} : QuietFrame(Reply(c, u))
    BY <1>1, <1>5, HeadTyped, QuietFrames DEF Reply, Receive
  <1>6. ASSUME NEW s \in Sessions, NEW i \in Incs,
               Data(s, i) \/ PtyExit(s, i) \/ SshReady(s, i) \/ SshFatal(s, i) \/ SshStreamClose(s, i)
        PROVE  SnapshotThenLive' /\ CaughtUp'
    <2>1. CASE Data(s, i) \/ SshFatal(s, i)
      BY <2>1, EmitOrdered DEF Data, SshFatal
    <2>2. CASE PtyExit(s, i) \/ SshStreamClose(s, i)
      BY <1>4, <2>2 DEF PtyExit, SshStreamClose
    <2>3. CASE SshReady(s, i)
      BY <1>2, <2>3 DEF SshReady, ipcVars
    <2>. QED
      BY <1>6, <2>1, <2>2, <2>3
  <1>7. CASE RunImmediate
    <2>1. Head(immediates).sid \in Sessions
      <3>1. immediates \in Seq(Immediate) /\ immediates # <<>>
        BY <1>1, <1>7 DEF RunImmediate, TypeOK, SupTypeOK
      <3>2. Head(immediates) \in Immediate
        BY <3>1
      <3>. QED
        BY <3>2 DEF Immediate
    <2>2. ASSUME RunExit(Head(immediates).sid) PROVE SnapshotThenLive' /\ CaughtUp'
      BY <1>4, <1>7, <2>1, <2>2 DEF RunImmediate, RunExit, connVars
    <2>3. ASSUME RunRemoved(Head(immediates).sid) PROVE SnapshotThenLive' /\ CaughtUp'
      <3>. DEFINE s == Head(immediates).sid
      <3>1. QuietFrame(Frame("removed", s, 0))
        BY <2>1, QuietFrames DEF ServerFrameTypes
      <3>2. \A d \in Conns : Quietly(toGw[d], toGw'[d])
        BY <1>1, <2>3, <3>1, QuietWrites DEF RunRemoved
      <3>3. \A t \in Sessions : subscribers'[t] \subseteq subscribers[t]
        BY <1>1, <2>1, <2>3 DEF RunRemoved
      <3>4. UNCHANGED <<conn, produced>>
        BY <1>7 DEF RunImmediate, connVars
      <3>. QED
        BY <3>2, <3>3, <3>4, QuietStep
    <2>. QED
      BY <1>7, <2>2, <2>3 DEF RunImmediate
  <1>8. ASSUME NEW c \in Conns, Hello(c) PROVE SnapshotThenLive' /\ CaughtUp'
    <2>. DEFINE f == Frame("hello", NoSession, 0)
                g == SessionsFrame(Head(toSup[c]).id, Listed)
    <2>1. Kept /\ Receive(c, "hello")
      BY <1>8 DEF Hello
    <2>2. Head(toSup[c]).id \in Nat
      BY <1>1, <2>1, HeadTyped DEF Receive
    <2>3. QuietFrame(f) /\ QuietFrame(g) /\ QuietFrame(Frame("error", NoSession, Head(toSup[c]).id))
      BY <2>2, QuietFrames DEF ServerFrameTypes, Listed
    <2>4. CASE toGw' = Sent(Sent(toGw, c, f), c, g)
      <3>. HIDE DEF f, g
      <3>1. /\ Sent(toGw, c, f) \in [Conns -> Seq(ServerFrame)]
            /\ \A d \in Conns : Quietly(toGw[d], Sent(toGw, c, f)[d])
        <4>1. /\ toGw \in [Conns -> Seq(ServerFrame)]
              /\ \A d \in Conns : Quietly(toGw[d], toGw[d])
          BY <1>1
        <4>2. QuietFrame(f)
          BY <2>3
        <4>. QED
          BY <4>1, <4>2, QuietSent
      <3>2. \A d \in Conns : Quietly(toGw[d], toGw'[d])
        BY <1>1, <2>3, <2>4, <3>1, QuietSent
      <3>. QED
        BY <2>1, <3>2, QuietStep
    <2>5. CASE SendTo(c, Frame("error", NoSession, Head(toSup[c]).id))
      BY <1>3, <2>1, <2>3, <2>5
    <2>. QED
      BY <1>8, <2>4, <2>5 DEF Hello
  <1>9. ASSUME NEW c \in Conns, Unauthorized(c) \/ Forward(c) \/ Resize(c)
        PROVE  SnapshotThenLive' /\ CaughtUp'
    <2>1. /\ Kept /\ \E t : Receive(c, t)
          /\ SendTo(c, Reply(c, "error")) \/ UNCHANGED toGw
      BY Zenon, <1>9 DEF Unauthorized, Forward, Resize, supVars, connVars
    <2>2. CASE UNCHANGED toGw
      BY <1>2, <2>1, <2>2
    <2>3. CASE SendTo(c, Reply(c, "error"))
      BY <1>3, <1>5, <2>1, <2>3 DEF ServerFrameTypes
    <2>. QED
      BY <2>1, <2>2, <2>3
  <1>10. ASSUME NEW c \in Conns, List(c) PROVE SnapshotThenLive' /\ CaughtUp'
    <2>1. QuietFrame(SessionsFrame(Head(toSup[c]).id, Listed))
      BY <1>1, <1>10, HeadTyped, QuietFrames DEF List, Receive, Listed
    <2>. QED
      BY <1>3, <1>10, <2>1 DEF List, supVars
  <1>11. ASSUME NEW c \in Conns, Create(c) \/ CreateSsh(c) PROVE SnapshotThenLive' /\ CaughtUp'
    <2>. DEFINE m == Head(toSup[c])
    <2>1. Kept /\ (Receive(c, "create") \/ Receive(c, "create_ssh"))
      BY <1>11 DEF Create, CreateSsh, connVars
    <2>2. CASE SendTo(c, Reply(c, "error"))
      BY <1>3, <1>5, <2>1, <2>2 DEF ServerFrameTypes
    <2>3. CASE \E p : Start(c, m, p)
      <3>. DEFINE b == Broadcast(toGw, Frame("created", m.sid, 0))
                  g == Frame("created", m.sid, m.id)
      <3>1. m.sid \in Sessions /\ m.id \in Nat
        BY <1>1, <2>1, HeadTyped DEF Receive
      <3>2. QuietFrame(Frame("created", m.sid, 0)) /\ QuietFrame(g)
        BY <3>1, QuietFrames DEF ServerFrameTypes
      <3>3. b \in [Conns -> Seq(ServerFrame)] /\ \A d \in Conns : Quietly(toGw[d], b[d])
        BY <1>1, <3>2, WritesTyped, QuietWrites DEF QuietFrame
      <3>4. toGw' = Sent(b, c, g)
        BY <2>3 DEF Start
      <3>. HIDE DEF b, g
      <3>5. \A d \in Conns : Quietly(toGw[d], toGw'[d])
        BY <1>1, <3>2, <3>3, <3>4, QuietSent
      <3>. QED
        BY <2>1, <3>5, QuietStep
    <2>. QED
      BY <1>11, <2>2, <2>3 DEF Create, CreateSsh
  <1>12. ASSUME NEW c \in Conns, Unsubscribe(c) PROVE SnapshotThenLive' /\ CaughtUp'
    <2>1. QuietFrame(Reply(c, "unsubscribed"))
      BY <1>5, <1>12 DEF Unsubscribe, ServerFrameTypes
    <2>2. \A d \in Conns : Quietly(toGw[d], toGw'[d])
      BY <1>1, <1>12, <2>1, QuietWrites DEF Unsubscribe
    <2>3. \A s \in Sessions : subscribers'[s] \subseteq subscribers[s]
      BY <1>1, <1>12 DEF Unsubscribe
    <2>. QED
      BY <1>12, <2>2, <2>3, QuietStep DEF Unsubscribe
  <1>13. ASSUME NEW c \in Conns, Accept(c) \/ Destroy(c) \/ Close(c)
         PROVE  SnapshotThenLive' /\ CaughtUp'
    <2>1. UNCHANGED <<toGw, produced>>
      BY <1>13 DEF Accept, Destroy, Close, ipcVars
    <2>2. \A s \in Sessions : subscribers'[s] \subseteq subscribers[s]
      BY <1>1, <1>13 DEF Accept, Destroy, Close
    <2>3. \A s \in Sessions : \A d \in subscribers[s] : conn[d] \in {"open", "destroyed"}
      BY <1>1 DEF NoStaleSubscriber
    <2>4. \A s \in Sessions : \A d \in subscribers[s] : conn'[d] = "open" => conn[d] = "open"
      <3>1. conn \in [Conns -> {"none", "open", "destroyed", "closed"}]
        BY <1>1 DEF TypeOK, SupTypeOK
      <3>2. CASE Accept(c)
        BY <2>3, <3>1, <3>2 DEF Accept
      <3>3. CASE Destroy(c)
        BY <3>1, <3>3 DEF Destroy
      <3>4. CASE Close(c)
        BY <3>1, <3>4 DEF Close
      <3>. QED
        BY <1>13, <3>2, <3>3, <3>4
    <2>. QED
      BY <1>1, <2>1, <2>2, <2>4, QuietStep
  <1>14. ASSUME NEW c \in Conns, GatewayWrite(c) PROVE SnapshotThenLive' /\ CaughtUp'
    BY <1>2, <1>14 DEF GatewayWrite, supVars
  <1>15. ASSUME NEW c \in Conns, GatewayRead(c) PROVE SnapshotThenLive' /\ CaughtUp'
    <2>1. Quietly(toGw[c], Tail(toGw[c]))
      BY <1>1, <1>15, TailOrdered DEF GatewayRead, Quietly
    <2>2. \A d \in Conns : Quietly(toGw[d], toGw'[d])
      BY <1>1, <1>15, <2>1 DEF GatewayRead
    <2>. QED
      BY <1>15, <2>2, QuietStep DEF GatewayRead, supVars
  <1>16. CASE UNCHANGED vars
    BY <1>2, <1>16 DEF vars, ipcVars, supVars
  <1>. QED
    BY <1>6, <1>7, <1>8, <1>9, <1>10, <1>11, <1>12, <1>13, <1>14, <1>15, <1>16,
       SubscribeOrdered DEF Next, SupervisorNext, HandleMessage

(* The order of output is inductive together with who is registered and with
   what each subscriber has been written. *)
LEMMA OrderedInvariant == Spec => []Ordered
  <1>1. Init => Ordered
    BY RegisteredInit
       DEF Init, IpcInit, SupInit, Ordered, SnapshotThenLive, CaughtUp, Continues, EndsAt
  <1>2. Ordered /\ [Next]_vars => Ordered'
    BY OrderedStep, RegisteredStep, TypeStep DEF Ordered, Registered
  <1>. QED
    BY <1>1, <1>2, PTL DEF Spec

(* "Atomic snapshot + subscribed + live": whatever requests, exits, removals
   and closings are interleaved, each live chunk on a connection continues
   the chunk or the snapshot before it. *)
THEOREM SnapshotThenLiveOrder == Spec => []SnapshotThenLive
  <1>1. Ordered => SnapshotThenLive
    BY DEF Ordered
  <1>. QED
    BY OrderedInvariant, <1>1, PTL

(* An open subscriber has been written all output up to the last chunk. *)
THEOREM SubscribersCaughtUp == Spec => []CaughtUp
  <1>1. Ordered => CaughtUp
    BY DEF Ordered
  <1>. QED
    BY OrderedInvariant, <1>1, PTL

-----------------------------------------------------------------------------
(* The hello gate. *)

Silent(q) == \A i \in DOMAIN q : q[i].type = "error"

(* Errors may be appended to a silent queue, and any frame read from it. *)
LEMMA SilentQueues ==
    ASSUME NEW q \in Seq(ServerFrame), Silent(q)
    PROVE  /\ \A f \in ServerFrame : f.type = "error" => Silent(Append(q, f))
           /\ q # <<>> => Silent(Tail(q))
  <1>1. ASSUME NEW f \in ServerFrame, f.type = "error" PROVE Silent(Append(q, f))
    BY <1>1 DEF Silent
  <1>2. ASSUME q # <<>> PROVE Silent(Tail(q))
    <2>1. /\ DOMAIN Tail(q) = 1 .. Len(q) - 1
          /\ \A i \in 1 .. Len(q) - 1 : Tail(q)[i] = q[i + 1]
          /\ DOMAIN q = 1 .. Len(q) /\ Len(q) \in Nat
      BY <1>2
    <2>. QED
      BY <2>1 DEF Silent
  <1>. QED
    BY <1>1, <1>2

Gated == Registered /\ SilentUntilHello

(* An error is the only thing any step writes to a connection that has not
   said hello: broadcasts go to the authenticated, output and exits to
   subscribers, who are. *)
LEMMA GatedStep == Gated /\ [Next]_vars => SilentUntilHello'
  <1>. SUFFICES ASSUME Gated, [Next]_vars, NEW d \in Conns, d \notin authenticated'
                PROVE  Silent(toGw'[d])
    BY DEF SilentUntilHello, Silent
  <1>1. /\ TypeOK /\ NoStaleSubscriber
        /\ toGw \in [Conns -> Seq(ServerFrame)]
        /\ subscribers \in [Sessions -> SUBSET Conns]
    BY DEF Gated, Registered, TypeOK, IpcTypeOK, SupTypeOK
  <1>2. d \notin authenticated
    <2> DEFINE U == authenticated \subseteq authenticated'
    <2>1. ASSUME NEW s \in Sessions, NEW i \in Incs,
                 Data(s, i) \/ PtyExit(s, i) \/ SshReady(s, i) \/ SshFatal(s, i) \/ SshStreamClose(s, i)
          PROVE  U
      BY <2>1 DEF Data, PtyExit, SshReady, SshFatal, SshStreamClose, supVars, connVars
    <2>2. ASSUME RunImmediate \/ UNCHANGED vars PROVE U
      BY <2>2 DEF RunImmediate, supVars, connVars, vars
    <2>3. ASSUME NEW c \in Conns, Hello(c) \/ Unauthorized(c)
          PROVE  U
      BY <2>3 DEF Hello, Unauthorized, supVars, connVars
    <2>4. ASSUME NEW c \in Conns, \/ List(c) \/ Create(c) \/ CreateSsh(c) \/ Subscribe(c)
                                  \/ Unsubscribe(c) \/ Forward(c) \/ Resize(c)
          PROVE  U
      BY Zenon, <2>4 DEF List, Create, CreateSsh, Subscribe, Unsubscribe, Forward, Resize, supVars, connVars
    <2>5. ASSUME NEW c \in Conns, Accept(c) \/ Destroy(c) \/ Close(c) \/ GatewayWrite(c) \/ GatewayRead(c)
          PROVE  U
      BY <2>5 DEF Accept, Destroy, Close, GatewayWrite, GatewayRead, supVars, connVars
    <2> HIDE DEF U
    <2>6. ASSUME NEW c \in Conns, HandleMessage(c) PROVE U
      BY <2>3, <2>4, <2>6 DEF HandleMessage
    <2>7. U
      BY <2>1, <2>2, <2>5, <2>6 DEF Next, SupervisorNext
    <2>. QED
      BY <2>7 DEF U
  <1>3. Silent(toGw[d]) /\ toGw[d] \in Seq(ServerFrame)
    BY <1>1, <1>2 DEF Gated, SilentUntilHello, Silent
  <1>4. \A s \in Sessions : \A f : FanOut(toGw, s, f)[d] = toGw[d]
    BY <1>1, <1>2 DEF FanOut, NoStaleSubscriber
  <1>5. \A f : Broadcast(toGw, f)[d] = toGw[d]
    BY <1>2 DEF Broadcast
  <1>6. ASSUME NEW c \in Conns, NEW f,
               SendTo(c, f), c \in authenticated \/ (f \in ServerFrame /\ f.type = "error")
        PROVE  Silent(toGw'[d])
    <2>1. CASE c = d
      <3>1. Silent(Append(toGw[d], f)) /\ f \in ServerFrame /\ toGw' = Sent(toGw, c, f)
        BY <1>2, <1>3, <1>6, <2>1, SilentQueues DEF SendTo
      <3>2. CASE Live(c)
        BY <1>1, <2>1, <3>1, <3>2, SentQueues
      <3>3. CASE ~Live(c)
        BY <1>1, <1>3, <2>1, <3>1, <3>3, SentQueues
      <3>. QED
        BY <3>2, <3>3
    <2>2. CASE c # d
      BY <1>1, <1>3, <1>6, <2>2 DEF SendTo, Sent
    <2>. QED
      BY <2>1, <2>2
  <1>7. ASSUME UNCHANGED toGw PROVE Silent(toGw'[d])
    BY <1>3, <1>7
  <1>8. ASSUME NEW s \in Sessions, NEW i \in Incs,
               Data(s, i) \/ PtyExit(s, i) \/ SshReady(s, i) \/ SshFatal(s, i) \/ SshStreamClose(s, i)
        PROVE  Silent(toGw'[d])
    BY <1>3, <1>4, <1>8
       DEF Data, PtyExit, SshReady, SshFatal, SshStreamClose, Emit, EmitExit, ipcVars
  <1>9. CASE RunImmediate
    <2>1. Head(immediates).sid \in Sessions
      <3>1. immediates \in Seq(Immediate) /\ immediates # <<>>
        BY <1>1, <1>9 DEF RunImmediate, TypeOK, SupTypeOK
      <3>2. Head(immediates) \in Immediate
        BY <3>1
      <3>. QED
        BY <3>2 DEF Immediate
    <2>. QED
      BY <1>3, <1>4, <1>5, <1>9, <2>1 DEF RunImmediate, RunExit, RunRemoved, EmitExit
  <1>10. ASSUME NEW c \in Conns, Hello(c) PROVE Silent(toGw'[d])
    <2>. DEFINE e == Frame("error", NoSession, Head(toSup[c]).id)
    <2>1. Head(toSup[c]).id \in Nat
      BY <1>1, <1>10, HeadTyped DEF Hello, Receive
    <2>2. e \in ServerFrame /\ e.type = "error"
      BY <2>1, FramesTyped DEF ServerFrameTypes, Frame
    <2>3. CASE c # d
      BY <1>1, <1>3, <1>10, <2>3 DEF Hello, SendTo, Sent
    <2>4. CASE c = d
      BY <1>6, <1>10, <2>2, <2>4 DEF Hello
    <2>. QED
      BY <2>3, <2>4
  <1>11. ASSUME NEW c \in Conns, Unauthorized(c) PROVE Silent(toGw'[d])
    <2>1. Reply(c, "error") \in ServerFrame /\ Reply(c, "error").type = "error"
      BY <1>1, <1>11, ReplyTyped DEF Unauthorized, Receive, Reply, Frame, ServerFrameTypes
    <2>. QED
      BY <1>6, <1>11, <2>1 DEF Unauthorized
  <1>12. ASSUME NEW c \in Conns, Create(c) \/ CreateSsh(c) PROVE Silent(toGw'[d])
    <2>1. CASE SendTo(c, Reply(c, "error"))
      BY <1>6, <1>12, <2>1 DEF Create, CreateSsh
    <2>2. CASE \E p : Start(c, Head(toSup[c]), p)
      <3>1. c # d
        BY <1>2, <1>12 DEF Create, CreateSsh
      <3>. QED
        BY <1>3, <1>5, <2>2, <3>1 DEF Start, Sent
    <2>. QED
      BY <1>12, <2>1, <2>2 DEF Create, CreateSsh
  <1>13. ASSUME NEW c \in Conns,
                List(c) \/ Subscribe(c) \/ Unsubscribe(c) \/ Forward(c) \/ Resize(c)
         PROVE  Silent(toGw'[d])
    BY Zenon, <1>6, <1>7, <1>13 DEF List, Subscribe, Unsubscribe, Forward, Resize
  <1>14. ASSUME NEW c \in Conns, GatewayRead(c) PROVE Silent(toGw'[d])
    BY <1>1, <1>3, <1>14, SilentQueues DEF GatewayRead
  <1>15. ASSUME NEW c \in Conns, Accept(c) \/ Destroy(c) \/ Close(c) \/ GatewayWrite(c)
         PROVE  Silent(toGw'[d])
    BY <1>7, <1>15 DEF Accept, Destroy, Close, GatewayWrite, ipcVars
  <1>16. CASE UNCHANGED vars
    BY <1>7, <1>16 DEF vars, ipcVars
  <1>. QED
    BY <1>8, <1>9, <1>10, <1>11, <1>12, <1>13, <1>14, <1>15, <1>16
       DEF Next, SupervisorNext, HandleMessage

(* A gateway that has not sent a good hello is told nothing but errors. *)
THEOREM HelloGate == Spec => []SilentUntilHello
  <1>1. Init => Gated
    BY RegisteredInit DEF Init, IpcInit, Gated, SilentUntilHello
  <1>2. Gated /\ [Next]_vars => Gated'
    BY GatedStep, RegisteredStep, TypeStep DEF Gated, Registered
  <1>3. Gated => SilentUntilHello
    BY DEF Gated
  <1>. QED
    BY <1>1, <1>2, <1>3, PTL DEF Spec

-----------------------------------------------------------------------------
(* The length of snapshots. *)

Cap == LargerOf(ScrollbackCap, 1)

(* A ring that exists starts at a chunk and holds at most Cap of them. *)
RingFits(s) == scrollback[s] # 0 => produced[s] - scrollback[s] + 1 <= Cap

RingsFit == \A s \in Sessions : RingFits(s)

Short(f) == f.type = "subscribed" => f.from >= 1 /\ f.to - f.from + 1 <= Cap

AllShort(q) == \A i \in DOMAIN q : Short(q[i])

(* Short frames may be appended to a queue of such, and any read from it. *)
LEMMA ShortQueues ==
    ASSUME NEW q \in Seq(ServerFrame), AllShort(q)
    PROVE  /\ \A f \in ServerFrame : Short(f) => AllShort(Append(q, f))
           /\ q # <<>> => AllShort(Tail(q))
  <1>. USE DEF AllShort
  <1>1. ASSUME NEW f \in ServerFrame, Short(f) PROVE AllShort(Append(q, f))
    <2>1. \A i \in DOMAIN Append(q, f) :
            (i \in DOMAIN q /\ Append(q, f)[i] = q[i]) \/ Append(q, f)[i] = f
      OBVIOUS
    <2>. QED
      BY <1>1, <2>1
  <1>2. ASSUME q # <<>> PROVE AllShort(Tail(q))
    <2>1. /\ DOMAIN Tail(q) = 1 .. Len(q) - 1
          /\ \A i \in 1 .. Len(q) - 1 : Tail(q)[i] = q[i + 1]
          /\ DOMAIN q = 1 .. Len(q) /\ Len(q) \in Nat
      BY <1>2
    <2>. QED
      BY <2>1
  <1>. QED
    BY <1>1, <1>2

Fitting == Registered /\ RingsFit /\ SnapshotBounded

(* Appending to a ring trims it, and a new ring is empty. *)
LEMMA RingsStep == Fitting /\ [Next]_vars => RingsFit'
  <1>. SUFFICES ASSUME Fitting, [Next]_vars, NEW s \in Sessions
                PROVE  RingFits(s)'
    BY DEF RingsFit
  <1>1. /\ scrollback \in [Sessions -> Nat] /\ produced \in [Sessions -> Nat]
        /\ ScrollbackCap \in Nat
        /\ RingFits(s) /\ TypeOK /\ RingIffListed
    BY SupervisorAssumption DEF Fitting, Registered, RingsFit, TypeOK, SupTypeOK
  <1>2. ASSUME UNCHANGED <<scrollback, produced>> PROVE RingFits(s)'
    BY <1>1, <1>2 DEF RingFits, Cap
  <1>3. ASSUME NEW t \in Sessions, Emit(t) PROVE RingFits(s)'
    <2>1. CASE t = s
      BY <1>1, <1>3, <2>1 DEF Emit, RingFits, Trimmed, Cap
    <2>2. CASE t # s
      BY <1>1, <1>3, <2>2 DEF Emit, RingFits, Cap
    <2>. QED
      BY <2>1, <2>2
  <1>4. ASSUME NEW t \in Sessions, NEW i \in Incs,
               Data(t, i) \/ PtyExit(t, i) \/ SshReady(t, i) \/ SshFatal(t, i) \/ SshStreamClose(t, i)
        PROVE  RingFits(s)'
    BY <1>2, <1>3, <1>4 DEF Data, PtyExit, SshReady, SshFatal, SshStreamClose
  <1>5. CASE RunImmediate
    BY <1>1, <1>2, <1>5 DEF RunImmediate, RunExit, RunRemoved, RingFits, Cap
  <1>6. ASSUME NEW c \in Conns, Create(c) \/ CreateSsh(c) PROVE RingFits(s)'
    <2>. DEFINE m == Head(toSup[c])
    <2>1. CASE UNCHANGED scrollback
      BY <1>2, <1>6, <2>1 DEF Create, CreateSsh
    <2>2. CASE CanStart(m) /\ \E p : Start(c, m, p)
      <3>1. m.sid \in Sessions
        BY Zenon, <1>1, <1>6, HeadTyped DEF Create, CreateSsh, Receive
      <3>2. scrollback[m.sid] = 0
        BY <1>1, <2>2, <3>1 DEF CanStart, RingIffListed
      <3>3. scrollback' = [scrollback EXCEPT ![m.sid] = produced[m.sid] + 1]
        BY <2>2, <3>2 DEF Start
      <3>4. produced' = produced
        BY <1>6 DEF Create, CreateSsh
      <3>. QED
        BY <1>1, <3>1, <3>3, <3>4 DEF RingFits, Cap
    <2>. QED
      BY <1>6, <2>1, <2>2 DEF Create, CreateSsh
  <1>7. ASSUME NEW c \in Conns,
               Hello(c) \/ Unauthorized(c) \/ List(c) \/ Subscribe(c) \/ Unsubscribe(c)
                 \/ Forward(c) \/ Resize(c) \/ Accept(c) \/ Destroy(c) \/ Close(c)
                 \/ GatewayWrite(c) \/ GatewayRead(c)
        PROVE  RingFits(s)'
    BY Zenon, <1>2, <1>7 DEF Hello, Unauthorized, List, Subscribe, Unsubscribe, Forward, Resize,
                      Accept, Destroy, Close, GatewayWrite, GatewayRead, supVars
  <1>8. CASE UNCHANGED vars
    BY <1>2, <1>8 DEF vars, supVars
  <1>. QED
    BY <1>4, <1>5, <1>6, <1>7, <1>8 DEF Next, SupervisorNext, HandleMessage

(* A `subscribed' frame is written by Subscribe alone, from a ring that
   exists and so fits; every other frame is of another type. *)
LEMMA SnapshotStep == Fitting /\ [Next]_vars => SnapshotBounded'
  <1>. SUFFICES ASSUME Fitting, [Next]_vars, NEW d \in Conns
                PROVE  AllShort(toGw'[d])
    BY DEF SnapshotBounded, AllShort, Short, Cap
  <1>1. /\ TypeOK /\ RingIffListed
        /\ toGw \in [Conns -> Seq(ServerFrame)]
        /\ scrollback \in [Sessions -> Nat] /\ produced \in [Sessions -> Nat]
    BY DEF Fitting, Registered, TypeOK, IpcTypeOK, SupTypeOK
  <1>2. AllShort(toGw[d]) /\ toGw[d] \in Seq(ServerFrame)
    BY <1>1 DEF Fitting, SnapshotBounded, AllShort, Short, Cap
  <1>3. ASSUME NEW f \in ServerFrame, Short(f)
        PROVE  AllShort(Append(toGw[d], f))
    BY <1>2, <1>3, ShortQueues
  <1>4. ASSUME NEW s \in Sessions, NEW f \in ServerFrame, Short(f)
        PROVE  AllShort(FanOut(toGw, s, f)[d]) /\ AllShort(Broadcast(toGw, f)[d])
    BY <1>2, <1>3, <1>4 DEF FanOut, Broadcast
  <1>5. ASSUME NEW c \in Conns, NEW f \in ServerFrame, Short(f), SendTo(c, f)
        PROVE  AllShort(toGw'[d])
    BY <1>1, <1>2, <1>3, <1>5 DEF SendTo, Sent
  <1>6. ASSUME UNCHANGED toGw PROVE AllShort(toGw'[d])
    BY <1>2, <1>6
  <1>7. ASSUME NEW s \in Sessions
        PROVE  /\ \A t \in ServerFrameTypes \ {"subscribed"}, id \in Nat :
                    Frame(t, s, id) \in ServerFrame /\ Short(Frame(t, s, id))
               /\ Emit(s) => AllShort(toGw'[d])
               /\ \A q : EmitExit(s, q) => AllShort(toGw'[d])
    <2>1. \A t \in ServerFrameTypes \ {"subscribed"}, id \in Nat :
            Frame(t, s, id) \in ServerFrame /\ Short(Frame(t, s, id))
      BY FramesTyped DEF Short, Frame
    <2>2. ASSUME Emit(s) PROVE AllShort(toGw'[d])
      <3>. DEFINE n == produced[s] + 1
      <3>1. OutputFrame("output", s, 0, n, n) \in ServerFrame
        BY <1>1, FramesTyped DEF ServerFrameTypes
      <3>2. Short(OutputFrame("output", s, 0, n, n))
        BY DEF Short, OutputFrame
      <3>. QED
        BY <1>4, <2>2, <3>1, <3>2 DEF Emit
    <2>3. ASSUME NEW q, EmitExit(s, q) PROVE AllShort(toGw'[d])
      BY <1>4, <2>1, <2>3 DEF EmitExit, ServerFrameTypes
    <2>. QED
      BY <2>1, <2>2, <2>3
  <1>8. ASSUME NEW s \in Sessions, NEW i \in Incs,
               Data(s, i) \/ PtyExit(s, i) \/ SshReady(s, i) \/ SshFatal(s, i) \/ SshStreamClose(s, i)
        PROVE  AllShort(toGw'[d])
    BY <1>6, <1>7, <1>8 DEF Data, PtyExit, SshReady, SshFatal, SshStreamClose, ipcVars
  <1>9. CASE RunImmediate
    <2>1. Head(immediates).sid \in Sessions
      <3>1. immediates \in Seq(Immediate) /\ immediates # <<>>
        BY <1>1, <1>9 DEF RunImmediate, TypeOK, SupTypeOK
      <3>2. Head(immediates) \in Immediate
        BY <3>1
      <3>. QED
        BY <3>2 DEF Immediate
    <2>2. CASE RunExit(Head(immediates).sid)
      BY <1>7, <2>1, <2>2 DEF RunExit
    <2>3. CASE RunRemoved(Head(immediates).sid)
      BY <1>4, <1>7, <2>1, <2>3 DEF RunRemoved, ServerFrameTypes
    <2>. QED
      BY <1>9, <2>2, <2>3 DEF RunImmediate
  <1>10. ASSUME NEW c \in Conns, Hello(c) PROVE AllShort(toGw'[d])
    <2>. DEFINE m == Head(toSup[c])
                e == Frame("error", NoSession, m.id)
                h == Frame("hello", NoSession, 0)
                l == SessionsFrame(m.id, Listed)
    <2>1. m.id \in Nat
      BY <1>1, <1>10, HeadTyped DEF Hello, Receive
    <2>2. e \in ServerFrame /\ h \in ServerFrame /\ l \in ServerFrame
      BY <2>1, FramesTyped DEF ServerFrameTypes, Listed
    <2>3. Short(e) /\ Short(h) /\ Short(l)
      BY DEF Short, Frame, SessionsFrame
    <2>4. CASE SendTo(c, e)
      BY <1>5, <2>2, <2>3, <2>4
    <2>5. CASE toGw' = Sent(Sent(toGw, c, h), c, l)
      <3>1. AllShort(Sent(toGw, c, h)[d]) /\ Sent(toGw, c, h) \in [Conns -> Seq(ServerFrame)]
        BY <1>1, <1>2, <1>3, <2>2, <2>3, SentQueues DEF Sent
      <3>2. AllShort(Append(Sent(toGw, c, h)[d], l))
        BY <3>1, <2>2, <2>3, ShortQueues
      <3>. QED
        BY <2>5, <3>1, <3>2 DEF Sent
    <2>. QED
      BY <1>10, <2>4, <2>5 DEF Hello
  <1>11. ASSUME NEW c \in Conns, NEW t \in ServerFrameTypes \ {"subscribed"},
                toSup[c] # <<>>, SendTo(c, Reply(c, t))
         PROVE  AllShort(toGw'[d])
    <2>1. Reply(c, t) \in ServerFrame
      BY <1>1, <1>11, ReplyTyped
    <2>2. Short(Reply(c, t))
      BY DEF Short, Reply, Frame
    <2>. QED
      BY <1>5, <1>11, <2>1, <2>2
  <1>12. ASSUME NEW c \in Conns, Create(c) \/ CreateSsh(c) PROVE AllShort(toGw'[d])
    <2>. DEFINE m == Head(toSup[c])
    <2>1. m.sid \in Sessions /\ m.id \in Nat /\ toSup[c] # <<>>
      BY <1>1, <1>12, HeadTyped DEF Create, CreateSsh, Receive
    <2>2. CASE SendTo(c, Reply(c, "error"))
      BY <1>11, <2>1, <2>2 DEF ServerFrameTypes
    <2>3. CASE \E p : Start(c, m, p)
      <3>. DEFINE q == Broadcast(toGw, Frame("created", m.sid, 0))
                  f == Frame("created", m.sid, m.id)
      <3>1. f \in ServerFrame /\ Short(f)
        BY <1>7, <2>1 DEF ServerFrameTypes
      <3>2. AllShort(q[d]) /\ q[d] \in Seq(ServerFrame)
        BY <1>1, <1>4, <1>7, <2>1, WritesTyped DEF ServerFrameTypes
      <3>3. AllShort(Append(q[d], f))
        BY <3>1, <3>2, ShortQueues
      <3>4. toGw' = [q EXCEPT ![c] = IF Live(c) THEN Append(@, f) ELSE @]
        BY <2>3 DEF Start, Sent
      <3>. QED
        BY <3>2, <3>3, <3>4 DEF Broadcast
    <2>. QED
      BY <1>12, <2>2, <2>3 DEF Create, CreateSsh
  <1>13. ASSUME NEW c \in Conns, Subscribe(c) PROVE AllShort(toGw'[d])
    <2>. DEFINE m == Head(toSup[c])
                f == OutputFrame("subscribed", m.sid, m.id, scrollback[m.sid], produced[m.sid])
    <2>1. m.sid \in Sessions /\ m.id \in Nat /\ toSup[c] # <<>>
      BY <1>1, <1>13, HeadTyped DEF Subscribe, Receive
    <2>2. CASE current[m.sid] # 0 /\ SendTo(c, f)
      <3>1. f \in ServerFrame
        BY <1>1, <2>1, FramesTyped DEF ServerFrameTypes
      <3>2. scrollback[m.sid] # 0 /\ RingFits(m.sid)
        BY <1>1, <2>1, <2>2 DEF RingIffListed, Fitting, RingsFit
      <3>3. scrollback[m.sid] >= 1 /\ produced[m.sid] - scrollback[m.sid] + 1 <= Cap
        BY <1>1, <2>1, <3>2 DEF RingFits
      <3>4. Short(f)
        BY <3>3 DEF Short, OutputFrame
      <3>. QED
        BY <1>5, <2>2, <3>1, <3>4
    <2>3. CASE SendTo(c, Reply(c, "error"))
      BY <1>11, <2>1, <2>3 DEF ServerFrameTypes
    <2>. QED
      BY <1>13, <2>2, <2>3 DEF Subscribe
  <1>14. ASSUME NEW c \in Conns, Unauthorized(c) \/ Unsubscribe(c) \/ Forward(c) \/ Resize(c)
         PROVE  AllShort(toGw'[d])
    BY Zenon, <1>6, <1>11, <1>14
       DEF Unauthorized, Unsubscribe, Forward, Resize, Receive, ServerFrameTypes
  <1>15. ASSUME NEW c \in Conns, List(c) PROVE AllShort(toGw'[d])
    <2>. DEFINE l == SessionsFrame(Head(toSup[c]).id, Listed)
    <2>1. Head(toSup[c]).id \in Nat
      BY <1>1, <1>15, HeadTyped DEF List, Receive
    <2>2. l \in ServerFrame /\ Short(l)
      BY <2>1, FramesTyped DEF Listed, Short, SessionsFrame
    <2>. QED
      BY <1>5, <1>15, <2>2 DEF List
  <1>16. ASSUME NEW c \in Conns, GatewayRead(c) PROVE AllShort(toGw'[d])
    BY <1>1, <1>2, <1>16, ShortQueues DEF GatewayRead
  <1>17. ASSUME NEW c \in Conns, Accept(c) \/ Destroy(c) \/ Close(c) \/ GatewayWrite(c)
         PROVE  AllShort(toGw'[d])
    BY <1>6, <1>17 DEF Accept, Destroy, Close, GatewayWrite, ipcVars
  <1>18. CASE UNCHANGED vars
    BY <1>6, <1>18 DEF vars, ipcVars
  <1>. QED
    BY <1>8, <1>9, <1>10, <1>12, <1>13, <1>14, <1>15, <1>16, <1>17, <1>18
       DEF Next, SupervisorNext, HandleMessage

(* Whatever is produced and whenever it is asked for, a snapshot starts at a
   chunk there was and is no longer than the ring may be. *)
THEOREM SnapshotsFit == Spec => []SnapshotBounded
  <1>1. Init => Fitting
    BY RegisteredInit DEF Init, IpcInit, SupInit, Fitting, RingsFit, RingFits, SnapshotBounded
  <1>2. Fitting /\ [Next]_vars => Fitting'
    BY RingsStep, SnapshotStep, RegisteredStep, TypeStep DEF Fitting, Registered
  <1>3. Fitting => SnapshotBounded
    BY DEF Fitting
  <1>. QED
    BY <1>1, <1>2, <1>3, PTL DEF Spec

-----------------------------------------------------------------------------
(* Sessions leave the map after their own process. *)

(* The callbacks queued for s. *)
Queued(s) == {k \in DOMAIN immediates : immediates[k].sid = s}

(* Only the process in the map lives, and what is queued is its removal,   *)
(* once, after it died.                                                    *)
LeavesOnce(s) ==
    /\ \A i \in Incs : proc[s][i].alive => i = current[s]
    /\ \A k \in Queued(s) :
          immediates[k].run = "removed" /\ current[s] # 0 /\ ~proc[s][current[s]].alive
    /\ \A k, l \in Queued(s) : k = l

Leaving == TypeOK /\ \A s \in Sessions : NeverSsh(s) => LeavesOnce(s)

(* What holds of the queue after a callback was added or run. *)
LEMMA QueuedAppend ==
    ASSUME NEW S, NEW q \in Seq(S), NEW x
    PROVE  /\ DOMAIN Append(q, x) = DOMAIN q \cup {Len(q) + 1} /\ Len(q) + 1 \notin DOMAIN q
           /\ Append(q, x)[Len(q) + 1] = x /\ \A k \in DOMAIN q : Append(q, x)[k] = q[k]
  OBVIOUS

LEMMA QueuedTail ==
    ASSUME NEW S, NEW q \in Seq(S), q # <<>>
    PROVE  /\ 1 \in DOMAIN q /\ q[1] = Head(q) /\ Tail(q) \in Seq(S)
           /\ \A k \in DOMAIN Tail(q) :
                 k \in Nat /\ k + 1 \in DOMAIN q /\ k + 1 # 1 /\ Tail(q)[k] = q[k + 1]
  OBVIOUS

LEMMA KindsKept ==
    ASSUME NEW s \in Sessions,
           \A i \in Incs : proc[s][i].kind = "ssh" => proc'[s][i].kind = "ssh",
           NeverSsh(s)'
    PROVE  NeverSsh(s)
  BY DEF NeverSsh

(* A step that starts, ends and removes nothing. *)
LEMMA NothingLeaves ==
    ASSUME Leaving, UNCHANGED <<current, immediates>>,
           \A s \in Sessions : \A i \in Incs :
              proc'[s][i].alive = proc[s][i].alive /\ proc'[s][i].kind = proc[s][i].kind,
           NEW s \in Sessions
    PROVE  /\ NeverSsh(s)' => LeavesOnce(s)'
           /\ NeverSsh(s) => OwnExitOnly(s)
  <1>1. NeverSsh(s)' => NeverSsh(s)
    BY KindsKept
  <1>2. ASSUME NeverSsh(s) PROVE LeavesOnce(s)'
    <2>1. LeavesOnce(s) /\ Queued(s)' = Queued(s)
      BY <1>2 DEF Leaving, Queued
    <2>2. current[s] \in Incs \cup {0}
      BY DEF Leaving, TypeOK, SupTypeOK, Incs
    <2>3. QED
      BY <2>1, <2>2 DEF LeavesOnce
  <1>3. OwnExitOnly(s)
    BY DEF OwnExitOnly
  <1>4. QED
    BY <1>1, <1>2, <1>3

(* A step about another session, which may add a callback of that one. *)
LEMMA OthersLeave ==
    ASSUME Leaving, NEW s \in Sessions, NEW x, x.sid # s,
           current'[s] = current[s], proc'[s] = proc[s],
           \/ immediates' = immediates
           \/ immediates' = Append(immediates, x)
           \/ /\ immediates # <<>> /\ Head(immediates).sid # s
              /\ immediates' = Tail(immediates) \/ immediates' = Append(Tail(immediates), x)
    PROVE  /\ NeverSsh(s)' => LeavesOnce(s)'
           /\ NeverSsh(s) => OwnExitOnly(s)
  <1>1. immediates \in Seq(Immediate)
    BY DEF Leaving, TypeOK, SupTypeOK
  <1>2. NeverSsh(s)' => NeverSsh(s)
    BY KindsKept
  <1>3. OwnExitOnly(s)
    BY DEF OwnExitOnly
  <1>4. ASSUME NeverSsh(s) PROVE LeavesOnce(s)'
    <2>1. LeavesOnce(s)
      BY <1>4 DEF Leaving
    <2>2. CASE immediates' = immediates
      BY <2>1, <2>2 DEF LeavesOnce, Queued
    <2>3. CASE immediates' = Append(immediates, x)
      <3>1. Queued(s)' = Queued(s) /\ \A k \in Queued(s) : immediates'[k] = immediates[k]
        BY <1>1, <2>3, QueuedAppend DEF Queued
      <3>2. QED
        BY <2>1, <3>1 DEF LeavesOnce
    <2>4. ASSUME immediates # <<>>, Head(immediates).sid # s,
                 immediates' = Tail(immediates) \/ immediates' = Append(Tail(immediates), x)
          PROVE  LeavesOnce(s)'
      <3> DEFINE q == Tail(immediates)
      <3>1. /\ q \in Seq(Immediate)
            /\ \A k \in DOMAIN q : k \in Nat /\ k + 1 \in DOMAIN immediates /\ q[k] = immediates[k + 1]
        BY <1>1, <2>4, QueuedTail
      <3>2. immediates' = q \/ immediates' = Append(q, x)
        BY <2>4
      <3> HIDE DEF q
      <3>3. \A k \in Queued(s)' : k \in DOMAIN q /\ immediates'[k] = q[k]
        BY <3>1, <3>2, QueuedAppend DEF Queued
      <3>4. \A k \in Queued(s)' : k \in Nat /\ k + 1 \in Queued(s) /\ immediates'[k] = immediates[k + 1]
        BY <3>1, <3>3 DEF Queued
      <3>5. \A k, l \in Queued(s)' : k = l
        <4>1. SUFFICES ASSUME NEW k \in Queued(s)', NEW l \in Queued(s)' PROVE k = l
          OBVIOUS
        <4>2. k + 1 = l + 1 /\ k \in Nat /\ l \in Nat
          BY <2>1, <3>4 DEF LeavesOnce
        <4>3. QED
          BY <4>2
      <3>6. QED
        BY <2>1, <3>4, <3>5 DEF LeavesOnce
    <2>5. QED
      BY <2>2, <2>3, <2>4
  <1>5. QED
    BY <1>2, <1>3, <1>4

(* A new process finds the id free: the last one is dead and removed. *)
LEMMA StartLeaves ==
    ASSUME Leaving, NEW c, NEW m, m.sid \in Sessions, CanStart(m), NEW p, Start(c, m, p),
           immediates' = immediates, NEW s \in Sessions
    PROVE  /\ NeverSsh(s)' => LeavesOnce(s)'
           /\ NeverSsh(s) => OwnExitOnly(s)
  <1> DEFINE n == NextInc(m.sid)
  <1>1. n \in Incs /\ proc[m.sid][n].kind = "none"
    BY NextIncTyped DEF CanStart, NextInc, FreeIncs
  <1>2. /\ current \in [Sessions -> 0 .. MaxIncs] /\ proc \in [Sessions -> [Incs -> Process]]
        /\ 0 \notin Incs
    BY DEF Leaving, TypeOK, SupTypeOK, Incs
  <1>3. current' = [current EXCEPT ![m.sid] = n] /\ proc' = [proc EXCEPT ![m.sid][n] = p]
    BY DEF Start
  <1>4. current[m.sid] = 0
    BY DEF CanStart
  <1> HIDE DEF n
  <1>5. CASE s # m.sid
    <2> DEFINE x == [sid |-> m.sid]
    <2>1. current'[s] = current[s] /\ proc'[s] = proc[s] /\ x.sid # s
      BY <1>2, <1>3, <1>5
    <2> HIDE DEF x
    <2>2. QED
      BY <2>1, OthersLeave
  <1>6. CASE s = m.sid
    <2>1. proc'[s] = [proc[s] EXCEPT ![n] = p] /\ current'[s] = n
      BY <1>2, <1>3, <1>6
    <2>2. \A i \in Incs : i # n => proc'[s][i] = proc[s][i]
      BY <1>2, <2>1
    <2>3. NeverSsh(s)' => NeverSsh(s)
      BY <1>1, <1>6, <2>2, KindsKept
    <2>4. OwnExitOnly(s)
      BY <1>4, <1>6 DEF OwnExitOnly
    <2>5. ASSUME NeverSsh(s) PROVE LeavesOnce(s)'
      <3>1. LeavesOnce(s)
        BY <2>5 DEF Leaving
      <3>2. Queued(s) = {} /\ \A i \in Incs : ~proc[s][i].alive
        BY <1>2, <1>4, <1>6, <3>1 DEF LeavesOnce
      <3>3. Queued(s)' = {}
        BY <3>2 DEF Queued
      <3>4. \A i \in Incs : proc'[s][i].alive => i = current'[s]
        BY <2>1, <2>2, <3>2
      <3>5. QED
        BY <3>3, <3>4 DEF LeavesOnce
    <2>6. QED
      BY <2>3, <2>4, <2>5
  <1>7. QED
    BY <1>5, <1>6

(* A PTY exits once, and is the process in the map when it does. *)
LEMMA PtyExitLeaves ==
    ASSUME Leaving, NEW t \in Sessions, NEW i \in Incs, PtyExit(t, i), NEW s \in Sessions
    PROVE  /\ NeverSsh(s)' => LeavesOnce(s)'
           /\ NeverSsh(s) => OwnExitOnly(s)
  <1> DEFINE x == [run |-> "removed", sid |-> t]
  <1>1. /\ proc[t][i].alive /\ current' = current /\ immediates' = Append(immediates, x)
        /\ proc' = [proc EXCEPT ![t][i].alive = FALSE, ![t][i].stream = "closed"]
    BY DEF PtyExit, EmitExit
  <1>2. /\ proc \in [Sessions -> [Incs -> Process]] /\ immediates \in Seq(Immediate)
        /\ 0 \notin Incs
    BY DEF Leaving, TypeOK, SupTypeOK, Incs
  <1>3. x.sid = t /\ x.run = "removed"
    OBVIOUS
  <1> HIDE DEF x
  <1>4. CASE s # t
    <2>1. current'[s] = current[s] /\ proc'[s] = proc[s] /\ x.sid # s
      BY <1>1, <1>2, <1>3, <1>4
    <2>2. QED
      BY <1>1, <2>1, OthersLeave
  <1>5. CASE s = t
    <2>1. /\ proc'[s] = [proc[s] EXCEPT ![i].alive = FALSE, ![i].stream = "closed"]
          /\ proc[s] \in [Incs -> Process]
      BY <1>1, <1>2, <1>5
    <2>2. \A j \in Incs : j # i => proc'[s][j] = proc[s][j]
      BY <2>1
    <2>3. proc'[s][i] = [proc[s][i] EXCEPT !.alive = FALSE, !.stream = "closed"] /\ proc[s][i] \in Process
      BY <2>1
    <2>4. ~proc'[s][i].alive /\ proc'[s][i].kind = proc[s][i].kind
      BY <2>3 DEF Process
    <2>5. NeverSsh(s)' => NeverSsh(s)
      BY <2>2, <2>4, KindsKept
    <2>6. OwnExitOnly(s)
      BY <1>1 DEF OwnExitOnly
    <2>7. ASSUME NeverSsh(s) PROVE LeavesOnce(s)'
      <3>1. LeavesOnce(s)
        BY <2>7 DEF Leaving
      <3>2. i = current[s] /\ Queued(s) = {}
        BY <1>1, <1>5, <3>1 DEF LeavesOnce
      <3>3. Queued(s)' = {Len(immediates) + 1} /\ immediates'[Len(immediates) + 1] = x
        BY <1>1, <1>2, <1>3, <1>5, <3>2, QueuedAppend DEF Queued
      <3>4. \A j \in Incs : ~proc'[s][j].alive
        BY <2>2, <2>4, <3>1, <3>2 DEF LeavesOnce
      <3>5. current'[s] = i /\ i # 0
        BY <1>1, <1>2, <3>2
      <3>6. QED
        BY <1>3, <2>4, <3>3, <3>4, <3>5 DEF LeavesOnce
    <2>8. QED
      BY <2>5, <2>6, <2>7
  <1>6. QED
    BY <1>4, <1>5

(* An SSH process is what the property leaves out. *)
LEMMA SshLeaves ==
    ASSUME Leaving, NEW t \in Sessions, NEW i \in Incs, SshFatal(t, i) \/ SshStreamClose(t, i),
           NEW s \in Sessions
    PROVE  /\ NeverSsh(s)' => LeavesOnce(s)'
           /\ NeverSsh(s) => OwnExitOnly(s)
  <1>1. /\ proc[t][i].kind = "ssh" /\ current' = current
        /\ \E x : x.sid = t /\ immediates' = Append(immediates, x)
    <2>1. \A r : [run |-> r, sid |-> t].sid = t
      OBVIOUS
    <2>2. QED
      BY <2>1 DEF SshFatal, SshStreamClose, EmitExit
  <1>2. \/ proc' = [proc EXCEPT ![t][i].alive = FALSE]
        \/ proc' = [proc EXCEPT ![t][i].alive = FALSE, ![t][i].stream = "closed"]
    BY DEF SshFatal, SshStreamClose
  <1>3. proc \in [Sessions -> [Incs -> Process]] /\ proc[t][i] \in Process
    BY DEF Leaving, TypeOK, SupTypeOK
  <1>4. CASE s # t
    <2>1. current'[s] = current[s] /\ proc'[s] = proc[s]
      BY <1>1, <1>2, <1>3, <1>4
    <2>2. QED
      BY <1>1, <1>4, <2>1, OthersLeave
  <1>5. CASE s = t
    <2>1. \/ proc'[s][i] = [proc[s][i] EXCEPT !.alive = FALSE]
          \/ proc'[s][i] = [proc[s][i] EXCEPT !.alive = FALSE, !.stream = "closed"]
      <3>1. proc[s] \in [Incs -> Process]
        BY <1>3
      <3>2. CASE proc' = [proc EXCEPT ![t][i].alive = FALSE]
        <4>1. proc'[s] = [proc[s] EXCEPT ![i].alive = FALSE]
          BY <1>3, <1>5, <3>2
        <4>2. QED
          BY <3>1, <4>1
      <3>3. CASE proc' = [proc EXCEPT ![t][i].alive = FALSE, ![t][i].stream = "closed"]
        <4>1. proc'[s] = [proc[s] EXCEPT ![i].alive = FALSE, ![i].stream = "closed"]
          BY <1>3, <1>5, <3>3
        <4>2. QED
          BY <3>1, <4>1
      <3>4. QED
        BY <1>2, <3>2, <3>3
    <2>2. proc'[s][i].kind = "ssh"
      BY <1>1, <1>3, <1>5, <2>1 DEF Process
    <2>3. QED
      BY <1>1, <1>5, <2>2 DEF NeverSsh
  <1>6. QED
    BY <1>4, <1>5

(* The removal that runs is the only one, and its process is over. *)
LEMMA ImmediateLeaves ==
    ASSUME Leaving, RunImmediate, NEW s \in Sessions
    PROVE  /\ NeverSsh(s)' => LeavesOnce(s)'
           /\ NeverSsh(s) => OwnExitOnly(s)
  <1> DEFINE task == Head(immediates)
             x == [run |-> "removed", sid |-> task.sid]
  <1>1. /\ immediates # <<>> /\ proc' = proc
        /\ \/ task.run = "exit" /\ RunExit(task.sid)
           \/ task.run = "removed" /\ RunRemoved(task.sid)
    BY DEF RunImmediate
  <1>2. /\ \/ immediates' = Tail(immediates)
           \/ immediates' = Append(Tail(immediates), x)
        /\ task.run = "exit" => current' = current
        /\ task.run = "removed" =>
              current' = [current EXCEPT ![task.sid] = 0] /\ immediates' = Tail(immediates)
    BY <1>1 DEF RunExit, RunRemoved, EmitExit
  <1>3. immediates \in Seq(Immediate) /\ current \in [Sessions -> 0 .. MaxIncs]
    BY DEF Leaving, TypeOK, SupTypeOK
  <1>4. /\ 1 \in DOMAIN immediates /\ immediates[1] = task /\ Tail(immediates) \in Seq(Immediate)
        /\ \A k \in DOMAIN Tail(immediates) :
              k + 1 \in DOMAIN immediates /\ k + 1 # 1 /\ Tail(immediates)[k] = immediates[k + 1]
    BY <1>1, <1>3, QueuedTail
  <1>5. task.run \in {"exit", "removed"} /\ x.sid = task.sid
    BY <1>1
  <1> HIDE DEF task, x
  <1>6. CASE task.sid # s
    <2>1. current'[s] = current[s]
      BY <1>2, <1>3, <1>5, <1>6
    <2>2. proc'[s] = proc[s] /\ x.sid # s /\ Head(immediates).sid # s
      BY <1>1, <1>5, <1>6 DEF task
    <2>3. QED
      BY <1>1, <1>2, <2>1, <2>2, OthersLeave
  <1>7. CASE task.sid = s
    <2>1. NeverSsh(s)' => NeverSsh(s)
      BY <1>1, KindsKept
    <2>2. ASSUME NeverSsh(s) PROVE LeavesOnce(s)' /\ OwnExitOnly(s)
      <3>1. LeavesOnce(s)
        BY <2>2 DEF Leaving
      <3>2. 1 \in Queued(s) /\ task.run = "removed" /\ ~proc[s][current[s]].alive
        BY <1>4, <1>7, <3>1 DEF LeavesOnce, Queued
      <3>3. OwnExitOnly(s)
        BY <3>2 DEF OwnExitOnly
      <3>4. Queued(s)' = {}
        <4>1. immediates' = Tail(immediates)
          BY <1>2, <3>2
        <4>2. \A k \in DOMAIN Tail(immediates) : immediates[k + 1].sid # s
          BY <1>4, <3>1, <3>2 DEF LeavesOnce, Queued
        <4>3. QED
          BY <1>4, <4>1, <4>2 DEF Queued
      <3>5. \A i \in Incs : ~proc[s][i].alive
        BY <3>1, <3>2 DEF LeavesOnce
      <3>6. LeavesOnce(s)'
        BY <1>1, <3>4, <3>5 DEF LeavesOnce
      <3>7. QED
        BY <3>3, <3>6
    <2>3. QED
      BY <2>1, <2>2
  <1>8. QED
    BY <1>6, <1>7

LEMMA LeavingStep ==
    ASSUME Leaving, [Next]_vars, NEW s \in Sessions
    PROVE  /\ NeverSsh(s)' => LeavesOnce(s)'
           /\ NeverSsh(s) => OwnExitOnly(s)
  <1>1. ASSUME UNCHANGED <<current, proc, immediates>>
        PROVE  /\ NeverSsh(s)' => LeavesOnce(s)'
               /\ NeverSsh(s) => OwnExitOnly(s)
    <2>1. \A t \in Sessions : \A i \in Incs :
             proc'[t][i].alive = proc[t][i].alive /\ proc'[t][i].kind = proc[t][i].kind
      BY <1>1
    <2>2. QED
      BY <1>1, <2>1, NothingLeaves
  <1>2. CASE UNCHANGED vars
    BY <1>1, <1>2 DEF vars, supVars
  <1>3. ASSUME NEW c \in Conns,
               \/ Hello(c) \/ Unauthorized(c) \/ List(c) \/ Subscribe(c) \/ Unsubscribe(c) \/ Forward(c)
               \/ Destroy(c) \/ Close(c) \/ Accept(c) \/ GatewayWrite(c) \/ GatewayRead(c)
        PROVE  UNCHANGED <<current, proc, immediates>>
    BY <1>3 DEF Hello, Unauthorized, List, Subscribe, Unsubscribe, Forward, Destroy, Close, Accept,
                GatewayWrite, GatewayRead, supVars, connVars
  <1>4. ASSUME NEW c \in Conns, Create(c) \/ CreateSsh(c)
        PROVE  /\ NeverSsh(s)' => LeavesOnce(s)'
               /\ NeverSsh(s) => OwnExitOnly(s)
    <2> DEFINE m == Head(toSup[c])
    <2>1. immediates' = immediates /\ m.sid \in Sessions
      <3>1. toSup[c] # <<>> /\ m.type \in {"create", "create_ssh"}
        BY <1>4 DEF Create, CreateSsh, Receive
      <3>2. m.sid \in Sessions
        BY <3>1, HeadTyped DEF Leaving
      <3>3. QED
        BY <1>4, <3>2 DEF Create, CreateSsh
    <2>2. \/ UNCHANGED <<current, proc>>
          \/ CanStart(m) /\ \E p : Start(c, m, p)
      BY <1>4 DEF Create, CreateSsh
    <2> HIDE DEF m
    <2>3. QED
      BY <1>1, <2>1, <2>2, StartLeaves
  <1>5. ASSUME NEW c \in Conns, Resize(c)
        PROVE  /\ NeverSsh(s)' => LeavesOnce(s)'
               /\ NeverSsh(s) => OwnExitOnly(s)
    <2> DEFINE m == Head(toSup[c])
               n == current[m.sid]
    <2>1. UNCHANGED <<current, immediates>> /\ proc \in [Sessions -> [Incs -> Process]]
      BY <1>5 DEF Resize, Leaving, TypeOK, SupTypeOK
    <2>2. proc' = proc \/ proc' = [proc EXCEPT ![m.sid][n].size = m.size]
      BY <1>5 DEF Resize
    <2> HIDE DEF m, n
    <2>3. \A t \in Sessions : \A i \in Incs :
             proc'[t][i].alive = proc[t][i].alive /\ proc'[t][i].kind = proc[t][i].kind
      <3>1. SUFFICES ASSUME NEW t \in Sessions, NEW i \in Incs
                     PROVE  proc'[t][i].alive = proc[t][i].alive /\ proc'[t][i].kind = proc[t][i].kind
        OBVIOUS
      <3>2. proc[t][i] \in Process
        BY <2>1
      <3>3. proc'[t][i] = proc[t][i] \/ proc'[t][i] = [proc[t][i] EXCEPT !.size = m.size]
        <4>1. proc'[t] = proc[t] \/ proc'[t] = [proc[t] EXCEPT ![n].size = m.size]
          BY <2>1, <2>2
        <4>2. proc[t] \in [Incs -> Process]
          BY <2>1
        <4>3. QED
          BY <4>1, <4>2
      <3>4. QED
        BY <3>2, <3>3 DEF Process
    <2>4. QED
      BY <2>1, <2>3, NothingLeaves
  <1>6. ASSUME NEW t \in Sessions, NEW i \in Incs, Data(t, i) \/ SshReady(t, i)
        PROVE  /\ NeverSsh(s)' => LeavesOnce(s)'
               /\ NeverSsh(s) => OwnExitOnly(s)
    <2>1. UNCHANGED <<current, immediates>> /\ proc \in [Sessions -> [Incs -> Process]]
      BY <1>6 DEF Data, SshReady, Leaving, TypeOK, SupTypeOK
    <2>2. proc' = proc \/ proc' = [proc EXCEPT ![t][i].stream = "open"]
      BY <1>6 DEF Data, SshReady
    <2>3. \A r \in Sessions : \A j \in Incs :
             proc'[r][j].alive = proc[r][j].alive /\ proc'[r][j].kind = proc[r][j].kind
      <3>1. SUFFICES ASSUME NEW r \in Sessions, NEW j \in Incs
                     PROVE  proc'[r][j].alive = proc[r][j].alive /\ proc'[r][j].kind = proc[r][j].kind
        OBVIOUS
      <3>2. proc[r][j] \in Process
        BY <2>1
      <3>3. proc'[r][j] = proc[r][j] \/ proc'[r][j] = [proc[r][j] EXCEPT !.stream = "open"]
        BY <2>1, <2>2
      <3>4. QED
        BY <3>2, <3>3 DEF Process
    <2>4. QED
      BY <2>1, <2>3, NothingLeaves
  <1>7. QED
    BY <1>1, <1>2, <1>3, <1>4, <1>5, <1>6, PtyExitLeaves, SshLeaves, ImmediateLeaves
       DEF Next, SupervisorNext, HandleMessage

LEMMA LeavingInvariant == Spec => []Leaving
  <1>1. Init => \A s \in Sessions : NeverSsh(s) => LeavesOnce(s)
    <2>1. SUFFICES ASSUME Init, NEW s \in Sessions PROVE LeavesOnce(s)
      OBVIOUS
    <2>2. immediates = <<>> /\ \A i \in Incs : ~proc[s][i].alive
      BY <2>1 DEF Init, SupInit, Unborn
    <2>3. QED
      BY <2>2 DEF LeavesOnce, Queued
  <1>2. TypeOK /\ (\A s \in Sessions : NeverSsh(s) => LeavesOnce(s)) /\ [Next]_vars
            => (\A s \in Sessions : NeverSsh(s) => LeavesOnce(s))'
    BY LeavingStep DEF Leaving
  <1>3. Spec => [](\A s \in Sessions : NeverSsh(s) => LeavesOnce(s))
    BY <1>1, <1>2, TypeCorrect, PTL DEF Spec
  <1>4. QED
    BY <1>3, TypeCorrect, PTL DEF Leaving

(* A session is in the map until its own process is over: the removal that *)
(* a setImmediate runs one callback after the exit (session-manager.ts:61) *)
(* names the session by its id, and finds the process that exited there,   *)
(* if none of the id was SSH.                                              *)
THEOREM RemovalIsOfItsOwn == Spec => RemovedAfterOwnExit
  <1>1. Leaving /\ [Next]_vars => [\A s \in Sessions : NeverSsh(s) => OwnExitOnly(s)]_vars
    BY LeavingStep
  <1>2. QED
    BY <1>1, LeavingInvariant, PTL DEF Spec, RemovedAfterOwnExit

=============================================================================
