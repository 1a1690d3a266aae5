----------------------------- MODULE Supervisor -----------------------------
(***************************************************************************)
(* The supervisor process: SessionManager, PtySession and SshSession       *)
(* (shell/core) under the IPC server that gateways connect to              *)
(* (shell/supervisor/ipc-server.ts).                                       *)
(*                                                                         *)
(* One action is one callback of its event loop: a line read from a pipe,  *)
(* an event of a terminal process, an expired setImmediate, a socket       *)
(* event.  Nothing inside a callback is interleaved, which is what the     *)
(* server's "atomic snapshot + subscribed + live" ordering rests on.       *)
(***************************************************************************)
EXTENDS ShellIpc

CONSTANTS
    ScrollbackCap,   \* chunks a scrollback ring holds (256 KiB in the code)
    MaxIncs,         \* bound: terminal processes started under one session id
    MaxOutput        \* bound: chunks read from the terminals of one session id

ASSUME SupervisorAssumption ==
    /\ ScrollbackCap \in Nat
    /\ MaxIncs \in Nat
    /\ MaxOutput \in Nat

VARIABLES
    conn,            \* conn[c]: the supervisor's end of connection c
    authenticated,   \* connections that have sent a good `hello'
    subscriptions,   \* conn.subscriptions: sessions c asked for
    subscribers,     \* subscribers[s]: connections that get the output of s
    scrollback,      \* first chunk in the ring of s, or 0 when it has no ring
    current,         \* the session map: which process of s it holds, or 0
    proc,            \* proc[s][i]: the processes started under id s
    produced,        \* chunks s has produced so far (names the chunks)
    immediates       \* queued setImmediate callbacks

connVars == <<conn, authenticated, subscriptions>>
supVars == <<conn, authenticated, subscriptions, subscribers, scrollback,
             current, proc, produced, immediates>>

Incs == 1 .. MaxIncs

(* `stream' is the process's output side: a PTY opens it at once, an SSH
   session when its shell channel opens. *)
Process ==
    [kind : {"none", "pty", "ssh"}, alive : BOOLEAN,
     stream : {"none", "open", "closed"}, size : Sizes \cup {0}]

Unborn == [kind |-> "none", alive |-> FALSE, stream |-> "none", size |-> 0]

Immediate == [run : {"exit", "removed"}, sid : Sessions]

SupTypeOK ==
    /\ conn \in [Conns -> {"none", "open", "destroyed", "closed"}]
    /\ authenticated \subseteq Conns
    /\ subscriptions \in [Conns -> SUBSET Sessions]
    /\ subscribers \in [Sessions -> SUBSET Conns]
    /\ scrollback \in [Sessions -> Nat]
    /\ current \in [Sessions -> 0 .. MaxIncs]
    /\ proc \in [Sessions -> [Incs -> Process]]
    /\ produced \in [Sessions -> Nat]
    /\ immediates \in Seq(Immediate)

SupInit ==
    /\ conn = [c \in Conns |-> "none"]
    /\ authenticated = {}
    /\ subscriptions = [c \in Conns |-> {}]
    /\ subscribers = [s \in Sessions |-> {}]
    /\ scrollback = [s \in Sessions |-> 0]
    /\ current = [s \in Sessions |-> 0]
    /\ proc = [s \in Sessions |-> [i \in Incs |-> Unborn]]
    /\ produced = [s \in Sessions |-> 0]
    /\ immediates = <<>>

-----------------------------------------------------------------------------
(* Writing frames.  A destroyed socket swallows what is written to it. *)

Live(c) == conn[c] = "open"

(* sendRaw / sendError: to one connection. *)
Sent(q, c, f) == [q EXCEPT ![c] = IF Live(c) THEN Append(@, f) ELSE @]

SendTo(c, f) == toGw' = Sent(toGw, c, f)

(* A bug to catch in Broadcast: the authenticated check is missing. *)
BroadcastToAll(q, f) ==
    [d \in Conns |-> IF Live(d) THEN Append(q[d], f) ELSE q[d]]

(* What broadcast adds to the queue of d: every authenticated, open socket. *)
Broadcast(q, f) ==
    [d \in Conns |-> IF d \in authenticated /\ Live(d) THEN Append(q[d], f) ELSE q[d]]

(* A bug to catch in FanOut: a gateway that reads slowly loses frames. *)
FanOutUnlessBacklogged(q, s, f) ==
    [d \in Conns |-> IF d \in subscribers[s] /\ Live(d) /\ Len(q[d]) < 2
                       THEN Append(q[d], f) ELSE q[d]]

(* fanOutOutput and the `exit' listener: the open sockets subscribed to s. *)
FanOut(q, s, f) ==
    [d \in Conns |-> IF d \in subscribers[s] /\ Live(d) THEN Append(q[d], f) ELSE q[d]]

(* The sessions that are in the map, for list(). *)
Listed == {s \in Sessions : current[s] # 0}

-----------------------------------------------------------------------------
(* Terminal output: appendScrollback, then fanOutOutput. *)

LargerOf(a, b) == IF a > b THEN a ELSE b

(* Bugs to catch in Trimmed: the cap is one chunk late; the first index of
   a ring that is not full is computed as if it were, one chunk early. *)
TrimmedLate(first, last) == LargerOf(first, last - LargerOf(ScrollbackCap, 1))
TrimmedAlways(first, last) == last - LargerOf(ScrollbackCap, 1)

(* The ring drops whole chunks from the front while it is over its cap, but
   never its last one. *)
Trimmed(first, last) ==
    LargerOf(first, last - LargerOf(ScrollbackCap, 1) + 1)

(* A bug to catch in Emit: output is kept but not fanned out. *)
EmitQuietly(s) ==
    LET n == produced[s] + 1 IN
    /\ produced' = [produced EXCEPT ![s] = n]
    /\ scrollback' = [scrollback EXCEPT ![s] = IF @ = 0 THEN 0 ELSE Trimmed(@, n)]
    /\ UNCHANGED toGw

Emit(s) ==
    LET n == produced[s] + 1 IN
    /\ produced' = [produced EXCEPT ![s] = n]
    /\ scrollback' = [scrollback EXCEPT ![s] = IF @ = 0 THEN 0 ELSE Trimmed(@, n)]
    /\ toGw' = FanOut(toGw, s, OutputFrame("output", s, 0, n, n))

(* Data from a terminal: whichever process of s still has its stream open. *)
Data(s, i) ==
    /\ proc[s][i].stream = "open"
    /\ produced[s] < MaxOutput
    /\ Emit(s)
    /\ UNCHANGED <<toSup, conn, authenticated, subscriptions, subscribers,
                   current, proc, immediates>>

(* The `exit' event of any process of s: tell the subscribers, remove the
   session one setImmediate later.  Both name the session by its id. *)
EmitExit(s, queued) ==
    /\ toGw' = FanOut(toGw, s, Frame("exit", s, 0))
    /\ immediates' = Append(queued, [run |-> "removed", sid |-> s])

(* proc.onExit of a PTY; node-pty has delivered the last data by then. *)
PtyExit(s, i) ==
    /\ proc[s][i].kind = "pty"
    /\ proc[s][i].alive
    /\ proc' = [proc EXCEPT ![s][i].alive = FALSE, ![s][i].stream = "closed"]
    /\ EmitExit(s, immediates)
    /\ UNCHANGED <<toSup, conn, authenticated, subscriptions, subscribers,
                   scrollback, current, produced>>

(* The SSH shell channel opens: attachStream. *)
SshReady(s, i) ==
    /\ proc[s][i].kind = "ssh"
    /\ proc[s][i].stream = "none"
    /\ proc' = [proc EXCEPT ![s][i].stream = "open"]
    /\ UNCHANGED <<ipcVars, conn, authenticated, subscriptions, subscribers,
                   scrollback, current, produced, immediates>>

(* handleFatal: the error banner is output of the session, `exit' follows in
   a setImmediate.  It does not touch an open shell channel. *)
SshFatal(s, i) ==
    /\ proc[s][i].kind = "ssh"
    /\ proc[s][i].alive
    /\ Emit(s)
    /\ proc' = [proc EXCEPT ![s][i].alive = FALSE]
    /\ immediates' = Append(immediates, [run |-> "exit", sid |-> s])
    /\ UNCHANGED <<toSup, conn, authenticated, subscriptions, subscribers, current>>

(* stream.on('close'): emits `exit' whether or not handleFatal did. *)
SshStreamClose(s, i) ==
    /\ proc[s][i].kind = "ssh"
    /\ proc[s][i].stream = "open"
    /\ proc' = [proc EXCEPT ![s][i].alive = FALSE, ![s][i].stream = "closed"]
    /\ EmitExit(s, immediates)
    /\ UNCHANGED <<toSup, conn, authenticated, subscriptions, subscribers,
                   scrollback, current, produced>>

(* The setImmediate queue, in order: an `exit' deferred by handleFatal, or
   the removal that follows every `exit' (sessions.delete, dropBuffers and
   the broadcast of `removed'). *)
RunExit(s) ==
    /\ EmitExit(s, Tail(immediates))
    /\ UNCHANGED <<subscribers, scrollback, current>>

(* A bug to catch in RunRemoved: dropBuffers forgets the subscriber set. *)
RunRemovedKeepingSubscribers(s) ==
    /\ current' = [current EXCEPT ![s] = 0]
    /\ scrollback' = [scrollback EXCEPT ![s] = 0]
    /\ toGw' = Broadcast(toGw, Frame("removed", s, 0))
    /\ immediates' = Tail(immediates)
    /\ UNCHANGED subscribers

RunRemoved(s) ==
    /\ current' = [current EXCEPT ![s] = 0]
    /\ subscribers' = [subscribers EXCEPT ![s] = {}]
    /\ scrollback' = [scrollback EXCEPT ![s] = 0]
    /\ toGw' = Broadcast(toGw, Frame("removed", s, 0))
    /\ immediates' = Tail(immediates)

RunImmediate ==
    /\ immediates # <<>>
    /\ LET task == Head(immediates) IN
         \/ task.run = "exit" /\ RunExit(task.sid)
         \/ task.run = "removed" /\ RunRemoved(task.sid)
    /\ UNCHANGED <<toSup, connVars, proc, produced>>

-----------------------------------------------------------------------------
(* handleMessage: one action per message, taken on the first line queued on
   a connection.  A destroyed socket still has the lines of the chunk being
   read, which are handled until its close event. *)

Receive(c, t) ==
    /\ conn[c] \in {"open", "destroyed"}
    /\ toSup[c] # <<>>
    /\ Head(toSup[c]).type = t
    /\ toSup' = [toSup EXCEPT ![c] = Tail(@)]

Reply(c, t) == Frame(t, Head(toSup[c]).sid, Head(toSup[c]).id)

(* A good hello is answered by `hello' and the session list. *)
Hello(c) ==
    LET m == Head(toSup[c]) IN
    /\ Receive(c, "hello")
    /\ \/ /\ m.ok
          /\ authenticated' = authenticated \cup {c}
          /\ toGw' = Sent(Sent(toGw, c, Frame("hello", NoSession, 0)),
                         c, SessionsFrame(m.id, Listed))
       \/ /\ ~m.ok
          /\ SendTo(c, Frame("error", NoSession, m.id))
          /\ UNCHANGED authenticated
    /\ UNCHANGED <<conn, subscriptions, subscribers, scrollback, current, proc,
                   produced, immediates>>

(* Any other message before a good hello: `unauthorized'. *)
Unauthorized(c) ==
    /\ c \notin authenticated
    /\ \E t \in ClientMessageTypes \ {"hello"} : Receive(c, t)
    /\ SendTo(c, Reply(c, "error"))
    /\ UNCHANGED supVars

List(c) ==
    /\ c \in authenticated
    /\ Receive(c, "list")
    /\ SendTo(c, SessionsFrame(Head(toSup[c]).id, Listed))
    /\ UNCHANGED supVars

(* SessionManager.create throws on an id already in the map; otherwise the
   constructor may fail, or the next process of s starts. *)
FreeIncs(s) == {i \in Incs : proc[s][i].kind = "none"}
NextInc(s) == CHOOSE i \in FreeIncs(s) : TRUE

(* A bug to catch in CanStart: an id already in the map is not refused. *)
CanAlwaysStart(m) == m.ok /\ FreeIncs(m.sid) # {}

CanStart(m) == m.ok /\ current[m.sid] = 0 /\ FreeIncs(m.sid) # {}

(* A bug to catch in Start: ensureBuffers is not called. *)
StartWithoutRing(c, m, p) ==
    /\ current' = [current EXCEPT ![m.sid] = NextInc(m.sid)]
    /\ proc' = [proc EXCEPT ![m.sid][NextInc(m.sid)] = p]
    /\ toGw' = Sent(Broadcast(toGw, Frame("created", m.sid, 0)),
                   c, Frame("created", m.sid, m.id))
    /\ UNCHANGED scrollback

(* sessions.create, whose `created' listener makes the buffers and tells
   every gateway, then the reply to the requester. *)
Start(c, m, p) ==
    /\ current' = [current EXCEPT ![m.sid] = NextInc(m.sid)]
    /\ proc' = [proc EXCEPT ![m.sid][NextInc(m.sid)] = p]
    /\ scrollback' = [scrollback EXCEPT ![m.sid] = IF @ = 0 THEN produced[m.sid] + 1 ELSE @]
    /\ toGw' = Sent(Broadcast(toGw, Frame("created", m.sid, 0)),
                   c, Frame("created", m.sid, m.id))

Create(c) ==
    LET m == Head(toSup[c]) IN
    /\ c \in authenticated
    /\ Receive(c, "create")
    /\ \/ /\ CanStart(m)
          /\ Start(c, m, [kind |-> "pty", alive |-> TRUE, stream |-> "open", size |-> m.size])
       \/ /\ ~CanStart(m)
          /\ SendTo(c, Reply(c, "error"))
          /\ UNCHANGED <<current, proc, scrollback>>
    /\ UNCHANGED <<connVars, subscribers, produced, immediates>>

CreateSsh(c) ==
    LET m == Head(toSup[c]) IN
    /\ c \in authenticated
    /\ Receive(c, "create_ssh")
    /\ \/ /\ CanStart(m)
          /\ Start(c, m, [kind |-> "ssh", alive |-> TRUE, stream |-> "none", size |-> m.size])
       \/ /\ ~CanStart(m)
          /\ SendTo(c, Reply(c, "error"))
          /\ UNCHANGED <<current, proc, scrollback>>
    /\ UNCHANGED <<connVars, subscribers, produced, immediates>>

(* subscribe: the snapshot goes out before the connection is registered, in
   one callback. *)
Subscribe(c) ==
    LET m == Head(toSup[c]) IN
    /\ c \in authenticated
    /\ Receive(c, "subscribe")
    /\ \/ /\ current[m.sid] # 0
          /\ SendTo(c, OutputFrame("subscribed", m.sid, m.id,
                                   scrollback[m.sid], produced[m.sid]))
          /\ subscribers' = [subscribers EXCEPT ![m.sid] = @ \cup {c}]
          /\ subscriptions' = [subscriptions EXCEPT ![c] = @ \cup {m.sid}]
       \/ /\ current[m.sid] = 0
          /\ SendTo(c, Reply(c, "error"))
          /\ UNCHANGED <<subscribers, subscriptions>>
    /\ UNCHANGED <<conn, authenticated, scrollback, current, proc, produced, immediates>>

Unsubscribe(c) ==
    LET m == Head(toSup[c]) IN
    /\ c \in authenticated
    /\ Receive(c, "unsubscribe")
    /\ subscribers' = [subscribers EXCEPT ![m.sid] = @ \ {c}]
    /\ subscriptions' = [subscriptions EXCEPT ![c] = @ \ {m.sid}]
    /\ SendTo(c, Reply(c, "unsubscribed"))
    /\ UNCHANGED <<conn, authenticated, scrollback, current, proc, produced, immediates>>

(* input and kill change nothing the model keeps: the shell behind the PTY
   echoes or exits in its own time (Data, PtyExit, SshStreamClose). *)
Forward(c) ==
    /\ c \in authenticated
    /\ Receive(c, "input") \/ Receive(c, "kill")
    /\ IF current[Head(toSup[c]).sid] = 0
         THEN SendTo(c, Reply(c, "error"))
         ELSE UNCHANGED toGw
    /\ UNCHANGED supVars

(* resize: ignored by a process that is no longer alive. *)
Resize(c) ==
    LET m == Head(toSup[c])
        i == current[m.sid] IN
    /\ c \in authenticated
    /\ Receive(c, "resize")
    /\ IF i = 0
         THEN SendTo(c, Reply(c, "error")) /\ UNCHANGED proc
         ELSE /\ proc' = IF proc[m.sid][i].alive
                           THEN [proc EXCEPT ![m.sid][i].size = m.size]
                           ELSE proc
              /\ UNCHANGED toGw
    /\ UNCHANGED <<connVars, subscribers, scrollback, current, produced, immediates>>

HandleMessage(c) ==
    \/ Hello(c) \/ Unauthorized(c) \/ List(c)
    \/ Create(c) \/ CreateSsh(c)
    \/ Subscribe(c) \/ Unsubscribe(c)
    \/ Forward(c) \/ Resize(c)

-----------------------------------------------------------------------------
(* Connections. *)

Accept(c) ==
    /\ conn[c] = "none"
    /\ conn' = [conn EXCEPT ![c] = "open"]
    /\ UNCHANGED <<ipcVars, authenticated, subscriptions, subscribers, scrollback,
                   current, proc, produced, immediates>>

(* The socket is destroyed: checkBacklog found a gateway that does not read,
   or the other end is gone. *)
Destroy(c) ==
    /\ conn[c] = "open"
    /\ conn' = [conn EXCEPT ![c] = "destroyed"]
    /\ UNCHANGED <<ipcVars, authenticated, subscriptions, subscribers, scrollback,
                   current, proc, produced, immediates>>

(* Its `close' event, some callbacks later. *)
Close(c) ==
    /\ conn[c] = "destroyed"
    /\ conn' = [conn EXCEPT ![c] = "closed"]
    /\ subscribers' = [s \in Sessions |->
                         IF s \in subscriptions[c] THEN subscribers[s] \ {c}
                                                   ELSE subscribers[s]]
    /\ UNCHANGED <<ipcVars, authenticated, subscriptions, scrollback, current,
                   proc, produced, immediates>>

SupervisorNext ==
    \/ \E c \in Conns : HandleMessage(c) \/ Destroy(c) \/ Close(c)
    \/ \E s \in Sessions, i \in Incs :
         Data(s, i) \/ PtyExit(s, i) \/ SshReady(s, i) \/ SshFatal(s, i) \/ SshStreamClose(s, i)
    \/ RunImmediate

-----------------------------------------------------------------------------
(* The hello gate (ipc-server.ts:461-468): a connection that has not sent a
   good hello is told nothing but errors, so none of the terminals' output,
   no exit, no creation and no session list ever waits in its queue. *)
SilentUntilHello ==
    \A c \in Conns \ authenticated : \A i \in DOMAIN toGw[c] :
        toGw[c][i].type = "error"

=============================================================================
