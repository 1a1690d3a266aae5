------------------------------- MODULE Gateway -------------------------------
(***************************************************************************)
(* The shell gateway (ws-server/ws-server.ts): WebSocket clients attach to *)
(* terminal sessions and the gateway relays output from the one pipe to    *)
(* the supervisor (SupervisorClient), coalescing it on the way.            *)
(*                                                                         *)
(* Actions are callbacks of its event loop.  Three facts of that loop are  *)
(* kept: promise continuations run before the next callback (`micro',      *)
(* `turn'); setImmediate callbacks run when the current poll phase is over *)
(* (CheckPhase); and the pipe is not polled again in a phase that has      *)
(* moved on to the WebSockets (`pipeServed').  Authentication is off, as   *)
(* it is without SHELL_AUTH_TOKEN.                                         *)
(***************************************************************************)
EXTENDS SupervisorClient, FiniteSetsExt

CONSTANTS
    CoalesceCap,   \* chunks that make pendingOutput flush at once (64 KiB)
    ClientOps,     \* the kinds of messages clients send
    Pipelined,     \* may a client send a message while it waits for a reply?
    MaxReq,        \* bound: requests the gateway makes
    MaxQueued      \* bound: lines in the pipe when a client's message is read

ASSUME GatewayAssumption ==
    /\ Conns \subseteq Nat \ {0}
    /\ Clients \cap {"idle", "pipe", "draining"} = {}
    /\ CoalesceCap \in Nat \ {0} /\ LocalCap \in Nat /\ MaxLine \in Nat
    /\ Pipelined \in BOOLEAN
    /\ MaxReq \in Nat /\ MaxQueued \in Nat

VARIABLES
    ws,                    \* ws[c]: the client's WebSocket
    sessionSubscribers,    \* per session, clients attached
    clientSubscriptions,   \* per client, sessions attached to
    statusWatchers,        \* per session, clients watching its status
    clientStatusWatches,   \* per client, sessions watched
    clientDesiredSizes,    \* size each client asked for, 0 for none
    effectiveSizes,        \* size last given to the terminal, 0 for none
    pendingOutput,         \* per session, output not yet fanned out
    turn,                  \* who runs: "idle", "pipe", a client, or "draining" micro
    burst,                 \* chunks of output read in the pipe's turn
    pipeServed,            \* the pipe has had its turn in this poll phase
    view,                  \* view[c][s]: what c was sent of s since its last `attached'
    asked                  \* asked[c][s]: c's last word on s was attach, not detach

relayVars == <<sessionSubscribers, clientSubscriptions, statusWatchers, clientStatusWatches>>
sizeVars == <<clientDesiredSizes, effectiveSizes>>
loopVars == <<turn, burst, pipeServed>>
gwVars == <<ws, relayVars, sizeVars, pendingOutput, loopVars, view, asked>>

(* What a client has on its screen: maximal runs of consecutive chunks. *)
Screen == [runs : Seq(Stretch), exited : BOOLEAN]
Blank == [runs |-> <<>>, exited |-> FALSE]

GwTypeOK ==
    /\ ws \in [Clients -> {"new", "open", "closing", "terminated", "closed"}]
    /\ sessionSubscribers \in [Sessions -> SUBSET Clients]
    /\ clientSubscriptions \in [Clients -> SUBSET Sessions]
    /\ statusWatchers \in [Sessions -> SUBSET Clients]
    /\ clientStatusWatches \in [Clients -> SUBSET Sessions]
    /\ clientDesiredSizes \in [Sessions -> [Clients -> Sizes \cup {0}]]
    /\ effectiveSizes \in [Sessions -> Sizes \cup {0}]
    /\ pendingOutput \in [Sessions -> Seq(Stretch)]
    /\ turn \in {"idle", "pipe", "draining"} \cup Clients
    /\ burst \in Nat
    /\ pipeServed \in BOOLEAN
    /\ view \in [Clients -> [Sessions -> Screen]]
    /\ asked \in [Clients -> [Sessions -> BOOLEAN]]

GwInit ==
    /\ ws = [c \in Clients |-> "new"]
    /\ sessionSubscribers = [s \in Sessions |-> {}]
    /\ clientSubscriptions = [c \in Clients |-> {}]
    /\ statusWatchers = [s \in Sessions |-> {}]
    /\ clientStatusWatches = [c \in Clients |-> {}]
    /\ clientDesiredSizes = [s \in Sessions |-> [c \in Clients |-> 0]]
    /\ effectiveSizes = [s \in Sessions |-> 0]
    /\ pendingOutput = [s \in Sessions |-> <<>>]
    /\ turn = "idle"
    /\ burst = 0
    /\ pipeServed = FALSE
    /\ view = [c \in Clients |-> [s \in Sessions |-> Blank]]
    /\ asked = [c \in Clients |-> [s \in Sessions |-> FALSE]]

-----------------------------------------------------------------------------
(* The event loop. *)

NoImmediates == \A s \in Sessions : pendingOutput[s] = <<>>

(* The callback is over unless it left continuations to run. *)
EndTurn(who) ==
    /\ turn' = IF micro' = <<>> THEN "idle" ELSE who
    /\ burst' = 0

(* Timers and close events come outside the poll phase. *)
Between == turn = "idle" /\ NoImmediates

(* A message of client c; ws hands over the messages of one TCP segment in
   one callback, so c may come again before its continuations have run. *)
ClientTurn(c, op) ==
    /\ op \in ClientOps
    /\ ws[c] \in {"open", "closing"}
    /\ turn \in {"idle", c}
    /\ gwConn # 0 => Len(toSup[gwConn]) + Len(toGw[gwConn]) < MaxQueued
    /\ Pipelined \/ (turn = "idle" /\ \A p \in pending : p.client # c)
    /\ pipeServed' = ~NoImmediates
    /\ EndTurn(c)

(* A line of pipe data; more lines of the read may follow before the
   continuations run.  One read is 64 KiB at most, less output than makes
   pendingOutput flush at once. *)
PipeTurn(type) ==
    /\ sock = "up"
    /\ turn \in {"idle", "pipe"}
    /\ ~pipeServed
    /\ toGw[gwConn] # <<>>
    /\ Head(toGw[gwConn]).type = type
    /\ toGw' = [toGw EXCEPT ![gwConn] = Tail(@)]
    /\ UNCHANGED pipeServed

EndLine(chunks) ==
    /\ turn' = IF micro' = <<>> THEN "idle" ELSE "pipe"
    /\ burst' = IF micro' = <<>> THEN 0 ELSE burst + chunks
    /\ burst' < CoalesceCap

-----------------------------------------------------------------------------
(* What clients see. *)

IsOpen(c) == ws[c] = "open"

(* One piece after the runs already on the screen. *)
Extend(runs, p) ==
    IF runs # <<>> /\ Last(runs).to + 1 = p.from
      THEN [runs EXCEPT ![Len(runs)].to = p.to]
      ELSE Append(runs, p)

Shown(runs, pieces) == FoldLeft(Extend, runs, pieces)

(* A bug to catch in Flushed: output is sent only when there is a lot. *)
FlushedWhenFull(v, s, pieces) ==
    [c \in Clients |->
        IF c \in sessionSubscribers[s] /\ IsOpen(c) /\ Length(pieces) >= CoalesceCap
          THEN [v[c] EXCEPT ![s].runs = Shown(@, pieces)]
          ELSE v[c]]

(* flushOutput: the pending output of s to its subscribers whose socket is open. *)
Flushed(v, s, pieces) ==
    [c \in Clients |->
        IF c \in sessionSubscribers[s] /\ IsOpen(c)
          THEN [v[c] EXCEPT ![s].runs = Shown(@, pieces)]
          ELSE v[c]]

(* The end of the poll phase: every scheduled flushOutput. *)
CheckPhase ==
    /\ turn = "idle"
    /\ ~NoImmediates
    /\ view' = [c \in Clients |-> [s \in Sessions |->
                  Flushed(view, s, pendingOutput[s])[c][s]]]
    /\ pendingOutput' = [s \in Sessions |-> <<>>]
    /\ pipeServed' = FALSE
    /\ UNCHANGED <<ipcVars, scVars, ws, relayVars, sizeVars, turn, burst, asked>>

-----------------------------------------------------------------------------
(* Terminal sizes: the terminal is as small as the smallest client wants. *)

Wanted(desired, s) == {desired[s][c] : c \in Clients} \ {0}

(* A bug to catch in Recomputed: a column more than the smallest client has. *)
RecomputedWider(desired, S) ==
    [s \in Sessions |->
        IF s \notin S THEN effectiveSizes[s]
        ELSE IF Wanted(desired, s) = {} THEN 0
        ELSE Min(Wanted(desired, s)) + 1]

(* recomputeEffectiveSize for the sessions in S, whose clients may all have
   gone (forgetClientSize then forgets the effective size too). *)
Recomputed(desired, S) ==
    [s \in Sessions |->
        IF s \notin S THEN effectiveSizes[s]
        ELSE IF Wanted(desired, s) = {} THEN 0
        ELSE Min(Wanted(desired, s))]

(* supervisor.resize, when the size is a new one. *)
ResizeLines(effective) ==
    LET changed == SetToSeq({s \in Sessions :
                              effective[s] \notin {0, effectiveSizes[s]}}) IN
    [i \in DOMAIN changed |->
        [Request("resize", changed[i], 0) EXCEPT !.size = effective[changed[i]]]]

(* forgetClientSize(c, s) for the sessions s in S. *)
WithoutSize(c, S) ==
    [s \in Sessions |-> IF s \in S THEN [clientDesiredSizes[s] EXCEPT ![c] = 0]
                                   ELSE clientDesiredSizes[s]]

(* A bug to catch in HadSize: no terminal is resized when a client leaves. *)
HadNoSize(c, S) == {}

HadSize(c, S) == {s \in S : clientDesiredSizes[s][c] # 0}

-----------------------------------------------------------------------------
(* Client c stops being attached to the sessions in A and stops watching
   those in W.  The supervisor subscription of a session goes when its last
   subscriber or watcher does. *)

(* A bug to catch in Without: the last client is not removed. *)
WithoutUnlessLast(index, c, S) ==
    [s \in Sessions |-> IF s \in S /\ index[s] # {c} THEN index[s] \ {c} ELSE index[s]]

Without(index, c, S) == [s \in Sessions |-> IF s \in S THEN index[s] \ {c} ELSE index[s]]

(* A bug to catch in Keep: watchers do not count. *)
KeepForSubscribers(subs, watchers, s) == subs[s] # {}

(* shouldKeepSupervisorSubscription *)
Keep(subs, watchers, s) == subs[s] # {} \/ watchers[s] # {}

Leave(c, A, W) ==
    LET subs == Without(sessionSubscribers, c, A)
        watchers == Without(statusWatchers, c, W)
        emptied(old, new) == {s \in Sessions : old[s] # {} /\ new[s] = {}}
        dropped == {s \in subscribed :
                      /\ s \in emptied(sessionSubscribers, subs) \cup emptied(statusWatchers, watchers)
                      /\ ~Keep(subs, watchers, s)}
        desired == WithoutSize(c, A)
        effective == Recomputed(desired, HadSize(c, A))
    IN  /\ sessionSubscribers' = subs
        /\ statusWatchers' = watchers
        /\ clientSubscriptions' = [clientSubscriptions EXCEPT ![c] = @ \ A]
        /\ clientStatusWatches' = [clientStatusWatches EXCEPT ![c] = @ \ W]
        /\ ForgetSubscribed(dropped)
        /\ clientDesiredSizes' = desired
        /\ effectiveSizes' = effective
        /\ Post(UnsubscribeLines(dropped) \o ResizeLines(effective))

-----------------------------------------------------------------------------
(* Messages from clients. *)

Ask(kind, c, s, attach) ==
    [id |-> 0, kind |-> kind, client |-> c, sid |-> s, attach |-> attach]

(* create_session, create_ssh_session *)
CreateMessage(c, s, kind, attach) ==
    /\ nextReqId < MaxReq
    /\ attach /\ asked[c][s] => "reattach" \in ClientOps
    /\ IssueRequest(Ask(kind, c, s, attach), micro)
    /\ ClientTurn(c, kind)
    /\ asked' = [asked EXCEPT ![c][s] = @ \/ attach]
    /\ UNCHANGED <<toGw, sock, gwConn, sessionCache, subscribed, localScrollback,
                   ws, relayVars, sizeVars, pendingOutput, view>>

(* attach: refused outright when the session is not in the cache.  "reattach"
   lets a client ask again for what it has asked for. *)
AttachMessage(c, s) ==
    /\ nextReqId < MaxReq
    /\ ~asked[c][s] \/ "reattach" \in ClientOps
    /\ s \in sessionCache
    /\ EnsureSubscribed(Ask("attach", c, s, TRUE), micro)
    /\ ClientTurn(c, "attach")
    /\ asked' = [asked EXCEPT ![c][s] = TRUE]
    /\ UNCHANGED <<toGw, sock, gwConn, sessionCache, subscribed, localScrollback,
                   ws, relayVars, sizeVars, pendingOutput, view>>

(* detach *)
DetachMessage(c, s) ==
    /\ Leave(c, {s}, {})
    /\ asked' = [asked EXCEPT ![c][s] = FALSE]
    /\ UNCHANGED micro
    /\ ClientTurn(c, "detach")
    /\ UNCHANGED <<toGw, sock, gwConn, sessionCache, pending, nextReqId,
                   ws, pendingOutput, view>>

(* watch_status: the watch is recorded first, then the subscription made. *)
WatchMessage(c, s) ==
    /\ nextReqId < MaxReq
    /\ s \in sessionCache
    /\ statusWatchers' = [statusWatchers EXCEPT ![s] = @ \cup {c}]
    /\ clientStatusWatches' = [clientStatusWatches EXCEPT ![c] = @ \cup {s}]
    /\ EnsureSubscribed(Ask("watch", c, s, FALSE), micro)
    /\ ClientTurn(c, "watch")
    /\ UNCHANGED <<toGw, sock, gwConn, sessionCache, subscribed, localScrollback,
                   ws, sessionSubscribers, clientSubscriptions, sizeVars,
                   pendingOutput, view, asked>>

UnwatchMessage(c, s) ==
    /\ Leave(c, {}, {s})
    /\ UNCHANGED micro
    /\ ClientTurn(c, "unwatch")
    /\ UNCHANGED <<toGw, sock, gwConn, sessionCache, pending, nextReqId,
                   ws, pendingOutput, view, asked>>

(* resize: applyClientResize, whether or not the client is attached. *)
ResizeMessage(c, s, size) ==
    /\ s \in sessionCache
    /\ clientDesiredSizes' = [clientDesiredSizes EXCEPT ![s][c] = size]
    /\ LET effective == Recomputed(clientDesiredSizes', {s}) IN
         /\ effectiveSizes' = effective
         /\ Post(ResizeLines(effective))
    /\ UNCHANGED micro
    /\ ClientTurn(c, "resize")
    /\ UNCHANGED <<toGw, sock, gwConn, sessionCache, subscribed, localScrollback,
                   pending, nextReqId, ws, relayVars, pendingOutput, view, asked>>

(* input goes to the pipe unconditionally, kill only for a known session. *)
ForwardMessage(c, s, op) ==
    /\ op = "kill" => s \in sessionCache
    /\ Post(<<Request(op, s, 0)>>)
    /\ UNCHANGED micro
    /\ ClientTurn(c, op)
    /\ UNCHANGED <<toGw, sock, gwConn, sessionCache, subscribed, localScrollback,
                   pending, nextReqId, ws, relayVars, sizeVars, pendingOutput, view, asked>>

-----------------------------------------------------------------------------
(* Continuations. *)

(* attachClientToSession after ensureSubscribed: the client is registered,
   told, and given the replay.  Nothing asks whether it is still there. *)
Attached(k) ==
    /\ k.kind = "attach"
    /\ micro' = Tail(micro)
    /\ IF k.ok
         THEN /\ sessionSubscribers' = [sessionSubscribers EXCEPT ![k.sid] = @ \cup {k.client}]
              /\ clientSubscriptions' = [clientSubscriptions EXCEPT ![k.client] = @ \cup {k.sid}]
              /\ view' = IF IsOpen(k.client)
                           THEN [view EXCEPT ![k.client][k.sid] =
                                   [Blank EXCEPT !.runs = Shown(<<>>, k.output)]]
                           ELSE view
         ELSE UNCHANGED <<sessionSubscribers, clientSubscriptions, view>>
    /\ UNCHANGED <<ipcVars, pending, nextReqId, subscribed, localScrollback,
                   statusWatchers, clientStatusWatches, sizeVars>>

(* create_session after supervisor.create: session_created, then the attach. *)
Created(k) ==
    /\ k.kind \in Creates
    /\ IF k.ok /\ k.attach
         THEN EnsureSubscribed(Ask("attach", k.client, k.sid, TRUE), Tail(micro))
         ELSE micro' = Tail(micro) /\ UNCHANGED <<pending, nextReqId, toSup>>
    /\ UNCHANGED <<toGw, subscribed, localScrollback, relayVars, sizeVars, view>>

(* watch_status after ensureSubscribed: undone if it failed. *)
Watched(k) ==
    /\ k.kind = "watch"
    /\ micro' = Tail(micro)
    /\ IF k.ok
         THEN UNCHANGED <<relayVars, sizeVars, subscribed, localScrollback, toSup>>
         ELSE Leave(k.client, {}, {k.sid})
    /\ UNCHANGED <<toGw, pending, nextReqId, view>>

Continue ==
    /\ micro # <<>>
    /\ LET k == Head(micro) IN
         \/ /\ k.step = "reply"
            /\ ResumeMethod(k)
            /\ UNCHANGED <<ipcVars, pending, nextReqId, relayVars, sizeVars, view>>
         \/ /\ k.step = "caller"
            /\ Attached(k) \/ Created(k) \/ Watched(k)
            /\ UNCHANGED sessionCache
    /\ EndTurn("draining")
    /\ UNCHANGED <<sock, gwConn, ws, pendingOutput, pipeServed, asked>>

-----------------------------------------------------------------------------
(* Frames from the supervisor: SupervisorClient.handleMessage and the
   listeners of ws-server.ts it calls. *)

Incoming == Head(toGw[gwConn])

(* Nothing but the reading of the line. *)
Ignored ==
    UNCHANGED <<toSup, sock, gwConn, sessionCache, subscribed, localScrollback, pending,
                nextReqId, micro, ws, relayVars, sizeVars, pendingOutput, view, asked>>

GotHello == PipeTurn("hello") /\ Ignored /\ EndLine(0)
GotUnsubscribed == PipeTurn("unsubscribed") /\ Ignored /\ EndLine(0)

(* sessions: the cache is rebuilt; no request of the gateway waits for it. *)
GotSessions ==
    /\ PipeTurn("sessions")
    /\ sessionCache' = Incoming.list
    /\ UNCHANGED micro
    /\ EndLine(0)
    /\ UNCHANGED <<toSup, sock, gwConn, subscribed, localScrollback, pending, nextReqId,
                   ws, relayVars, sizeVars, pendingOutput, view, asked>>

GotCreated ==
    /\ PipeTurn("created")
    /\ sessionCache' = sessionCache \cup {Incoming.sid}
    /\ Settle(Incoming)
    /\ EndLine(0)
    /\ UNCHANGED <<toSup, sock, gwConn, subscribed, localScrollback, nextReqId,
                   ws, relayVars, sizeVars, pendingOutput, view, asked>>

FitsLine(f) == f.to - f.from + 1 <= MaxLine

GotSubscribed ==
    /\ PipeTurn("subscribed")
    /\ FitsLine(Incoming)
    /\ sessionCache' = sessionCache \cup {Incoming.sid}
    /\ Settle(Incoming)
    /\ EndLine(0)
    /\ UNCHANGED <<toSup, sock, gwConn, subscribed, localScrollback, nextReqId,
                   ws, relayVars, sizeVars, pendingOutput, view, asked>>

(* A read with a scrollback in it that does not fit the line limit: the    *)
(* connection is given up, and no line of that read is handled.            *)
GotOversized ==
    /\ sock = "up" /\ turn = "idle" /\ ~pipeServed
    /\ \E n \in DOMAIN toGw[gwConn] :
          toGw[gwConn][n].type = "subscribed" /\ ~FitsLine(toGw[gwConn][n])
    /\ sock' = "dead"
    /\ UNCHANGED <<ipcVars, gwConn, sessionCache, subscribed, localScrollback, pending,
                   nextReqId, micro, gwVars>>

GotError ==
    /\ PipeTurn("error")
    /\ Settle(Incoming)
    /\ EndLine(0)
    /\ UNCHANGED <<toSup, sock, gwConn, sessionCache, subscribed, localScrollback, nextReqId,
                   ws, relayVars, sizeVars, pendingOutput, view, asked>>

(* output: kept in the local scrollback only if subscribed by now; fanned
   out at the end of the poll phase, or at once when there is a lot. *)
GotOutput ==
    LET s == Incoming.sid
        p == Piece(Incoming.from, Incoming.to)
        pieces == Append(pendingOutput[s], p) IN
    /\ PipeTurn("output")
    /\ UNCHANGED micro
    /\ EndLine(1)
    /\ IF s \in subscribed THEN Remember(s, p) ELSE UNCHANGED localScrollback
    /\ IF Length(pieces) >= CoalesceCap
         THEN /\ view' = Flushed(view, s, pieces)
              /\ pendingOutput' = [pendingOutput EXCEPT ![s] = <<>>]
         ELSE /\ pendingOutput' = [pendingOutput EXCEPT ![s] = pieces]
              /\ UNCHANGED view
    /\ UNCHANGED <<toSup, sock, gwConn, sessionCache, subscribed, pending, nextReqId,
                   ws, relayVars, sizeVars, asked>>

(* A bug to catch in GotExit: the coalesced output is left for later. *)
GotExitUnflushed ==
    LET s == Incoming.sid IN
    /\ PipeTurn("exit")
    /\ UNCHANGED micro
    /\ EndLine(0)
    /\ view' = [c \in Clients |->
                  IF c \in sessionSubscribers[s] /\ IsOpen(c)
                    THEN [view[c] EXCEPT ![s].exited = TRUE]
                    ELSE view[c]]
    /\ UNCHANGED <<toSup, sock, gwConn, sessionCache, subscribed, localScrollback, pending,
                   nextReqId, ws, relayVars, sizeVars, pendingOutput, asked>>

(* exit: the coalesced output goes out first, then the exit frame. *)
GotExit ==
    LET s == Incoming.sid
        flushed == Flushed(view, s, pendingOutput[s]) IN
    /\ PipeTurn("exit")
    /\ UNCHANGED micro
    /\ EndLine(0)
    /\ pendingOutput' = [pendingOutput EXCEPT ![s] = <<>>]
    /\ view' = [c \in Clients |->
                  IF c \in sessionSubscribers[s] /\ IsOpen(c)
                    THEN [flushed[c] EXCEPT ![s].exited = TRUE]
                    ELSE flushed[c]]
    /\ UNCHANGED <<toSup, sock, gwConn, sessionCache, subscribed, localScrollback, pending,
                   nextReqId, ws, relayVars, sizeVars, asked>>

(* removed: everything kept about the session goes. *)
GotRemoved ==
    LET s == Incoming.sid IN
    /\ PipeTurn("removed")
    /\ UNCHANGED micro
    /\ EndLine(0)
    /\ sessionCache' = sessionCache \ {s}
    /\ ForgetSubscribed({s})
    /\ pendingOutput' = [pendingOutput EXCEPT ![s] = <<>>]
    /\ sessionSubscribers' = [sessionSubscribers EXCEPT ![s] = {}]
    /\ statusWatchers' = [statusWatchers EXCEPT ![s] = {}]
    /\ clientSubscriptions' = [c \in Clients |-> clientSubscriptions[c] \ {s}]
    /\ clientStatusWatches' = [c \in Clients |-> clientStatusWatches[c] \ {s}]
    /\ clientDesiredSizes' = [clientDesiredSizes EXCEPT ![s] = [c \in Clients |-> 0]]
    /\ effectiveSizes' = [effectiveSizes EXCEPT ![s] = 0]
    /\ UNCHANGED <<toSup, sock, gwConn, pending, nextReqId, ws, view, asked>>

ReadFrame ==
    \/ GotHello \/ GotSessions \/ GotCreated \/ GotSubscribed
    \/ GotUnsubscribed \/ GotError \/ GotOutput \/ GotExit \/ GotRemoved

-----------------------------------------------------------------------------
(* The pipe's own events. *)

(* connect(): from start() or the retry timer; each time a new connection. *)
Connect ==
    /\ Between
    /\ sock = "down"
    /\ gwConn + 1 \in Conns
    /\ gwConn' = gwConn + 1
    /\ sock' = "connecting"
    /\ UNCHANGED <<ipcVars, sessionCache, subscribed, localScrollback, pending,
                   nextReqId, micro, gwVars>>

(* The 'connect' event: `hello' goes out, behind what was written already. *)
Connected ==
    /\ Between
    /\ sock = "connecting"
    /\ sock' = "up"
    /\ toSup' = [toSup EXCEPT ![gwConn] = Append(@, Request("hello", NoSession, 0))]
    /\ UNCHANGED <<toGw, gwConn, sessionCache, subscribed, localScrollback, pending,
                   nextReqId, micro, gwVars>>

(* The 'close' event: promises are rejected, then the 'disconnected'
   listener closes every client and forgets who was attached to what. *)
Disconnected ==
    /\ Between
    /\ sock # "down"
    /\ sock' = "down"
    /\ ForgetSubscribed(subscribed)
    /\ FailPending
    /\ EndTurn("draining")
    /\ ws' = [c \in Clients |-> IF IsOpen(c) THEN "closing" ELSE ws[c]]
    /\ sessionSubscribers' = [s \in Sessions |-> {}]
    /\ clientSubscriptions' = [c \in Clients |-> {}]
    /\ statusWatchers' = [s \in Sessions |-> {}]
    /\ clientStatusWatches' = [c \in Clients |-> {}]
    /\ clientDesiredSizes' = [s \in Sessions |-> [c \in Clients |-> 0]]
    /\ effectiveSizes' = [s \in Sessions |-> 0]
    /\ UNCHANGED <<ipcVars, gwConn, sessionCache, nextReqId, pendingOutput,
                   pipeServed, view, asked>>

(* The timer of a request: it is forgotten and its promise rejected. *)
RequestTimeout(p) ==
    /\ Between
    /\ p \in pending
    /\ pending' = pending \ {p}
    /\ micro' = Rejected({p})
    /\ EndTurn("draining")
    /\ UNCHANGED <<ipcVars, sock, gwConn, sessionCache, subscribed, localScrollback,
                   nextReqId, ws, relayVars, sizeVars, pendingOutput, pipeServed, view, asked>>

-----------------------------------------------------------------------------
(* The clients' own events. *)

ClientConnect(c) ==
    /\ turn = "idle"
    /\ ws[c] = "new"
    /\ ws' = [ws EXCEPT ![c] = "open"]
    /\ UNCHANGED <<ipcVars, scVars, relayVars, sizeVars, pendingOutput, loopVars, view, asked>>

(* safeWsSend gives up on a client that does not read. *)
ClientTerminated(c) ==
    /\ turn = "idle"
    /\ IsOpen(c)
    /\ ws' = [ws EXCEPT ![c] = "terminated"]
    /\ UNCHANGED <<ipcVars, scVars, relayVars, sizeVars, pendingOutput, loopVars, view, asked>>

(* ws.on('close'): removeAllSubscriptions, removeAllStatusWatches. *)
ClientClosed(c) ==
    /\ Between
    /\ ws[c] \in {"open", "closing", "terminated"}
    /\ ws' = [ws EXCEPT ![c] = "closed"]
    /\ Leave(c, clientSubscriptions[c], clientStatusWatches[c])
    /\ UNCHANGED <<toGw, sock, gwConn, sessionCache, pending, nextReqId, micro,
                   pendingOutput, loopVars, view, asked>>

ClientMessageFrom(c) ==
    \E s \in Sessions :
        \/ \E kind \in Creates, attach \in BOOLEAN : CreateMessage(c, s, kind, attach)
        \/ AttachMessage(c, s)
        \/ DetachMessage(c, s)
        \/ WatchMessage(c, s)
        \/ UnwatchMessage(c, s)
        \/ \E size \in Sizes : ResizeMessage(c, s, size)
        \/ \E op \in {"input", "kill"} : ForwardMessage(c, s, op)

=============================================================================
