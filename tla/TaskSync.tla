------------------------------- MODULE TaskSync -------------------------------
(***************************************************************************)
(* How the manual tasks of the backend reach the desktop.  The backend     *)
(* stores the list and announces every change twice: as a server-sent      *)
(* event the desktop reads, and to the gateway over a WebSocket            *)
(* (core/websocket-events.ts), which keeps the newest list and relays it   *)
(* to the desktop over another.  The desktop (desktop/src/main/main.ts)    *)
(* applies both streams to one list, in whatever order they arrive.  What  *)
(* it adds to the list itself it tells nobody.                             *)
(*                                                                         *)
(* Connections break and come back, the gateway is restarted without its   *)
(* copy, and the backend is restarted with the list it saved.              *)
(***************************************************************************)
EXTENDS Naturals, Sequences, FiniteSets, Functions

CONSTANTS
    Tasks,       \* task ids of the backend
    OwnTasks,    \* ids the desktop gives to tasks it adds itself
    Cap,         \* MAX_MANUAL_TASKS
    PendingCap,  \* MAX_PENDING_MESSAGES
    Auths,       \* tokens the run considers: subset of {"none", "good", "bad"}
    MaxChanges,  \* bound: changes of the two lists by their owners
    MaxFaults    \* bound: broken connections and restarts

ASSUME TaskSyncAssumption ==
    /\ Cap \in Nat \ {0} /\ MaxChanges \in Nat /\ MaxFaults \in Nat
    /\ PendingCap \in Nat /\ PendingCap > 1 \* a list and the task that is new in it
    /\ "none" \notin Tasks /\ Tasks \cap OwnTasks = {}
    /\ Auths \subseteq {"none", "good", "bad"}

VARIABLES
    tasks,     \* the backend's list, newest first; what it saved is the same
    gone,      \* ids that were removed: an id is made for one task
    pub,       \* the publisher's variables, a record (PubInit)
    toGw,      \* messages sent on the publisher's connection, not yet read
    gateway,   \* "up" or "down"
    latest,    \* the gateway's latestManualTasks, NoList before the first
    ws,        \* the desktop's WebSocket: "closed", "open" or "refused"
    toDesk,    \* messages the gateway sent on it
    sse,       \* the desktop's event stream: "closed" or "open"
    wire,      \* events written to it and not yet read
    parser,    \* what the desktop holds of an unfinished event
    shown,     \* the desktop's list
    replies,   \* removals whose HTTP response has not reached the desktop
    auth,      \* what the gateway's token check makes of the others' token
    lost,      \* history: was news of the last change lost with a process?
    strayed,   \* history: has the desktop changed its list since it was sent a whole one?
    changes, faults

pubVars == <<pub, toGw>>
gwVars == <<gateway, latest>>
deskVars == <<ws, toDesk, sse, wire, parser, shown, replies>>
bounds == <<auth, lost, strayed, changes, faults>>
vars == <<tasks, gone, pubVars, gwVars, deskVars, bounds>>

NoList == <<"none">>

PubInit == [sock |-> "none", ready |-> FALSE, connecting |-> FALSE, timer |-> FALSE,
            pending |-> <<>>, disabled |-> FALSE]

IdleParser == [buf |-> "none", cur |-> "message", data |-> <<>>]

Init ==
    /\ tasks = <<>> /\ gone = {}
    /\ pub = PubInit /\ toGw = <<>>
    /\ gateway = "up" /\ latest = NoList
    /\ ws = "closed" /\ toDesk = <<>>
    /\ sse = "closed" /\ wire = <<>> /\ parser = IdleParser
    /\ shown = <<>> /\ replies = {}
    /\ auth \in Auths /\ lost = FALSE /\ strayed = FALSE /\ changes = 0 /\ faults = 0

(* The list without t, which is on it once at most (TypeOK). *)
Except(list, t) ==
    IF t \notin Range(list) THEN list
    ELSE LET n == CHOOSE k \in DOMAIN list : list[k] = t
         IN  [k \in 1 .. Len(list) - 1 |-> IF k < n THEN list[k] ELSE list[k + 1]]

Snapshot(list) == [type |-> "manual_tasks", tasks |-> list]
Added(t) == [type |-> "manual_task_created", task |-> t]

-----------------------------------------------------------------------------
(* The publisher.  An operator takes and returns p = [pub, out]: its       *)
(* variables and what it has written to the current connection.            *)

(* connectBackendWebSocket.  A connection that is open but not ready does  *)
(* not count as connecting: it is then left behind for a new one.          *)
PubConnect(p) ==
    IF p.pub.ready \/ p.pub.connecting \/ p.pub.disabled THEN p
    ELSE [pub |-> [p.pub EXCEPT !.timer = FALSE, !.connecting = TRUE, !.sock = "opening"],
          out |-> <<>>]

(* A bug to catch in LastOf: the newest messages are dropped. *)
FirstOf(q, n) == IF Len(q) > n THEN SubSeq(q, 1, n) ELSE q

(* The oldest messages are dropped from a full queue. *)
LastOf(q, n) == IF Len(q) > n THEN SubSeq(q, Len(q) - n + 1, Len(q)) ELSE q

(* Data sent to a socket whose peer is gone is lost without an error. *)
Sent(p, m) == IF p.pub.sock = "dead" THEN p ELSE [p EXCEPT !.out = Append(@, m)]

Enqueue(p, m) ==
    IF p.pub.disabled THEN p
    ELSE IF p.pub.ready /\ p.pub.sock \in {"open", "dead"} THEN Sent(p, m)
    ELSE PubConnect([p EXCEPT !.pub.pending = LastOf(Append(@, m), PendingCap)])

Publisher == [pub |-> pub, out |-> toGw]

Publish(p) == pub' = p.pub /\ toGw' = p.out

SocketOpens ==
    /\ pub.sock = "opening" /\ gateway = "up"
    /\ pub' = [pub EXCEPT !.sock = "open", !.connecting = FALSE]
    /\ UNCHANGED <<tasks, gone, toGw, gwVars, deskVars, bounds>>

(* `ready' without a token, or `authenticated': everything pending goes    *)
(* out, in order.                                                          *)
SocketReady ==
    /\ pub.sock = "open" /\ ~pub.ready /\ auth # "bad"
    /\ pub' = [pub EXCEPT !.ready = TRUE, !.connecting = FALSE, !.pending = <<>>]
    /\ toGw' = toGw \o pub.pending
    /\ UNCHANGED <<tasks, gone, gwVars, deskVars, bounds>>

(* disablePublisher: the token is refused, for good. *)
SocketRefused ==
    /\ pub.sock = "open" /\ ~pub.ready /\ auth = "bad"
    /\ pub' = [PubInit EXCEPT !.disabled = TRUE, !.timer = pub.timer]
    /\ toGw' = <<>>
    /\ UNCHANGED <<tasks, gone, gwVars, deskVars, bounds>>

(* A bug to catch in SocketCloses: no reconnection. *)
ClosesForGood ==
    /\ pub.sock = "dead" \/ (pub.sock = "opening" /\ gateway = "down")
    /\ pub' = [pub EXCEPT !.sock = "none", !.ready = FALSE, !.connecting = FALSE]
    /\ UNCHANGED <<tasks, gone, toGw, gwVars, deskVars, bounds>>

(* The `close' event of the current socket. *)
SocketCloses ==
    /\ pub.sock = "dead" \/ (pub.sock = "opening" /\ gateway = "down")
    /\ pub' = [pub EXCEPT !.sock = "none", !.ready = FALSE, !.connecting = FALSE,
                          !.timer = @ \/ pub.pending # <<>>]
    /\ UNCHANGED <<tasks, gone, toGw, gwVars, deskVars, bounds>>

ReconnectTimer ==
    /\ pub.timer
    /\ Publish(PubConnect([Publisher EXCEPT !.pub.timer = FALSE]))
    /\ UNCHANGED <<tasks, gone, gwVars, deskVars, bounds>>

-----------------------------------------------------------------------------
(* The backend's list.  Each handler saves it, writes the event stream and *)
(* publishes the list, in one step.                                        *)

Event(list) == <<[kind |-> "event", val |-> "state"], [kind |-> "data", val |-> list],
                 [kind |-> "blank", val |-> "none"]>>

(* broadcastManualTasks: the list and the state go out as two events, with *)
(* the same list; they are one here.                                       *)
Announce(list) == wire' = IF sse = "open" THEN Append(wire, Event(list)) ELSE wire

(* Every change carries the whole list, so it makes up for what was lost. *)
Counted == changes < MaxChanges /\ changes' = changes + 1
Changed == Counted /\ lost' = FALSE

StoreManualTask(t) ==
    /\ Changed /\ t \notin gone
    /\ LET list == FirstOf(<<t>> \o Except(tasks, t), Cap)
       IN  /\ tasks' = list
           /\ Announce(list)
           /\ Publish(Enqueue(Enqueue(Publisher, Snapshot(list)), Added(t)))
    /\ UNCHANGED <<gone, gwVars, ws, toDesk, sse, parser, shown, replies, auth, strayed, faults>>

(* A removal, asked for by the desktop, which awaits the response, or by   *)
(* another client.                                                         *)
RemoveManualTask(t) ==
    /\ Changed /\ t \in Range(tasks)
    /\ LET list == Except(tasks, t)
       IN  /\ tasks' = list
           /\ gone' = gone \cup {t}
           /\ Announce(list)
           /\ Publish(Enqueue(Publisher, Snapshot(list)))
    /\ \E asked \in BOOLEAN : replies' = IF asked THEN replies \cup {t} ELSE replies
    /\ UNCHANGED <<gwVars, ws, toDesk, sse, parser, shown, auth, strayed, faults>>

-----------------------------------------------------------------------------
(* The gateway: ws-server.ts. *)

(* broadcastManualTasks, broadcastManualTaskCreated. *)
GatewayReads ==
    /\ toGw # <<>> /\ gateway = "up"
    /\ LET m == Head(toGw)
       IN  /\ latest' = IF m.type = "manual_tasks" THEN m.tasks
                        ELSE <<m.task>> \o (IF latest = NoList THEN <<>> ELSE Except(latest, m.task))
           /\ toDesk' = IF ws = "open" THEN Append(toDesk, m) ELSE toDesk
    /\ toGw' = Tail(toGw)
    /\ UNCHANGED <<tasks, gone, pub, gateway, ws, sse, wire, parser, shown, replies, bounds>>

(* Its copy goes with it, and so does what it had not read or the desktop  *)
(* has not seen of it.                                                     *)
GatewayStops ==
    /\ gateway = "up" /\ faults < MaxFaults
    /\ gateway' = "down" /\ latest' = NoList
    /\ toGw' = <<>>
    /\ pub' = IF pub.sock = "open" THEN [pub EXCEPT !.sock = "dead"] ELSE pub
    /\ ws' = (IF ws = "open" THEN "closed" ELSE ws) /\ toDesk' = <<>>
    /\ faults' = faults + 1
    /\ lost' = (lost \/ toGw # <<>> \/ toDesk # <<>> \/ ws = "closed")
    /\ UNCHANGED <<tasks, gone, sse, wire, parser, shown, replies, auth, strayed, changes>>

GatewayStarts ==
    /\ gateway = "down" /\ gateway' = "up"
    /\ UNCHANGED <<tasks, gone, pubVars, latest, deskVars, bounds>>

-----------------------------------------------------------------------------
(* The desktop's WebSocket (startBackendTaskWebSocketSync).                *)

(* It connects, says hello when asked to, and is sent the gateway's list   *)
(* if the gateway has one; a refused token stops it for good.              *)
DesktopConnects ==
    /\ ws = "closed" /\ gateway = "up"
    /\ ws' = IF auth = "bad" THEN "refused" ELSE "open"
    /\ toDesk' = IF auth # "bad" /\ latest # NoList THEN <<Snapshot(latest)>> ELSE <<>>
    /\ UNCHANGED <<tasks, gone, pubVars, gwVars, sse, wire, parser, shown, replies, bounds>>

DesktopDisconnected ==
    /\ ws = "open" /\ faults < MaxFaults
    /\ ws' = "closed" /\ toDesk' = <<>>
    /\ faults' = faults + 1
    /\ UNCHANGED <<tasks, gone, pubVars, gwVars, sse, wire, parser, shown, replies, auth, lost, strayed, changes>>

(* applyStandaloneBackendManualTasks, applyStandaloneBackendManualTask. *)
DesktopReads ==
    /\ ws = "open" /\ toDesk # <<>>
    /\ LET m == Head(toDesk)
           whole == m.type = "manual_tasks"
       IN  /\ shown' = IF whole THEN m.tasks ELSE <<m.task>> \o Except(shown, m.task)
           /\ strayed' = (strayed /\ ~whole)
    /\ toDesk' = Tail(toDesk)
    /\ UNCHANGED <<tasks, gone, pubVars, gwVars, ws, sse, wire, parser, replies, auth, lost, changes, faults>>

(* addManualTask, as a mirror too: what the window adds, or a recurring    *)
(* rule that is due.                                                       *)
DesktopAdds(t) ==
    /\ Counted
    /\ shown' = FirstOf(<<t>> \o Except(shown, t), Cap)
    /\ strayed' = TRUE
    /\ UNCHANGED <<tasks, gone, pubVars, gwVars, ws, toDesk, sse, wire, parser, replies, auth, lost, faults>>

(* Such a task is removed like any other, by a request to the backend,     *)
(* which finds nothing to remove.                                          *)
DesktopRemoves(t) ==
    /\ Counted /\ t \in Range(shown)
    /\ replies' = replies \cup {t}
    /\ UNCHANGED <<tasks, gone, pubVars, gwVars, ws, toDesk, sse, wire, parser, shown, auth, lost,
                   strayed, faults>>

(* removeStandaloneBackendManualTask, when the response arrives. *)
RemovalAnswered(t) ==
    /\ t \in replies
    /\ replies' = replies \ {t}
    /\ shown' = Except(shown, t)
    /\ UNCHANGED <<tasks, gone, pubVars, gwVars, ws, toDesk, sse, wire, parser, bounds>>

-----------------------------------------------------------------------------
(* The desktop's event stream.  Its parser reads line by line, over chunk  *)
(* boundaries; what it holds of an unfinished line or event survives a     *)
(* broken stream.                                                          *)

(* One more line, or the end of the line that was cut. *)
LineRead(p, line) ==
    LET whole == p.buf = "none"
        kind == IF whole THEN line.kind ELSE p.buf
        q == [p EXCEPT !.buf = "none"]
    IN  CASE kind = "event" -> [q EXCEPT !.cur = IF whole THEN line.val ELSE "garbled"]
          [] kind = "data" -> [q EXCEPT !.data = Append(@, [whole |-> whole, list |-> IF whole THEN line.val ELSE <<>>])]
          [] kind = "blank" -> IdleParser
          [] OTHER -> q

(* dispatchStandaloneBackendEvent: what a blank line makes of the list; a  *)
(* whole one has nothing of the desktop's own. *)
Dispatched(p, line, list) ==
    IF p.buf = "none" /\ line.kind = "blank" /\ p.cur = "state" /\ Len(p.data) = 1 /\ p.data[1].whole
      THEN [tasks |-> p.data[1].list, own |-> FALSE] ELSE list

StreamRead(s, line) ==
    [p |-> LineRead(s.p, line), list |-> Dispatched(s.p, line, s.list)]

(* handleStandaloneBackendEventsChunk on the lines of s. *)
ChunkRead(s, lines) ==
    LET after[n \in 0 .. Len(lines)] ==
            IF n = 0 THEN s ELSE StreamRead(after[n - 1], lines[n])
    IN  after[Len(lines)]

Stream == [p |-> parser, list |-> [tasks |-> shown, own |-> strayed]]

Shows(list) == shown' = list.tasks /\ strayed' = list.own

Apply(lines) ==
    \E r \in {ChunkRead(Stream, lines)} :
        parser' = r.p /\ Shows(r.list)

(* A bug to catch in Preamble: the stream begins with its first event. *)
NoPreamble == <<>>

(* `: connected' and a blank line: written before the state. *)
Preamble == <<[kind |-> "comment", val |-> "none"], [kind |-> "blank", val |-> "none"]>>

EventsConnect ==
    /\ sse = "closed"
    /\ sse' = "open"
    /\ wire' = <<Preamble \o Event(tasks)>>
    /\ UNCHANGED <<tasks, gone, pubVars, gwVars, ws, toDesk, parser, shown, replies, bounds>>

EventRead ==
    /\ sse = "open" /\ wire # <<>>
    /\ Apply(Head(wire))
    /\ wire' = Tail(wire)
    /\ UNCHANGED <<tasks, gone, pubVars, gwVars, ws, toDesk, sse, replies, auth, lost, changes, faults>>

(* The stream ends after some whole events, n lines of the next, and, if   *)
(* torn, part of one more.                                                 *)
Cut ==
    IF wire = <<>> THEN UNCHANGED <<parser, shown, strayed>>
    ELSE \E n \in 0 .. Len(Head(wire)) - 1, torn \in BOOLEAN :
             \E r \in {ChunkRead(Stream, SubSeq(Head(wire), 1, n))} :
                 /\ parser' = IF torn /\ r.p.buf = "none" /\ Head(wire)[n + 1].kind # "blank"
                              THEN [r.p EXCEPT !.buf = Head(wire)[n + 1].kind] ELSE r.p
                 /\ Shows(r.list)

EventsEnd ==
    /\ sse = "open" /\ faults < MaxFaults
    /\ faults' = faults + 1
    /\ sse' = "closed" /\ wire' = <<>>
    /\ Cut
    /\ UNCHANGED <<tasks, gone, pubVars, gwVars, ws, toDesk, replies, auth, lost, changes>>

(* The backend is restarted, once the gateway has read what it was sent.   *)
(* The publisher starts anew, without what it had pending.                 *)
BackendRestarts ==
    /\ faults < MaxFaults /\ faults' = faults + 1
    /\ toGw = <<>>
    /\ lost' = (lost \/ pub.pending # <<>>)
    /\ pub' = PubInit
    /\ sse' = "closed" /\ wire' = <<>>
    /\ IF sse = "open" THEN Cut ELSE UNCHANGED <<parser, shown, strayed>>
    /\ UNCHANGED <<tasks, gone, toGw, gwVars, ws, toDesk, replies, auth, changes>>

-----------------------------------------------------------------------------
Next ==
    \/ SocketOpens \/ SocketReady \/ SocketRefused \/ SocketCloses \/ ReconnectTimer
    \/ \E t \in Tasks : StoreManualTask(t) \/ RemoveManualTask(t) \/ RemovalAnswered(t)
    \/ \E t \in OwnTasks : DesktopAdds(t) \/ DesktopRemoves(t) \/ RemovalAnswered(t)
    \/ GatewayReads \/ GatewayStops \/ GatewayStarts
    \/ DesktopConnects \/ DesktopDisconnected \/ DesktopReads
    \/ EventsConnect \/ EventRead \/ EventsEnd
    \/ BackendRestarts

Spec == Init /\ [][Next]_vars

(* Every step but a change, a fault and the start of the gateway: what is  *)
(* sent is read, a connection attempt ends, a timer fires.                 *)
Progress == UNCHANGED <<changes, faults, gateway>> /\ Next

(* A gateway that stopped is started again. *)
Fairness == WF_vars(Progress) /\ WF_vars(GatewayStarts)

LiveSpec == Spec /\ Fairness

-----------------------------------------------------------------------------
ListsOf(S, n) == {s \in UNION {[1 .. k -> S] : k \in 0 .. n} :
                  \A i, j \in DOMAIN s : s[i] = s[j] => i = j}
Capped == ListsOf(Tasks, Cap)
Uncapped(S) == ListsOf(S, Cardinality(S))

(* Only the backend's list is capped; none names a task twice. *)
TypeOK ==
    /\ tasks \in Capped /\ latest \in Uncapped(Tasks) \cup {NoList}
    /\ shown \in Uncapped(Tasks \cup OwnTasks) /\ strayed \in BOOLEAN
    /\ Len(pub.pending) <= PendingCap
    /\ pub.connecting => pub.sock = "opening"
    /\ pub.ready => pub.sock \in {"open", "dead"} /\ pub.pending = <<>>

(* Nothing is under way between the three processes. *)
Quiet == /\ toGw = <<>> /\ pub.pending = <<>> /\ toDesk = <<>> /\ wire = <<>> /\ replies = {}
         /\ sse = "open" /\ ws # "closed"

(* Whatever was interleaved, torn and restarted: once nothing is under     *)
(* way, the desktop shows the backend's list (both appliers of main.ts),   *)
(* unless the last change was lost with a process that had not passed it   *)
(* on, or the desktop has added to the list itself (addManualTask) and was *)
(* sent no whole list since; the next change makes up for both.            *)
QuietMeansEqual == (Quiet /\ ~lost /\ ~strayed) => shown = tasks

(* The publisher never sleeps on work: with messages pending it has a      *)
(* connection attempt, an open connection or a timer (scheduleReconnect).  *)
PendingIsPursued == pub.pending # <<>> => pub.timer \/ pub.sock # "none"

(* When changes and faults cease, the desktop ends up with the backend's   *)
(* list and keeps it, with the same exceptions.                            *)
Converges == <>[](shown = tasks \/ lost \/ strayed)

=============================================================================
