-------------------------------- MODULE Relay --------------------------------
(***************************************************************************)
(* The whole terminal relay: the supervisor process and the gateway        *)
(* process composed over the pipe, with the WebSocket clients of the       *)
(* gateway.  Each step is one step of one process; the processes share     *)
(* only the two queues of each pipe connection.                            *)
(***************************************************************************)
EXTENDS Supervisor, Gateway

CONSTANTS
    Faults,     \* may pipe connections and clients be lost?
    Timeouts    \* may a request time out while its reply is under way?

ASSUME RelayAssumption == Faults \in BOOLEAN /\ Timeouts \in BOOLEAN

vars == <<ipcVars, supVars, scVars, gwVars>>

Init == IpcInit /\ SupInit /\ ScInit /\ GwInit

(* The gateway's end of connection c is gone. *)
HungUp(c) == c # gwConn \/ sock \in {"down", "dead"}

(* The supervisor's end of connection c is gone. *)
Refused(c) == conn[c] \in {"destroyed", "closed"}

SupervisorStep ==
    /\ \/ \E c \in Conns :
            \/ HandleMessage(c)
            \/ sock = "connecting" /\ gwConn = c /\ Accept(c)
            \/ (Faults \/ HungUp(c)) /\ Destroy(c)
            \/ Close(c)
       \/ \E s \in Sessions, i \in Incs :
            \/ Data(s, i) \/ PtyExit(s, i)
            \/ SshReady(s, i) \/ SshFatal(s, i) \/ SshStreamClose(s, i)
       \/ RunImmediate
    /\ UNCHANGED <<scVars, gwVars>>

GatewayStep ==
    /\ \/ ReadFrame
       \/ GotOversized
       \/ Continue
       \/ CheckPhase
       \/ Connect
       \/ gwConn # 0 /\ conn[gwConn] = "open" /\ Connected
       \/ sock = "dead" /\ Disconnected
       \/ gwConn # 0 /\ Refused(gwConn) /\ Disconnected
       \/ Timeouts /\ \E p \in pending : RequestTimeout(p)
    /\ UNCHANGED supVars

ClientStep ==
    /\ \E c \in Clients :
          \/ ClientConnect(c)
          \/ ClientMessageFrom(c)
          \/ ws[c] \in {"closing", "terminated"} /\ ClientClosed(c)
          \/ Faults /\ (ClientClosed(c) \/ ClientTerminated(c))
    /\ UNCHANGED supVars

Next == SupervisorStep \/ GatewayStep \/ ClientStep

Spec == Init /\ [][Next]_vars

(***************************************************************************)
(* Fairness.  Both event loops keep running: a readable pipe is read, a    *)
(* queued continuation or setImmediate runs, a connection attempt comes to *)
(* an end.  Nothing is assumed of terminals, clients or faults.            *)
(***************************************************************************)
Fairness ==
    /\ WF_vars((\E c \in Conns : HandleMessage(c)) /\ UNCHANGED <<scVars, gwVars>>)
    /\ WF_vars(RunImmediate /\ UNCHANGED <<scVars, gwVars>>)
    /\ WF_vars((\E c \in Conns : sock = "connecting" /\ gwConn = c /\ Accept(c))
                 /\ UNCHANGED <<scVars, gwVars>>)
    /\ WF_vars((ReadFrame \/ GotOversized \/ Continue \/ CheckPhase) /\ UNCHANGED supVars)
    /\ WF_vars(Connect /\ UNCHANGED supVars)
    /\ WF_vars(gwConn # 0 /\ conn[gwConn] = "open" /\ Connected /\ UNCHANGED supVars)
    /\ WF_vars(gwConn # 0 /\ Refused(gwConn) /\ Disconnected /\ UNCHANGED supVars)

LiveSpec == Spec /\ Fairness

-----------------------------------------------------------------------------
TypeOK == IpcTypeOK /\ SupTypeOK /\ ScTypeOK /\ GwTypeOK

(* The gateway's two indexes of who is attached where, and of who watches
   what, are inverses of each other whatever order attaches, detaches,
   removals, disconnections and late continuations come in. *)
IndexesAgree ==
    \A s \in Sessions, c \in Clients :
        /\ c \in sessionSubscribers[s] <=> s \in clientSubscriptions[c]
        /\ c \in statusWatchers[s] <=> s \in clientStatusWatches[c]

(* What was given to the terminal last is the smallest size wanted now. *)
EffectiveIsMin ==
    \A s \in Sessions :
        effectiveSizes[s] = IF Wanted(clientDesiredSizes, s) = {} THEN 0
                            ELSE Min(Wanted(clientDesiredSizes, s))

(* shell/README.md:6-7, "allow multiple clients ... identical output": an
   attached client's screen is one uninterrupted run of the session's output,
   nothing missing, nothing twice. *)
NoGapNoRepeat ==
    \A c \in Clients, s \in Sessions : Len(view[c][s].runs) <= 1

(* Once a client was told that a session exited, no output of it follows on
   that client's screen until the client attaches anew (`Blank'). *)
NothingAfterExit ==
    [][\A c \in Clients, s \in Sessions :
         view[c][s].exited /\ view'[c][s].exited => view'[c][s].runs = view[c][s].runs]_vars

(* shell/README.md:46, attach: "Subscribe to a session's output stream."  A
   client attached to a live session, or watching its status, gets its
   output: once no request and no frame is under way, the supervisor sends
   the gateway that output. *)
Quiet ==
    /\ sock = "up" /\ conn[gwConn] = "open"
    /\ toSup[gwConn] = <<>> /\ toGw[gwConn] = <<>>
    /\ pending = {} /\ micro = <<>>

AttachedIsFed ==
    Quiet => \A s \in Sessions :
        sessionSubscribers[s] \cup statusWatchers[s] # {} /\ current[s] # 0 => gwConn \in subscribers[s]

(* The promise of TerminalFeed, kept for clients that attach once. *)
Feed == INSTANCE TerminalFeed WITH attached <- clientSubscriptions
FeedSpec == Feed!Spec

(* supervisor-client.ts:158-160, "Returns the full scrollback known so far
   ... from our local buffer on subsequent calls": with nothing under way,
   the local copy is one stretch that ends at the last chunk. *)
LocalCopyComplete ==
    Quiet => \A s \in subscribed :
        gwConn \in subscribers[s] =>
            /\ Len(Shown(<<>>, localScrollback[s])) <= 1
            /\ localScrollback[s] # <<>> => Last(localScrollback[s]).to = produced[s]
            /\ localScrollback[s] = <<>> => produced[s] = 0

(* shell/README.md:47, detach: "Stop receiving output for a session." *)
DetachStopsOutput ==
    [][\A c \in Clients, s \in Sessions :
         view'[c][s].runs # view[c][s].runs => asked[c][s]]_vars

(* schema.md:235-236, "Quand un client disconnect: forgetClientSize": a
   client that is gone no longer holds a terminal's size down. *)
SizesForgotten ==
    \A c \in Clients, s \in Sessions :
        ws[c] = "closed" => clientDesiredSizes[s][c] = 0

(* Every request of the gateway is answered. *)
RequestsSettle ==
    \A id \in 1 .. MaxReq :
        (\E p \in pending : p.id = id) ~> (\A p \in pending : p.id # id)

(* While a session and the pipe live, a client attached to the session is  *)
(* shown every chunk of it.                                                *)
ShownUpTo(c, s, n) ==
    view[c][s].runs # <<>> /\ Last(view[c][s].runs).to >= n

AttachedSeesAll ==
    \A c \in Clients, s \in Sessions, n \in 1 .. MaxOutput :
        (s \in clientSubscriptions[c] /\ produced[s] >= n)
            ~> \/ s \notin clientSubscriptions[c] \/ current[s] = 0
               \/ ShownUpTo(c, s, n)
               \/ ~IsOpen(c) \/ Refused(gwConn)

=============================================================================
