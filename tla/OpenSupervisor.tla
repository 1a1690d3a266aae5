--------------------------- MODULE OpenSupervisor ---------------------------
(***************************************************************************)
(* The supervisor in an arbitrary environment: any number of gateways that *)
(* send any request at any time, read when they like and vanish when they  *)
(* like.  What holds here holds for every gateway.                         *)
(***************************************************************************)
EXTENDS Supervisor

CONSTANTS
    Requests,      \* the messages gateways send
    MaxInFlight    \* bound: messages and frames in transit on one connection

ASSUME OpenAssumption ==
    /\ Requests \subseteq ClientMessage
    /\ MaxInFlight \in Nat

vars == <<ipcVars, supVars>>

(* A gateway writes a request on its connection. *)
GatewayWrite(c) ==
    /\ Live(c)
    /\ Len(toSup[c]) + Len(toGw[c]) < MaxInFlight
    /\ \E m \in Requests : toSup' = [toSup EXCEPT ![c] = Append(@, m)]
    /\ UNCHANGED <<toGw, supVars>>

(* A gateway reads a frame. *)
GatewayRead(c) ==
    /\ toGw[c] # <<>>
    /\ toGw' = [toGw EXCEPT ![c] = Tail(@)]
    /\ UNCHANGED <<toSup, supVars>>

Init == IpcInit /\ SupInit

Next ==
    \/ SupervisorNext
    \/ \E c \in Conns : Accept(c) \/ GatewayWrite(c) \/ GatewayRead(c)

Spec == Init /\ [][Next]_vars

-----------------------------------------------------------------------------
TypeOK == IpcTypeOK /\ SupTypeOK

(***************************************************************************)
(* No stale subscriber.  Whoever is sent the output of a session is a      *)
(* connection that authenticated, whose close has not been processed and   *)
(* whose own record of subscriptions names the session (that record is all *)
(* the close handler looks at), and the session exists.  So a closed       *)
(* connection never stays subscribed, whatever order subscribe,            *)
(* unsubscribe, removal, re-creation and close came in.                    *)
(***************************************************************************)
NoStaleSubscriber ==
    \A s \in Sessions : \A c \in subscribers[s] :
        /\ conn[c] \in {"open", "destroyed"}
        /\ c \in authenticated
        /\ s \in subscriptions[c]
        /\ current[s] # 0

(* A session has a scrollback ring exactly while it is in the session map. *)
RingIffListed == \A s \in Sessions : scrollback[s] # 0 <=> current[s] # 0

(***************************************************************************)
(* The promise of ipc-server.ts:230-233 and 371-374, "atomic snapshot +    *)
(* subscribed + live": on every connection, each live chunk of a session   *)
(* continues exactly where the piece before it stopped, be it another live *)
(* chunk or the snapshot in `subscribed'.  Only a new snapshot starts over.*)
(***************************************************************************)
CarriesOutput(f, s) == f.sid = s /\ f.type \in {"subscribed", "output"}

NoneBetween(q, i, j, s) == \A k \in i + 1 .. j - 1 : ~CarriesOutput(q[k], s)

(* In queue q, each live chunk of s continues the piece before it. *)
Continues(q, s) ==
    \A i, j \in DOMAIN q :
        (/\ i < j
         /\ CarriesOutput(q[i], s)
         /\ CarriesOutput(q[j], s)
         /\ NoneBetween(q, i, j, s)
         /\ q[j].type = "output")
        => q[j].from = q[i].to + 1

(* The last piece of s in queue q, if there is one, ends at chunk n. *)
EndsAt(q, s, n) ==
    \A i \in DOMAIN q :
        CarriesOutput(q[i], s) /\ NoneBetween(q, i, Len(q) + 1, s) => q[i].to = n

SnapshotThenLive == \A c \in Conns, s \in Sessions : Continues(toGw[c], s)

(* A subscribed connection that is still open has been written everything
   its session produced: the last piece in its queue ends at the last chunk. *)
CaughtUp ==
    \A s \in Sessions : \A c \in subscribers[s] :
        conn[c] = "open" => EndsAt(toGw[c], s, produced[s])

(* A snapshot is the newest output: it ends where the session was when the
   ring was read, and is no longer than the ring. *)
SnapshotBounded ==
    \A c \in Conns : \A i \in DOMAIN toGw[c] :
        toGw[c][i].type = "subscribed" =>
            /\ toGw[c][i].from >= 1
            /\ toGw[c][i].to - toGw[c][i].from + 1 <= LargerOf(ScrollbackCap, 1)

(* session-manager.ts:59, "Keep session metadata around briefly so clients
   can read exit; remove after a tick": a session leaves the map only when
   its own process is over, if no process of its id was SSH. *)
OwnExitOnly(s) ==
    (current[s] # 0 /\ current'[s] = 0) => ~proc[s][current[s]].alive

NeverSsh(s) == \A i \in Incs : proc[s][i].kind # "ssh"

RemovedAfterOwnExit == [][\A s \in Sessions : NeverSsh(s) => OwnExitOnly(s)]_vars

(* The comment's own claim is of every session.  An SSH process exits twice,
   for its error and for its stream, and its second removal finds whichever
   process has the id by then (SshRemoved.cfg). *)
AnyRemovedAfterOwnExit == [][\A s \in Sessions : OwnExitOnly(s)]_vars

=============================================================================
