-------------------------- MODULE SupervisorClient --------------------------
(***************************************************************************)
(* The gateway's end of the pipe: class SupervisorClient                   *)
(* (ws-server/supervisor-client.ts).  It keeps a cache of the session list *)
(* and a copy of the scrollback of every session it is subscribed to, and  *)
(* turns request/reply frames into promises.                               *)
(*                                                                         *)
(* The module gives the state and what each method does to it; Gateway     *)
(* says when they are called.  The continuations of settled promises are   *)
(* explicit, in the queue `micro': JavaScript runs them after the callback *)
(* that settled the promise, hence after every other line of the chunk of  *)
(* pipe data that held the reply.                                          *)
(***************************************************************************)
EXTENDS ShellIpc, SequencesExt

CONSTANTS
    Clients,      \* WebSocket connections, in the order they may be opened
    LocalCap,     \* chunks a local scrollback holds (256 KiB in the code)
    MaxLine       \* chunks of scrollback that fit in one line (1 MiB of JSON)

VARIABLES
    sock,              \* this.socket: "down" is null, "dead" destroyed by us
    gwConn,            \* the connection it is (or was last) an end of, 0 before the first
    sessionCache,      \* ids in this.sessionCache
    subscribed,        \* this.subscribed
    localScrollback,   \* per session, the pieces in its local ring
    pending,           \* this.pending: requests waiting for a reply
    nextReqId,         \* this.nextReqId
    micro              \* promise continuations waiting for the stack to empty

scVars == <<sock, gwConn, sessionCache, subscribed, localScrollback, pending,
            nextReqId, micro>>

(* What asked: create / createSsh, or ensureSubscribed for an attach or a
   status watch.  `attach' is the attach flag of the client's create. *)
Kinds == {"create", "create_ssh", "attach", "watch"}
Creates == {"create", "create_ssh"}

Stretch == [from : Nat, to : Nat]
Piece(lo, hi) == [from |-> lo, to |-> hi]
Pieces(lo, hi) == IF hi < lo THEN <<>> ELSE <<Piece(lo, hi)>>

PendingRequest ==
    [id : Nat, kind : Kinds, client : Clients, sid : Sessions, attach : BOOLEAN]

(* A continuation: first the method that awaits request() ("reply"), then
   the handler in ws-server.ts that awaits the method ("caller"). *)
Continuation ==
    [step : {"reply", "caller"}, kind : Kinds, client : Clients, sid : Sessions,
     attach : BOOLEAN, ok : BOOLEAN, output : Seq(Stretch)]

Resume(step, p, ok, output) ==
    [step |-> step, kind |-> p.kind, client |-> p.client, sid |-> p.sid,
     attach |-> p.attach, ok |-> ok, output |-> output]

ScTypeOK ==
    /\ sock \in {"down", "connecting", "up", "dead"}
    /\ gwConn \in Conns \cup {0}
    /\ sessionCache \subseteq Sessions
    /\ subscribed \subseteq Sessions
    /\ localScrollback \in [Sessions -> Seq(Stretch)]
    /\ pending \subseteq PendingRequest
    /\ nextReqId \in Nat
    /\ micro \in Seq(Continuation)

ScInit ==
    /\ sock = "down"
    /\ gwConn = 0
    /\ sessionCache = {}
    /\ subscribed = {}
    /\ localScrollback = [s \in Sessions |-> <<>>]
    /\ pending = {}
    /\ nextReqId = 1
    /\ micro = <<>>

-----------------------------------------------------------------------------
(* Writing to the pipe. *)

Writable == sock \in {"connecting", "up"}

(* send: dropped without a socket. *)
Post(msgs) ==
    toSup' = IF Writable /\ msgs # <<>> THEN [toSup EXCEPT ![gwConn] = @ \o msgs] ELSE toSup

RequestType(kind) == IF kind \in Creates THEN kind ELSE "subscribe"

(* request: registers the promise and writes the line, or rejects at once. *)
IssueRequest(p, queue) ==
    /\ nextReqId' = nextReqId + 1
    /\ IF Writable
         THEN /\ pending' = pending \cup {[p EXCEPT !.id = nextReqId]}
              /\ micro' = queue
              /\ Post(<<Request(RequestType(p.kind), p.sid, nextReqId)>>)
         ELSE /\ micro' = Append(queue, Resume("reply", p, FALSE, <<>>))
              /\ UNCHANGED <<pending, toSup>>

(* A bug to catch in EnsureSubscribed: a known session is taken for a
   subscribed one. *)
EnsureKnown(p, queue) ==
    IF p.sid \in sessionCache
      THEN /\ micro' = Append(queue, Resume("caller", p, TRUE, localScrollback[p.sid]))
           /\ UNCHANGED <<pending, nextReqId, toSup>>
      ELSE IssueRequest(p, queue)

(* ensureSubscribed: answered from the local copy when subscribed already. *)
EnsureSubscribed(p, queue) ==
    IF p.sid \in subscribed
      THEN /\ micro' = Append(queue, Resume("caller", p, p.sid \in sessionCache,
                                            localScrollback[p.sid]))
           /\ UNCHANGED <<pending, nextReqId, toSup>>
      ELSE IssueRequest(p, queue)

(* unsubscribe, for the sessions in U that are subscribed; the lines to send
   are UnsubscribeLines(U). *)
ForgetSubscribed(U) ==
    /\ subscribed' = subscribed \ U
    /\ localScrollback' = [s \in Sessions |-> IF s \in U THEN <<>> ELSE localScrollback[s]]

UnsubscribeLines(U) ==
    [i \in 1 .. Cardinality(U) |-> Request("unsubscribe", SetToSeq(U)[i], 0)]

-----------------------------------------------------------------------------
(* The local scrollback: pieces are dropped whole, the last one never. *)

Length(pieces) ==
    FoldLeft(LAMBDA n, p : n + p.to - p.from + 1, 0, pieces)

DropOldest(pieces) ==
    LET fits(k) == k = Len(pieces) \/ Length(SubSeq(pieces, k, Len(pieces))) <= LocalCap
        first == CHOOSE k \in 1 .. Len(pieces) :
                    fits(k) /\ \A j \in 1 .. k - 1 : ~fits(j)
    IN  SubSeq(pieces, first, Len(pieces))

(* appendLocalScrollback *)
Remember(s, p) ==
    localScrollback' = [localScrollback EXCEPT ![s] = DropOldest(Append(@, p))]

-----------------------------------------------------------------------------
(* handleMessage, for the frames that settle a promise. *)

Awaiting(f) == {p \in pending : p.id = f.id}

Expects(kind, type) ==
    \/ type = "error"
    \/ type = "created" /\ kind \in Creates
    \/ type = "subscribed" /\ kind \notin Creates

(* The text a `subscribed' frame carries. *)
Snapshot(f) == IF f.type = "subscribed" THEN Pieces(f.from, f.to) ELSE <<>>

(* resolvePending: the promise with the frame's id, if it expects this type. *)
Settle(f) ==
    LET matched == {p \in Awaiting(f) : Expects(p.kind, f.type)} IN
    IF matched = {}
      THEN UNCHANGED <<pending, micro>>
      ELSE LET p == CHOOSE q \in matched : TRUE IN
           /\ pending' = pending \ {p}
           /\ micro' = Append(micro, Resume("reply", p, f.type # "error", Snapshot(f)))

(* An order in which rejected promises resume: the order they were made in. *)
ByAge(requests) ==
    CHOOSE q \in [1 .. Cardinality(requests) -> requests] :
        \A i, j \in DOMAIN q : i < j => q[i].id < q[j].id

Rejected(requests) ==
    [i \in 1 .. Cardinality(requests) |->
        Resume("reply", ByAge(requests)[i], FALSE, <<>>)]

(* A bug to catch in FailPending: callers are left hanging. *)
FailNothing == UNCHANGED <<pending, micro>>

(* The connection is gone: every promise is rejected. *)
FailPending ==
    /\ pending' = {}
    /\ micro' = Rejected(pending)

(* The method resumes with its reply, and in turn resumes its caller. *)
ResumeCreate(k) ==
    /\ k.kind \in Creates
    /\ sessionCache' = IF k.ok THEN sessionCache \cup {k.sid} ELSE sessionCache
    /\ UNCHANGED <<subscribed, localScrollback>>

ResumeEnsureSubscribed(k) ==
    /\ k.kind \notin Creates
    /\ IF k.ok
         THEN /\ subscribed' = subscribed \cup {k.sid}
              /\ sessionCache' = sessionCache \cup {k.sid}
              /\ localScrollback' = [localScrollback EXCEPT ![k.sid] = k.output]
         ELSE UNCHANGED <<subscribed, sessionCache, localScrollback>>

ResumeMethod(k) ==
    /\ ResumeCreate(k) \/ ResumeEnsureSubscribed(k)
    /\ micro' = Append(Tail(micro), [k EXCEPT !.step = "caller"])

=============================================================================
