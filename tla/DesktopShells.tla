---------------------------- MODULE DesktopShells ----------------------------
(***************************************************************************)
(* How the desktop application opens, reconnects and removes shells        *)
(* (desktop/src/main/main.ts and desktop/src/shellServerClient.ts).  Every *)
(* such call opens a WebSocket to the gateway for itself, sends one frame  *)
(* and waits for the answer under a connect timer and a request timer;     *)
(* what it asked for goes on at the gateway after it gave up.              *)
(*                                                                         *)
(* The desktop keeps sessions in a manager of its own, saved in a file,    *)
(* and, once it has found the standalone backend, shows the backend's list *)
(* instead of it.  A session is "none", "pty", "ssh" or "over".            *)
(*                                                                         *)
(* A request's frame is "sent" until the supervisor has acted on it; then  *)
(* it is "made", "exists" or "error" until the answer reaches the desktop. *)
(* The gateway and the supervisor are seen from outside: Relay and         *)
(* OpenSupervisor model what is in them.                                   *)
(***************************************************************************)
EXTENDS Naturals, Sequences, FiniteSets

CONSTANTS
    Ids,        \* session ids, each made for one session
    Calls,      \* calls of the window that can be under way at a time
    NoCall,
    MaxNews,    \* bound: lists of the backend on their way to the desktop
    MaxFaults   \* bound: restarts of the desktop, the gateway, the supervisor

ASSUME DesktopAssumption ==
    /\ NoCall \notin Calls /\ MaxNews \in Nat \ {0} /\ MaxFaults \in Nat /\ "none" \notin Ids

VARIABLES
    port,      \* the backend's port: "free" for the desktop's own server, or "backend"
    locked,    \* does the gateway ask for a token?
    role,      \* "starting", "own" or "mirror"
    manager,   \* the desktop's own sessions
    saved,     \* the sessions file
    backend,   \* the backend's sessions
    news,      \* lists the backend sent and the desktop has not read
    mirror,    \* standaloneBackendSessions, NoList before the first
    shells,    \* ids in the supervisor's table
    known,     \* ids in the gateway's copy of it
    ends,      \* shells that ended and whose removal has not been posted
    calls, inFlight,  \* the calls; sshReconnectInFlight
    used,      \* ids given out
    excused,   \* history: shells that lost their session in a way described below
    faults

deskVars == <<role, manager, saved, mirror, inFlight>>
farVars == <<backend, news, shells, known, ends>>
vars == <<port, locked, deskVars, farVars, calls, used, excused, faults>>

Kinds == {"none", "pty", "ssh", "over"}

NoList == <<>>

Nothing == [i \in Ids |-> "none"]

IdleCall == [op |-> "none", id |-> "none", stage |-> "done", frame |-> "none", ok |-> FALSE, seen |-> FALSE]

TypeOK ==
    /\ port \in {"free", "backend"} /\ locked \in BOOLEAN
    /\ role \in {"starting", "own", "mirror"}
    /\ manager \in [Ids -> Kinds] /\ saved \in [Ids -> Kinds \ {"over"}]
    /\ backend \in [Ids -> Kinds] /\ mirror \in [Ids -> Kinds] \cup {NoList}
    /\ news \in Seq([Ids -> Kinds]) /\ Len(news) <= MaxNews
    /\ shells \subseteq used /\ known \subseteq used /\ ends \subseteq used
    /\ used \subseteq Ids /\ excused \subseteq used
    /\ inFlight \in [Ids -> Calls \cup {NoCall}]
    /\ calls \in [Calls -> [op : {"none", "pty", "ssh", "reconnect", "remove"}, id : Ids \cup {"none"},
                            stage : {"connect", "waiting", "broken", "joined", "post", "posted", "done"},
                            frame : {"none", "sent", "made", "exists", "error"},
                            ok : BOOLEAN, seen : BOOLEAN]]
    /\ faults \in 0..MaxFaults

Init ==
    /\ port \in {"free", "backend"} /\ locked \in BOOLEAN
    /\ role = "starting" /\ manager = Nothing /\ saved = Nothing /\ mirror = NoList
    /\ backend = Nothing /\ news = <<>> /\ shells = {} /\ known = {} /\ ends = {}
    /\ calls = [c \in Calls |-> IdleCall] /\ inFlight = [i \in Ids |-> NoCall]
    /\ used = {} /\ excused = {} /\ faults = 0

-----------------------------------------------------------------------------
(* The desktop's lists. *)

Shown(i) == IF mirror = NoList THEN manager[i] ELSE mirror[i]

(* lookupSessionForReconnect: the backend's list first, then its own. *)
Lookup(i) == IF mirror # NoList /\ mirror[i] # "none" THEN mirror[i] ELSE manager[i]

(* getSessionsStateToSave *)
ToSave(m) == [i \in Ids |-> IF m[i] = "over" THEN "none" ELSE m[i]]

Registered(i) == manager[i] # "none" \/ backend[i] # "none"

SetEntry(i, kind) ==
    /\ manager' = [manager EXCEPT ![i] = kind]
    /\ saved' = ToSave(manager')

SetBackend(i, kind) ==
    /\ backend' = [backend EXCEPT ![i] = kind]
    /\ IF role = "mirror" THEN Len(news) < MaxNews /\ news' = Append(news, backend')
                          ELSE news' = news

-----------------------------------------------------------------------------
(* Start: serve the port, or mirror the backend that has it. *)

MirrorBackend ==
    /\ role' = "mirror"
    /\ news' = IF port = "backend" THEN <<backend>> ELSE <<>>
    /\ UNCHANGED <<port, locked, manager, saved, mirror, inFlight, backend, shells, known, ends,
                   calls, used, excused, faults>>

(* The environment says not to serve, or a backend was found first.        *)
StartMirroring == role = "starting" /\ MirrorBackend

(* It serves the port; where something else has it, it goes on unserved.   *)
Listen ==
    /\ role = "starting" /\ port # "backend"
    /\ role' = "own"
    /\ UNCHANGED <<port, locked, manager, saved, mirror, inFlight, farVars, calls, used, excused, faults>>

MirrorReads ==
    /\ news # <<>>
    /\ mirror' = Head(news) /\ news' = Tail(news)
    /\ UNCHANGED <<port, locked, role, manager, saved, inFlight, backend, shells, known, ends,
                   calls, used, excused, faults>>

-----------------------------------------------------------------------------
(* The window's calls. *)

Idle(c) == calls[c].stage = "done" /\ calls[c].frame = "none"

Begin(c, op, i, stage) ==
    calls' = [calls EXCEPT ![c] = [op |-> op, id |-> i, stage |-> stage, frame |-> "none",
                                   ok |-> FALSE, seen |-> op = "reconnect" /\ i \in shells]]

(* session:create: an entry with no shell behind it. *)
CreateSession(i) ==
    /\ i \notin used /\ used' = used \cup {i}
    /\ SetEntry(i, "pty")
    /\ UNCHANGED <<port, locked, role, mirror, inFlight, farVars, calls, excused, faults>>

(* shell:create-pty and shell:create-ssh. *)
StartCreate(c, kind) ==
    /\ Idle(c)
    /\ Begin(c, kind, "none", "connect")
    /\ UNCHANGED <<port, locked, deskVars, farVars, used, excused, faults>>

(* A bug to catch in StartReconnect: a second request does not join the first. *)
ReconnectAlone(c, i) ==
    /\ Idle(c) /\ i \in used
    /\ IF Lookup(i) # "ssh"
       THEN calls' = [calls EXCEPT ![c] = IdleCall] /\ UNCHANGED inFlight
       ELSE Begin(c, "reconnect", i, "connect") /\ inFlight' = [inFlight EXCEPT ![i] = c]
    /\ UNCHANGED <<port, locked, role, manager, saved, mirror, farVars, used, excused, faults>>

(* shell:reconnect-ssh, which refuses at once what it cannot reconnect. *)
StartReconnect(c, i) ==
    /\ Idle(c) /\ i \in used
    /\ IF inFlight[i] # NoCall
       THEN /\ calls' = [calls EXCEPT ![c] = [calls[inFlight[i]] EXCEPT !.stage = "joined",
                                                                        !.frame = "none"]]
            /\ UNCHANGED inFlight
       ELSE IF Lookup(i) # "ssh"
       THEN calls' = [calls EXCEPT ![c] = IdleCall] /\ UNCHANGED inFlight
       ELSE Begin(c, "reconnect", i, "connect") /\ inFlight' = [inFlight EXCEPT ![i] = c]
    /\ UNCHANGED <<port, locked, role, manager, saved, mirror, farVars, used, excused, faults>>

(* session:remove. *)
StartRemove(c, i) ==
    /\ Idle(c) /\ Shown(i) # "none"
    /\ Begin(c, "remove", i, "connect")
    /\ UNCHANGED <<port, locked, deskVars, farVars, used, excused, faults>>

Settled(call) == [IdleCall EXCEPT !.ok = call.ok]

(* What is left of a call once it is answered: the verdict, and a request  *)
(* the supervisor has not read.                                            *)
Over(call, ok) == IF call.frame = "sent" THEN [call EXCEPT !.stage = "done", !.ok = ok, !.seen = FALSE]
                  ELSE [IdleCall EXCEPT !.ok = ok]

(* The promise settles, and with it every request that joined it. *)
Finish(c, ok) ==
    LET i == calls[c].id
        joined == IF calls[c].op = "reconnect" THEN {d \in Calls : calls[d].stage = "joined" /\ calls[d].id = i}
                ELSE {}
    IN  /\ calls' = [d \in Calls |->
                        IF d = c \/ d \in joined THEN Over(calls[d], ok) ELSE calls[d]]
        /\ inFlight' = IF calls[c].op = "reconnect" THEN [inFlight EXCEPT ![i] = NoCall] ELSE inFlight

(* After the kill has been sent, or failed: the flag is read only now.     *)
AfterKill(c, frame) ==
    LET i == calls[c].id
        call == [calls[c] EXCEPT !.frame = frame]
    IN  /\ calls' = [calls EXCEPT ![c] = IF role = "mirror" THEN [call EXCEPT !.stage = "post"]
                                         ELSE Over(call, TRUE)]
        /\ IF role = "mirror" THEN UNCHANGED <<manager, saved>> ELSE SetEntry(i, "none")
        /\ UNCHANGED <<role, mirror, inFlight>>

(* A bug to catch in Ready: removing does not kill. *)
RemoveWithoutKill(c) ==
    /\ calls[c].stage = "connect"
    /\ IF calls[c].op = "remove" THEN AfterKill(c, "none")
       ELSE IF locked THEN Finish(c, FALSE) /\ UNCHANGED <<role, manager, saved, mirror>>
       ELSE calls' = [calls EXCEPT ![c].stage = "waiting", ![c].frame = "sent"] /\ UNCHANGED deskVars
    /\ UNCHANGED <<port, locked, farVars, used, excused, faults>>

(* The gateway's "ready".  Only the kill brings a token; a create without  *)
(* one gives up.  The kill is over once it is sent.                        *)
Ready(c) ==
    /\ calls[c].stage = "connect"
    /\ IF calls[c].op = "remove" THEN AfterKill(c, "sent")
       ELSE IF locked THEN Finish(c, FALSE) /\ UNCHANGED <<role, manager, saved, mirror>>
       ELSE calls' = [calls EXCEPT ![c].stage = "waiting", ![c].frame = "sent"] /\ UNCHANGED deskVars
    /\ UNCHANGED <<port, locked, farVars, used, excused, faults>>

(* A bug to catch in GiveUp: there is no request timer. *)
OnlyConnectTimer(c) ==
    /\ calls[c].stage \in {"connect", "broken"}
    /\ IF calls[c].op = "remove" THEN AfterKill(c, "none")
       ELSE Finish(c, FALSE) /\ UNCHANGED <<role, manager, saved, mirror>>
    /\ excused' = excused \cup (shells \cap {calls[c].id})
    /\ UNCHANGED <<port, locked, farVars, used, faults>>

(* A timer fires, or the connection ends: whatever was asked for is not    *)
(* taken back.  A kill that failed does not keep the session.              *)
GiveUp(c) ==
    /\ calls[c].stage \in {"connect", "waiting", "broken"}
    /\ IF calls[c].op = "remove" THEN AfterKill(c, "none")
       ELSE Finish(c, FALSE) /\ UNCHANGED <<role, manager, saved, mirror>>
    /\ excused' = IF calls[c].op = "reconnect" THEN excused
                  ELSE excused \cup (shells \cap {calls[c].id})
    /\ UNCHANGED <<port, locked, farVars, used, faults>>

(* A bug to catch in Answered: any error of a reconnect counts as success. *)
AnyAnswerIsOk(c) ==
    /\ calls[c].stage = "waiting" /\ calls[c].frame \in {"made", "exists", "error"}
    /\ Finish(c, calls[c].op = "reconnect" \/ calls[c].frame = "made")
    /\ IF calls[c].op # "reconnect" /\ calls[c].frame = "made"
       THEN SetEntry(calls[c].id, calls[c].op) ELSE UNCHANGED <<manager, saved>>
    /\ UNCHANGED <<port, locked, role, mirror, farVars, used, excused, faults>>

(* The answer arrives: a new shell gets its session; a reconnect takes     *)
(* "already exists" for success.                                           *)
Answered(c) ==
    /\ calls[c].stage = "waiting" /\ calls[c].frame \in {"made", "exists", "error"}
    /\ Finish(c, calls[c].frame \in {"made"} \cup (IF calls[c].op = "reconnect" THEN {"exists"} ELSE {}))
    /\ IF calls[c].op # "reconnect" /\ calls[c].frame = "made"
       THEN SetEntry(calls[c].id, calls[c].op) ELSE UNCHANGED <<manager, saved>>
    /\ UNCHANGED <<port, locked, role, mirror, farVars, used, excused, faults>>

(* /api/session/remove, and the desktop's own copy once it is answered. *)
BackendRemoves(c) ==
    /\ calls[c].stage = "post" /\ port = "backend"
    /\ SetBackend(calls[c].id, "none")
    /\ calls' = [calls EXCEPT ![c].stage = "posted"]
    /\ UNCHANGED <<port, locked, deskVars, shells, known, ends, used, excused, faults>>

RemovalAnswered(c) ==
    /\ calls[c].stage = "posted"
    /\ mirror' = IF mirror = NoList THEN NoList ELSE [mirror EXCEPT ![calls[c].id] = "none"]
    /\ calls' = [calls EXCEPT ![c] = Over(@, TRUE)]
    /\ UNCHANGED <<port, locked, role, manager, saved, inFlight, farVars, used, excused, faults>>

RemovalFails(c) ==
    /\ calls[c].stage \in {"post", "posted"} /\ port # "backend"
    /\ calls' = [calls EXCEPT ![c] = Over(@, FALSE)]
    /\ UNCHANGED <<port, locked, deskVars, farVars, used, excused, faults>>

-----------------------------------------------------------------------------
(* The gateway, the supervisor and the backend. *)

BeingRemoved(i) == \E c \in Calls : calls[c].op = "remove" /\ calls[c].id = i /\ calls[c].stage \in {"post", "posted"}

(* A request is acted on; if nobody waits any more, that is all. *)
Heard(call, outcome) == IF call.stage = "waiting" THEN [call EXCEPT !.frame = outcome]
                        ELSE Settled(call)

(* The shell starts: the ids of a reconnect are given, the others fresh.   *)
(* It is excused when nobody waits for it, or its session is going or gone.*)
SupervisorCreates(c, i) ==
    LET call == calls[c]
    IN  /\ call.frame = "sent" /\ call.op # "remove"
        /\ IF call.op = "reconnect" THEN i = call.id ELSE i \notin used
        /\ used' = used \cup {i}
        /\ IF i \in shells
           THEN /\ calls' = [calls EXCEPT ![c] = Heard(call, "exists")]
                /\ UNCHANGED <<shells, excused>>
           ELSE /\ shells' = shells \cup {i}
                /\ calls' = [d \in Calls |->
                                LET e == IF d = c THEN Heard([call EXCEPT !.id = i], "made") ELSE calls[d]
                                IN  IF e.op = "reconnect" /\ e.id = i /\ e.stage # "done"
                                    THEN [e EXCEPT !.seen = TRUE] ELSE e]
                /\ excused' = IF \/ call.stage # "waiting"
                                 \/ call.op = "reconnect" /\ (~Registered(i) \/ BeingRemoved(i))
                              THEN excused \cup {i} ELSE excused
        /\ UNCHANGED <<port, locked, deskVars, backend, news, known, ends, faults>>

SpawnFails(c) ==
    /\ calls[c].frame = "sent" /\ calls[c].op # "remove"
    /\ calls' = [calls EXCEPT ![c] = Heard(@, "error")]
    /\ UNCHANGED <<port, locked, deskVars, farVars, used, excused, faults>>

(* The gateway will post the removal; only a backend listens.              *)
Ended(gone) ==
    /\ shells' = shells \ gone
    /\ ends' = IF port = "backend" THEN ends \cup (gone \cap shells) ELSE ends
    /\ excused' = excused \ gone

(* The gateway passes on a kill of a shell it knows.                       *)
GatewayKills(c) ==
    LET i == calls[c].id
    IN  /\ calls[c].frame = "sent" /\ calls[c].op = "remove"
        /\ calls' = [calls EXCEPT ![c] = IF @.stage = "done" THEN Settled(@)
                                         ELSE [@ EXCEPT !.frame = "none"]]
        /\ IF i \in known THEN Ended({i})
           ELSE UNCHANGED <<shells, ends>> /\ excused' = excused \cup (shells \cap {i})
        /\ UNCHANGED <<port, locked, deskVars, backend, news, known, used, faults>>

GatewayHears(i) ==
    /\ i \in known <=> i \notin shells
    /\ known' = IF i \in shells THEN known \cup {i} ELSE known \ {i}
    /\ UNCHANGED <<port, locked, deskVars, backend, news, shells, ends, calls, used, excused, faults>>

ShellExits(i) ==
    /\ i \in shells
    /\ Ended({i})
    /\ UNCHANGED <<port, locked, deskVars, backend, news, known, calls, used, faults>>

(* The gateway posts the removal of a shell; the desktop's own server has  *)
(* no such path.  It names an id, and a shell started under it since is bereft.    *)
RemovalPosted(i) ==
    /\ i \in ends /\ ends' = ends \ {i}
    /\ IF backend[i] # "none"
       THEN SetBackend(i, "none") /\ excused' = excused \cup (shells \cap {i})
       ELSE UNCHANGED <<backend, news, excused>>
    /\ UNCHANGED <<port, locked, deskVars, shells, known, calls, used, faults>>

(* Somebody else opens a shell and registers it with the backend as "ssh". *)
OthersCreate(i) ==
    /\ port = "backend" /\ i \notin used /\ used' = used \cup {i}
    /\ shells' = shells \cup {i} /\ known' = known \cup {i}
    /\ SetBackend(i, "ssh")
    /\ UNCHANGED <<port, locked, deskVars, ends, calls, excused, faults>>

(* A terminal event ends a session of the desktop's own. *)
SessionEnds(i) ==
    /\ role = "own" /\ manager[i] \in {"pty", "ssh"}
    /\ SetEntry(i, "over")
    /\ UNCHANGED <<port, locked, role, mirror, inFlight, farVars, calls, used, excused, faults>>

-----------------------------------------------------------------------------
(* Restarts. *)

Broken(c) ==
    IF calls[c].stage = "done" THEN Settled(calls[c])
    ELSE [calls[c] EXCEPT !.stage = IF @ \in {"connect", "waiting"} THEN "broken" ELSE @, !.frame = "none"]

GatewayRestarts ==
    /\ faults < MaxFaults /\ faults' = faults + 1
    /\ calls' = [c \in Calls |-> Broken(c)]
    /\ known' = {}
    /\ excused' = excused \cup {i \in shells : \E c \in Calls : /\ calls[c].id = i
                                    /\ calls[c].frame = IF calls[c].op = "remove" THEN "sent" ELSE "made"}
    /\ UNCHANGED <<port, locked, deskVars, backend, news, shells, ends, used>>

SupervisorDies ==
    /\ faults < MaxFaults /\ faults' = faults + 1
    /\ shells' = {} /\ excused' = {}
    /\ calls' = [c \in Calls |-> Broken(c)]
    /\ UNCHANGED <<port, locked, deskVars, backend, news, known, ends, used>>

(* The supervisor and the gateway outlive the desktop.                     *)
DesktopRestarts ==
    /\ faults < MaxFaults /\ faults' = faults + 1
    /\ role' = "starting" /\ manager' = saved /\ mirror' = NoList /\ news' = <<>>
    /\ inFlight' = [i \in Ids |-> NoCall]
    /\ calls' = [c \in Calls |-> Over(calls[c], FALSE)]
    /\ excused' = excused \cup {i \in shells : saved[i] = "none" /\ backend[i] = "none"}
    /\ UNCHANGED <<port, locked, saved, backend, shells, known, ends, used>>

-----------------------------------------------------------------------------
DesktopCall(c) ==
    \/ \E kind \in {"pty", "ssh"} : StartCreate(c, kind)
    \/ \E i \in Ids : StartReconnect(c, i) \/ StartRemove(c, i)
    \/ Ready(c) \/ GiveUp(c) \/ Answered(c)
    \/ BackendRemoves(c) \/ RemovalAnswered(c) \/ RemovalFails(c)

Elsewhere ==
    \/ \E c \in Calls : (\E i \in Ids : SupervisorCreates(c, i)) \/ SpawnFails(c) \/ GatewayKills(c)
    \/ \E i \in Ids : \/ GatewayHears(i) \/ ShellExits(i) \/ RemovalPosted(i)
                      \/ OthersCreate(i) \/ SessionEnds(i)

Next ==
    \/ StartMirroring \/ Listen \/ MirrorReads
    \/ \E i \in Ids : CreateSession(i)
    \/ \E c \in Calls : DesktopCall(c)
    \/ Elsewhere
    \/ GatewayRestarts \/ SupervisorDies \/ DesktopRestarts

Spec == Init /\ [][Next]_vars

(* The timers of a call fire, the backend or its socket answers a POST.    *)
LiveSpec ==
    /\ Spec
    /\ WF_vars(MirrorReads)
    /\ \A c \in Calls : WF_vars(GiveUp(c)) /\ WF_vars(BackendRemoves(c) \/ RemovalAnswered(c) \/ RemovalFails(c))

-----------------------------------------------------------------------------
(* A shell always has a session somewhere (so that somebody can attach to  *)
(* it or remove it), or is about to get one or to be killed, unless it was *)
(* lost in one of the ways the code leaves open: the call that asked for   *)
(* it gave up first; its removal overtook it, could not reach the gateway  *)
(* or met one that did not know it yet; it was started again while its     *)
(* removal, or the report of its end, was under way; or the desktop was    *)
(* restarted before its session was saved or after the session was over    *)
(* (main.ts:3126-3147, 3452-3505; shellServerClient.ts:67-308).            *)
NoOrphans ==
    \A i \in shells \ excused :
        \/ Registered(i)
        \/ \E c \in Calls : /\ calls[c].id = i
                            /\ \/ calls[c].frame = "made" /\ calls[c].stage = "waiting"
                               \/ calls[c].frame = "sent" /\ calls[c].op = "remove"

(* A reconnect is answered "ok" only if a shell of that id was there at    *)
(* some time since the request (or the one it joined) began; "already      *)
(* exists" is taken for success on that ground (main.ts:3477-3484).        *)
OkMeansShell ==
    [][\A c \in Calls :
          (calls[c].op = "reconnect" /\ calls[c].stage # "done" /\ calls'[c].stage = "done" /\ calls'[c].ok)
          => calls[c].seen]_vars

(* Requests to reconnect a session while one is under way share it: two of *)
(* them never ask the supervisor for the same id at once, and one that     *)
(* joined has somebody to wait for (main.ts:3444-3455).                    *)
OneReconnect ==
    LET asking(i) == {c \in Calls : /\ calls[c].op = "reconnect" /\ calls[c].id = i
                                    /\ calls[c].stage \in {"connect", "waiting", "broken"}}
    IN  \A i \in Ids : /\ \A c, d \in asking(i) : c = d
                       /\ \A c \in Calls :
                            calls[c].stage = "joined" /\ calls[c].id = i => inFlight[i] \in asking(i)

(* Every call of the window is answered, whatever the gateway does         *)
(* (shellServerClient.ts:80-89, 150-158, 252-260).                         *)
CallsSettle == \A c \in Calls : calls[c].stage # "done" ~> calls[c].stage = "done"

(* "Set to false when the caller will register the task itself (e.g. the   *)
(* desktop main process)" (shellServerClient.ts:18-19): the session of a   *)
(* shell the desktop opened is in the list it shows.                       *)
CreatedIsShown ==
    [][\A c \in Calls, i \in Ids :
          (/\ calls[c].stage = "waiting" /\ calls[c].op \in {"pty", "ssh"} /\ calls[c].id = i
           /\ calls'[c].stage = "done" /\ calls'[c].ok)
          => Shown(i)' # "none"]_vars
=============================================================================
