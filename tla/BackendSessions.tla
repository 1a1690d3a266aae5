--------------------------- MODULE BackendSessions ---------------------------
(***************************************************************************)
(* The backend's session and terminal routes (src/http-server/modules/     *)
(* sessions and terminals), the gateway that reports its shells to them,   *)
(* and the network between: every report is a POST of its own, answered in *)
(* any order, lost when the backend is away, and never sent twice.         *)
(*                                                                         *)
(* A shell's id is also the id of its session (requestedId).  Sessions of  *)
(* Shells are reported by the gateway; the others belong to clients that   *)
(* create and update them over HTTP.  Clients also rename, touch and       *)
(* remove the sessions of shells that run.                                 *)
(***************************************************************************)
EXTENDS SessionRegistry, FiniteSets, Sequences

CONSTANTS
    Shells,       \* the ids the gateway runs as shells
    Shared,       \* those of them that other clients pause and report about, too
    ClientPosts,  \* the operations other clients use
    EventKinds,   \* the terminal events they report
    PendingCap,   \* MAX_PENDING_TERMINAL_EVENTS_PER_SESSION
    MaxTime,      \* bound: the clock
    MaxInFlight,  \* bound: POSTs under way at once
    MaxPosts,     \* bound: POSTs by other clients, and reports of one shell
    MaxRestarts   \* bound: restarts of the backend

ASSUME BackendAssumption ==
    /\ Shells \subseteq Ids /\ Shared \subseteq Shells
    /\ EventKinds \subseteq {"terminal_opened", "terminal_attached", "terminal_capture_state",
                            "shell_execution_started", "shell_execution_ended", "terminal_closed",
                            "terminal_disconnected"}
    /\ PendingCap \in Nat \ {0} /\ MaxTime \in Nat /\ MaxInFlight \in Nat /\ MaxPosts \in Nat
    /\ MaxRestarts \in Nat

VARIABLES
    mgr,      \* the session manager and the sessions file
    removed,  \* removedSessionIds
    mapped,   \* the keys of multitaskerSessionIdByShellSessionId: values are equal
    refMap,   \* taskIdByTerminalRef
    pendUpd,  \* pendingTerminalUpdates: one slot per id
    pendEvt,  \* pendingTerminalEvents
    pendMeta, \* the keys of pendingClientMetadataByShellSessionId
    posts,    \* the network: POSTs that have not reached the backend
    shell,    \* the gateway's view of each shell: "unborn", "alive" or "gone"
    now,      \* the clock of the machine
    sent,     \* how many POSTs each id's owner has sent
    boots,    \* restarts so far
    dismissed, \* history: the sessions a client asked to be removed
    damaged,  \* history: has a registration been lost, or the backend restarted?
    told      \* history: the newest reports delivered since registration

tables == <<mgr, removed, mapped, refMap, pendUpd, pendEvt, pendMeta>>
env == <<shell, dismissed, now, sent, boots>>
vars == <<tables, env, posts, damaged, told>>

NoUpdate == [id |-> "none", status |-> "none", at |-> 0]
Untold == [at |-> 0, says |-> {}]

Init ==
    /\ mgr = RegistryInit
    /\ removed = {} /\ mapped = {} /\ refMap = [r \in {} |-> 0]
    /\ pendUpd = [i \in Ids |-> NoUpdate] /\ pendEvt = [i \in Ids |-> <<>>] /\ pendMeta = {}
    /\ posts = {}
    /\ shell = [i \in Shells |-> "unborn"] /\ dismissed = {}
    /\ now = 1 /\ sent = [i \in Ids |-> 0] /\ boots = 0
    /\ damaged = FALSE /\ told = [i \in Shells |-> Untold]

-----------------------------------------------------------------------------
(* terminals/apply.ts: an update or an event meets the session manager.    *)
(* saveSessionsAfterTerminalStatusChange writes the sessions file when a   *)
(* session becomes over or stops being so.                                 *)
(* A bug to catch in SavedIfOver: the file is left as it is. *)
NeverSaved(before, after, i) == after

SavedIfOver(before, after, i) ==
    IF {before.entries[i].status, after.entries[i].status} \cap Over # {} THEN Save(after) ELSE after

AppliedUpdate(m, u) == SavedIfOver(m, UpdateTerminalState(m, u), u.id)
AppliedEvent(m, ev) == SavedIfOver(m, UpdateTerminalEvent(m, ev), ev.id)

AppliedEvents(m, evs) ==
    LET after[n \in 0 .. Len(evs)] == IF n = 0 THEN m ELSE AppliedEvent(after[n - 1], evs[n])
    IN  after[Len(evs)]

(* A session now exists: what waited for it is applied, updates first. *)
Flushed(m, i) ==
    AppliedEvents(IF pendUpd[i] # NoUpdate THEN AppliedUpdate(m, pendUpd[i]) ELSE m, pendEvt[i])

(* A bug to catch in HandleTerminalUpdate: the tombstones are not asked. *)
UpdateWithoutTombstones(u) ==
    IF u.id \in Live(mgr) THEN mgr' = AppliedUpdate(mgr, u) /\ UNCHANGED pendUpd
    ELSE pendUpd' = [pendUpd EXCEPT ![u.id] = u] /\ UNCHANGED mgr

HandleTerminalUpdate(u) ==
    \/ /\ u.id \in removed
       /\ UNCHANGED <<mgr, pendUpd>>
    \/ /\ u.id \notin removed /\ u.id \in Live(mgr)
       /\ mgr' = AppliedUpdate(mgr, u)
       /\ UNCHANGED pendUpd
    \/ /\ u.id \notin removed /\ u.id \notin Live(mgr)
       /\ pendUpd' = [pendUpd EXCEPT ![u.id] = u]
       /\ UNCHANGED mgr

TerminalUpdatePost(p) ==
    /\ p.op = "update"
    /\ HandleTerminalUpdate([id |-> p.id, status |-> p.status, at |-> p.at])
    /\ UNCHANGED <<removed, mapped, refMap, pendEvt, pendMeta, told>>

(* resolveTerminalEventTaskId: who last used this terminal comes first. *)
TaskOf(p) == IF p.ref \in DOMAIN refMap THEN refMap[p.ref] ELSE p.id

(* rememberTaskTerminalBinding: parsing an event already binds the session *)
(* it names to its terminal, before any check of the event itself.         *)
BoundRefs(i, ref) ==
    LET old == mgr.entries[i].ref
        kept == DOMAIN refMap \ (IF ref # NoRef /\ old # ref THEN {old} ELSE {})
    IN  [r \in kept \cup ({ref} \ {NoRef}) |-> IF r = ref THEN i ELSE refMap[r]]

Queued(q, ev) == LET r == Append(q, ev) IN IF Len(r) > PendingCap THEN Tail(r) ELSE r

TerminalEventPost(p) ==
    /\ p.op = "event"
    /\ LET i == TaskOf(p)
           ev == [id |-> i, ref |-> p.ref, at |-> p.at, kind |-> p.kind, status |-> p.status]
           m == BindSessionToTerminal(mgr, i, p.ref)
       IN  /\ refMap' = BoundRefs(i, p.ref)
           /\ IF i \in removed THEN mgr' = m /\ UNCHANGED pendEvt
              ELSE IF i \in Live(m) THEN mgr' = AppliedEvent(m, ev) /\ UNCHANGED pendEvt
              ELSE mgr' = m /\ pendEvt' = [pendEvt EXCEPT ![i] = Queued(@, ev)]
    /\ UNCHANGED <<removed, mapped, pendUpd, pendMeta, told>>

-----------------------------------------------------------------------------
(* sessions/index.ts. *)

(* A name the gateway made up gives way to the workspace folder's. *)
MaybeRename(m, i) == IF m.entries[i].name = "auto" THEN RenameSession(m, i, "folder") ELSE m

WithMetadata(m, i) == MaybeRename(SetClientMetadata(m, i), i)

CreateSessionPost(p) ==
    /\ p.op = "create"
    /\ LET c == CreateSession(mgr, p.id, p.name, NoRef)
           d == IF p.id \in pendMeta THEN WithMetadata(c, p.id) ELSE c
       IN  IF p.id \in removed THEN UNCHANGED <<tables, told>>
           ELSE /\ mgr' = Flushed(Save(d), p.id)
                /\ removed' = removed \ {p.id}
                /\ mapped' = IF p.id \in Shells THEN mapped \cup {p.id} ELSE mapped
                /\ pendMeta' = pendMeta \ {p.id}
                /\ pendUpd' = [pendUpd EXCEPT ![p.id] = NoUpdate]
                /\ pendEvt' = [pendEvt EXCEPT ![p.id] = <<>>]
                /\ told' = IF p.id \in Shells THEN [told EXCEPT ![p.id] = Untold] ELSE told
                /\ UNCHANGED refMap

(* A bug to catch in RemoveSessionPost: no tombstone for what is not yet   *)
(* registered.                                                             *)
RemoveKnownPost(p) ==
    /\ p.op = "remove"
    /\ mgr' = Save(RemoveSession(mgr, p.id))
    /\ removed' = IF p.id \in Live(mgr) THEN removed \cup {p.id} ELSE removed
    /\ mapped' = mapped \ {p.id}
    /\ pendUpd' = [pendUpd EXCEPT ![p.id] = NoUpdate]
    /\ pendEvt' = [pendEvt EXCEPT ![p.id] = <<>>]
    /\ UNCHANGED <<refMap, pendMeta, told>>

RemoveSessionPost(p) ==
    /\ p.op = "remove"
    /\ mgr' = Save(RemoveSession(mgr, p.id))
    /\ removed' = removed \cup {p.id}
    /\ mapped' = mapped \ {p.id}
    /\ pendUpd' = [pendUpd EXCEPT ![p.id] = NoUpdate]
    /\ pendEvt' = [pendEvt EXCEPT ![p.id] = <<>>]
    /\ UNCHANGED <<refMap, pendMeta, told>>

RenameSessionPost(p) ==
    /\ p.op = "rename"
    /\ mgr' = IF p.id \in Live(mgr) THEN Save(RenameSession(mgr, p.id, "user")) ELSE mgr
    /\ UNCHANGED <<removed, mapped, refMap, pendUpd, pendEvt, pendMeta, told>>

TouchSessionPost(p) ==
    /\ p.op = "touch"
    /\ mgr' = TouchSession(mgr, p.id)
    /\ UNCHANGED <<removed, mapped, refMap, pendUpd, pendEvt, pendMeta, told>>

PauseSessionPost(p) ==
    /\ p.op = "pause"
    /\ mgr' = IF p.id \in Live(mgr) THEN Save(PauseSession(mgr, p.id)) ELSE mgr
    /\ UNCHANGED <<removed, mapped, refMap, pendUpd, pendEvt, pendMeta, told>>

Resolved(i) == i \in mapped \/ i \in Live(mgr)

(* The analyzer's idle and needs_input both ask for the user. *)
Translated(status) == IF status = "working" THEN "running" ELSE "needs_attention"

Newest(t, p) ==
    CASE p.at > t.at -> [at |-> p.at, says |-> {Translated(p.status)}]
      [] p.at = t.at -> [t EXCEPT !.says = @ \cup {Translated(p.status)}]
      [] OTHER -> t

AgentStatusPost(p) ==
    /\ p.op = "status"
    /\ IF Resolved(p.id)
       THEN /\ mapped' = mapped \cup {p.id}
            /\ HandleTerminalUpdate([id |-> p.id, status |-> Translated(p.status), at |-> p.at])
            /\ told' = [told EXCEPT ![p.id] = Newest(@, p)]
       ELSE UNCHANGED <<mapped, mgr, pendUpd, told>>
    /\ UNCHANGED <<removed, refMap, pendEvt, pendMeta>>

ClientMetadataPost(p) ==
    /\ p.op = "meta"
    /\ IF Resolved(p.id)
       THEN /\ mapped' = mapped \cup {p.id}
            /\ mgr' = IF p.id \in Live(mgr) THEN Save(WithMetadata(mgr, p.id)) ELSE mgr
            /\ UNCHANGED pendMeta
       ELSE pendMeta' = pendMeta \cup {p.id} /\ UNCHANGED <<mapped, mgr>>
    /\ UNCHANGED <<removed, refMap, pendUpd, pendEvt, told>>

(* A POST arrives.  Requests use connections of their own: any may be next. *)
Deliver(p) ==
    /\ p \in posts
    /\ posts' = posts \ {p}
    /\ \/ TerminalUpdatePost(p) \/ TerminalEventPost(p) \/ CreateSessionPost(p)
       \/ RemoveSessionPost(p) \/ RenameSessionPost(p) \/ TouchSessionPost(p)
       \/ PauseSessionPost(p) \/ AgentStatusPost(p) \/ ClientMetadataPost(p)
    /\ UNCHANGED <<env, damaged>>

(* A request times out or is refused; nobody sends it again. *)
Lose(p) ==
    /\ p \in posts
    /\ posts' = posts \ {p}
    /\ damaged' = (damaged \/ p.op \in {"create", "remove", "meta"})
    /\ UNCHANGED <<tables, env, told>>

-----------------------------------------------------------------------------
(* A git check ends and finds a change of mind.  It counts as one of the   *)
(* session's MaxPosts steps, to bound the instance.                        *)
GitCheck(i) ==
    /\ i \in Live(mgr)
    /\ sent[i] < MaxPosts
    /\ sent' = [sent EXCEPT ![i] = @ + 1]
    /\ mgr' = GitChecked(mgr, i)
    /\ UNCHANGED <<removed, mapped, refMap, pendUpd, pendEvt, pendMeta, shell, dismissed, now, boots, posts,
                   damaged, told>>

TimerFires ==
    /\ mgr.timer
    /\ mgr' = Fire(mgr)
    /\ UNCHANGED <<removed, mapped, refMap, pendUpd, pendEvt, pendMeta, env, posts, damaged, told>>

(* The backend dies and starts again (restorePersistedState).  Everything  *)
(* but the sessions file is gone; the file is read, not written.           *)
Restart ==
    /\ boots < MaxRestarts
    /\ boots' = boots + 1
    /\ LET back == SavedIds(mgr)
           entries == [i \in Ids |-> IF i \in back THEN [mgr.saved[i] EXCEPT !.status = "needs_attention"]
                                     ELSE Absent]
           refs == {mgr.saved[i].ref : i \in back} \ {NoRef}
       IN  /\ mgr' = [mgr EXCEPT !.entries = entries, !.shown = View(entries), !.timer = FALSE]
           /\ mapped' = back
           /\ \E f \in [refs -> back] : /\ \A r \in refs : mgr.saved[f[r]].ref = r
                                        /\ refMap' = f
    /\ removed' = {}
    /\ pendUpd' = [i \in Ids |-> NoUpdate] /\ pendEvt' = [i \in Ids |-> <<>>] /\ pendMeta' = {}
    /\ damaged' = TRUE /\ told' = [i \in Shells |-> Untold]
    /\ UNCHANGED <<posts, shell, dismissed, now, sent>>

(* ws-server.ts: what the gateway posts about a shell. *)
ShellStarted(i) ==
    /\ shell[i] = "unborn"
    /\ shell' = [shell EXCEPT ![i] = "alive"]
    /\ posts' = posts \cup {[op |-> "meta", id |-> i], [op |-> "create", id |-> i, name |-> "auto"]}
    /\ UNCHANGED <<tables, dismissed, now, sent, boots, damaged, told>>

ShellRemoved(i) ==
    /\ shell[i] = "alive"
    /\ shell' = [shell EXCEPT ![i] = "gone"]
    /\ posts' = posts \cup {[op |-> "remove", id |-> i, by |-> "gateway"]}
    /\ UNCHANGED <<tables, dismissed, now, sent, boots, damaged, told>>

(* A tick that was under way when the shell went may still report.         *)
StatusChanged(i) ==
    /\ shell[i] # "unborn"
    /\ sent[i] < MaxPosts
    /\ sent' = [sent EXCEPT ![i] = @ + 1]
    /\ \E s \in {"working", "needs_input"} :
           posts' = posts \cup {[op |-> "status", id |-> i, status |-> s, at |-> now]}
    /\ UNCHANGED <<tables, shell, dismissed, now, boots, damaged, told>>

(* What the clients of the gateway and the desktop ask of any session      *)
(* (http-sessions-client.ts, main.ts); the other routes are for clients    *)
(* with sessions of their own, and take the id of a Shared shell as well.  *)
Offered(i) ==
    CASE i \in Shells \ Shared -> {"remove", "rename", "touch"}
      [] i \in Shared -> {"remove", "rename", "touch", "pause", "update", "event"}
      [] OTHER -> {"create", "remove", "rename", "touch", "pause", "update", "event"}

PostsFor(i) ==
    [op : {"create"}, id : {i}, name : {"user"}]
      \cup [op : {"remove"}, id : {i}, by : {"client"}]
      \cup [op : {"rename", "touch", "pause"}, id : {i}]
      \cup [op : {"update"}, id : {i}, status : {"running", "stopped"}, at : {now}]
      \cup UNION {[op : {"event"}, id : {i}, ref : Refs \cup {NoRef}, at : {now}, kind : {k},
                   status : EventOutcomes(k)] : k \in EventKinds}

(* Removing a session leaves its shell running (remove_session).           *)
ClientPost(i) ==
    /\ sent[i] < MaxPosts
    /\ sent' = [sent EXCEPT ![i] = @ + 1]
    /\ \E p \in {q \in PostsFor(i) : q.op \in ClientPosts \cap Offered(i)} :
           /\ posts' = posts \cup {p}
           /\ dismissed' = IF p.op = "remove" THEN dismissed \cup {i} ELSE dismissed
    /\ UNCHANGED <<tables, shell, now, boots, damaged, told>>

Tick ==
    /\ now < MaxTime /\ now' = now + 1
    /\ UNCHANGED <<tables, posts, shell, dismissed, sent, boots, damaged, told>>

Next ==
    \/ \E p \in posts : Deliver(p) \/ Lose(p)
    \/ \E i \in Ids : GitCheck(i)
    \/ TimerFires
    \/ Restart
    \/ \E i \in Shells : Cardinality(posts) < MaxInFlight
                           /\ (ShellStarted(i) \/ ShellRemoved(i) \/ StatusChanged(i))
    \/ \E i \in Ids : Cardinality(posts) < MaxInFlight /\ ClientPost(i)
    \/ Tick

Spec == Init /\ [][Next]_vars

-----------------------------------------------------------------------------
TypeOK ==
    /\ RegistryType(mgr)
    /\ removed \subseteq Ids /\ mapped \subseteq Ids /\ pendMeta \subseteq Ids
    /\ DOMAIN refMap \subseteq Refs /\ \A r \in DOMAIN refMap : refMap[r] \in Ids
    /\ \A i \in Ids : Len(pendEvt[i]) <= PendingCap /\ sent[i] \in 0 .. MaxPosts
    /\ shell \in [Shells -> {"unborn", "alive", "gone"}] /\ dismissed \subseteq Ids
    /\ now \in 1 .. MaxTime /\ boots \in 0 .. MaxRestarts

(* Once every POST about the gateway's shells has arrived, in whatever     *)
(* order, and unless one was lost or the backend restarted, the registry   *)
(* holds exactly the shells that run and whose session no client removed,  *)
(* each with its metadata: a removal that overtakes the creation still     *)
(* wins, and so does metadata (sessions/index.ts, removedSessionIds and    *)
(* pendingClientMetadataByShellSessionId).                                 *)
RegistryConverges ==
    (posts = {} /\ ~damaged) =>
        \A i \in Shells : /\ i \in Live(mgr) <=> shell[i] = "alive" /\ i \notin dismissed
                          /\ i \in Live(mgr) => mgr.entries[i].meta

(* The newest report of a shell's analyzer decides its status, however the *)
(* POSTs were reordered since the session was registered.                  *)
LatestReportWins ==
    \A i \in (Shells \ Shared) \cap Live(mgr) :
        told[i].says # {} => mgr.entries[i].status \in told[i].says

(* No update, event or metadata stays behind for a session that exists, or *)
(* waits for one that was removed (metadata excepted: it does).            *)
NothingLeftPending ==
    /\ \A i \in Live(mgr) : pendUpd[i] = NoUpdate /\ pendEvt[i] = <<>> /\ i \notin pendMeta
    /\ \A i \in removed : i \notin Live(mgr) /\ pendUpd[i] = NoUpdate /\ pendEvt[i] = <<>>

(* A restart brings back every running shell's session, and none that was  *)
(* removed or is over (saveSessions after each handler that needs it).     *)
RestartKeepsSessions ==
    /\ Live(mgr) \cap (Shells \ Shared) \subseteq SavedIds(mgr)
    /\ \A i \in SavedIds(mgr) : mgr.entries[i].status \notin Over \cup {"none"}

=============================================================================
