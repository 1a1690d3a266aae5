--------------------------- MODULE SessionRegistry ---------------------------
(***************************************************************************)
(* The session manager (src/shared/sessionManager.ts), as operators on its *)
(* state, so that a request handler which calls several of its methods in  *)
(* a row is one step.  The state m is a record                             *)
(*                                                                         *)
(*   entries   per session: status "none" (no entry) or a SessionStatus,   *)
(*             lastTerminalUpdateAt, terminalRef, name, whether it has     *)
(*             client metadata, and gitChanges;                            *)
(*   shown     what the last 'sessionUpdate' event carried;                *)
(*   timer     is the debounced 'sessionUpdate' scheduled?                 *)
(*   saved     the sessions file: what the last saveSessions wrote.        *)
(*                                                                         *)
(* Exit codes, the capture state, the pid and activity times are left out: *)
(* no property here tells them apart.                                      *)
(***************************************************************************)
EXTENDS Naturals

CONSTANTS Ids, Refs, NoRef

ASSUME RegistryAssumption == NoRef \notin Refs

Statuses == {"starting", "running", "needs_attention", "paused", "error", "stopped", "detached"}

Over == {"error", "stopped", "detached"}

Names == {"none", "auto", "folder", "user"}

Entry == [status : Statuses \cup {"none"}, updAt : Nat, ref : Refs \cup {NoRef},
          name : Names, meta : BOOLEAN, git : BOOLEAN]

Absent == [status |-> "none", updAt |-> 0, ref |-> NoRef, name |-> "none", meta |-> FALSE, git |-> FALSE]

Live(m) == {i \in Ids : m.entries[i].status # "none"}

(* What a client of getSessions can see: the update time is the manager's. *)
View(entries) == [i \in Ids |-> [entries[i] EXCEPT !.updAt = 0]]

(* What saveSessions writes: no status, and no session that is over. *)
Savable(entries) ==
    [i \in Ids |-> IF entries[i].status \in Over \cup {"none"} THEN Absent
                   ELSE [Absent EXCEPT !.name = entries[i].name, !.ref = entries[i].ref,
                                       !.meta = entries[i].meta]]

SavedIds(m) == {i \in Ids : m.saved[i] # Absent}

RegistryInit == [entries |-> [i \in Ids |-> Absent], shown |-> [i \in Ids |-> Absent],
                 timer |-> FALSE, saved |-> [i \in Ids |-> Absent]]

RegistryType(m) ==
    /\ m.entries \in [Ids -> Entry]
    /\ m.shown \in [Ids -> Entry]
    /\ m.timer \in BOOLEAN
    /\ m.saved \in [Ids -> Entry]

-----------------------------------------------------------------------------
With(m, i, e) == [m EXCEPT !.entries[i] = e]

Emit(m) == [m EXCEPT !.shown = View(m.entries)]

EmitDebounced(m) == [m EXCEPT !.timer = TRUE]

Save(m) == [m EXCEPT !.saved = Savable(m.entries)]

CreateSession(m, i, name, ref) ==
    LET e == m.entries[i]
    IN  Emit(With(m, i, [e EXCEPT !.status = "needs_attention", !.updAt = 0, !.name = name,
                                  !.ref = IF ref = NoRef THEN e.ref ELSE ref]))

RemoveSession(m, i) == IF i \in Live(m) THEN Emit(With(m, i, Absent)) ELSE m

TouchSession(m, i) == IF i \in Live(m) THEN Emit(m) ELSE m

PauseSession(m, i) ==
    IF m.entries[i].status \in Over \cup {"none", "paused"} THEN m
    ELSE Emit(With(m, i, [m.entries[i] EXCEPT !.status = "paused"]))

RenameSession(m, i, name) ==
    IF i \in Live(m) /\ m.entries[i].name # name
    THEN Emit(With(m, i, [m.entries[i] EXCEPT !.name = name])) ELSE m

SetClientMetadata(m, i) ==
    IF i \in Live(m) /\ ~m.entries[i].meta
    THEN Emit(With(m, i, [m.entries[i] EXCEPT !.meta = TRUE])) ELSE m

(* updateSessionTerminalBinding: does this reference change the session's? *)
Rebinds(e, ref) == ref # NoRef /\ ref # e.ref

Bound(e, ref) == IF Rebinds(e, ref) THEN [e EXCEPT !.ref = ref] ELSE e

BindSessionToTerminal(m, i, ref) ==
    LET e == m.entries[i]
    IN  CASE e.status = "none" -> m
          [] e.status = "detached" ->
                Emit(With(m, i, [Bound(e, ref) EXCEPT !.status = "needs_attention"]))
          [] OTHER -> IF Rebinds(e, ref) THEN EmitDebounced(With(m, i, Bound(e, ref))) ELSE m

(* applyTerminalUpdate: at once if the status changed, debounced if not. *)
Applied(m, i, status, at) ==
    LET e == m.entries[i]
        n == With(m, i, [e EXCEPT !.status = status, !.updAt = at])
    IN  IF e.status # status THEN Emit(n) ELSE EmitDebounced(n)

(* A bug to catch in UpdateTerminalState: reports are applied in the order they arrive. *)
UpdateUnordered(m, u) ==
    IF m.entries[u.id].status \in {"none", "detached"} THEN m ELSE Applied(m, u.id, u.status, u.at)

UpdateTerminalState(m, u) ==
    LET e == m.entries[u.id]
    IN  IF \/ e.status \in {"none", "detached"}
           \/ e.status = "paused" /\ u.status # "running"
           \/ u.at < e.updAt
        THEN m ELSE Applied(m, u.id, u.status, u.at)

(* The status a terminal event leads to, "same" when it leads to none.     *)
(* The backend drops the events whose answer needs the parser's memory, so *)
(* for those left it is a function of the event (terminalEvents.ts).       *)
EventOutcomes(kind) ==
    CASE kind = "terminal_opened"         -> {"needs_attention", "starting"}
      [] kind = "terminal_attached"       -> {"needs_attention"}
      [] kind = "terminal_capture_state"  -> {"running", "needs_attention", "same"}
      [] kind = "shell_execution_started" -> {"needs_attention", "running"}
      [] kind = "shell_execution_ended"   -> {"error", "stopped", "running"}
      [] kind = "terminal_closed"         -> {"error", "stopped"}
      [] kind = "terminal_disconnected"   -> {"detached"}

Closing == {"terminal_closed", "terminal_disconnected"}

(* restoreDetachedSessionFromTerminalEvent, before the event's own effect. *)
Restored(m, ev) ==
    LET e == m.entries[ev.id]
    IN  IF e.status = "detached" /\ ev.kind \notin Closing /\ ev.ref # NoRef /\ ev.ref = e.ref
        THEN With(m, ev.id, [e EXCEPT !.status = "needs_attention"]) ELSE m

UpdateTerminalEvent(m, ev) ==
    LET i == ev.id
        r == Restored(m, ev)
        e == r.entries[i]
        b == With(r, i, Bound(e, ev.ref))
        late == Rebinds(e, ev.ref)
        quiet == With(b, i, [b.entries[i] EXCEPT !.updAt = ev.at])
        done == IF ev.status = "same" \/ (e.status = "paused" /\ ev.status # "running")
                THEN quiet ELSE Applied(b, i, ev.status, ev.at)
    IN  IF e.status \in {"none", "detached"} \/ ev.at < e.updAt THEN r
        ELSE IF late THEN EmitDebounced(done) ELSE done

(* A git check ends: gitChanges is toggled, or it is not. *)
GitChecked(m, i) ==
    EmitDebounced(With(m, i, [m.entries[i] EXCEPT !.git = ~m.entries[i].git]))

Fire(m) == [Emit(m) EXCEPT !.timer = FALSE]

=============================================================================
