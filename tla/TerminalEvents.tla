--------------------------- MODULE TerminalEvents ---------------------------
(***************************************************************************)
(* The classifier of terminal events (src/shared/terminalEvents.ts) under  *)
(* the session manager that owns it: what a terminal does decides whether  *)
(* its session is running or needs the user.  The parser remembers the     *)
(* tail of the output, the agent it believes to be on screen, and what it  *)
(* said last; the manager forgets that memory when the terminal goes.      *)
(*                                                                         *)
(* Output is a sequence of tokens, one for each thing a pattern looks for: *)
(*   "text"     nothing any pattern matches                                *)
(*   "newline"  a line break                                               *)
(*   "prompt"   a prompt glyph and a blank                                 *)
(*   "menu"     an agent's approval menu: "1. Yes, proceed (y)"            *)
(*   "work"     an agent's working line, at the start of the output        *)
(*   "name"     the name of an agent, codex's here                         *)
(* A command is "shell" (no agent), "codex" (an agent whose output is known *)
(* by its command: icon gated) or "claude" (an agent that is not).         *)
(*                                                                         *)
(* What the windows are shown is the subject of BackendSessions and left   *)
(* out here.                                                               *)
(***************************************************************************)
EXTENDS SessionRegistry, Sequences

CONSTANTS
    Execs, NoExec, \* ids of shell executions
    TailLen,       \* TERMINAL_OUTPUT_TAIL_LENGTH, in tokens
    Grace,         \* AGENT_RUNNING_GRACE_PERIOD_MS, in ticks
    Stabilize,     \* STATUS_CHANGE_STABILIZATION_MS, in ticks
    MaxNow         \* bound: the clock

ASSUME TerminalAssumption ==
    /\ NoExec \notin Execs
    /\ TailLen \in Nat \ {0} /\ Grace \in Nat /\ Stabilize \in Nat /\ MaxNow \in Nat \ {0}

VARIABLES
    reg,    \* the session manager
    parser, \* the parser's state of each session; Fresh stands for none
    now,    \* the clock of the machine
    judged, \* history: was the session's last step output that the parser judged?
    flipAt  \* history: when that last changed the status, 0 if anything but output came since

vars == <<reg, parser, now, judged, flipAt>>

Agents == {"codex", "claude"}
Kinds == Agents \cup {"generic"}

Parser == [tail : Seq({"text", "prompt", "menu", "work", "name"}), awaiting : BOOLEAN,
           ui : BOOLEAN, kind : Kinds, indicatorAt : Nat, changedAt : Nat,
           last : {"none", "running", "needs_attention"},
           interactive : SUBSET Execs, gated : SUBSET Execs]

Fresh == [tail |-> <<>>, awaiting |-> FALSE, ui |-> FALSE, kind |-> "generic", indicatorAt |-> 0,
          changedAt |-> 0, last |-> "none", interactive |-> {}, gated |-> {}]

-----------------------------------------------------------------------------
(* The events of a terminal. *)
Chunks == {<<"text">>, <<"prompt">>, <<"newline", "prompt">>, <<"menu">>, <<"work">>, <<"name">>}

Commands == Agents \cup {"shell"}

SomeExec == Execs \cup {NoExec}

(* Events of a kind: a field that the kind does not carry has one value. *)
EventsOf(kinds, cmds, execs, chunks, captures, primary, failed) ==
    [kind : kinds, cmd : cmds, exec : execs, chunk : chunks, capture : captures,
     primary : primary, failed : failed]

OpenedEvents ==
    EventsOf({"terminal_opened"}, Commands \cup {""}, {NoExec}, {<<>>}, {""}, {FALSE}, {FALSE})

CaptureEvents ==
    EventsOf({"terminal_capture_state"}, {"shell"}, {NoExec}, {<<>>},
             {"capturing", "waiting_for_execution", "unavailable"}, {FALSE}, {FALSE})

StartedEvents ==
    EventsOf({"shell_execution_started"}, Commands, SomeExec, {<<>>}, {""}, {FALSE}, {FALSE})

EndedEvents ==
    EventsOf({"shell_execution_ended"}, {"shell"}, SomeExec, {<<>>}, {""}, BOOLEAN, BOOLEAN)

ClosedEvents ==
    EventsOf({"terminal_closed"}, {"shell"}, {NoExec}, {<<>>}, {""}, {FALSE}, BOOLEAN)

OtherEvents ==
    EventsOf({"terminal_attached", "terminal_disconnected"}, {"shell"}, {NoExec}, {<<>>}, {""},
             {FALSE}, {FALSE})

(* What the backend's event route keeps (terminals/index.ts). *)
KeptEvents ==
    OpenedEvents \cup CaptureEvents \cup StartedEvents \cup EndedEvents \cup ClosedEvents \cup OtherEvents

(* Output may name the execution it is of, and its command. *)
OutputEvents ==
    EventsOf({"terminal_output"}, {"shell"}, SomeExec, Chunks, {""}, {FALSE}, {FALSE})
      \cup EventsOf({"terminal_output"}, {"codex"}, {NoExec}, Chunks, {""}, {FALSE}, {FALSE})

(* terminal_visible and terminal_interacted: one handler for the two. *)
ActivityEvents ==
    EventsOf({"terminal_visible"}, {"shell"}, {NoExec}, {<<>>}, {"", "waiting_for_execution"},
             {FALSE}, {FALSE})

Events == KeptEvents \cup OutputEvents \cup ActivityEvents

-----------------------------------------------------------------------------
(* toTerminalUpdate, one operator per kind of event.  Each gives the       *)
(* parser's next state, the status it answers ("same" for no answer) and,  *)
(* for the history, how it came to that.                                   *)
Says(p, status) == [next |-> p, status |-> status, by |-> "other"]

IsInteractive(cmd) == cmd \in Agents
IsIconGated(cmd) == cmd = "codex"

Opened(ev) ==
    IF ev.cmd = "" \/ IsInteractive(ev.cmd)
    THEN Says([Fresh EXCEPT !.awaiting = TRUE], "needs_attention")
    ELSE Says(Fresh, "starting")

CaptureState(ev, p) ==
    CASE ev.capture = "capturing" -> Says([p EXCEPT !.awaiting = FALSE], "running")
      [] ev.capture = "waiting_for_execution" -> Says([p EXCEPT !.awaiting = TRUE], "needs_attention")
      [] ev.capture = "unavailable" -> Says(p, "same")

Started(ev, p) ==
    LET ids == {ev.exec} \ {NoExec}
    IN  IF IsInteractive(ev.cmd)
        THEN Says([p EXCEPT !.interactive = @ \cup ids,
                            !.gated = IF IsIconGated(ev.cmd) THEN @ \cup ids ELSE @,
                            !.kind = ev.cmd, !.awaiting = TRUE], "needs_attention")
        ELSE Says([p EXCEPT !.kind = "generic", !.awaiting = FALSE], "running")

(* A bug to catch in Ended: it answers like the prompt that follows. *)
EndedIdle(ev, p) ==
    LET q == [p EXCEPT !.interactive = @ \ {ev.exec}, !.gated = @ \ {ev.exec},
                       !.tail = <<>>, !.awaiting = FALSE]
    IN  Says(q, IF ev.primary THEN IF ev.failed THEN "error" ELSE "stopped" ELSE "needs_attention")

Ended(ev, p) ==
    LET q == [p EXCEPT !.interactive = @ \ {ev.exec}, !.gated = @ \ {ev.exec},
                       !.tail = <<>>, !.awaiting = FALSE]
    IN  Says(q, IF ev.primary THEN IF ev.failed THEN "error" ELSE "stopped" ELSE "running")

Activity(ev, p, status) ==
    CASE status \in Over -> Says(p, "same")
      [] status \notin Over /\ ev.capture = "waiting_for_execution" ->
            Says([p EXCEPT !.awaiting = TRUE], "needs_attention")
      [] OTHER -> Says(p, IF p.awaiting \/ p.interactive # {} THEN "needs_attention" ELSE "running")

-----------------------------------------------------------------------------
(* Terminal output. *)
Has(q, token) == \E k \in DOMAIN q : q[k] = token

(* stripTerminalControlSequences: the line breaks go too. *)
Stripped(chunk) == SelectSeq(chunk, LAMBDA t : t # "newline")

WithTail(p, chunk) ==
    LET t == p.tail \o Stripped(chunk)
    IN  [p EXCEPT !.tail = IF Len(t) > TailLen THEN SubSeq(t, Len(t) - TailLen + 1, Len(t)) ELSE t]

IsRepaint(ev, p) ==
    p.last = "running" /\ ~Has(ev.chunk, "newline") /\ \A k \in DOMAIN ev.chunk : ev.chunk[k] = "prompt"

(* detectAgentUi: an agent's name, or a prompt at the start with more after it. *)
AgentUi(tail) == Has(tail, "name") \/ (Len(tail) > 1 /\ tail[1] = "prompt")

Sniffed(tail) == IF Has(tail, "name") THEN "codex" ELSE "generic"

(* The parser once it has the output and knows whose screen this is. *)
Looked(ev, p) ==
    LET q == WithTail(p, ev.chunk)
        ui == IsIconGated(ev.cmd) \/ ev.exec \in p.gated \/ p.ui \/ AgentUi(q.tail)
    IN  IF ~ui THEN q
        ELSE [q EXCEPT !.ui = TRUE,
                       !.kind = IF @ = "generic" /\ AgentUi(q.tail) THEN Sniffed(q.tail) ELSE @]

MenuShown(q) == q.ui /\ q.kind # "generic" /\ Has(q.tail, "menu")

InGrace(q, at) == q.indicatorAt > 0 /\ at - q.indicatorAt < Grace

(* analyzeTerminalOutput: what the screen asks for, first match first. *)
(* A bug to catch in RequestsInput: the working line is looked for first. *)
SpinnerFirst(ev, q, at, status) ==
    IF Has(ev.chunk, "work") THEN FALSE
    ELSE \/ MenuShown(q) \/ Has(q.tail, "prompt")
         \/ q.ui /\ ~(status = "running" /\ InGrace(q, at))

RequestsInput(ev, q, at, status) ==
    \/ MenuShown(q)
    \/ /\ ~Has(ev.chunk, "work")
       /\ \/ Has(q.tail, "prompt")
          \/ q.ui /\ ~(status = "running" /\ InGrace(q, at))

(* A bug to catch in Held: the status is held for a session that has none. *)
NeverHeld(q, proposed, at) == FALSE

(* Another status than the last one said is held back for a while. *)
Held(q, proposed, at) ==
    q.last # "none" /\ q.last # proposed /\ q.changedAt > 0 /\ at - q.changedAt < Stabilize

Output(ev, p, at, status) ==
    LET q == Looked(ev, p)
        asks == RequestsInput(ev, q, at, status)
        seen == IF q.ui /\ ~MenuShown(q) /\ Has(ev.chunk, "work") THEN [q EXCEPT !.indicatorAt = at] ELSE q
        proposed == IF asks THEN "needs_attention" ELSE "running"
    IN  IF IsRepaint(ev, p) THEN [Says(WithTail(p, ev.chunk), "same") EXCEPT !.by = "repaint"]
        ELSE IF Held(q, proposed, at) THEN [Says(seen, q.last) EXCEPT !.by = "held"]
        ELSE [Says([seen EXCEPT !.awaiting = asks, !.last = proposed, !.changedAt = at], proposed)
                EXCEPT !.by = "judged"]

Disconnected(ev, p) == Says(Fresh, "detached")

ToTerminalUpdate(ev, p, at, status) ==
    CASE ev.kind = "terminal_opened" -> Opened(ev)
      [] ev.kind = "terminal_attached" -> Says([Fresh EXCEPT !.awaiting = TRUE], "needs_attention")
      [] ev.kind = "terminal_capture_state" -> CaptureState(ev, p)
      [] ev.kind = "shell_execution_started" -> Started(ev, p)
      [] ev.kind = "terminal_output" -> Output(ev, p, at, status)
      [] ev.kind = "shell_execution_ended" -> Ended(ev, p)
      [] ev.kind = "terminal_closed" -> Says(Fresh, IF ev.failed THEN "error" ELSE "stopped")
      [] ev.kind = "terminal_disconnected" -> Disconnected(ev, p)
      [] ev.kind = "terminal_visible" -> Activity(ev, p, status)

-----------------------------------------------------------------------------
(* The session manager's methods that concern the parser. *)
Unseen(m) == [m EXCEPT !.shown = RegistryInit.shown, !.timer = FALSE]

Init ==
    /\ reg = RegistryInit
    /\ parser = [i \in Ids |-> Fresh]
    /\ now = 1
    /\ judged = [i \in Ids |-> FALSE] /\ flipAt = [i \in Ids |-> 0]

Status(i) == reg.entries[i].status

(* Does the event bring a detached session back? *)
Restores(i, ev) == Status(i) = "detached" /\ Restored(reg, ev).entries[i].status # "detached"

(* A bug to catch in Remembered: the parser goes on where it was. *)
StillRemembered(i, ev) == parser[i]

Remembered(i, ev) == IF Restores(i, ev) THEN Fresh ELSE parser[i]

(* updateTerminalEventWithDetails: an event about a session that does not  *)
(* exist, is detached, or was overtaken by a later one is not parsed.      *)
TerminalEvent(i, ev, ref, at) ==
    LET e == [id |-> i, ref |-> ref, at |-> at, kind |-> ev.kind, status |-> "same"]
        r == Restored(reg, e).entries[i]
        p == Remembered(i, e)
        parsed == r.status \notin {"none", "detached"} /\ at >= r.updAt
    IN  /\ i \in Live(reg)
        /\ \E answer \in {IF parsed THEN ToTerminalUpdate(ev, p, at, r.status) ELSE Says(p, "same")} :
              /\ reg' = Unseen(UpdateTerminalEvent(reg, [e EXCEPT !.status = answer.status]))
              /\ parser' = [parser EXCEPT ![i] = answer.next]
              /\ judged' = [judged EXCEPT ![i] = (answer.by = "judged")]
              /\ flipAt' = [flipAt EXCEPT ![i] =
                              CASE answer.by = "other" -> 0
                                [] answer.by = "judged" /\ reg'.entries[i].status # Status(i) -> at
                                [] OTHER -> @]
        /\ UNCHANGED now

(* updateTerminalState: a status that a client or the analyzer decided on. *)
(* The parser is not told, not even that the session is detached.          *)
UpdateState(i, status, at) ==
    /\ i \in Live(reg)
    /\ reg' = Unseen(UpdateTerminalState(reg, [id |-> i, status |-> status, at |-> at]))
    /\ judged' = [judged EXCEPT ![i] = FALSE] /\ flipAt' = [flipAt EXCEPT ![i] = 0]
    /\ UNCHANGED <<parser, now>>

(* createSession, for a session that exists too: it starts over. *)
Create(i) ==
    /\ reg' = Unseen(CreateSession(reg, i, "user", NoRef))
    /\ parser' = [parser EXCEPT ![i] = Fresh]
    /\ judged' = [judged EXCEPT ![i] = FALSE] /\ flipAt' = [flipAt EXCEPT ![i] = 0]
    /\ UNCHANGED now

Remove(i) ==
    /\ i \in Live(reg)
    /\ reg' = Unseen(RemoveSession(reg, i))
    /\ parser' = [parser EXCEPT ![i] = Fresh]
    /\ judged' = [judged EXCEPT ![i] = FALSE] /\ flipAt' = [flipAt EXCEPT ![i] = 0]
    /\ UNCHANGED now

(* bindSessionToTerminal: a detached session starts over. *)
Bind(i, ref) ==
    /\ i \in Live(reg)
    /\ reg' = Unseen(BindSessionToTerminal(reg, i, ref))
    /\ parser' = IF Status(i) = "detached" THEN [parser EXCEPT ![i] = Fresh] ELSE parser
    /\ judged' = [judged EXCEPT ![i] = FALSE] /\ flipAt' = [flipAt EXCEPT ![i] = 0]
    /\ UNCHANGED now

Pause(i) ==
    /\ reg' = Unseen(PauseSession(reg, i))
    /\ judged' = [judged EXCEPT ![i] = FALSE] /\ flipAt' = [flipAt EXCEPT ![i] = 0]
    /\ UNCHANGED <<parser, now>>

Tick == now < MaxNow /\ now' = now + 1 /\ UNCHANGED <<reg, parser, judged, flipAt>>

Next ==
    \/ \E i \in Ids : Create(i) \/ Remove(i) \/ Pause(i)
    \/ \E i \in Ids, ref \in Refs : Bind(i, ref)
    \/ \E i \in Ids, at \in {now, now - 1} :
         /\ at = now \/ at < reg.entries[i].updAt \* now, or overtaken by a later one
         /\ \/ \E ev \in Events, ref \in Refs : TerminalEvent(i, ev, ref, at)
            \/ \E status \in Statuses : UpdateState(i, status, at)
    \/ Tick

Spec == Init /\ [][Next]_vars

-----------------------------------------------------------------------------
TypeOK ==
    /\ RegistryType(reg)
    /\ parser \in [Ids -> Parser]
    /\ \A i \in Ids : Len(parser[i].tail) <= TailLen
    /\ now \in 1 .. MaxNow
    /\ judged \in [Ids -> BOOLEAN]
    /\ flipAt \in [Ids -> 0 .. MaxNow]

(* The backend's model answers an event by its kind alone (EventOutcomes): *)
(* whatever the parser remembers, the events its route keeps are answered  *)
(* with one of those statuses.  This is why dropping the others is enough. *)
OutcomesCovered ==
    \A i \in Live(reg) : \A ev \in KeptEvents :
        ToTerminalUpdate(ev, parser[i], now, Status(i)).status \in EventOutcomes(ev.kind)

(* What the parser knows of a terminal it has only just met: nothing, or   *)
(* what one event tells it.                                                *)
JustMet(p) ==
    \/ p = Fresh
    \/ \E ev \in Events, at \in 0 .. MaxNow :
          p = ToTerminalUpdate(ev, Fresh, at, "needs_attention").next

(* Nothing of an earlier terminal's screen is left to judge a later one:   *)
(* however a session came to be detached, and however late its parser was  *)
(* told, when it comes back, or is made again, the parser has forgotten it *)
(* (every path out of `detached' in sessionManager.ts).                    *)
NothingCarriedOver ==
    [][\A i \in Ids : (Status(i) \in {"none", "detached"} /\ Status(i)' \notin {"none", "detached"})
                         => JustMet(parser'[i])]_vars

(* verify-terminal-events.ts:19, "Codex approval menu must NOT be read as  *)
(* `running'": while a known agent's menu is on screen, output that is not *)
(* held back leaves the session waiting for its user (or paused).          *)
MenuWins ==
    \A i \in Live(reg) :
        judged[i] /\ MenuShown(parser[i]) => Status(i) \in {"needs_attention", "paused"}

(* terminalEvents.ts:322, "avoid status flapping": as long as nothing but  *)
(* output happens to a session, output does not change its status twice    *)
(* within the stabilization time.                                          *)
NoFlapping ==
    [][\A i \in Ids : (flipAt[i] > 0 /\ flipAt'[i] > 0 /\ Status(i)' # Status(i))
                         => reg'.entries[i].updAt - flipAt[i] >= Stabilize]_vars

=============================================================================
