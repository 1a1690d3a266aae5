---------------------------- MODULE OutputAnalyzer ---------------------------
(***************************************************************************)
(* The gateway's guess at what a session is doing (output-analyzer.ts,     *)
(* with its callers in ws-server.ts): `working' or `needs_input', from     *)
(* what is on the screen of a headless terminal fed with the session's     *)
(* output, from how long ago things happened, and from what clients say of *)
(* their user.                                                             *)
(*                                                                         *)
(* One session is followed.  A moment is kept as its age, which stops      *)
(* growing at the largest threshold it is compared with; that is also the  *)
(* age of what never happened (the code's 0).  What is on the screen       *)
(* matters by its patterns only.                                           *)
(***************************************************************************)
EXTENDS Naturals, Sequences, FiniteSets

CONSTANTS
    Screens,         \* screens the session can show
    Prompt,          \* those with a PROMPT_PATTERNS line at the bottom
    Override,        \* those with a RUNNING_OVERRIDE_PATTERNS line
    Stabilization, TypingGuard, FocusGuard, InputGrace, RecentOutput, Idle,
    FlapWindow, FlapMin, FlapHold, NoOutputLimit,
    Signals          \* what clients do in the run: "input", "typing", "focus", "resize"

ASSUME OutputAnalyzerAssumption ==
    /\ Prompt \subseteq Screens /\ Override \subseteq Screens
    /\ {Stabilization, TypingGuard, FocusGuard, InputGrace, RecentOutput, Idle,
        FlapWindow, FlapMin, FlapHold, NoOutputLimit} \subseteq Nat \ {0}
    /\ FlapMin > 1 \* one report does not flap
    /\ InputGrace < Idle /\ Idle < NoOutputLimit /\ RecentOutput < NoOutputLimit

VARIABLES
    session, \* the session's state, a record as NewState; None if the map has none
    tick,    \* "idle", or "awaiting" the parser of the headless terminal
    orphan,  \* what the tick will report if its state was reset meanwhile, else None
    idleOn   \* history: of what `needs_input' was last reported

analyzerVars == <<session, tick, orphan, idleOn>>

Nothing == "nothing"
None == [status |-> "none"]

(* getState makes it at the first mention of the session. *)
NewState == [status |-> "null",        \* lastStatus
             pending |-> Nothing,      \* what the buffered chunks will show
             shown |-> "blank",        \* on the headless terminal
             snapshot |-> Nothing,     \* lastSnapshot
             typing |-> FALSE, focused |-> FALSE,
             transitions |-> <<>>,     \* ages of the reports, `working' and `needs_input' in turn
             hold |-> 0,               \* time left until flappingUntil
             change |-> Stabilization, input |-> InputGrace, typed |-> TypingGuard,
             focus |-> FocusGuard, screen |-> Idle, output |-> NoOutputLimit]

State == IF session = None THEN NewState ELSE session

Unreported == [shown |-> Nothing, screen |-> Idle, input |-> InputGrace]

AnalyzerInit == session = None /\ tick = "idle" /\ orphan = None /\ idleOn = Unreported

-----------------------------------------------------------------------------
(* A bug to catch in Flapping: only what is proposed counts. *)
NeverFlapping(q, status) == FALSE

(* Reports alternate, so a long enough list of recent ones is a run.       *)
Flapping(q, status) ==
    /\ {q.status, status} = {"working", "needs_input"}
    /\ Len(q.transitions) + 1 >= FlapMin

Transition(q, proposed) ==
    LET flapping == Flapping(q, proposed)
        next == IF flapping THEN "needs_input" ELSE proposed
        held == IF flapping /\ q.hold < FlapHold THEN [q EXCEPT !.hold = FlapHold] ELSE q
    IN  IF q.status = next THEN held
        ELSE [held EXCEPT !.status = next, !.change = 0, !.transitions = Append(@, 0)]

(* getWorkingSuppressionReason *)
Suppressed(q) == \/ q.hold > 0
                 \/ q.typing
                 \/ q.typed < TypingGuard
                 \/ q.focused /\ q.focus < FocusGuard

(* A state p becomes q: of what `needs_input' is then reported, if it is. *)
Report(p, q) ==
    IF q.status = "needs_input" /\ p.status # "needs_input"
    THEN [shown |-> q.shown, screen |-> q.screen, input |-> q.input] ELSE Unreported

Noted(report) == idleOn' = IF report = Unreported THEN idleOn ELSE report

Becomes(q) == session' = q /\ Noted(Report(State, q))

-----------------------------------------------------------------------------
(* What the gateway tells the analyzer.  A screen is what the session's    *)
(* output so far leaves on a terminal; output may leave it as it was.      *)

OnOutput(screen) ==
    LET q == [State EXCEPT !.output = 0, !.pending = screen]
    IN  /\ Becomes(IF q.status = "null" /\ ~Suppressed(q) THEN Transition(q, "working") ELSE q)
        /\ UNCHANGED <<tick, orphan>>

OnInput == "input" \in Signals /\ Becomes([State EXCEPT !.input = 0, !.typed = 0]) /\ UNCHANGED <<tick, orphan>>

OnUserTyping(on) ==
    /\ "typing" \in Signals
    /\ Becomes([State EXCEPT !.typing = on, !.typed = 0, !.input = IF on THEN 0 ELSE @])
    /\ UNCHANGED <<tick, orphan>>

OnTerminalFocus(on) ==
    /\ "focus" \in Signals
    /\ Becomes([State EXCEPT !.focused = on, !.focus = 0])
    /\ UNCHANGED <<tick, orphan>>

Resize == "resize" \in Signals /\ Becomes([State EXCEPT !.snapshot = Nothing]) /\ UNCHANGED <<tick, orphan>>

-----------------------------------------------------------------------------
(* The idle sweep. *)

(* A bug to catch in Silent: silence is no reason to stop waiting. *)
NeverSilent(q) == FALSE

(* The fallback for a session stuck in `working'. *)
Silent(q) == q.status = "working" /\ q.output >= NoOutputLimit

StillWorking(q) == q.shown \in Override /\ q.shown \notin Prompt

(* A bug to catch in Settled: the grace after input is forgotten. *)
SettledScreen(q) == q.screen >= Idle

Settled(q) == q.screen >= Idle /\ q.input >= InputGrace

(* tick, once the screen shows what was pending. *)
Judged(q) ==
    LET changed == q.shown # q.snapshot
        r == IF changed THEN [q EXCEPT !.snapshot = q.shown, !.screen = 0] ELSE q
        recent == r.change < Stabilization
    IN  CASE recent -> r
          [] ~recent /\ changed ->
                IF r.status # "working" /\ ~Suppressed(r) THEN Transition(r, "working") ELSE r
          [] ~recent /\ ~changed ->
                IF ~Settled(r) THEN r
                ELSE IF Silent(r) THEN Transition(r, "needs_input")
                ELSE IF ~StillWorking(r) THEN Transition(r, "needs_input")
                ELSE IF r.output > RecentOutput THEN r
                ELSE Transition([r EXCEPT !.screen = 0], "working")

(* The session exits or is removed.  A tick that awaits its terminal goes  *)
(* on with a state that is no longer in the map: nothing changes that any  *)
(* more, so what it will report can be told now.                           *)
Reset ==
    /\ session # None /\ session' = None
    /\ orphan' = IF tick = "awaiting" /\ orphan = None THEN Report(session, Judged(session)) ELSE orphan
    /\ UNCHANGED <<tick, idleOn>>

AnalyzerTick ==
    /\ session # None /\ tick = "idle" /\ session.pending = Nothing
    /\ Becomes(Judged(session))
    /\ UNCHANGED <<tick, orphan>>

(* With chunks buffered the tick first awaits the parser; meanwhile other  *)
(* callbacks run.                                                          *)
TickAwaits ==
    /\ session # None /\ tick = "idle" /\ session.pending # Nothing
    /\ session' = [session EXCEPT !.shown = session.pending, !.pending = Nothing]
    /\ tick' = "awaiting"
    /\ UNCHANGED <<orphan, idleOn>>

TickResumes ==
    /\ tick = "awaiting" /\ tick' = "idle" /\ orphan' = None
    /\ \/ orphan = None /\ Becomes(Judged(session))
       \/ orphan # None /\ Noted(orphan) /\ UNCHANGED session

(* Time does not pass while a tick awaits: a parse takes milliseconds.     *)
Older(n, limit) == IF n < limit THEN n + 1 ELSE n
Sooner(n) == IF n > 0 THEN n - 1 ELSE n

(* The reports are kept oldest first: those that leave FlapWindow are the  *)
(* first of them.                                                          *)
TimePasses ==
    /\ session # None /\ tick = "idle"
    /\ \E gone \in 0 .. Len(session.transitions) :
         LET all == 1 .. Len(session.transitions)
             aged == [n \in all |-> session.transitions[n] + 1]
         IN  /\ \A n \in all : aged[n] > FlapWindow <=> n <= gone
             /\ session' = [session EXCEPT !.change = Older(@, Stabilization), !.input = Older(@, InputGrace),
                               !.typed = Older(@, TypingGuard), !.focus = Older(@, FocusGuard),
                               !.screen = Older(@, Idle), !.output = Older(@, NoOutputLimit),
                               !.hold = Sooner(@),
                               !.transitions = SubSeq(aged, gone + 1, Len(aged))]
    /\ UNCHANGED <<tick, orphan, idleOn>>

AnalyzerNext ==
    \/ \E screen \in Screens : OnOutput(screen)
    \/ OnInput \/ Resize \/ Reset
    \/ \E on \in BOOLEAN : OnUserTyping(on) \/ OnTerminalFocus(on)
    \/ AnalyzerTick \/ TickAwaits \/ TickResumes \/ TimePasses

AnalyzerSpec == AnalyzerInit /\ [][AnalyzerNext]_analyzerVars

(* The interval timer fires, the parser ends and time passes. *)
AnalyzerLiveSpec ==
    /\ AnalyzerSpec
    /\ WF_analyzerVars(AnalyzerTick \/ TickAwaits \/ TickResumes)
    /\ WF_analyzerVars(TimePasses)

-----------------------------------------------------------------------------
(* No storm of reports: whatever the screen and the clients do, in any     *)
(* FlapWindow the session is reported at most FlapMin times               *)
(* (isWorkingNeedsInputFlapping).                                          *)
FlapBounded == session # None => Len(session.transitions) <= FlapMin

(* `needs_input' is reported only of a screen that was still for Idle, and *)
(* never within InputGrace of the user's input, on whichever path of tick, *)
(* one that was suspended while its session was reset included.            *)
NoFalseIdle == idleOn.screen >= Idle /\ idleOn.input >= InputGrace

(* A session does not stay `working' for good while its screen is still,   *)
(* its output silent and nobody types (the fallback in tick).              *)
NeverStuck ==
    []<>(\/ session = None \/ session.status # "working"
         \/ session.output < NoOutputLimit \/ session.screen < Idle \/ session.input < InputGrace)

(* What the comment on onOutput says: once waiting for the user, a session *)
(* is `working' again only if the visible screen changed                   *)
(* (output-analyzer.ts:227-232).                                           *)
PromotedByTheScreen ==
    [][ (session # None /\ session' # None /\ session.status = "needs_input" /\ session'.status = "working")
            => session'.shown # idleOn.shown ]_analyzerVars

=============================================================================
