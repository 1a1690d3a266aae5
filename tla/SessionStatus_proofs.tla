------------------------- MODULE SessionStatus_proofs ------------------------
(***************************************************************************)
(* Proofs about the two readers of a terminal's output that say what its   *)
(* session is doing: OutputAnalyzer, which reads the screen, and           *)
(* TerminalEvents, which reads the shell's and the agents' sequences.      *)
(* Everything holds for any thresholds, screens and clients of the one,    *)
(* and any sessions, terminals, lengths and times of the other.            *)
(***************************************************************************)
EXTENDS OutputAnalyzer, TerminalEvents, SequenceTheorems, TLAPS

(* The analyzer: on no path is a session reported as needing input too     *)
(* early, and reports do not come in storms.                               *)

StateFields == {"status", "pending", "shown", "snapshot", "typing", "focused", "transitions", "hold",
           "change", "input", "typed", "focus", "screen", "output"}

IsState(q) == DOMAIN q = StateFields

(* A report was earned: of a screen that is still, and a quiet user. *)
Earned(report) == report.screen >= Idle /\ report.input >= InputGrace

Inv ==
    /\ session = None \/ IsState(session)
    /\ tick = "awaiting" /\ orphan = None => session # None
    /\ Earned(idleOn) /\ (orphan = None \/ Earned(orphan))

(* The session becomes q, and is reported as needing input only if it was  *)
(* before, or if its screen is still and its user quiet.                   *)
Fair(p, q) ==
    /\ IsState(q)
    /\ q.status = "needs_input" /\ p.status # "needs_input" => q.screen >= Idle /\ q.input >= InputGrace

LEMMA ReportFacts ==
    ASSUME NEW p, NEW q, Fair(p, q)
    PROVE  Earned(Report(p, q))
  BY OutputAnalyzerAssumption DEF Fair, Earned, Report, Unreported

LEMMA StateFacts == Inv => IsState(State)
  BY DEF Inv, State, IsState, NewState, StateFields

(* A transition changes no age but that of the last change. *)
LEMMA TransitionFacts ==
    ASSUME NEW q, IsState(q), NEW proposed \in {"working", "needs_input"}
    PROVE  LET t == Transition(q, proposed)
           IN  /\ IsState(t) /\ t.screen = q.screen /\ t.input = q.input
               /\ t.status \in {"working", "needs_input"}
               /\ proposed = "working" /\ q.status # "needs_input" => t.status = "working"
  <1> DEFINE flapping == Flapping(q, proposed)
             next == IF flapping THEN "needs_input" ELSE proposed
             held == IF flapping /\ q.hold < FlapHold THEN [q EXCEPT !.hold = FlapHold] ELSE q
             moved == [held EXCEPT !.status = next, !.change = 0, !.transitions = Append(@, 0)]
  <1>1. Transition(q, proposed) = IF q.status = next THEN held ELSE moved
    BY DEF Transition
  <1>2. next \in {"working", "needs_input"}
    OBVIOUS
  <1>3. proposed = "working" /\ q.status # "needs_input" => next = "working"
    BY DEF Flapping
  <1> HIDE DEF flapping, next
  <1>4. IsState(held) /\ held.screen = q.screen /\ held.input = q.input /\ held.status = q.status
    BY DEF IsState, StateFields
  <1> HIDE DEF held
  <1>5. IsState(moved) /\ moved.screen = q.screen /\ moved.input = q.input /\ moved.status = next
    BY <1>4 DEF IsState, StateFields
  <1> HIDE DEF moved
  <1>6. QED
    BY <1>1, <1>2, <1>3, <1>4, <1>5

(* The sweep: every path of tick, from r, the state that has noted what is *)
(* on the screen.                                                          *)
LEMMA JudgedPaths ==
    ASSUME NEW q, IsState(q)
    PROVE  \E r, still :
             /\ IsState(r) /\ r.status = q.status /\ r.transitions = q.transitions
             /\ IsState(still) /\ still.status = q.status /\ still.transitions = q.transitions
             /\ \/ Judged(q) = r
                \/ Judged(q) = Transition(r, "working")
                \/ Judged(q) = Transition(r, "needs_input") /\ Settled(r)
                \/ Judged(q) = Transition(still, "working")
  <1> DEFINE changed == q.shown # q.snapshot
             fresh == [q EXCEPT !.snapshot = q.shown, !.screen = 0]
             r == IF changed THEN fresh ELSE q
             still == [r EXCEPT !.screen = 0]
             j == Judged(q)
  <1>1. IsState(r) /\ r.status = q.status /\ r.transitions = q.transitions
    BY DEF IsState, StateFields
  <1>2. \/ j = r
        \/ j = Transition(r, "working")
        \/ j = Transition(r, "needs_input") /\ Settled(r)
        \/ j = Transition(still, "working")
    <2> DEFINE recent == r.change < Stabilization
    <2>1. j = CASE recent -> r
                [] ~recent /\ changed ->
                     IF r.status # "working" /\ ~Suppressed(r) THEN Transition(r, "working") ELSE r
                [] ~recent /\ ~changed ->
                     IF ~Settled(r) THEN r
                     ELSE IF Silent(r) THEN Transition(r, "needs_input")
                     ELSE IF ~StillWorking(r) THEN Transition(r, "needs_input")
                     ELSE IF r.output > RecentOutput THEN r
                     ELSE Transition(still, "working")
      BY DEF Judged
    <2> HIDE DEF r, j, still
    <2>2. CASE recent
      BY <2>1, <2>2
    <2>3. CASE ~recent /\ changed
      BY <2>1, <2>3
    <2>4. CASE ~recent /\ ~changed
      BY <2>1, <2>4
    <2>5. QED
      BY <2>2, <2>3, <2>4
  <1> HIDE DEF r, j
  <1>3. IsState(still) /\ still.status = q.status /\ still.transitions = q.transitions
    BY <1>1 DEF IsState, StateFields
  <1> HIDE DEF still
  <1>4. QED
    BY <1>1, <1>2, <1>3 DEF j

LEMMA JudgedFacts ==
    ASSUME NEW q, IsState(q)
    PROVE  Fair(q, Judged(q))
  <1>1. PICK r, still :
             /\ IsState(r) /\ r.status = q.status /\ r.transitions = q.transitions
             /\ IsState(still) /\ still.status = q.status /\ still.transitions = q.transitions
             /\ \/ Judged(q) = r
                \/ Judged(q) = Transition(r, "working")
                \/ Judged(q) = Transition(r, "needs_input") /\ Settled(r)
                \/ Judged(q) = Transition(still, "working")
    BY Zenon, JudgedPaths
  <1>2. CASE Judged(q) = r
    BY <1>1, <1>2 DEF Fair
  <1>3. CASE Judged(q) = Transition(r, "working")
    BY <1>1, <1>3, TransitionFacts DEF Fair
  <1>4. CASE Judged(q) = Transition(r, "needs_input") /\ Settled(r)
    BY <1>1, <1>4, TransitionFacts DEF Fair, Settled
  <1>5. CASE Judged(q) = Transition(still, "working")
    BY <1>1, <1>5, TransitionFacts DEF Fair
  <1>6. QED
    BY <1>1, <1>2, <1>3, <1>4, <1>5

(* The signals of the gateway. *)
LEMMA ScreenFacts ==
    ASSUME Inv, NEW screen, OnOutput(screen)
    PROVE  Fair(State, session')
  <1> DEFINE q == [State EXCEPT !.output = 0, !.pending = screen]
  <1>1. IsState(q) /\ q.status = State.status
    BY StateFacts DEF IsState, StateFields
  <1>2. session' = q \/ (q.status = "null" /\ session' = Transition(q, "working"))
    BY DEF OnOutput, Becomes
  <1> HIDE DEF q
  <1>3. CASE session' = q
    BY <1>1, <1>3 DEF Fair
  <1>4. CASE q.status = "null" /\ session' = Transition(q, "working")
    BY <1>1, <1>4, TransitionFacts DEF Fair
  <1>5. QED
    BY <1>2, <1>3, <1>4

LEMMA SignalFacts ==
    ASSUME Inv, OnInput \/ Resize \/ \E on \in BOOLEAN : OnUserTyping(on) \/ OnTerminalFocus(on)
    PROVE  Fair(State, session')
  <1>1. IsState(State)
    BY StateFacts
  <1>2. CASE OnInput
    BY <1>1, <1>2 DEF OnInput, Becomes, Fair, IsState, StateFields
  <1>3. CASE Resize
    BY <1>1, <1>3 DEF Resize, Becomes, Fair, IsState, StateFields
  <1>4. ASSUME NEW on \in BOOLEAN, OnUserTyping(on) PROVE Fair(State, session')
    <2> DEFINE q == [State EXCEPT !.typing = on, !.typed = 0, !.input = IF on THEN 0 ELSE @]
    <2>1. session' = q
      BY <1>4 DEF OnUserTyping, Becomes
    <2>2. IsState(q) /\ q.status = State.status
      BY <1>1 DEF IsState, StateFields
    <2> HIDE DEF q
    <2>3. QED
      BY <2>1, <2>2 DEF Fair
  <1>5. ASSUME NEW on \in BOOLEAN, OnTerminalFocus(on) PROVE Fair(State, session')
    BY <1>1, <1>5 DEF OnTerminalFocus, Becomes, Fair, IsState, StateFields
  <1>6. QED
    BY <1>2, <1>3, <1>4, <1>5

(* The sweep, and time. *)
LEMMA SweepFacts ==
    ASSUME Inv, session # None, AnalyzerTick \/ TickAwaits \/ TickResumes \/ TimePasses
    PROVE  Fair(State, session')
  <1>1. IsState(session) /\ State = session
    BY DEF Inv, State
  <1>2. CASE AnalyzerTick \/ TickResumes
    <2>1. session' = Judged(session) \/ session' = session
      BY <1>2 DEF AnalyzerTick, TickResumes, Becomes
    <2>2. QED
      BY <1>1, <2>1, JudgedFacts DEF Fair
  <1>3. CASE TickAwaits
    BY <1>1, <1>3 DEF TickAwaits, Fair, IsState, StateFields
  <1>4. CASE TimePasses
    <2>1. PICK aged : session' = [session EXCEPT !.change = Older(@, Stabilization), !.input = Older(@, InputGrace),
                              !.typed = Older(@, TypingGuard), !.focus = Older(@, FocusGuard),
                              !.screen = Older(@, Idle), !.output = Older(@, NoOutputLimit),
                              !.hold = Sooner(@),
                              !.transitions = aged]
      BY Zenon, <1>4 DEF TimePasses
    <2>2. IsState(session') /\ session'.status = session.status
      BY <1>1, <2>1 DEF IsState, StateFields
    <2>3. QED
      BY <1>1, <2>2 DEF Fair
  <1>5. QED
    BY <1>2, <1>3, <1>4

LEMMA NextFair ==
    ASSUME Inv, [AnalyzerNext]_analyzerVars
    PROVE  session' = None \/ Fair(State, session')
  <1>1. CASE UNCHANGED analyzerVars
    BY <1>1 DEF analyzerVars, Inv, State, Fair
  <1>2. CASE AnalyzerNext
    <2>1. ASSUME NEW screen \in Screens, OnOutput(screen) PROVE Fair(State, session')
      BY <2>1, ScreenFacts
    <2>2. CASE Reset
      BY <2>2 DEF Reset
    <2>3. CASE AnalyzerTick \/ TickAwaits \/ TickResumes \/ TimePasses
      <3>1. session # None \/ session' = None
        BY <2>3 DEF AnalyzerTick, TickAwaits, TickResumes, TimePasses, Inv
      <3>2. QED
        BY <2>3, <3>1, SweepFacts
    <2>4. QED
      BY <1>2, <2>1, <2>2, <2>3, SignalFacts DEF AnalyzerNext
  <1>3. QED
    BY <1>1, <1>2

(* What is reported, or will be by a tick whose session was reset.        *)
LEMMA NextEarned ==
    ASSUME Inv, [AnalyzerNext]_analyzerVars
    PROVE  Earned(idleOn') /\ (orphan' = None \/ Earned(orphan'))
  <1>1. session' = None \/ Fair(State, session')
    BY NextFair
  <1>2. Earned(Report(State, session'))
    <2>1. CASE session' = None
      BY <2>1, OutputAnalyzerAssumption DEF Earned, Report, Unreported, None
    <2>2. QED
      BY <1>1, <2>1, ReportFacts
  <1>3. ASSUME Noted(Report(State, session')) \/ idleOn' = idleOn, orphan' \in {orphan, None}
        PROVE  Earned(idleOn') /\ (orphan' = None \/ Earned(orphan'))
    BY <1>2, <1>3 DEF Inv, Noted
  <1>4. CASE Reset
    <2>1. IsState(session)
      BY <1>4 DEF Reset, Inv
    <2>2. Earned(Report(session, Judged(session)))
      BY <2>1, JudgedFacts, ReportFacts
    <2>3. QED
      BY <1>4, <2>2 DEF Reset, Inv
  <1>5. CASE TickResumes
    <2>1. orphan' = None
      BY <1>5 DEF TickResumes
    <2>2. CASE orphan = None
      BY <1>3, <1>5, <2>1, <2>2 DEF TickResumes, Becomes
    <2>3. CASE orphan # None
      <3>1. Noted(orphan)
        BY <1>5, <2>3 DEF TickResumes
      <3>2. QED
        BY <2>1, <2>3, <3>1 DEF Noted, Inv
    <2>4. QED
      BY <2>2, <2>3
  <1>6. CASE \E screen \in Screens : OnOutput(screen)
    <2>1. (session' = session' /\ Noted(Report(State, session'))) /\ orphan' = orphan
      BY <1>6 DEF OnOutput, Becomes
    <2>2. QED
      BY <1>3, <2>1
  <1>7. CASE OnInput \/ Resize \/ AnalyzerTick
    <2>1. Noted(Report(State, session')) /\ orphan' = orphan
      BY <1>7 DEF OnInput, Resize, AnalyzerTick, Becomes
    <2>2. QED
      BY <1>3, <2>1
  <1>8. CASE \E on \in BOOLEAN : OnUserTyping(on) \/ OnTerminalFocus(on)
    <2>1. Noted(Report(State, session')) /\ orphan' = orphan
      BY <1>8 DEF OnUserTyping, OnTerminalFocus, Becomes
    <2>2. QED
      BY <1>3, <2>1
  <1>9. CASE TickAwaits \/ TimePasses \/ UNCHANGED analyzerVars
    <2>1. idleOn' = idleOn /\ orphan' = orphan
      BY <1>9 DEF TickAwaits, TimePasses, analyzerVars
    <2>2. QED
      BY <1>3, <2>1
  <1>10. QED
    BY <1>4, <1>5, <1>6, <1>7, <1>8, <1>9 DEF AnalyzerNext

LEMMA NextInv ==
    ASSUME Inv, [AnalyzerNext]_analyzerVars
    PROVE  Inv'
  <1>1. session' = None \/ IsState(session')
    BY NextFair DEF Fair
  <1>2. Earned(idleOn') /\ (orphan' = None \/ Earned(orphan'))
    BY NextEarned
  <1>3. tick' = "awaiting" /\ orphan' = None => session' # None
    <2>1. IsState(session') => session' # None
      BY DEF IsState, StateFields, None
    <2>2. CASE Reset
      <3>1. Report(session, Judged(session)) # None
        BY DEF Report, Unreported, None
      <3>2. QED
        BY <2>2, <3>1 DEF Reset
    <2>3. CASE TickResumes
      BY <2>3 DEF TickResumes
    <2>4. CASE UNCHANGED analyzerVars
      BY <2>4 DEF analyzerVars, Inv
    <2>5. CASE ~Reset /\ ~TickResumes /\ AnalyzerNext
      <3>1. session' # None
        <4>1. CASE \E screen \in Screens : OnOutput(screen)
          BY <4>1, ScreenFacts, <2>1 DEF Fair
        <4>2. CASE OnInput \/ Resize \/ \E on \in BOOLEAN : OnUserTyping(on) \/ OnTerminalFocus(on)
          BY <4>2, SignalFacts, <2>1 DEF Fair
        <4>3. CASE AnalyzerTick \/ TickAwaits \/ TimePasses
          <5>1. session # None
            BY <4>3 DEF AnalyzerTick, TickAwaits, TimePasses
          <5>2. QED
            BY <4>3, <5>1, SweepFacts, <2>1 DEF Fair
        <4>4. QED
          BY <2>5, <4>1, <4>2, <4>3 DEF AnalyzerNext
      <3>2. QED
        BY <3>1
    <2>6. QED
      BY <2>2, <2>3, <2>4, <2>5
  <1>4. QED
    BY <1>1, <1>2, <1>3 DEF Inv

LEMMA InitInv == AnalyzerInit => Inv
  BY OutputAnalyzerAssumption DEF AnalyzerInit, Inv, Earned, Unreported

LEMMA AnalyzerInductive == AnalyzerSpec => []Inv
  BY InitInv, NextInv, PTL DEF AnalyzerSpec

(* `needs_input' is never reported of a screen that moved within Idle, nor *)
(* within InputGrace of the user's input, also by a tick that goes on with *)
(* a session that was reset while it waited.                               *)
THEOREM NeverFalselyIdle == AnalyzerSpec => []NoFalseIdle
  <1>1. Inv => NoFalseIdle
    BY DEF Inv, Earned, NoFalseIdle
  <1>2. QED
    BY <1>1, AnalyzerInductive, PTL

-----------------------------------------------------------------------------
(* No storm of reports.  A list that is full ends with `needs_input', so   *)
(* what is proposed next flaps and is not reported.                        *)
Calm(q) ==
    /\ q.status \in {"null", "working", "needs_input"}
    /\ q.transitions \in Seq(Nat) /\ Len(q.transitions) <= FlapMin
    /\ Len(q.transitions) = FlapMin => q.status = "needs_input"
    /\ q.status = "null" => Len(q.transitions) = 0

CalmInv == session = None \/ (IsState(session) /\ Calm(session))

LEMMA SameCalm ==
    ASSUME NEW p, NEW q, Calm(p), q.status = p.status, q.transitions = p.transitions
    PROVE  Calm(q)
  BY DEF Calm

LEMMA StateCalm == CalmInv => IsState(State) /\ Calm(State)
  <1>1. /\ DOMAIN NewState = StateFields /\ NewState.status = "null" /\ NewState.transitions = <<>>
    BY DEF NewState, StateFields
  <1>2. IsState(NewState) /\ Calm(NewState)
    BY <1>1, OutputAnalyzerAssumption DEF IsState, Calm
  <1>3. QED
    BY <1>2 DEF CalmInv, State

LEMMA TransitionCalm ==
    ASSUME NEW q, IsState(q), Calm(q), NEW proposed \in {"working", "needs_input"}
    PROVE  Calm(Transition(q, proposed))
  <1> DEFINE flapping == Flapping(q, proposed)
             next == IF flapping THEN "needs_input" ELSE proposed
             held == IF flapping /\ q.hold < FlapHold THEN [q EXCEPT !.hold = FlapHold] ELSE q
             moved == [held EXCEPT !.status = next, !.change = 0, !.transitions = Append(@, 0)]
             n == Len(q.transitions)
  <1>1. Transition(q, proposed) = IF q.status = next THEN held ELSE moved
    BY DEF Transition
  <1>2. flapping <=> {q.status, proposed} = {"working", "needs_input"} /\ n + 1 >= FlapMin
    BY DEF Flapping
  <1> HIDE DEF flapping
  <1>3. IsState(held) /\ held.status = q.status /\ held.transitions = q.transitions
    BY DEF IsState, StateFields
  <1> HIDE DEF held
  <1>4. moved.status = next /\ moved.transitions = Append(q.transitions, 0)
    BY <1>3 DEF IsState, StateFields
  <1> HIDE DEF moved
  <1>5. Calm(held)
    BY <1>3, SameCalm
  <1>6. ASSUME q.status # next PROVE Calm(moved)
    <2>1. /\ q.transitions \in Seq(Nat) /\ 0 \in Nat /\ n \in Nat /\ n <= FlapMin
          /\ q.status \in {"null", "working", "needs_input"}
          /\ (n = FlapMin => q.status = "needs_input") /\ (q.status = "null" => n = 0)
      BY DEF Calm
    <2>2. Append(q.transitions, 0) \in Seq(Nat) /\ Len(Append(q.transitions, 0)) = n + 1
      BY <2>1, AppendProperties
    <2>3. FlapMin \in Nat /\ FlapMin > 1
      BY OutputAnalyzerAssumption
    <2>4. n + 1 <= FlapMin /\ (n + 1 = FlapMin => next = "needs_input")
      <3>1. CASE q.status = "null"
        BY <2>1, <2>3, <3>1
      <3>2. CASE q.status = "working"
        <4>1. next = "needs_input"
          BY <1>6, <3>2
        <4>2. QED
          BY <2>1, <2>3, <3>2, <4>1
      <3>3. CASE q.status = "needs_input"
        <4>1. next = "working" /\ ~flapping /\ proposed = "working"
          BY <1>6, <3>3
        <4>2. {q.status, proposed} = {"working", "needs_input"}
          BY <3>3, <4>1
        <4>3. ~(n + 1 >= FlapMin)
          BY <1>2, <4>1, <4>2
        <4>4. QED
          BY <2>1, <2>3, <4>3
      <3>4. QED
        BY <2>1, <3>1, <3>2, <3>3
    <2>5. next \in {"working", "needs_input"}
      OBVIOUS
    <2> HIDE DEF next
    <2>6. QED
      BY <1>4, <2>2, <2>4, <2>5 DEF Calm
  <1>7. QED
    BY <1>1, <1>5, <1>6

LEMMA JudgedCalm ==
    ASSUME NEW q, IsState(q), Calm(q)
    PROVE  Calm(Judged(q))
  <1>1. PICK r, still :
             /\ IsState(r) /\ r.status = q.status /\ r.transitions = q.transitions
             /\ IsState(still) /\ still.status = q.status /\ still.transitions = q.transitions
             /\ \/ Judged(q) = r
                \/ Judged(q) = Transition(r, "working")
                \/ Judged(q) = Transition(r, "needs_input") /\ Settled(r)
                \/ Judged(q) = Transition(still, "working")
    BY JudgedPaths
  <1>2. Calm(r) /\ Calm(still)
    BY <1>1, SameCalm
  <1>3. /\ Calm(Transition(r, "working")) /\ Calm(Transition(still, "working"))
        /\ Calm(Transition(r, "needs_input"))
    BY <1>1, <1>2, TransitionCalm
  <1>4. QED
    BY <1>1, <1>2, <1>3

LEMMA SignalsCalm ==
    ASSUME CalmInv, \/ \E screen \in Screens : OnOutput(screen)
                    \/ OnInput \/ Resize \/ \E on \in BOOLEAN : OnUserTyping(on) \/ OnTerminalFocus(on)
    PROVE  Calm(session')
  <1>1. IsState(State) /\ Calm(State)
    BY StateCalm
  <1>2. ASSUME NEW q, session' = q, q.status = State.status, q.transitions = State.transitions
        PROVE  Calm(session')
    BY <1>1, <1>2, SameCalm
  <1>3. ASSUME NEW screen \in Screens, OnOutput(screen) PROVE Calm(session')
    <2> DEFINE q == [State EXCEPT !.output = 0, !.pending = screen]
    <2>1. IsState(q) /\ q.status = State.status /\ q.transitions = State.transitions
      BY <1>1 DEF IsState, StateFields
    <2>2. session' = q \/ session' = Transition(q, "working")
      BY <1>3 DEF OnOutput, Becomes
    <2> HIDE DEF q
    <2>3. Calm(q)
      BY <1>1, <2>1, SameCalm
    <2>4. QED
      BY <2>1, <2>2, <2>3, TransitionCalm
  <1>4. CASE OnInput \/ Resize
    <2> DEFINE typed == [State EXCEPT !.input = 0, !.typed = 0]
               resized == [State EXCEPT !.snapshot = Nothing]
    <2>1. session' = typed \/ session' = resized
      BY <1>4 DEF OnInput, Resize, Becomes
    <2>2. /\ typed.status = State.status /\ typed.transitions = State.transitions
          /\ resized.status = State.status /\ resized.transitions = State.transitions
      BY <1>1 DEF IsState, StateFields
    <2> HIDE DEF typed, resized
    <2>3. QED
      BY <1>2, <2>1, <2>2
  <1>5. ASSUME NEW on \in BOOLEAN, OnUserTyping(on) \/ OnTerminalFocus(on) PROVE Calm(session')
    <2> DEFINE typing == [State EXCEPT !.typing = on, !.typed = 0, !.input = IF on THEN 0 ELSE @]
               focused == [State EXCEPT !.focused = on, !.focus = 0]
    <2>1. session' = typing \/ session' = focused
      BY Zenon, <1>5 DEF OnUserTyping, OnTerminalFocus, Becomes
    <2>2. /\ typing.status = State.status /\ typing.transitions = State.transitions
          /\ focused.status = State.status /\ focused.transitions = State.transitions
      BY <1>1 DEF IsState, StateFields
    <2> HIDE DEF typing, focused
    <2>3. QED
      BY <1>2, <2>1, <2>2
  <1>6. QED
    BY <1>3, <1>4, <1>5

LEMMA SweepCalm ==
    ASSUME CalmInv, session # None, AnalyzerTick \/ TickAwaits \/ TickResumes \/ TimePasses
    PROVE  Calm(session')
  <1>1. IsState(session) /\ Calm(session)
    BY DEF CalmInv
  <1>2. CASE AnalyzerTick \/ TickResumes
    <2>1. session' = Judged(session) \/ session' = session
      BY <1>2 DEF AnalyzerTick, TickResumes, Becomes
    <2>2. QED
      BY <1>1, <2>1, JudgedCalm
  <1>3. CASE TickAwaits
    <2> DEFINE q == [session EXCEPT !.shown = session.pending, !.pending = Nothing]
    <2>1. session' = q /\ q.status = session.status /\ q.transitions = session.transitions
      BY <1>1, <1>3 DEF TickAwaits, IsState, StateFields
    <2> HIDE DEF q
    <2>2. QED
      BY <1>1, <2>1, SameCalm
  <1>4. CASE TimePasses
    <2> DEFINE n == Len(session.transitions)
               aged == [k \in 1 .. n |-> session.transitions[k] + 1]
    <2>1. PICK gone \in 0 .. n : session' = [session EXCEPT !.change = Older(@, Stabilization),
                              !.input = Older(@, InputGrace),
                              !.typed = Older(@, TypingGuard), !.focus = Older(@, FocusGuard),
                              !.screen = Older(@, Idle), !.output = Older(@, NoOutputLimit),
                              !.hold = Sooner(@),
                              !.transitions = SubSeq(aged, gone + 1, Len(aged))]
      BY Zenon, <1>4 DEF TimePasses
    <2>2. session'.status = session.status /\ session'.transitions = SubSeq(aged, gone + 1, Len(aged))
      BY <1>1, <2>1 DEF IsState, StateFields
    <2>3. n \in Nat /\ session.transitions \in Seq(Nat) /\ \A k \in 1 .. n : session.transitions[k] \in Nat
      BY <1>1 DEF Calm
    <2>4. aged \in Seq(Nat) /\ Len(aged) = n
      <3>1. aged \in [1 .. n -> Nat]
        BY <2>3
      <3>2. DOMAIN aged = 1 .. n
        OBVIOUS
      <3> HIDE DEF aged, n
      <3>3. n \in Nat
        BY <2>3
      <3>4. aged \in Seq(Nat)
        BY <3>1, <3>3, SeqDef
      <3>5. Len(aged) \in Nat /\ 1 .. Len(aged) = 1 .. n
        BY <3>2, <3>4, LenProperties
      <3>6. QED
        BY <3>3, <3>4, <3>5
    <2> HIDE DEF aged
    <2>5. /\ SubSeq(aged, gone + 1, Len(aged)) \in Seq(Nat)
          /\ Len(SubSeq(aged, gone + 1, Len(aged))) <= n
      BY <2>3, <2>4, SubSeqProperties
    <2> DEFINE m == Len(session'.transitions)
    <2>6. /\ session'.status \in {"null", "working", "needs_input"} /\ session'.transitions \in Seq(Nat)
          /\ n <= FlapMin /\ (n = FlapMin => session'.status = "needs_input")
          /\ (session'.status = "null" => n = 0)
      BY <1>1, <2>2, <2>5 DEF Calm
    <2>7. n \in Nat /\ m \in Nat /\ m <= n /\ FlapMin \in Nat
      BY <2>2, <2>3, <2>5, OutputAnalyzerAssumption
    <2> HIDE DEF n
    <2>8. Calm(session') <=> /\ m <= FlapMin /\ (m = FlapMin => session'.status = "needs_input")
                      /\ (session'.status = "null" => m = 0)
      BY <2>6 DEF Calm
    <2> HIDE DEF m
    <2>9. m <= FlapMin /\ (m = FlapMin => n = FlapMin) /\ (n = 0 => m = 0)
      BY <2>6, <2>7
    <2>10. QED
      BY <2>6, <2>8, <2>9
  <1>5. QED
    BY <1>2, <1>3, <1>4

LEMMA NextCalm ==
    ASSUME Inv, CalmInv, [AnalyzerNext]_analyzerVars
    PROVE  CalmInv'
  <1>1. session' = None \/ IsState(session')
    BY NextInv DEF Inv
  <1>2. CASE UNCHANGED analyzerVars
    BY <1>2 DEF analyzerVars, CalmInv, IsState, Calm
  <1>3. CASE AnalyzerNext
    <2>1. CASE Reset
      BY <2>1 DEF Reset, CalmInv
    <2>2. CASE AnalyzerTick \/ TickAwaits \/ TickResumes \/ TimePasses
      <3>1. session # None \/ session' = None
        BY <2>2 DEF AnalyzerTick, TickAwaits, TickResumes, TimePasses, Inv
      <3>2. QED
        BY <1>1, <2>2, <3>1, SweepCalm DEF CalmInv
    <2>3. QED
      BY <1>1, <1>3, <2>1, <2>2, SignalsCalm DEF AnalyzerNext, CalmInv
  <1>4. QED
    BY <1>2, <1>3

(* In any FlapWindow a session is reported at most FlapMin times, whatever *)
(* the screen and the clients do (isWorkingNeedsInputFlapping).            *)
THEOREM ReportsAreFew == AnalyzerSpec => []FlapBounded
  <1>1. AnalyzerInit => CalmInv
    BY DEF AnalyzerInit, CalmInv
  <1>2. CalmInv => FlapBounded
    BY DEF CalmInv, Calm, FlapBounded
  <1>3. QED
    BY <1>1, <1>2, AnalyzerInductive, NextCalm, PTL DEF AnalyzerSpec

-----------------------------------------------------------------------------
(* The parser: what it answers, and what the session manager makes of it.  *)
(* The tail of the output stays opaque: nothing here depends on what a     *)
(* sequence of tokens is.                                                  *)

(* The session manager's state, its entries typed. *)
IsRegistry(m) ==
    /\ DOMAIN m = {"entries", "shown", "timer", "saved"}
    /\ m.entries \in [Ids -> Entry]

(* The parser's state has these fields; it is typed where it matters. *)
Fields == {"tail", "awaiting", "ui", "kind", "indicatorAt", "changedAt", "last", "interactive", "gated"}

IsParser(p) ==
    /\ DOMAIN p = Fields
    /\ p.last \in {"none", "running", "needs_attention"}
    /\ p.changedAt \in Nat

EventKinds == {"terminal_opened", "terminal_attached", "terminal_capture_state",
               "shell_execution_started", "terminal_output", "shell_execution_ended",
               "terminal_closed", "terminal_disconnected", "terminal_visible"}

(* Every event is of one of these kinds, and a capture event has a state. *)
LEMMA KindsOfEvents ==
    ASSUME NEW ev \in Events
    PROVE  /\ ev.kind \in EventKinds
           /\ ev.kind = "terminal_capture_state"
                => ev.capture \in {"capturing", "waiting_for_execution", "unavailable"}
  BY DEF Events, KeptEvents, OpenedEvents, CaptureEvents, StartedEvents, EndedEvents, ClosedEvents,
         OtherEvents, OutputEvents, ActivityEvents, EventsOf, EventKinds

LEMMA FreshIsParser == IsParser(Fresh)
  BY DEF IsParser, Fields, Fresh

(* Reading the output changes the tail and whose screen it is, no more. *)
LEMMA LookedFacts ==
    ASSUME NEW p, IsParser(p), NEW ev
    PROVE  /\ IsParser(Looked(ev, p)) /\ IsParser(WithTail(p, ev.chunk))
           /\ Looked(ev, p).last = p.last /\ Looked(ev, p).changedAt = p.changedAt
           /\ WithTail(p, ev.chunk).last = p.last /\ WithTail(p, ev.chunk).changedAt = p.changedAt
  <1> DEFINE t == IF Len(p.tail \o Stripped(ev.chunk)) > TailLen
                  THEN SubSeq(p.tail \o Stripped(ev.chunk),
                              Len(p.tail \o Stripped(ev.chunk)) - TailLen + 1,
                              Len(p.tail \o Stripped(ev.chunk)))
                  ELSE p.tail \o Stripped(ev.chunk)
             q == [p EXCEPT !.tail = t]
  <1>1. WithTail(p, ev.chunk) = q
    BY DEF WithTail
  <1> HIDE DEF t
  <1>2. IsParser(q) /\ q.last = p.last /\ q.changedAt = p.changedAt
    BY DEF IsParser, Fields
  <1>3. IsParser(Looked(ev, p)) /\ Looked(ev, p).last = q.last /\ Looked(ev, p).changedAt = q.changedAt
    BY <1>1, <1>2 DEF Looked, IsParser, Fields
  <1>4. QED
    BY <1>1, <1>2, <1>3

(* How the parser comes to answer output, and what it remembers of it. *)
LEMMA OutputFacts ==
    ASSUME NEW p, IsParser(p), NEW ev, NEW at \in Nat, NEW status,
           NEW a, a = Output(ev, p, at, status)
    PROVE  /\ IsParser(a.next)
           /\ a.by \in {"repaint", "held", "judged"}
           /\ a.status \in {"running", "needs_attention", "same"}
           /\ a.by \in {"repaint", "held"} => /\ a.next.last = p.last
                                             /\ a.next.changedAt = p.changedAt
                                             /\ p.last # "none"
                                             /\ a.status \in {"same", p.last}
           /\ a.by = "judged" => /\ a.next.last = a.status /\ a.status # "same"
                                 /\ a.next.changedAt = at
                                 /\ MenuShown(a.next) => a.status = "needs_attention"
                                 /\ p.last \notin {"none", a.status} /\ p.changedAt > 0
                                      => at - p.changedAt >= Stabilize
  <1> DEFINE q == Looked(ev, p)
             w == WithTail(p, ev.chunk)
             asks == RequestsInput(ev, q, at, status)
             seen == IF q.ui /\ ~MenuShown(q) /\ Has(ev.chunk, "work")
                     THEN [q EXCEPT !.indicatorAt = at] ELSE q
             proposed == IF asks THEN "needs_attention" ELSE "running"
             said == [seen EXCEPT !.awaiting = asks, !.last = proposed, !.changedAt = at]
  <1>1. /\ IsParser(q) /\ IsParser(w)
        /\ q.last = p.last /\ q.changedAt = p.changedAt
        /\ w.last = p.last /\ w.changedAt = p.changedAt
    BY LookedFacts
  <1>2. /\ MenuShown(q) => asks
        /\ proposed \in {"running", "needs_attention"}
        /\ asks => proposed = "needs_attention"
    BY DEF RequestsInput
  <1>3. a = IF IsRepaint(ev, p) THEN [Says(w, "same") EXCEPT !.by = "repaint"]
            ELSE IF Held(q, proposed, at) THEN [Says(seen, q.last) EXCEPT !.by = "held"]
            ELSE [Says(said, proposed) EXCEPT !.by = "judged"]
    BY DEF Output
  <1> HIDE DEF q, w, asks, proposed
  <1>4. /\ IsParser(seen) /\ seen.last = p.last /\ seen.changedAt = p.changedAt
        /\ MenuShown(seen) <=> MenuShown(q)
    BY <1>1 DEF IsParser, Fields, MenuShown
  <1> HIDE DEF seen
  <1>5. /\ IsParser(said) /\ said.last = proposed /\ said.changedAt = at
        /\ MenuShown(said) <=> MenuShown(q)
    BY <1>1, <1>2, <1>4 DEF IsParser, Fields, MenuShown
  <1> HIDE DEF said
  <1>6. CASE IsRepaint(ev, p)
    <2>1. a = [next |-> w, status |-> "same", by |-> "repaint"]
      BY <1>3, <1>6 DEF Says
    <2>2. p.last = "running"
      BY <1>6 DEF IsRepaint
    <2>3. QED
      BY <1>1, <2>1, <2>2
  <1>7. CASE ~IsRepaint(ev, p) /\ Held(q, proposed, at)
    <2>1. a = [next |-> seen, status |-> q.last, by |-> "held"]
      BY <1>3, <1>7 DEF Says
    <2>2. q.last # "none"
      BY <1>7 DEF Held
    <2>3. p.last \in {"running", "needs_attention"}
      BY <1>1, <2>2 DEF IsParser, Fields
    <2>4. QED
      BY <1>1, <1>4, <2>1, <2>3
  <1>8. CASE ~IsRepaint(ev, p) /\ ~Held(q, proposed, at)
    <2>1. a = [next |-> said, status |-> proposed, by |-> "judged"]
      BY <1>3, <1>8 DEF Says
    <2>2. p.last \notin {"none", proposed} /\ p.changedAt > 0 => at - p.changedAt >= Stabilize
      BY <1>1, <1>8, TerminalAssumption DEF Held, IsParser, Fields
    <2>3. QED
      BY <1>2, <1>5, <2>1, <2>2
  <1>9. QED
    BY <1>6, <1>7, <1>8

(* The parser's answer to any event. *)
LEMMA AnswerFacts ==
    ASSUME NEW p, IsParser(p), NEW ev \in Events, NEW at \in Nat, NEW status,
           NEW a, a = ToTerminalUpdate(ev, p, at, status)
    PROVE  /\ IsParser(a.next)
           /\ a.by \in {"other", "repaint", "held", "judged"}
           /\ a.status \in Statuses \cup {"same"}
           /\ a.status = "detached" => a.next = Fresh
           /\ a.by # "other" => a = Output(ev, p, at, status)
  <1> DEFINE Goal == /\ IsParser(a.next) /\ a.by = "other"
                     /\ a.status \in Statuses \cup {"same"}
                     /\ a.status = "detached" => a.next = Fresh
  <1>1. CASE ev.kind = "terminal_output"
    BY <1>1, OutputFacts DEF ToTerminalUpdate, Statuses
  <1>2. CASE ev.kind \in {"terminal_opened", "terminal_attached", "terminal_closed", "terminal_disconnected"}
    <2>1. IsParser([Fresh EXCEPT !.awaiting = TRUE])
      BY DEF IsParser, Fields, Fresh
    <2>2. Goal
      BY <1>2, <2>1, FreshIsParser DEF ToTerminalUpdate, Opened, Disconnected, Says, Statuses
    <2>3. QED
      BY <2>2
  <1>3. CASE ev.kind = "terminal_capture_state"
    <2>1. ev.capture \in {"capturing", "waiting_for_execution", "unavailable"}
      BY <1>3, KindsOfEvents
    <2>2. IsParser([p EXCEPT !.awaiting = TRUE]) /\ IsParser([p EXCEPT !.awaiting = FALSE])
      BY DEF IsParser, Fields
    <2>3. a = CaptureState(ev, p)
      BY <1>3 DEF ToTerminalUpdate
    <2>4. Goal
      BY <2>1, <2>2, <2>3 DEF CaptureState, Says, Statuses
    <2>5. QED
      BY <2>4
  <1>4. CASE ev.kind = "shell_execution_started"
    <2> DEFINE ids == {ev.exec} \ {NoExec}
               q == [p EXCEPT !.interactive = @ \cup ids,
                              !.gated = IF IsIconGated(ev.cmd) THEN @ \cup ids ELSE @,
                              !.kind = ev.cmd, !.awaiting = TRUE]
               r == [p EXCEPT !.kind = "generic", !.awaiting = FALSE]
    <2>1. IsParser(q) /\ IsParser(r)
      BY DEF IsParser, Fields
    <2>2. a = IF IsInteractive(ev.cmd) THEN Says(q, "needs_attention") ELSE Says(r, "running")
      BY <1>4 DEF ToTerminalUpdate, Started
    <2> HIDE DEF q, r
    <2>3. Goal
      BY <2>1, <2>2 DEF Says, Statuses
    <2>4. QED
      BY <2>3
  <1>5. CASE ev.kind = "shell_execution_ended"
    <2> DEFINE q == [p EXCEPT !.interactive = @ \ {ev.exec}, !.gated = @ \ {ev.exec},
                              !.tail = <<>>, !.awaiting = FALSE]
    <2>1. IsParser(q)
      BY DEF IsParser, Fields
    <2>2. a = Says(q, IF ev.primary THEN IF ev.failed THEN "error" ELSE "stopped" ELSE "running")
      BY <1>5 DEF ToTerminalUpdate, Ended
    <2> HIDE DEF q
    <2>3. Goal
      BY <2>1, <2>2 DEF Says, Statuses
    <2>4. QED
      BY <2>3
  <1>6. CASE ev.kind = "terminal_visible"
    <2>1. IsParser([p EXCEPT !.awaiting = TRUE])
      BY DEF IsParser, Fields
    <2>2. a = Activity(ev, p, status)
      BY <1>6 DEF ToTerminalUpdate
    <2>3. Goal
      BY <2>1, <2>2 DEF Activity, Says, Statuses
    <2>4. QED
      BY <2>3
  <1>7. QED
    BY <1>1, <1>2, <1>3, <1>4, <1>5, <1>6, KindsOfEvents DEF EventKinds

-----------------------------------------------------------------------------
(* m and n differ in the entry of i at most. *)
Only(m, n, i) == \A j \in Ids \ {i} : n.entries[j] = m.entries[j]

(* What the session manager's methods do to one entry. *)
LEMMA WithFacts ==
    ASSUME NEW m, IsRegistry(m), NEW i \in Ids, NEW e \in Entry, NEW n, n = With(m, i, e)
    PROVE  IsRegistry(n) /\ n.entries[i] = e /\ Only(m, n, i)
  <1>1. DOMAIN n = DOMAIN m /\ n.entries = [m.entries EXCEPT ![i] = e]
    BY DEF With, IsRegistry
  <1>2. QED
    BY <1>1 DEF IsRegistry, Only

(* The windows are told, at once or soon: the entries stay. *)
LEMMA EmitFacts ==
    ASSUME NEW m, IsRegistry(m)
    PROVE  /\ IsRegistry(Emit(m)) /\ Emit(m).entries = m.entries
           /\ IsRegistry(EmitDebounced(m)) /\ EmitDebounced(m).entries = m.entries
           /\ IsRegistry(Unseen(m)) /\ Unseen(m).entries = m.entries
  BY DEF Emit, EmitDebounced, Unseen, IsRegistry

LEMMA AppliedFacts ==
    ASSUME NEW m, IsRegistry(m), NEW i \in Ids, NEW status \in Statuses, NEW at \in Nat
    PROVE  /\ IsRegistry(Applied(m, i, status, at))
           /\ Applied(m, i, status, at).entries[i].status = status
           /\ Applied(m, i, status, at).entries[i].updAt = at
           /\ Only(m, Applied(m, i, status, at), i)
  <1> DEFINE e == [m.entries[i] EXCEPT !.status = status, !.updAt = at]
             n == With(m, i, e)
  <1>1. m.entries[i] \in Entry
    BY DEF IsRegistry
  <1>2. e \in Entry /\ e.status = status /\ e.updAt = at
    BY <1>1 DEF Entry
  <1>3. Applied(m, i, status, at) = IF m.entries[i].status # status THEN Emit(n) ELSE EmitDebounced(n)
    BY DEF Applied
  <1> HIDE DEF e
  <1>4. IsRegistry(n) /\ n.entries[i] = e /\ Only(m, n, i)
    BY <1>2, WithFacts
  <1> HIDE DEF n
  <1>5. /\ IsRegistry(Emit(n)) /\ Emit(n).entries = n.entries
        /\ IsRegistry(EmitDebounced(n)) /\ EmitDebounced(n).entries = n.entries
    BY <1>4, EmitFacts
  <1>6. QED
    BY <1>2, <1>3, <1>4, <1>5 DEF Only

LEMMA BoundFacts ==
    ASSUME NEW e \in Entry, NEW ref \in Refs
    PROVE  /\ Bound(e, ref) \in Entry
           /\ Bound(e, ref).status = e.status /\ Bound(e, ref).updAt = e.updAt
  BY DEF Bound, Entry

(* A detached session may be brought back, nothing else happens. *)
LEMMA RestoredFacts ==
    ASSUME NEW m, IsRegistry(m), NEW ev, ev.id \in Ids
    PROVE  /\ IsRegistry(Restored(m, ev)) /\ Only(m, Restored(m, ev), ev.id)
           /\ Restored(m, ev).entries[ev.id].updAt = m.entries[ev.id].updAt
           /\ \/ Restored(m, ev).entries[ev.id].status = m.entries[ev.id].status
              \/ /\ m.entries[ev.id].status = "detached"
                 /\ Restored(m, ev).entries[ev.id].status = "needs_attention"
  <1> DEFINE e == [m.entries[ev.id] EXCEPT !.status = "needs_attention"]
  <1>1. m.entries[ev.id] \in Entry
    BY DEF IsRegistry
  <1>2. e \in Entry /\ e.status = "needs_attention" /\ e.updAt = m.entries[ev.id].updAt
    BY <1>1 DEF Entry, Statuses
  <1>3. \/ Restored(m, ev) = m
        \/ Restored(m, ev) = With(m, ev.id, e) /\ m.entries[ev.id].status = "detached"
    BY DEF Restored
  <1> HIDE DEF e
  <1>4. IsRegistry(With(m, ev.id, e)) /\ With(m, ev.id, e).entries[ev.id] = e /\ Only(m, With(m, ev.id, e), ev.id)
    BY <1>2, WithFacts
  <1>5. QED
    BY <1>2, <1>3, <1>4 DEF Only

(* An event that is parsed sets the update time and, unless it is ignored, *)
(* the status; one that is not parsed does no more than Restored.          *)
LEMMA EventFacts ==
    ASSUME NEW m, IsRegistry(m), NEW i \in Ids, NEW ref \in Refs, NEW at \in Nat,
           NEW kind, NEW status \in Statuses \cup {"same"},
           NEW ev, ev = [id |-> i, ref |-> ref, at |-> at, kind |-> kind, status |-> status],
           NEW r, r = Restored(m, ev).entries[i],
           NEW n, n = UpdateTerminalEvent(m, ev)
    PROVE  /\ IsRegistry(n) /\ Only(m, n, i)
           /\ r.status \notin {"none", "detached"} /\ at >= r.updAt
                => /\ n.entries[i].updAt = at
                   /\ n.entries[i].status =
                        IF status = "same" \/ (r.status = "paused" /\ status # "running")
                        THEN r.status ELSE status
           /\ r.status \in {"none", "detached"} \/ at < r.updAt => n.entries[i] = r
  <1> DEFINE b == With(Restored(m, ev), i, Bound(r, ref))
             quiet == With(b, i, [b.entries[i] EXCEPT !.updAt = at])
             ignored == status = "same" \/ (r.status = "paused" /\ status # "running")
             done == IF ignored THEN quiet ELSE Applied(b, i, status, at)
  <1>1. ev.id = i /\ ev.ref = ref /\ ev.at = at /\ ev.status = status
    OBVIOUS
  <1>2. IsRegistry(Restored(m, ev)) /\ Only(m, Restored(m, ev), i)
    BY <1>1, RestoredFacts
  <1>3. r \in Entry /\ Bound(r, ref) \in Entry /\ Bound(r, ref).status = r.status
    BY <1>2, BoundFacts DEF IsRegistry
  <1>4. IsRegistry(b) /\ b.entries[i] = Bound(r, ref) /\ Only(m, b, i)
    <2>1. IsRegistry(b) /\ b.entries[i] = Bound(r, ref) /\ Only(Restored(m, ev), b, i)
      BY <1>2, <1>3, WithFacts
    <2>2. QED
      BY <1>2, <2>1 DEF Only
  <1>5. n = IF r.status \in {"none", "detached"} \/ at < r.updAt THEN Restored(m, ev)
            ELSE IF Rebinds(r, ref) THEN EmitDebounced(done) ELSE done
    BY <1>1 DEF UpdateTerminalEvent
  <1> HIDE DEF b
  <1> DEFINE e == [b.entries[i] EXCEPT !.updAt = at]
  <1>6. e \in Entry /\ e.status = r.status /\ e.updAt = at
    BY <1>3, <1>4 DEF Entry
  <1> HIDE DEF e
  <1>7. IsRegistry(quiet) /\ quiet.entries[i].status = r.status /\ quiet.entries[i].updAt = at /\ Only(m, quiet, i)
    <2>1. quiet = With(b, i, e)
      BY DEF e
    <2>2. QED
      BY <1>4, <1>6, <2>1, WithFacts DEF Only
  <1> HIDE DEF quiet
  <1>8. CASE r.status \in {"none", "detached"} \/ at < r.updAt
    BY <1>2, <1>3, <1>5, <1>8 DEF Entry
  <1>9. CASE ~(r.status \in {"none", "detached"} \/ at < r.updAt)
    <2>1. /\ IsRegistry(done) /\ Only(m, done, i) /\ done.entries[i].updAt = at
          /\ done.entries[i].status = IF ignored THEN r.status ELSE status
      BY <1>4, <1>7, AppliedFacts DEF Only
    <2> HIDE DEF done
    <2>2. IsRegistry(n) /\ n.entries = done.entries
      BY <1>5, <1>9, <2>1, EmitFacts
    <2>3. QED
      BY <1>9, <2>1, <2>2 DEF Only
  <1>10. QED
    BY <1>8, <1>9

-----------------------------------------------------------------------------
(* Whatever the parser remembers, an event the backend's route keeps has   *)
(* one of the outcomes of its kind.                                        *)
LEMMA KeptOutcome ==
    ASSUME NEW ev \in KeptEvents, NEW p, NEW at, NEW status
    PROVE  ToTerminalUpdate(ev, p, at, status).status \in EventOutcomes(ev.kind)
  <1> DEFINE a == ToTerminalUpdate(ev, p, at, status)
  <1>1. CASE ev.kind = "terminal_capture_state"
    <2>1. ev.capture \in {"capturing", "waiting_for_execution", "unavailable"}
      BY <1>1, KindsOfEvents DEF Events
    <2>2. a = CaptureState(ev, p)
      BY <1>1 DEF ToTerminalUpdate
    <2>3. EventOutcomes(ev.kind) = {"running", "needs_attention", "same"}
      BY <1>1 DEF EventOutcomes
    <2>4. QED
      BY <2>1, <2>2, <2>3 DEF CaptureState, Says
  <1>2. CASE ev.kind \in {"terminal_opened", "terminal_attached"}
    BY <1>2 DEF ToTerminalUpdate, EventOutcomes, Opened, Says
  <1>3. CASE ev.kind \in {"shell_execution_started", "shell_execution_ended"}
    BY <1>3 DEF ToTerminalUpdate, EventOutcomes, Started, Ended, Says
  <1>4. CASE ev.kind \in {"terminal_closed", "terminal_disconnected"}
    BY <1>4 DEF ToTerminalUpdate, EventOutcomes, Disconnected, Says
  <1>5. ev.kind \in EventKinds \ {"terminal_output", "terminal_visible"}
    BY DEF KeptEvents, OpenedEvents, CaptureEvents, StartedEvents, EndedEvents, ClosedEvents,
           OtherEvents, EventsOf, EventKinds
  <1>6. QED
    BY <1>1, <1>2, <1>3, <1>4, <1>5 DEF EventKinds

(* terminals/index.ts drops the events whose answer needs the parser's     *)
(* memory: in every state of the parser the others have the outcomes that  *)
(* the model of the backend gives them.                                    *)
THEOREM KeptEventsNeedNoMemory == Spec => []OutcomesCovered
  <1>1. OutcomesCovered
    BY KeptOutcome DEF OutcomesCovered
  <1>2. QED
    BY <1>1, PTL

-----------------------------------------------------------------------------
(* The inductive invariant, of one session: its entry, its parser, and the *)
(* history.  The last conjunct is what NoFlapping rests on: since output   *)
(* last changed the status, the status is the one the parser said last.    *)
SessionInv(e, q, j, f) ==
    /\ IsParser(q) /\ j \in BOOLEAN /\ f \in Nat
    /\ j /\ MenuShown(q) => e.status \in {"needs_attention", "paused"}
    /\ f > 0 => /\ e.status = q.last /\ q.last # "none"
               /\ f <= q.changedAt /\ q.changedAt <= e.updAt

IInv ==
    /\ IsRegistry(reg)
    /\ DOMAIN parser = Ids /\ DOMAIN judged = Ids /\ DOMAIN flipAt = Ids
    /\ now \in 1 .. MaxNow
    /\ \A i \in Ids : SessionInv(reg.entries[i], parser[i], judged[i], flipAt[i])

LEMMA FreshSession ==
    ASSUME NEW e PROVE SessionInv(e, Fresh, FALSE, 0)
  BY FreshIsParser DEF SessionInv

(* A step that concerns one session. *)
LEMMA OneSession ==
    ASSUME IInv, NEW i \in Ids, IsRegistry(reg'), Only(reg, reg', i),
           NEW q, DOMAIN parser' = Ids, parser'[i] = q, \A k \in Ids \ {i} : parser'[k] = parser[k],
           NEW j, judged' = [judged EXCEPT ![i] = j],
           NEW f, flipAt' = [flipAt EXCEPT ![i] = f],
           now' = now, SessionInv(reg'.entries[i], q, j, f)
    PROVE  IInv'
  <1>1. DOMAIN parser' = Ids /\ DOMAIN judged' = Ids /\ DOMAIN flipAt' = Ids
    BY DEF IInv
  <1>2. parser'[i] = q /\ judged'[i] = j /\ flipAt'[i] = f
    BY DEF IInv
  <1>3. ASSUME NEW k \in Ids
        PROVE  SessionInv(reg'.entries[k], parser'[k], judged'[k], flipAt'[k])
    <2>1. CASE k = i
      BY <1>2, <2>1
    <2>2. CASE k # i
      <3>1. /\ reg'.entries[k] = reg.entries[k] /\ parser'[k] = parser[k]
            /\ judged'[k] = judged[k] /\ flipAt'[k] = flipAt[k]
        BY <2>2 DEF IInv, Only
      <3>2. QED
        BY <3>1 DEF IInv
    <2>3. QED
      BY <2>1, <2>2
  <1>4. QED
    BY <1>1, <1>3 DEF IInv

(* No flip of the status of i by output that is too early. *)
NoEarlyFlip(i) ==
    flipAt[i] > 0 /\ flipAt'[i] > 0 /\ Status(i)' # Status(i)
        => reg'.entries[i].updAt - flipAt[i] >= Stabilize

(* A session that comes back is a new one to its parser. *)
Gone == {"none", "detached"}
Forgets(i) == Status(i) \in Gone /\ Status(i)' \notin Gone => JustMet(parser'[i])

(* The only handler that asks the parser. *)
LEMMA EventStep ==
    ASSUME IInv, NEW i \in Ids, NEW ev \in Events, NEW ref \in Refs, NEW at \in 0 .. MaxNow,
           TerminalEvent(i, ev, ref, at)
    PROVE  IInv' /\ NoEarlyFlip(i) /\ Forgets(i) /\ Only(reg, reg', i)
  <1> DEFINE e == [id |-> i, ref |-> ref, at |-> at, kind |-> ev.kind, status |-> "same"]
             r == Restored(reg, e).entries[i]
             p == Remembered(i, e)
             a == ToTerminalUpdate(ev, p, at, r.status)
             parsed == r.status \notin {"none", "detached"} /\ at >= r.updAt
             s == IF parsed THEN a.status ELSE "same"
             e2 == [e EXCEPT !.status = s]
             manner == IF parsed THEN a.by ELSE "other"
             upd == UpdateTerminalEvent(reg, e2)
             next == Unseen(upd)
             flips == next.entries[i].status # reg.entries[i].status
             q == IF parsed THEN a.next ELSE p
             f == CASE manner = "other" -> 0
                    [] manner = "judged" /\ flips -> at
                    [] OTHER -> flipAt[i]
  <1>1. /\ i \in Live(reg) /\ reg' = next /\ parser' = [parser EXCEPT ![i] = q]
        /\ judged' = [judged EXCEPT ![i] = (manner = "judged")]
        /\ flipAt' = [flipAt EXCEPT ![i] = f] /\ now' = now
    <2>1. PICK answer \in {IF parsed THEN a ELSE Says(p, "same")} :
             /\ reg' = Unseen(UpdateTerminalEvent(reg, [e EXCEPT !.status = answer.status]))
             /\ parser' = [parser EXCEPT ![i] = answer.next]
             /\ judged' = [judged EXCEPT ![i] = (answer.by = "judged")]
             /\ flipAt' = [flipAt EXCEPT ![i] =
                             CASE answer.by = "other" -> 0
                               [] answer.by = "judged" /\ reg'.entries[i].status # Status(i) -> at
                               [] OTHER -> @]
      BY Zenon DEF TerminalEvent
    <2> HIDE DEF a, p
    <2>2. answer.status = s /\ answer.next = q /\ answer.by = manner
      BY DEF Says
    <2>3. i \in Live(reg) /\ now' = now
      BY Zenon DEF TerminalEvent
    <2>4. QED
      BY <2>1, <2>2, <2>3 DEF Status
  <1>2. Status(i) # "none"
    BY Zenon, <1>1 DEF Live, Status
  <1>3. IsRegistry(reg) /\ SessionInv(reg.entries[i], parser[i], judged[i], flipAt[i])
    BY DEF IInv
  (* Before the event: the session may be brought back, with nothing remembered. *)
  <1>4. /\ r.updAt = reg.entries[i].updAt
        /\ \/ r.status = Status(i) /\ p = parser[i]
           \/ Status(i) = "detached" /\ r.status = "needs_attention" /\ p = Fresh
    BY <1>3, RestoredFacts DEF Remembered, Restores, Status
  <1> at \in Nat
    BY TerminalAssumption
  <1>5. IsParser(p)
    BY <1>3, <1>4, FreshIsParser DEF SessionInv
  <1>6. r \in Entry
    BY <1>3, RestoredFacts DEF IsRegistry
  <1> HIDE DEF p
  (* The parser answers. *)
  <1>7. /\ IsParser(a.next) /\ a.by \in {"other", "repaint", "held", "judged"}
        /\ a.status \in Statuses \cup {"same"}
        /\ a.status = "detached" => a.next = Fresh
    BY <1>5, AnswerFacts
  <1>8. a.by \in {"repaint", "held"} =>
          /\ a.next.last = p.last /\ a.next.changedAt = p.changedAt
          /\ p.last # "none" /\ a.status \in {"same", p.last}
    BY <1>5, AnswerFacts, OutputFacts
  <1>9. a.by = "judged" =>
          /\ a.next.last = a.status /\ a.status \in {"running", "needs_attention"}
          /\ a.next.changedAt = at
          /\ MenuShown(a.next) => a.status = "needs_attention"
          /\ p.last \notin {"none", a.status} /\ p.changedAt > 0 => at - p.changedAt >= Stabilize
    BY <1>5, AnswerFacts, OutputFacts
  <1> HIDE DEF a
  (* The manager applies the answer. *)
  <1>10. e2 = [id |-> i, ref |-> ref, at |-> at, kind |-> ev.kind, status |-> s]
    OBVIOUS
  <1>11. Restored(reg, e2).entries[i] = r
    BY DEF Restored
  <1> HIDE DEF e2, r
  <1>12. /\ IsRegistry(upd) /\ Only(reg, upd, i)
         /\ parsed => /\ upd.entries[i].updAt = at
                      /\ upd.entries[i].status =
                            IF a.status = "same" \/ (r.status = "paused" /\ a.status # "running")
                            THEN r.status ELSE a.status
         /\ r.status \in {"none", "detached"} \/ at < r.updAt => upd.entries[i] = r
    <2>1. s \in Statuses \cup {"same"}
      BY <1>7
    <2>2. QED
      BY <1>3, <1>10, <1>11, <2>1, EventFacts
  <1> HIDE DEF upd
  <1>13. IsRegistry(next) /\ next.entries = upd.entries
    BY <1>12, EmitFacts
  <1> HIDE DEF next
  <1>14. IsRegistry(reg') /\ Only(reg, reg', i)
    BY <1>1, <1>12, <1>13 DEF Only
  <1>15. /\ SessionInv(next.entries[i], q, manner = "judged", f)
         /\ flipAt[i] > 0 /\ f > 0 /\ flips => next.entries[i].updAt - flipAt[i] >= Stabilize
    <2> DEFINE n == next.entries[i]
               old == reg.entries[i]
    <2>1. n = upd.entries[i]
      BY <1>13
    <2> HIDE DEF n
    <2>2. r.updAt \in Nat /\ old.updAt = r.updAt /\ flipAt[i] \in Nat
      BY <1>3, <1>4, <1>6 DEF Entry, SessionInv
    <2>3. flipAt[i] > 0 => /\ r.status = old.status /\ p = parser[i]
                          /\ old.status = p.last /\ p.last \in {"running", "needs_attention"}
                          /\ flipAt[i] <= p.changedAt /\ p.changedAt <= r.updAt
      BY <1>3, <1>4 DEF SessionInv, IsParser, Status
    <2>4. p.changedAt \in Nat /\ Stabilize \in Nat
      BY <1>5, TerminalAssumption DEF IsParser
    <2>5. CASE ~parsed
      <3>1. n = r /\ q = p /\ manner = "other" /\ f = 0
        BY <1>12, <2>1, <2>2, <2>5
      <3>2. SessionInv(n, q, manner = "judged", f)
        BY <1>5, <3>1 DEF SessionInv
      <3>3. QED
        BY <3>1, <3>2 DEF n
    <2>6. CASE parsed /\ a.by = "other"
      <3>1. q = a.next /\ manner = "other" /\ f = 0
        BY <2>6
      <3>2. SessionInv(n, q, manner = "judged", f)
        BY <1>7, <3>1 DEF SessionInv
      <3>3. QED
        BY <3>1, <3>2 DEF n
    <2>7. CASE parsed /\ a.by \in {"repaint", "held"}
      <3>1. q = a.next /\ manner # "judged" /\ f = flipAt[i]
        BY <2>7
      <3>2. n.updAt = at /\ n.status \in {r.status, p.last} /\ at >= r.updAt
        BY <1>8, <1>12, <2>1, <2>7
      <3>3. flipAt[i] > 0 => n.status = old.status
        BY <2>3, <3>2
      <3>4. flipAt[i] > 0 => /\ n.status = a.next.last /\ a.next.last # "none"
                            /\ flipAt[i] <= a.next.changedAt /\ a.next.changedAt <= n.updAt
        BY <1>8, <2>2, <2>3, <2>4, <2>7, <3>2, <3>3
      <3>5. SessionInv(n, q, manner = "judged", f)
        BY <1>7, <2>2, <3>1, <3>4 DEF SessionInv
      <3>6. QED
        BY <3>1, <3>3, <3>5 DEF n
    <2>8. CASE parsed /\ a.by = "judged"
      <3>1. q = a.next /\ manner = "judged" /\ f = IF flips THEN at ELSE flipAt[i]
        BY <2>8
      <3>2. /\ n.updAt = at /\ at >= r.updAt
            /\ n.status = IF r.status = "paused" /\ a.status # "running" THEN "paused" ELSE a.status
        BY <1>9, <1>12, <2>1, <2>8
      <3>4. MenuShown(q) => n.status \in {"needs_attention", "paused"}
        BY <1>9, <2>8, <3>1, <3>2
      <3>5. flips => n.status = a.status
        BY <1>4, <3>2 DEF n, Status
      <3>6. flipAt[i] > 0 => n.status = a.status
        BY <2>3, <3>2
      <3>7. f \in Nat /\ (f > 0 => n.status = a.status /\ f <= at)
        BY <2>2, <2>3, <2>4, <3>1, <3>2, <3>5, <3>6
      <3>8. SessionInv(n, q, manner = "judged", f)
        BY <1>7, <1>9, <2>8, <3>1, <3>2, <3>4, <3>7 DEF SessionInv
      <3>9. flipAt[i] > 0 /\ flips => at - p.changedAt >= Stabilize /\ flipAt[i] <= p.changedAt
        BY <1>9, <2>2, <2>3, <2>4, <2>8, <3>6 DEF n
      <3>10. flipAt[i] > 0 /\ flips => n.updAt - flipAt[i] >= Stabilize
        BY <2>2, <2>4, <3>2, <3>9
      <3>11. QED
        BY <3>8, <3>10 DEF n
    <2>9. QED
      BY <1>7, <2>5, <2>6, <2>7, <2>8 DEF n
  <1>16. IInv'
    <2>1. DOMAIN parser' = Ids /\ parser'[i] = q /\ \A k \in Ids \ {i} : parser'[k] = parser[k]
      BY <1>1 DEF IInv
    <2>2. QED
      BY <1>1, <1>14, <1>15, <2>1, OneSession
  <1>17. NoEarlyFlip(i)
    BY <1>1, <1>15 DEF NoEarlyFlip, Status, IInv
  <1>18. Forgets(i)
    <2>1. SUFFICES ASSUME Status(i) \in Gone, Status(i)' \notin Gone PROVE JustMet(parser'[i])
      BY DEF Forgets
    <2>2. Status(i) = "detached"
      BY <1>2, <2>1 DEF Gone
    <2>3. Status(i)' = upd.entries[i].status
      BY <1>1, <1>13 DEF Status
    <2>4. r.status = "needs_attention" /\ p = Fresh
      <3>1. CASE r.status = "detached"
        BY <1>12, <2>1, <2>3, <3>1 DEF Gone
      <3>2. QED
        BY <1>4, <2>2, <3>1
    <2>5. parser'[i] = q
      BY <1>1 DEF IInv
    <2>6. a = ToTerminalUpdate(ev, Fresh, at, "needs_attention")
      BY <2>4 DEF a
    <2>7. q = Fresh \/ q = ToTerminalUpdate(ev, Fresh, at, "needs_attention").next
      BY <2>4, <2>6
    <2>8. QED
      BY Zenon, <2>5, <2>7 DEF JustMet
  <1>19. QED
    BY <1>14, <1>16, <1>17, <1>18

-----------------------------------------------------------------------------
(* The other methods forget the history of their session. *)
LEMMA CreateStep ==
    ASSUME IInv, NEW i \in Ids, Create(i)
    PROVE  IInv' /\ Only(reg, reg', i) /\ flipAt'[i] = 0 /\ Forgets(i)
  <1> DEFINE e == [reg.entries[i] EXCEPT !.status = "needs_attention", !.updAt = 0, !.name = "user",
                                         !.ref = reg.entries[i].ref]
             n == With(reg, i, e)
  <1>1. IsRegistry(reg) /\ reg.entries[i] \in Entry
    BY DEF IInv, IsRegistry
  <1>2. e \in Entry
    BY <1>1 DEF Entry, Statuses, Names
  <1>3. reg' = Unseen(Emit(n))
    BY DEF Create, CreateSession
  <1> HIDE DEF e
  <1>4. IsRegistry(n) /\ Only(reg, n, i)
    BY <1>1, <1>2, WithFacts
  <1> HIDE DEF n
  <1>5. IsRegistry(Emit(n)) /\ Emit(n).entries = n.entries
    BY <1>4, EmitFacts
  <1>6. IsRegistry(reg') /\ Only(reg, reg', i)
    BY <1>3, <1>4, <1>5, EmitFacts DEF Only
  <1>7. IInv'
    <2>1. /\ DOMAIN parser' = Ids /\ parser'[i] = Fresh
          /\ \A k \in Ids \ {i} : parser'[k] = parser[k]
      BY DEF Create, IInv
    <2>2. /\ judged' = [judged EXCEPT ![i] = FALSE] /\ flipAt' = [flipAt EXCEPT ![i] = 0]
          /\ now' = now
      BY DEF Create
    <2>3. QED
      BY <1>6, <2>1, <2>2, FreshSession, OneSession
  <1>8. Forgets(i)
    BY DEF Create, IInv, Forgets, JustMet
  <1>9. QED
    BY <1>6, <1>7, <1>8 DEF IInv, Create

LEMMA RemoveStep ==
    ASSUME IInv, NEW i \in Ids, Remove(i)
    PROVE  IInv' /\ Only(reg, reg', i) /\ flipAt'[i] = 0 /\ Forgets(i)
  <1> DEFINE n == With(reg, i, Absent)
  <1>1. IsRegistry(reg)
    BY DEF IInv
  <1>2. Absent \in Entry
    BY DEF Absent, Entry, Names
  <1>3. reg' = Unseen(Emit(n))
    BY DEF Remove, RemoveSession
  <1>4. IsRegistry(n) /\ Only(reg, n, i)
    BY <1>1, <1>2, WithFacts
  <1> HIDE DEF n
  <1>5. IsRegistry(Emit(n)) /\ Emit(n).entries = n.entries
    BY <1>4, EmitFacts
  <1>6. IsRegistry(reg') /\ Only(reg, reg', i)
    BY <1>3, <1>4, <1>5, EmitFacts DEF Only
  <1>7. IInv'
    <2>1. /\ DOMAIN parser' = Ids /\ parser'[i] = Fresh
          /\ \A k \in Ids \ {i} : parser'[k] = parser[k]
      BY DEF Remove, IInv
    <2>2. /\ judged' = [judged EXCEPT ![i] = FALSE] /\ flipAt' = [flipAt EXCEPT ![i] = 0]
          /\ now' = now
      BY DEF Remove
    <2>3. QED
      BY <1>6, <2>1, <2>2, FreshSession, OneSession
  <1>8. Forgets(i)
    BY DEF Remove, IInv, Forgets, JustMet
  <1>9. QED
    BY <1>6, <1>7, <1>8 DEF IInv, Remove

LEMMA BindStep ==
    ASSUME IInv, NEW i \in Ids, NEW ref \in Refs, Bind(i, ref)
    PROVE  IInv' /\ Only(reg, reg', i) /\ flipAt'[i] = 0 /\ Forgets(i)
  <1> DEFINE e == reg.entries[i]
             b == Bound(e, ref)
             back == [b EXCEPT !.status = "needs_attention"]
  <1>1. IsRegistry(reg) /\ e \in Entry /\ e.status # "none"
    BY DEF IInv, IsRegistry, Bind, Live
  <1>2. b \in Entry /\ b.status = e.status
    BY <1>1, BoundFacts
  <1> HIDE DEF b
  <1>3. back \in Entry
    BY <1>2 DEF Entry, Statuses
  <1> DEFINE m == BindSessionToTerminal(reg, i, ref)
  <1>4. m = IF e.status = "detached" THEN Emit(With(reg, i, back))
            ELSE IF Rebinds(e, ref) THEN EmitDebounced(With(reg, i, b)) ELSE reg
    BY <1>1 DEF BindSessionToTerminal, b
  <1> HIDE DEF back, m
  <1>5. /\ IsRegistry(With(reg, i, back)) /\ Only(reg, With(reg, i, back), i)
        /\ IsRegistry(With(reg, i, b)) /\ Only(reg, With(reg, i, b), i)
        /\ With(reg, i, b).entries[i] = b
    BY <1>1, <1>2, <1>3, WithFacts
  <1>6. /\ IsRegistry(m) /\ Only(reg, m, i)
        /\ e.status # "detached" => m.entries[i].status = e.status
    BY <1>1, <1>2, <1>4, <1>5, EmitFacts DEF Only
  <1>7. reg' = Unseen(m)
    BY DEF Bind, m
  <1>8. /\ IsRegistry(reg') /\ Only(reg, reg', i)
        /\ e.status # "detached" => reg'.entries[i].status = e.status
    BY <1>6, <1>7, EmitFacts DEF Only
  <1> DEFINE q == IF e.status = "detached" THEN Fresh ELSE parser[i]
  <1>9. SessionInv(reg'.entries[i], q, FALSE, 0)
    BY <1>1, <1>8, FreshSession DEF IInv, SessionInv
  <1>10. DOMAIN parser' = Ids /\ parser'[i] = q /\ \A k \in Ids \ {i} : parser'[k] = parser[k]
    BY DEF Bind, IInv, Status
  <1>11. /\ judged' = [judged EXCEPT ![i] = FALSE] /\ flipAt' = [flipAt EXCEPT ![i] = 0]
         /\ now' = now
    BY DEF Bind
  <1>12. IInv'
    BY <1>8, <1>9, <1>10, <1>11, OneSession
  <1>13. Forgets(i)
    BY <1>1, <1>8, <1>10 DEF Forgets, JustMet, Gone, Status
  <1>14. QED
    BY <1>8, <1>11, <1>12, <1>13 DEF IInv

LEMMA PauseStep ==
    ASSUME IInv, NEW i \in Ids, Pause(i)
    PROVE  IInv' /\ Only(reg, reg', i) /\ flipAt'[i] = 0 /\ Forgets(i)
  <1> DEFINE e == reg.entries[i]
             paused == [e EXCEPT !.status = "paused"]
             m == PauseSession(reg, i)
  <1>1. IsRegistry(reg) /\ e \in Entry
    BY DEF IInv, IsRegistry
  <1>2. paused \in Entry /\ paused.status = "paused"
    BY <1>1 DEF Entry, Statuses
  <1>3. m = reg \/ (m = Emit(With(reg, i, paused)) /\ e.status \notin Gone)
    BY DEF PauseSession, Over, Gone
  <1>4. reg' = Unseen(m)
    BY DEF Pause
  <1> HIDE DEF paused, m
  <1>5. /\ IsRegistry(With(reg, i, paused)) /\ Only(reg, With(reg, i, paused), i)
        /\ With(reg, i, paused).entries[i] = paused
    BY <1>1, <1>2, WithFacts
  <1>6. /\ IsRegistry(m) /\ Only(reg, m, i) /\ m.entries[i].status \in {e.status, "paused"}
        /\ e.status \in Gone => m.entries[i].status = e.status
    BY <1>1, <1>2, <1>3, <1>5, EmitFacts DEF Only
  <1>7. /\ IsRegistry(reg') /\ Only(reg, reg', i) /\ reg'.entries[i].status \in {e.status, "paused"}
        /\ e.status \in Gone => reg'.entries[i].status = e.status
    BY <1>4, <1>6, EmitFacts DEF Only
  <1>8. SessionInv(reg'.entries[i], parser[i], FALSE, 0)
    BY DEF IInv, SessionInv
  <1>9. DOMAIN parser' = Ids /\ \A k \in Ids : parser'[k] = parser[k]
    BY DEF Pause, IInv
  <1>10. /\ judged' = [judged EXCEPT ![i] = FALSE] /\ flipAt' = [flipAt EXCEPT ![i] = 0]
         /\ now' = now
    BY DEF Pause
  <1>11. IInv'
    BY <1>7, <1>8, <1>9, <1>10, OneSession
  <1>12. Forgets(i)
    BY <1>7 DEF Forgets, Status
  <1>13. QED
    BY <1>7, <1>10, <1>11, <1>12 DEF IInv

(* A detached session stays so, and nothing else concerns the parser. *)
LEMMA UpdateStep ==
    ASSUME IInv, NEW i \in Ids, NEW status \in Statuses, NEW at \in 0 .. MaxNow,
           UpdateState(i, status, at)
    PROVE  IInv' /\ Only(reg, reg', i) /\ flipAt'[i] = 0 /\ Forgets(i)
  <1> DEFINE u == [id |-> i, status |-> status, at |-> at]
             m == UpdateTerminalState(reg, u)
  <1>1. IsRegistry(reg) /\ at \in Nat
    BY TerminalAssumption DEF IInv
  <1>2. \/ m = reg
        \/ m = Applied(reg, i, status, at) /\ reg.entries[i].status \notin Gone
    BY DEF UpdateTerminalState, Gone
  <1>3. reg' = Unseen(m)
    BY DEF UpdateState
  <1> HIDE DEF m
  <1>4. /\ IsRegistry(m) /\ Only(reg, m, i)
        /\ reg.entries[i].status \in Gone => m.entries[i].status = reg.entries[i].status
    BY <1>1, <1>2, AppliedFacts DEF Only
  <1>5. /\ IsRegistry(reg') /\ Only(reg, reg', i)
        /\ reg.entries[i].status \in Gone => reg'.entries[i].status = reg.entries[i].status
    BY <1>3, <1>4, EmitFacts DEF Only
  <1>6. SessionInv(reg'.entries[i], parser[i], FALSE, 0)
    BY DEF IInv, SessionInv
  <1>7. DOMAIN parser' = Ids /\ \A k \in Ids : parser'[k] = parser[k]
    BY DEF UpdateState, IInv
  <1>8. /\ judged' = [judged EXCEPT ![i] = FALSE] /\ flipAt' = [flipAt EXCEPT ![i] = 0]
        /\ now' = now
    BY DEF UpdateState
  <1>9. IInv'
    BY <1>5, <1>6, <1>7, <1>8, OneSession
  <1>10. Forgets(i)
    BY <1>5 DEF Forgets, Status
  <1>11. QED
    BY <1>5, <1>8, <1>9, <1>10 DEF IInv

-----------------------------------------------------------------------------
LEMMA InitIInv == Init => IInv
  <1> SUFFICES ASSUME Init PROVE IInv
    OBVIOUS
  <1>1. IsRegistry(reg)
    BY DEF Init, RegistryInit, IsRegistry, Absent, Entry, Names
  <1>2. \A i \in Ids : SessionInv(reg.entries[i], parser[i], judged[i], flipAt[i])
    BY FreshSession DEF Init
  <1>3. DOMAIN parser = Ids /\ DOMAIN judged = Ids /\ DOMAIN flipAt = Ids /\ now \in 1 .. MaxNow
    BY TerminalAssumption DEF Init
  <1>4. QED
    BY <1>1, <1>2, <1>3 DEF IInv

(* Every step preserves the invariant, flips nothing too early, and brings *)
(* nothing back with a memory.                                             *)
LEMMA NextIInv ==
    ASSUME IInv, [Next]_vars
    PROVE  IInv' /\ \A i \in Ids : NoEarlyFlip(i) /\ Forgets(i)
  <1> DEFINE Goal == IInv' /\ \A i \in Ids : NoEarlyFlip(i) /\ Forgets(i)
  <1>1. ASSUME NEW i \in Ids, IInv', Only(reg, reg', i), flipAt'[i] = 0 \/ NoEarlyFlip(i), Forgets(i)
        PROVE  Goal
    <2>1. ASSUME NEW k \in Ids PROVE NoEarlyFlip(k) /\ Forgets(k)
      <3>1. CASE k = i
        BY <1>1, <3>1 DEF NoEarlyFlip
      <3>2. CASE k # i
        BY <1>1, <3>2 DEF NoEarlyFlip, Forgets, Only, Status
      <3>3. QED
        BY <3>1, <3>2
    <2>2. QED
      BY <1>1, <2>1
  <1>2. ASSUME NEW i \in Ids, Create(i) PROVE Goal
    BY <1>1, <1>2, CreateStep
  <1>3. ASSUME NEW i \in Ids, Remove(i) PROVE Goal
    BY <1>1, <1>3, RemoveStep
  <1>4. ASSUME NEW i \in Ids, Pause(i) PROVE Goal
    BY <1>1, <1>4, PauseStep
  <1>5. ASSUME NEW i \in Ids, NEW ref \in Refs, Bind(i, ref) PROVE Goal
    BY <1>1, <1>5, BindStep
  <1>6. \A at \in {now, now - 1} : at \in 0 .. MaxNow
    BY TerminalAssumption DEF IInv
  <1>7. ASSUME NEW i \in Ids, NEW ev \in Events, NEW ref \in Refs, NEW at \in {now, now - 1},
               TerminalEvent(i, ev, ref, at)
        PROVE  Goal
    BY <1>1, <1>6, <1>7, EventStep
  <1>8. ASSUME NEW i \in Ids, NEW status \in Statuses, NEW at \in {now, now - 1},
               UpdateState(i, status, at)
        PROVE  Goal
    BY <1>1, <1>6, <1>8, UpdateStep
  <1>9. CASE Tick
    BY <1>9, TerminalAssumption DEF Tick, IInv, NoEarlyFlip, Forgets, Status
  <1>10. CASE UNCHANGED vars
    BY <1>10 DEF vars, IInv, NoEarlyFlip, Forgets, Status
  <1>11. QED
    BY <1>2, <1>3, <1>4, <1>5, <1>7, <1>8, <1>9, <1>10 DEF Next

LEMMA Inductive == Spec => []IInv
  <1>1. IInv /\ [Next]_vars => IInv'
    BY NextIInv
  <1>2. QED
    BY <1>1, InitIInv, PTL DEF Spec

(* However a session came to be detached, what its parser knew of it is    *)
(* not used when it comes back, or when its id is used again.              *)
THEOREM ParserForgets == Spec => NothingCarriedOver
  <1>1. IInv /\ [Next]_vars =>
          [\A i \in Ids : (Status(i) \in {"none", "detached"} /\ Status(i)' \notin {"none", "detached"})
                             => JustMet(parser'[i])]_vars
    BY NextIInv DEF Forgets, Gone
  <1>2. QED
    BY <1>1, Inductive, PTL DEF Spec, NothingCarriedOver

(* An approval menu on a known agent's screen is never read as running. *)
THEOREM MenuNeedsUser == Spec => []MenuWins
  <1>1. IInv => MenuWins
    BY DEF IInv, SessionInv, MenuWins, Status, Live
  <1>2. QED
    BY <1>1, Inductive, PTL

(* Output alone does not change a status twice within the stabilization    *)
(* time, whatever the times the events carry.                              *)
THEOREM StatusIsStable == Spec => NoFlapping
  <1>1. IInv /\ [Next]_vars =>
          [\A i \in Ids : (flipAt[i] > 0 /\ flipAt'[i] > 0 /\ Status(i)' # Status(i))
                             => reg'.entries[i].updAt - flipAt[i] >= Stabilize]_vars
    BY NextIInv DEF NoEarlyFlip
  <1>2. QED
    BY <1>1, Inductive, PTL DEF Spec, NoFlapping
==============================================================================
