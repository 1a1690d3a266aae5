# multitasker: a verification project

multitasker keeps a list of coding agents' terminals and of what needs the
user's attention. It runs terminals in one process (the *supervisor*), serves
them to WebSocket clients from another (the *shell gateway*), keeps sessions,
tasks and notifications in a third (the *HTTP backend*) and shows all of it in
an Electron application (the *desktop*). This directory holds TLA+ modules
translated from that code, TLC configurations that check them on small
instances, and theorems about them checked by TLAPS. Paths below are relative to
`src/`.

Running things, inside this directory:

    tlc -workers 2 -config SupervisorOpen.cfg MCOpenSupervisor.tla
    tlapm OpenSupervisor_proofs.tla

## 1. Inventory

### Supervisor: `shell/supervisor/ipc-server.ts`, `shell/core/*.ts`

State: the map of sessions (`SessionManager`), each with its PTY or SSH process
and what its last events were; per session a scrollback ring and the set of
connections subscribed; per connection, whether it said `hello` and which
sessions it subscribed to; the `setImmediate` callbacks scheduled.
Operations: one handler per IPC message (`hello`, `list`, `create`,
`create_ssh`, `subscribe`, `unsubscribe`, `input`, `resize`, `kill`), one
listener per session event (`created`, `data`, `exit`, `removed`), accept,
`checkBacklog` (destroys a socket that does not drain) and close.
Hard: the removal of a session is deferred by a tick after its exit and names it
by id, which may by then belong to another session; a socket's close event comes
after it was destroyed; snapshot and live output must join without a seam.
Correct when: a subscriber is sent a snapshot and then every later chunk once;
tables never name what is gone; nothing is told to a stranger; only dead
sessions are removed.

### Gateway: `ws-server/supervisor-client.ts`, `ws-server/ws-server.ts`

State: the pipe socket, requests awaiting a reply, a cache of the session list,
which sessions this gateway is subscribed to and a local scrollback of each;
for the clients, two pairs of mutually inverse indexes (attached, watching),
the size each client wants and the one in force, output waiting to be coalesced.
Operations: one handler per client message, one listener per supervisor frame,
`flushOutput` in `setImmediate`, request timers, connect, disconnect, retry.
Interacts with the supervisor by newline-delimited JSON over a named pipe, and
with the backend by fire-and-forget POSTs (`multitasker-client.ts`).
Hard: everything after an `await` runs when other frames and other clients'
messages have been handled; the local scrollback is ahead of the coalesced
output; the pipe may break with requests, continuations and clients in flight.
Correct when: each attached client sees one uninterrupted run of output, exit
after the last byte, its size is honoured only while it is there, a detach stops
the output, every request settles.

### OutputAnalyzer: `ws-server/output-analyzer.ts`

State: per session a headless terminal fed with its output, the last status
reported (`working`, `needs_input`), the last screen, times of the last output,
input, screen change, typing and focus, the recent transitions and a hold.
Operations: output, input, typing, focus, resize, reset on removal, and an
asynchronous `tick` run by an interval timer.
Hard: `tick` awaits the terminal's parser in its loop and compares with a time
read before; seven guards decide whether a report is made.
Correct when: nobody is told that an agent waits while its screen moves or its
user types; a silent session does not stay `working`; a flickering screen does
not make reports without end.

### Backend, sessions: `shared/sessionManager.ts`, `shared/terminalEvents.ts`, `http-server/modules/sessions`, `.../terminals`

State: sessions with status, binding to a terminal, name and metadata; updates,
events and metadata queued for sessions not registered yet; tombstones of
removed ones; the parser's memory of each terminal; the sessions file.
Operations: one route per POST (create, remove, update, event, rename, touch,
pause, agent status, metadata), the debounced broadcast, save and restore.
Hard: the gateway's reports are POSTs of their own, unordered and never
repeated; other clients remove and report about the same sessions; tombstones do
not survive a restart; which handler saves is up to it.
Correct when: once the reports have arrived the registry holds the shells that
run and that nobody removed, with the newest status; nothing stays queued for good; the file is what a
restart needs; an old screen does not judge a new terminal.

### Backend, tasks: `http-server/modules/manual-tasks`, `.../recurring-tasks`, `.../github-reviews`, `core/websocket-events.ts`

State: three lists and their files; the publisher's socket, queue and timer; the
gateway's newest copy; the desktop's list, fed by two streams.
Operations: store, remove, generate, poll, publish, connect, flush, retry, relay,
apply, add and remove at the desktop. Hard: a crash between two stores; a second
socket opened beside one that is not ready; two streams in any order; processes
that restart without their copies; a desktop that adds to its copy of the list
and tells nobody. Correct when: each occurrence of a rule makes one task and none
is forgotten; the desktop ends up with the backend's list, and keeps what it added
itself until the next whole list at the latest.

### Backend, next-up: `shared/next-up.ts`, `http-server/core/next-up-state.ts`, `http-server/modules/slack`

State: the order and done marks in their file, the sources of the items, Slack
events whose names are being looked up. Operations: every handler that changes a
source recomputes, prunes, merges and saves the list. Correct when: that is
idempotent, done stays done and the user's order is kept.

### Desktop: `desktop/src/main/main.ts`, `desktop/src/shellServerClient.ts`

State: its own session manager and file, or the mirror of the backend's list;
the calls of its window, each with a WebSocket and timers; reconnects in flight.
Operations: create, reconnect, remove, the two roles, restart. Hard: a call that
gives up is not taken back; a removal is a kill and a POST; the gateway's copy of
the shells lags. Correct when: no shell is left that nobody can reach, a
reconnect is shared and truthful, every call is answered.

### Others

Settings routes, routing, health, database, Google Calendar, OAuth, the windows
themselves, `bridge-cli`, the Slack extension, scripts: I/O or user interface.

`PROJECT.json` lists every component with its status, and under `hazards` each
thing that can go wrong at its line, with the property that would show it.

## 2. Modules

| Module | Models |
| --- | --- |
| `ShellIpc` | the messages of the pipe and one pair of queues per connection |
| `Supervisor` | the supervisor process: its state and one action per message, session event and connection event |
| `OpenSupervisor` | `Supervisor` with arbitrary gateways: any request at any time |
| `SupervisorClient` | class `SupervisorClient`: state, requests, replies, local scrollback |
| `Gateway` | `ws-server.ts` on top of `SupervisorClient`: one action per event-loop callback |
| `Relay` | `Supervisor` and `Gateway` composed over the pipe; end-to-end properties and fairness |
| `TerminalFeed` | the abstract promise to a client, which `Relay` implements |
| `OutputAnalyzer` | the analyzer of one session, with the sweep that calls it |
| `SessionRegistry` | the session manager, as operators on a state record |
| `BackendSessions` | the session and terminal routes on a `SessionRegistry`, the gateway's reports and the network between |
| `TerminalEvents` | the terminal event parser under a `SessionRegistry` |
| `TaskSync` | the task list, the publisher, the gateway's relay, the event stream, the desktop's two appliers |
| `TaskSources` | recurring tasks and review requests, their files and crashes |
| `NextUp` | `shared/next-up.ts`: items, order, marks, as operators on sequences |
| `Lists` | what `TaskSources` and `NextUp` share: filtering a list |
| `BackendNextUp` | the backend's handlers that change the list or its sources, over `NextUp` |
| `DesktopShells` | the desktop's calls about shells, with gateway, supervisor and backend seen from outside |
| `OpenSupervisor_proofs`, `Relay_proofs`, `RelayFeed_proofs`, `SessionStatus_proofs`, `TaskSync_proofs`, `DesktopShells_proofs`, `BackendSessions_proofs`, `BackendLists_proofs` | the theorems; those of `SessionStatus_proofs` are about `OutputAnalyzer` and `TerminalEvents`, those of `BackendLists_proofs` about `TaskSources` and `BackendNextUp` |
| `MCOpenSupervisor`, `MCRelay`, `MCTaskSources`, `MCBackendNextUp` | values of constants for TLC |

The supervisor is composed with the gateway in `Relay`; the gateway's analyzer,
its reports to the backend and its relay of tasks are separate modules because
they share no state with the terminals' traffic but a session's id. What crosses
the boundary is assumed at one side and arbitrary at the other: `OutputAnalyzer`
reports what `BackendSessions` lets the gateway report in any order;
`TerminalEvents` computes what `BackendSessions` takes from `EventOutcomes`, and
`OutcomesCovered` shows that the former is within the latter.

**Data, terminals.** Output is counted in chunks: the n-th chunk of a session id is the
number n, counted over all processes that had the id. A ring is its first
chunk (it always ends at the last one produced, `produced`), 0 when there is no
ring; a piece of text is a pair `from .. to`. A session id is a model value; a process (an *incarnation* of an id)
is a number, so that an action of an old process and the entry of a new one in
the session map can be told apart. A terminal's size is one number.

**Steps.** Node runs one callback at a time, so an action is a callback. What
runs later is state: `immediates` (the `setImmediate` that emits an SSH exit and
the one that removes a session) in the supervisor; in the gateway `micro` (the
continuations of settled promises, which run after the other lines of the pipe
read that settled them), `turn` and `burst` (whose callback this is and how much
it has read), `pendingOutput` (non-empty exactly while a flush is scheduled),
`pipeServed` (the pipe was read in this poll phase, so the check phase comes
before it is read again).

**Bugs to catch.** An operator whose comment begins "A bug to catch in X" is a
broken variant of `X`, used nowhere in the model: put in place of `X`, it makes
the property `PROJECT.json` pairs it with fail. This shows that the property
depends on that line of code.

**Assumptions.** One pipe read (64 KiB) holds less output than the coalescing
threshold, so it never flushes twice; node-pty delivers a process's last data
before its exit; `setImmediate` callbacks and promise continuations run in the
phases Node documents; the gateway runs without `SHELL_AUTH_TOKEN`. Nobody but the
gateway creates a session under a shell's id. Clients in this repository remove,
rename and touch a gateway shell's session; the routes would accept updates, events and
pauses of it as well, and `Shared` names the shells about which they come. No time
passes while the analyzer's tick awaits the parser, which takes milliseconds. Backend
and desktop keep their files in directories of their own (`state/sessions.ts:7`,
`main.ts:3771`). The
operating system tells one end of a pipe when the other is gone (`HungUp`,
`Refused`).

**Data, elsewhere.** A session's fields are those a handler decides by: status,
time of the last update, binding, whose name it bears, whether it has metadata
and git changes. A POST is a record in a set, delivered or lost in any order. A
time is a small number, or in `OutputAnalyzer` an age that stops growing at the
largest threshold it is compared with, so nothing grows without end. Output, for
those who read it, is a sequence of tokens, one per thing a pattern looks for
(`TerminalEvents`), or a screen (`OutputAnalyzer`). A file is a value and a flag
that says it does not parse (`TaskSources`). The calendar is real but has small
months (`MonthLengths`, `WeekLength`). Tasks, notifications and calls are model
values; a variable commented "history" is read by properties alone.

**Bounds** are constants, each commented "bound" where it is declared:
`MaxIncs`, `MaxOutput`, `MaxInFlight`, `MaxReq`, `MaxQueued` (terminals);
`MaxPosts`, `MaxTime`, `MaxRestarts` (sessions); `MaxChanges`, `MaxFaults`,
`MaxCrashes`, `MaxSteps`, `MaxNow`, `MaxNews` (the rest). `Conns`, `Requests`,
`ClientOps`, `ClientPosts`, `EventKinds`, `Signals`, `Schedules` say what exists
and what is asked.

How actions correspond to code is in `PROJECT.json` under `map`, definition by
definition; the shape is the same in each module:

* `BackendSessions`: `ShellStarted`, `ShellRemoved` and `StatusChanged` are the
  gateway's, each adding POSTs; `ClientPost` is another client's, about a session of
  its own or about a shell (`Offered` says which routes); `Deliver(p)` runs the route's whole handler,
  queues, tombstones, metadata, save and broadcast included; `GitCheck` and
  `TimerFires` are the backend's timers; `Restart` loses all but the file.
* `TaskSync`: the publisher's four socket handlers, `ReconnectTimer`, the routes
  that store and remove, `GatewayReads`, the desktop's reader of each stream,
  what it adds and removes itself (`DesktopAdds`, `DesktopRemoves`), and
  a fault for each connection and process. The desktop's window and its own recurring
  scheduler, which goes on while it is a mirror, both end in `addManualTask`. An event may be torn anywhere between
  its two lines, and a parser keeps what it read over a reconnection, as the code's
  does.
* `TaskSources`: a handler's writes are a list of steps; `Dies` keeps a prefix of
  it and may tear the file being written.
* `BackendNextUp`: each handler ends in the broadcasts that recompute and save.
* `OutputAnalyzer`: `AnalyzerTick` reads the clock, `TickAwaits` suspends on the parser,
  `TickResumes` goes on with what it then finds. A `Reset` in between takes the
  state out of the map, and the tick goes on with it (`orphan`).
* `TerminalEvents`: `TerminalEvent` is one event of any kind at `now` or overtaken
  by a newer one, `UpdateState` a status set without the parser; the parser's branches are operators in the order of the code.
* `DesktopShells`: a call is a record with its stage (connecting, waiting, ...) and
  the state of the frame it sent, which lives on when the call has given up.

## 3. Runs

| Run | Instance | Shows |
| --- | --- | --- |
| `supervisor_open` | 1 id with 2 processes, PTY or SSH, 1 gateway with every message and the payloads refused, sent when the one before has been handled and its answer read, 3 chunks, a ring of 2 | `SnapshotThenLive`, `CaughtUp`, `SnapshotBounded`, `NoStaleSubscriber`, `RingIffListed`, `RemovedAfterOwnExit`, `TypeOK` |
| `relay_faults` | 1 client that attaches once, 2 pipe connections, any of which may break, a client that may be lost, coalescing at 2 | `FeedSpec` (refinement), `AttachedSeesAll` and `RequestsSettle` (liveness), `SilentUntilHello` |
| `relay_watch` | 1 client with attach, detach, watch, unwatch, input and kill; PTY and SSH; timeouts; snapshots over the line limit | `AttachedIsFed` |
| `relay_tables` | 2 clients with attach, detach, resize to 2 sizes | `IndexesAgree`, `EffectiveIsMin`, `NothingAfterExit`, `DetachStopsOutput`, `TypeOK` |
| `unsubscribe_race` | 2 clients that attach at once | `AttachedIsFed` is violated |
| `backend_sessions` | 1 shell of the gateway, which other clients remove, rename and touch, 1 session of another client that uses every route, 2 POSTs in flight, a queue of 1, 1 restart | `RegistryConverges`, `LatestReportWins`, `NothingLeftPending`, `RestartKeepsSessions` |
| `task_sync` | 2 tasks of the backend, 1 of the desktop, a list of 1, a queue of 2, 3 changes, 1 fault of any kind, a token that fits or not | `QuietMeansEqual`, `PendingIsPursued`, `Converges` (liveness) |
| `task_sources` | a rule of any frequency, 2 review requests (symmetric), a list of 1, months of 1 and 2 days, 1 crash anywhere | `OncePerOccurrence`, `NothingForgotten` |
| `backend_next_up` | 2 sessions, 1 task, 2 notifications with room for 2, 1 calendar event, 4 changes, 1 restart | `Settled`, `DoneStaysDone`, `OrderIsKept` |
| `output_analyzer` | 2 screens (one a prompt, both with a running sign), every signal, thresholds 1, 2, 3 | `FlapBounded`, `NoFalseIdle`, `NeverStuck` (liveness) |
| `desktop_shells` | 1 session id, 2 calls, 1 fault of any process | `NoOrphans`, `OneReconnect`, `OkMeansShell`, `CallsSettle` (liveness) |
| `terminal_events` | 1 session, 1 execution, a tail of 2 tokens, times 0 to 2, a grace of 1 | `OutcomesCovered`, `NothingCarriedOver`, `MenuWins`, `NoFlapping` |

*Why the bounds are enough.* The supervisor's tables are kept per session id and
sessions never look at each other, so one id shows every interleaving of it with
connections; a second process is what re-creation needs. Three chunks and a ring
of two let the ring wrap after a snapshot was taken. What the supervisor does depends on
no frame it wrote, so a gateway that sends earlier than the instance lets it only
queues the same messages; the theorems of section 5 cover any number of
everything. In the relay, two connections allow one
reconnection with everything of the old one still around; two clients allow one
to leave while the other is attached or waiting. The backend's tables too are
kept per id, but one terminal may be bound to two sessions, hence two ids and one
reference. Two POSTs in flight are what reordering needs. `BackendShared.cfg` is a
second instance of `BackendSessions`: one shell about which other clients send every report too
(`Shared`), three POSTs in flight; `RegistryConverges` and `NothingLeftPending` hold there
as well (1.8 million states), and `RegistryIsRight` proves the first for any `Shared`. In `task_sync`, a list
of one and two tasks make the cap bite, and a queue of two is full with one change of the
list. Months of one and two days hold a
day that a month lacks; the proofs take any months. The thresholds of the analyzer are distinct where the code's are
and in the same order. Two calls are a call and one that overtakes or joins it;
the safety properties of `desktop_shells` were also checked with three calls
without faults and with two faults, those of `task_sync` with two faults.

`TypeOK` of `BackendSessions`, `TaskSync`, `TaskSources`, `DesktopShells` and
`TerminalEvents` is stated in the module and holds on the same instances; their
configurations leave it out, as the other properties fail first.

Deadlock is not checked: a system with nobody asking for anything is idle, and
the bounds stop the rest.

`relay_watch` has a line limit (`MaxLine`) of one chunk and reaches a scrollback over it, in front
of other lines of a read or behind them: `GotOversized` drops the whole read. In the
other runs of the relay every scrollback fits.

*What the refinement says.* `TerminalFeed` has no pipe, no snapshot and no
coalescing: output is produced, a client attaches to a recent stretch of it, the
stretch grows, `exit` comes with or after the last chunk. `FeedSpec` is
`TerminalFeed!Spec` with `attached <- clientSubscriptions`. It is checked for
one client that attaches once, because with a second attach the code does not
keep it (`IdenticalOutput.cfg`, below), and proved for one (`RelayKeepsFeed`, section 5).

*What properties excuse.* A property that the code does not keep without
exception names the exception. `RegistryConverges` excuses a lost registration
and a restart (the gateway never repeats a POST, tombstones are not saved), and
has no session for a running shell whose session a client removed (`remove_session`,
`ws-server.ts:1147`, does not kill the shell); `LatestReportWins` and the first half of
`RestartKeepsSessions` are of shells that only the gateway reports about;
`QuietMeansEqual` and `Converges` excuse a change lost with the process that had not
passed it on, and a list to which the desktop has added a task of its own since it
was last sent a whole one (`main.ts:1472`; a recurring rule, whose mirror the
desktop's scheduler runs as well, may so be shown twice); `OncePerOccurrence` exactly the occurrences whose two writes a
crash separated; `DoneStaysDone` and `OrderIsKept` a restart with a saved
session, which prunes order and marks against lists that are not loaded yet
(`http-server/server.ts:13-20`); `NoOrphans` the ways listed in its comment.
`OrderIsKept` leaves Slack's keys out, which follow an order of their own, and
`NoFlapping` is about output alone: a command's start and end may change the
status at any time, and so may a disconnection.

**Disagreements with the documentation.** `unsubscribe_race` is the one listed
under `findings`. The configurations below reproduce the others; each checks one
property that a comment or a document states, and TLC finds it violated, e.g.
`tlc -config LocalCopy.cfg MCRelay.tla`.

| Configuration | Module | Statement | What TLC shows |
| --- | --- | --- | --- |
| `UnsubscribeRace.cfg` | `MCRelay` | shell/README.md:46, attach subscribes to the output | two attaches at once, one detach: the other client is left without output |
| `SshRemoved.cfg` | `MCOpenSupervisor` | session-manager.ts:59, metadata is kept until clients read exit | an SSH session that fails with its channel open exits twice; the second removal takes away the session re-created under its id |
| `IdenticalOutput.cfg` | `MCRelay` | shell/README.md:6, clients see identical output | a client that attaches between a chunk's arrival and its flush gets it in the replay and again live |
| `LocalCopy.cfg` | `MCRelay` | supervisor-client.ts:158, the full scrollback known so far | output in the pipe read that brought `subscribed` is not in the local scrollback |
| `DetachRace.cfg` | `MCRelay` | shell/README.md:47, detach stops output | a detach before the attach is answered is undone by the answer |
| `SizeLeak.cfg` | `MCRelay` | schema.md:235, a client's size is forgotten with it | a size asked for without being attached stays |
| `AnalyzerPromotes.cfg` | `OutputAnalyzer` | output-analyzer.ts:231, back to working only if the visible screen changes | a session at a prompt whose screen says it runs is `working` again with the screen as it was |
| `CreatedIsShown.cfg` | `DesktopShells` | shellServerClient.ts:18, the desktop registers the shell itself | as a mirror it registers it in its own manager, which is not what it shows |

Others were met while modelling and have no configuration:
`shared/terminalEvents.ts` keeps a held-back prompt back until more output comes;
an answered menu that is still in the tail keeps the session waiting; a plain
shell whose prompt glyph starts the tail is taken for an agent for good; the
comment at 79-83 (a repaint never demotes) looks only at the parser's last
status. In `output-analyzer.ts` a client that disconnects while typing suppresses
`working` for that session; input after a removal makes the state anew, and it is
then reported `working`. In `slack/index.ts` an event answered late is delivered
again, and brings back a notification dismissed meanwhile. A gateway that asks
for a token refuses the desktop's create and reconnect, which send none.

The passing runs of the relay are instances in which these races cannot occur, and the bounds
that exclude them are the ones named: `DetachStopsOutput` holds for clients that
wait for a reply before the next message (`Pipelined = FALSE`); `AttachedIsFed`
for one client and one process per id; `RemovedAfterOwnExit`
for ids that only ran PTYs.

## 4. Fairness

`Relay`, `LiveSpec`: the two event loops go on. A line queued on a pipe is
handled, a continuation, a scheduled flush or a `setImmediate` callback runs, an
attempt to connect is accepted, and a broken connection is noticed. These are
weak fairness conditions on callbacks that Node's loop always reaches. Nothing
is assumed of terminals (they may never produce output or exit), of clients, of
faults, or of request timers: `RequestsSettle` holds although no timer ever
fires, since a broken pipe rejects every request and an unbroken one answers it.

`TaskSync`, `LiveSpec`: as long as something is sent and not read, a connection
attempt has not ended or a timer is set, some step is taken that is not a change
or a fault; and a gateway that stopped is started again (`scripts/dev-*` and the
desktop do). One weak fairness condition for all such steps together is enough.

`OutputAnalyzer`, `AnalyzerLiveSpec`: the sweep's interval fires, the terminal's parser
calls back, time passes. Clients and terminals owe nothing.

`DesktopShells`, `LiveSpec`: a call's timers fire, and a POST is answered by the
backend or refused by its absence. Nothing is assumed of gateway or supervisor:
`CallsSettle` holds because of the timers.

## 5. Proofs

For any sets of sessions, connections, clients, tasks, calls and screens, any thresholds, any
capacities and any bounds:

| Module | Theorem | Statement |
| --- | --- | --- |
| `OpenSupervisor_proofs` | `TypeCorrect` | `Spec => []TypeOK` |
| | `NoStaleSubscribers` | `Spec => []NoStaleSubscriber` |
| | `RingsFollowSessions` | `Spec => []RingIffListed` |
| | `SnapshotThenLiveOrder` | `Spec => []SnapshotThenLive` |
| | `SubscribersCaughtUp` | `Spec => []CaughtUp` |
| | `SnapshotsFit` | `Spec => []SnapshotBounded` |
| | `HelloGate` | `Spec => []SilentUntilHello` |
| | `RemovalIsOfItsOwn` | `Spec => RemovedAfterOwnExit` |
| `Relay_proofs` | `IndexesAlwaysAgree` | `Spec => []IndexesAgree` |
| | `EffectiveAlwaysMin` | `Spec => []EffectiveIsMin` |
| | `RelayTypeCorrect` | `Spec => []TypeOK` |
| | `RelayKeepsPromises` | `Spec => []PromisesKept`: the supervisor's properties above, in the composition |
| | `RelayHelloGate` | `Spec => []SilentUntilHello` |
| | `DetachIsFinal` | `Spec => DetachStopsOutput`, if `~Pipelined` |
| | `AttachedAlwaysFed` | `Spec => []AttachedIsFed`, if `~Pipelined`, for one client and one process per id |
| | `NothingMoreAfterExit` | `Spec => NothingAfterExit`, for one process per id, if no client creates SSH sessions |
| `RelayFeed_proofs` | `RelayKeepsFeed` | `Spec => FeedSpec`: `Relay` implements `TerminalFeed`, if `AttachOnce`: one client that waits for replies and never detaches, one process per id, a PTY |
| `SessionStatus_proofs` | `KeptEventsNeedNoMemory` | `Spec => []OutcomesCovered` |
| | `ParserForgets` | `Spec => NothingCarriedOver` |
| | `MenuNeedsUser` | `Spec => []MenuWins` |
| | `StatusIsStable` | `Spec => NoFlapping` |
| | `NeverFalselyIdle` | `AnalyzerSpec => []NoFalseIdle` |
| | `ReportsAreFew` | `AnalyzerSpec => []FlapBounded` |
| `TaskSync_proofs` | `PublisherPursues` | `Spec => []PendingIsPursued` |
| | `ListsAgreeWhenQuiet` | `Spec => []QuietMeansEqual` |
| `DesktopShells_proofs` | `ReconnectsShared` | `Spec => []OneReconnect` |
| | `OkAlwaysMeansShell` | `Spec => OkMeansShell` |
| | `NoShellIsOrphaned` | `Spec => []NoOrphans` |
| `BackendSessions_proofs` | `NothingStaysBehind` | `Spec => []NothingLeftPending` |
| | `SessionsSurviveRestarts` | `Spec => []RestartKeepsSessions` |
| | `NewestReportDecides` | `Spec => []LatestReportWins` |
| | `RegistryIsRight` | `Spec => []RegistryConverges` |
| `BackendLists_proofs` | `EveryOccurrenceMakesOneTask` | `Spec => []OncePerOccurrence` |
| | `NoOccurrenceIsForgotten` | `Spec => []NothingForgotten` |
| | `NextUpIsSettled` | `NextUpSpec => []Settled` |
| | `NextUpDoneStaysDone` | `NextUpSpec => []DoneStaysDone` |
| | `NextUpOrderIsKept` | `NextUpSpec => OrderIsKept` |

Assumptions: those named in the modules (bounds and thresholds are naturals,
requests are client messages, `NoSession`, `NoRef`, `NoCall` and `NoExec` are not
what they stand beside; the analyzer's grace is shorter than its idle time, and
that than its limit, as in the code; `FlapMin` and the publisher's `PendingCap`
are above 1, in the code 5 and 100; no client is one of the marks `"idle"`, `"pipe"` and
`"draining"` that `turn` also holds; `"none"`, which stands for no status, no sender
and no list, is no id and no task; months and weeks have days, and an interval or
a day of the month is at least 1, as `schedule-parse.ts:71-77` sees to; the calendar's
events have different ids, which `main.ts:2545` makes of connection, calendar and event).

*Supervisor.* `Registered` (`TypeOK`, `NoStaleSubscriber` and `RingIffListed`
together) is inductive. None of the last two is without the others: a
subscription is granted when `current[s]` says the session exists, a removal
clears three tables at once, and the close handler removes a connection only
from the sessions its own record names. `Ordered` adds `SnapshotThenLive` and
`CaughtUp`. Neither is inductive alone: that a new chunk continues the last one
written to a subscriber needs that the subscriber had been written everything so
far (`CaughtUp`), and that a chunk reaches all subscribers needs that a
subscriber is a connection still on record (`NoStaleSubscriber`). The work is in
lemmas about queues (what appending a frame and taking the first one do to
`Continues` and `EndsAt`), each cited by the steps that write or read a queue;
actions that write no output share one lemma. `Gated` adds `SilentUntilHello`. `Fitting` adds `SnapshotBounded` and that
each ring fits its capacity, without which a snapshot read from it would not; that a
ring which is read exists is `RingIffListed`.
The proofs include SSH sessions, with their double exit. `RemovedAfterOwnExit` is of ids that
only ran PTYs, and rests on `Leaving`: of such an id only the process in the map lives, and at most one
callback is queued, its removal, which was queued when it died. So `create` cannot find the id free before
the removal has run, and a removal cannot find a later process. An SSH
process queues two, which breaks the last conjunct (`SshRemoved.cfg`).

*Gateway.* `IndexesAgree` and `EffectiveIsMin` need nothing of the supervisor or of
the continuations of the requests under way: whatever order results, timeouts
and closed sockets come in, each handler changes both directions of an index, or
neither. `EffectiveIsMin` needs that a session whose effective size is not
recomputed had no change in what its clients want (`RecomputedIsMin`): that is
why `Leave` recomputes the sessions it is given and only those.

*Relay.* `TypeOK` is not inductive: the gateway writes to and reads from
`toSup[gwConn]`, so there must be such a connection (`LinkOK`); it makes sequences of
the sets of rejected requests and of sessions to unsubscribe from, which need
to be finite (`PendingOK`, with distinct ids; `FewInUse`); and it looks up the session of a frame,
so a frame that is about a session names one (`FramesNamed`). With these it is
`Typed`. The supervisor's half is not proved again: `Open` is `OpenSupervisor` with
any client message as a possible request and no bound on the queue, `SupervisorIsOpen` shows
that its steps in the relay are steps there, and `OpenSupervisor_proofs` is used through INSTANCE. So is
all that it proves of ordering: `PromisesKept` is preserved because reading a frame is a step
that an arbitrary gateway may take (`FrameIsRead`), and the gateway's other
steps leave the frames alone (`OnlyWrites`). `DetachStopsOutput` rests on `AskedFor`: whoever
is attached, and whoever an attach under way is for, asked for the session last. A detach
clears `asked`, so nothing may then be under way for that client; that is the hypothesis
`~Pipelined` (in the code: the client awaits the answer to its attach), and
`DetachRace.cfg` shows that the property is false without it.

`AttachedIsFed` says something only when nothing is under way; `FInv` says what is before.
A session is `Fed` if the supervisor sends its output and no line in the pipe tells it to stop, as
long as the session and the connection last. Of a subscription that is asked for, `Promised` says
that the line that asks is not followed by one that takes it back, and that once the
answer is in the queue the session is fed; `Justified` says it is when the continuation
runs, and `Attended` as long as the gateway counts itself subscribed. `Followed` ties the two
indexes to that. What makes it inductive is `Alone`: one request or one continuation at a
time, so that the gateway never unsubscribes from what it is about to subscribe to. That
needs one client that waits; with two, `UnsubscribeRace.cfg` shows the property false. That an id
is not used twice is needed too: when `subscribed`, `exit` and `removed` come in one read, the continuation
re-adds the removed session (`supervisor-client.ts:321`), and the next process with its id is taken for subscribed. Timeouts
and lost connections need no hypothesis: an answer that comes too late is only output to nobody.

`NothingAfterExit` looks at two screens, before and after a step; `EInv` says why nothing is
left that could add to the first. `Terminals`: an id has one process, a PTY, which goes through its states in
one direction, so it exits once. `Endings`: in a connection's queue no output or exit of a session comes
behind its exit or its removal, and a queue that holds either is of a session that is `Over`.
`Removals`: a callback that removes a session is one of a session that is over. `Unopened`: a connection that
is not open yet has empty queues, so reconnecting brings no old words back. `AfterExit`: a session
that some screen was told the exit of is `Hushed`: over, with nothing of it in the queue
that the gateway reads and nothing in its coalescing buffer. That the exit listener writes out the buffer before it tells the clients
(`ws-server.ts:607-631`) is what makes the last part hold. Any number of clients may
attach at once, and frames may be late or lost. The two hypotheses are
needed: an SSH session may produce output after the exit that `handleFatal` reports, and
TLC finds `NothingAfterExit` violated with `create_ssh`; and a second process with the same id adds to the screen of the first.

*Refinement.* `RelayKeepsFeed` shows that every step of the relay is one of `TerminalFeed` or leaves
its three variables alone: a chunk of output is `Produce`, the continuation of an attach or a create
`Attach`, the flush and the exit `Deliver`, a lost client `Detach`, and all else a stutter. The heart is where the chunks
are that a screen lacks, and `GInv` says it. `Flow`: the coalescing buffer continues the screen
chunk by chunk, and the output in the connection's queue continues the buffer, up to the last chunk produced as long
as the supervisor sends this gateway its output or the exit is in the queue (after a lost connection
it stops somewhere); or the session is `Hushed` and nothing is left. So a flush makes the screen go on where it
stopped, and the exit, which comes behind the last chunk, finds it complete. Before there is a screen, `Expected` says
it of the answer: no other answer for the session is in the queue, it is in front of all its output, and the
chunks behind it start after the last one it has. `Granting` carries that over to the continuation,
and there `turn` and `burst` come in: chunks that follow the answer in the same pipe read are in the buffer when
the continuation runs, and stay for the flush. `Rings` makes the snapshot a stretch of output that exists. What makes
it inductive is `Unasking`: of a session that nobody asked for, the supervisor sends nothing and
the buffer holds nothing, so what the attach finds is only what it asked for. The supervisor's steps are
sorted by what they do to one session (`Outputs`, `Grants`, `Ends`, or nothing), the gateway's by the frame they
read, and each kind has its lemma about `Chain`, the numbers in a queue. Requests that time out and
connections that break need no hypothesis, nor do snapshots that exceed the line limit, with
which the whole read is dropped. `AttachOnce` is needed: a second attach
replays a local copy that is ahead of the coalesced output still to come (`ws-server.ts:790`), and
`IdenticalOutput.cfg` shows what it does to the screen.

*Registry.* `IInv` of `BackendSessions_proofs` has one part per table:
`RegistryOK` (an entry and its line in the file agree), `PostsOK`, `QueuesOK`
(what is queued is for a session that may still come and has the shape its route
gives it), `TablesOK` (maps know registered sessions only, terminals are bound
to other clients' sessions), `NothingLeftPending`, `ToldOK` (what the newest report said is what
the entry shows), `ClocksOK` and `ShellsOK`: for each shell, what its session
still lacks is on its way, and what would undo it is not, unless a client asked for
its removal; then the removal is on its way or has left a tombstone. None of the four
properties but `NothingLeftPending` is a part as it stands; `RegistryConverges`
is `ShellsOK` when no POST is left. The proof has a lemma per method of
the session manager, one per route, and one step per action over them. A
registration applies a queue of any length: by induction over `Nat`, from the
well-foundedness of `<`, stated of the set of numbers of events for which
`AppliedEvents` keeps what one event keeps. That SMT and Zenon can do
where the library's rule, which takes an operator, cannot be instantiated.

*Terminal events.* `IInv` is one formula per session: the parser's state has its
shape, and nothing more is known of a detached session's, as updates detach it without the
parser; while judged output
is the session's last step, a menu means the user is needed; and as long as only output came
since the last flip, the session's status is the parser's last answer and the flip
is no later than the parser's last change, which is no later than the last update.
`NothingCarriedOver` then rests on the ways out of `detached`: each resets the parser in the
same step, before the event that restores the session is parsed. `NoFlapping` rests on the
last conjunct: the parser's hold compares with
`changedAt`, the property with the time of the flip. `OutcomesCovered` holds of
every state of the parser, so it needs the shape alone. Each event kind has a
lemma that says what its branch makes of the conjuncts; the lemmas about the tail
say only that it stays a sequence of tokens (its length is left to TLC).

*Desktop.* `IInv` says that calls are well formed and `FlightInv`: for each
session, `sshReconnectInFlight` names exactly the call that asks, and every call
that joined is one of it. Neither half of `OneReconnect` is inductive without
the equivalence: a call is let in because the table is empty, and the table is
emptied because its call settles.

`OkMeansShell` rests on `SeenInv`: a call that wants its session to exist, and any
call that joined it, has seen the shell while it is in the supervisor's table,
and if one call of the session holds an answer that the shell exists, all of
them have seen it. It has one lemma per action; the actions that answer a call
all go through `Keeps`, which says that a step gives a call no answer it did not
have.

`NoOrphans` rests on `HeldInv`: the lists are lists of used ids; a call that is about to
take a session away has a kill on its way, unless its shell is among the losses
the property names; and every other shell is held by a session or a call. Each
action that shortens a list or ends a call has a lemma that says what holds the shell
afterwards.

*Publisher.* `PubOK` says how the flags and the socket of
`websocket-events.ts` agree: `ready` implies a socket that was opened,
`connecting` one that is opening, and a refused token leaves no socket and
nothing pending. `PendingIsPursued` is not inductive without it: enqueueing
leaves the connection alone on the word of a flag.

*Task list.* `QuietMeansEqual` says something only when all queues are empty; the invariant
`DInv` says what is in them before. `ListInv` and `QueueInv` give the lists and the queues
their shape and tie them to the sockets. `StreamInv` says that the event stream carries
whole lists, the last of them the backend's, and that a parser in the middle
of an event has its next chunk in front. `Arrives` is the heart: what the gateway
has not read `Ends` with the backend's list (a snapshot of it, perhaps followed by the
name of its first task), or the gateway has it; what the
desktop has not seen ends so too, or the desktop shows it; with the exceptions the property
has. A capped queue keeps `Ends` since
enqueueing always puts the snapshot and the name together, or the
snapshot, at the end: that is why `PendingCap` must be above 1. The parser
reads a chunk line by line; a chunk has at most five lines, so the proof unrolls it. Of the desktop's own
tasks `Follows` says what the property does: until a whole list comes `strayed` holds, and
a whole list leaves nothing of them; their ids are ids of no task of the backend.

*Task sources.* `IInv` speaks of what a start would load (`Saved`, `Seen`), not of
memory, which while the backend runs says the same. `MadeInv`: a rule not yet
noted down for today has made nothing today, unless a crash came between. `PRInv`: a
request not in the seen file has made nothing. `NotedInv`: what is noted was made,
or the rule is younger than its time. A handler's writes are tasks, then the note
(`PlanShape`); so one that completes makes one task of each source
(`Completed`), and one cut short leaves the note as it was, or its file empty,
and what it made in `cutOff` (`CutOffIsInterrupted`). All handlers are cases of
these two; a single write is one with nothing to make. `NothingForgotten`
compares with the calendar, so `OccurrenceIsDue` proves the code's
arithmetic for any months: that the last day not past the n-th is
the smaller of n and the month's length, and that k intervals from the anchor
the remainder is 0. The sums of month lengths and the filtered
lists are recursive functions, and their lemmas inductions over `Nat` stated of a
set, as in *Registry*.

*Next-up list.* `NextUpInv` says of the lists that an id occurs once in each, of the file that
its order names a key once, and of the marks that what the user marked and is still there is
in the file. That ids do not repeat is what everything rests on: with it the items of the
four sources have different keys (`InputFacts`), so that sorting them, whatever the
comparison, loses none (`OrderedFacts`), the keys of the order are those of the
items, and a done key that is hidden hides one item. `NextUpStateFacts` is the heart, and has all three theorems
in it: after `createNextUpState` the order names each key there is once, a second
application changes nothing, and two keys that were in the order before and are no
Slack keys keep their order. Each stage has a lemma that says so: filtering keeps
the order of what it keeps (`FilteredKeeps`), inserting disturbs nothing
(`InsertKeeps`), Slack's keys are put in their places among the same keys
(`NormalFacts`). A stage that has nothing to do changes nothing (`FilteredAll`, `FilteredNone`), hence the
idempotence. The recursions over lists (sorting, merging, a restart's syncs) are steps
of `Folded`, an induction over `Nat` as above. The lists' caps and the clock play no part. A
restart keeps `NextUpInv`, since it syncs with restored sessions one more at a time
(`SomeSessions`), but no order: `OrderIsKept` excuses it, as the code forgets there.

*Analyzer.* The state has its shape (statuses and ages are what they should be)
and every step is `Fair`: it reports `needs_input` only of a screen that was
still for `Idle` and of a user silent for `InputGrace`. The only work is in
`tick`, one step per path, among them the one after the await; what a tick whose state was reset
will report is `Fair` from the moment of the reset. `FlapBounded`
rests on `CalmInv`: at the bound the status is `needs_input`, and from there a
report would flap, so it is held and none is added.

Only model-checked: liveness (`RequestsSettle`, `AttachedSeesAll`, `Converges`,
`NeverStuck`, `CallsSettle`; out of TLAPS' reach with fairness),
and that sorting sorts: no property needs more of `Ordered` than that it keeps the items.

## 6. Not modelled

* Authentication of the gateway's clients. The rename, remove and touch
  messages it forwards to the backend change no state of its own; what they do to the
  backend is `ClientPost` of `BackendSessions`, their answers are left out.
* The bytes of a line and the parsing of JSON: a line that is too long is
  modelled (`GotOversized`), one that is malformed is not.
* The size 0.5 that the code floors to 0, and columns apart from rows.
* Writes queued before an SSH channel opens, heartbeats, statistics, logs.
* The patterns themselves: what an agent's screen looks like is a set of tokens
  or screens, chosen so that each branch is taken. Agent kind labels are left out.
* A flush of the publisher that fails (`websocket-events.ts:129-147`): `readyState` is open when
  the flush begins and cannot change in a synchronous loop, and `send` of an open
  `WebSocket` does not throw; what it sends to a peer that is gone is lost (`Sent`).
* A second start of the desktop, with the task file it saved: it shows that list until the
  event stream brings the first whole one.
* Two sweeps of the analyzer at once (a tick that outlasts the interval).
* `SessionManager.detachSession`, the attach table of the supervisor's
  `SessionManager`, and the small-output buffer of `terminalEvents.ts`: nothing
  calls or reads them.
* The desktop's Google Calendar code (`main.ts:1923-2644`): it cannot run, as its
  client id is always empty and its token request always throws.
* The desktop's own copies of the backend's routes (its legacy server), its
  next-up mirror, settings, windows and menus; rename and pause act on its own
  manager only.
* Which Slack messages become notifications, OAuth, the socket extension; the
  settings routes; schedules as text; database, health, routing.

## 7. Possible next steps

A second abstract feed, with the repetition that a second attach brings, for clients that attach again.
The line buffer of `shell-ipc-protocol.ts` against a reference definition.
