---------------------------- MODULE BackendNextUp ----------------------------
(***************************************************************************)
(* The next-up list of the backend (core/next-up-state.ts) and the Slack   *)
(* notifications on it (modules/slack).  The state of the list is read     *)
(* from its file, synchronised with what there is, and written back, at    *)
(* every request and at every broadcast, thus in every handler that        *)
(* changes a session, a task or a notification.                            *)
(*                                                                         *)
(* A Slack event is stored only after the names in it have been looked up  *)
(* over the network; meanwhile other handlers run.  At a restart the       *)
(* sessions come back one by one, each with a broadcast, before the tasks  *)
(* and notifications are loaded.                                           *)
(***************************************************************************)
EXTENDS NextUp

CONSTANTS
    Sessions, Manual, Slack,   \* ids
    Events,                    \* the calendar events on file: [id, start, end]
    Statuses,                  \* statuses the run considers
    MaxSlack,                  \* MAX_SLACK_NOTIFICATIONS
    MaxNow,                    \* bound: the clock
    MaxSteps,                  \* bound: changes to the inputs and to the list
    MaxRestarts                \* bound: restarts

ASSUME BackendNextUpAssumption ==
    /\ MaxSlack \in Nat \ {0} /\ MaxNow \in Nat /\ MaxSteps \in Nat /\ MaxRestarts \in Nat
    /\ Events \in Seq(Range(Events))
    /\ \A e \in Range(Events) : e.start <= e.end
    /\ \A i, j \in DOMAIN Events : Events[i].id = Events[j].id => i = j \* parseGoogleCalendarEvent

VARIABLES
    now,
    sessions,   \* getSessions(): a sequence of [id, status, lastActivity]
    manual,     \* manualTasks, newest first
    slack,      \* slackNotifications, newest first
    enriching,  \* Slack events whose names are being looked up
    file,       \* next-up.json: [order, done]
    gone,       \* manual tasks that were removed: an id is made for one task
    marked,     \* history: done keys the user marked, as long as they apply
    steps, restarts

nextUpVars == <<now, sessions, manual, slack, enriching, file, gone, marked, steps, restarts>>

NextUpInit ==
    /\ now = 0 /\ sessions = <<>> /\ manual = <<>> /\ slack = <<>> /\ enriching = {}
    /\ file = [order |-> <<>>, done |-> {}]
    /\ gone = {} /\ marked = {} /\ steps = 0 /\ restarts = 0

-----------------------------------------------------------------------------
Map(s, Op(_)) == [n \in DOMAIN s |-> Op(s[n])]

(* getBackendNextUpInput *)
Input(ss, ms, ns) ==
    Map(ss, SessionToNextUp) \o Map(ms, ManualTaskToNextUp)
        \o LET event(e) == GoogleCalendarEventToNextUp(e, now)
           IN  Map(Filtered(Events, {e \in Range(Events) : IsCalendarEventVisibleToday(e, now)}), event)
        \o Map(ns, SlackNotificationToNextUp)

Available == {NextUpDoneKey(i) : i \in Range(Input(sessions, manual, slack))}

(* getBackendNextUpState, after a handler changed one of its inputs. *)
Refreshed == file' = NextUpState(Input(sessions', manual', slack'), file.order, file.done, now)

StillMarked == marked' = marked \cap {NextUpDoneKey(i) : i \in Range(Input(sessions', manual', slack'))}

Step == steps < MaxSteps /\ steps' = steps + 1 /\ UNCHANGED restarts

(* A handler that changes an input and broadcasts. *)
Changes == Step /\ Refreshed /\ StillMarked /\ UNCHANGED now

-----------------------------------------------------------------------------
SessionReported(id) ==
    /\ \A s \in Range(sessions) : s.id # id
    /\ \E st \in Statuses : sessions' = Append(sessions, [id |-> id, status |-> st, lastActivity |-> now])
    /\ UNCHANGED <<manual, slack, enriching, gone>>
    /\ Changes

SessionChanges(n) ==
    /\ n \in DOMAIN sessions
    /\ \E st \in Statuses : sessions' = [sessions EXCEPT ![n].status = st, ![n].lastActivity = now]
    /\ sessions' # sessions
    /\ UNCHANGED <<manual, slack, enriching, gone>>
    /\ Changes

SessionRemoved(n) ==
    /\ n \in DOMAIN sessions
    /\ sessions' = SubSeq(sessions, 1, n - 1) \o SubSeq(sessions, n + 1, Len(sessions))
    /\ UNCHANGED <<manual, slack, enriching, gone>>
    /\ Changes

ManualTaskAdded(id) ==
    /\ id \notin gone /\ \A t \in Range(manual) : t.id # id
    /\ \E p \in {0, 1} : manual' = <<[id |-> id, createdAt |-> now, priority |-> p]>> \o manual
    /\ UNCHANGED <<sessions, slack, enriching, gone>>
    /\ Changes

ManualTaskRemoved(id) ==
    /\ \E t \in Range(manual) : t.id = id
    /\ manual' = Filtered(manual, {t \in Range(manual) : t.id # id})
    /\ gone' = gone \cup {id}
    /\ UNCHANGED <<sessions, slack, enriching>>
    /\ Changes

-----------------------------------------------------------------------------
(* Slack. *)

(* handleSlackEventPost up to the first await.  Slack delivers an event    *)
(* again when the answer is late.                                          *)
SlackEventArrives(id) ==
    /\ Step
    /\ \E rank \in {0, 4} : enriching' = enriching \cup {[id |-> id, receivedAt |-> now, rank |-> rank]}
    /\ enriching' # enriching
    /\ UNCHANGED <<now, sessions, manual, slack, file, gone, marked>>

(* storeSlackNotification: all lookups have been answered or timed out. *)
StoreSlackNotification(n) ==
    /\ n \in enriching
    /\ enriching' = enriching \ {n}
    /\ LET others == Filtered(slack, {m \in Range(slack) : m.id # n.id})
           list == <<n>> \o others
       IN  slack' = SubSeq(list, 1, IF Len(list) < MaxSlack THEN Len(list) ELSE MaxSlack)
    /\ UNCHANGED <<sessions, manual, gone>>
    /\ Refreshed /\ StillMarked /\ UNCHANGED <<now, steps, restarts>>

RemoveSlackNotification(id) ==
    /\ \E n \in Range(slack) : n.id = id
    /\ slack' = Filtered(slack, {n \in Range(slack) : n.id # id})
    /\ UNCHANGED <<sessions, manual, enriching, gone>>
    /\ Changes

ClearSlackNotifications ==
    /\ slack # <<>>
    /\ slack' = <<>>
    /\ UNCHANGED <<sessions, manual, enriching, gone>>
    /\ Changes

-----------------------------------------------------------------------------
(* The user. *)

(* setBackendNextUpOrder, with the keys the client has, which may be old   *)
(* or not all of them.                                                     *)
SetNextUpOrder ==
    /\ Step
    /\ \E keys \in {k \in UNION {[1 .. n -> Range(file.order)] : n \in 1 .. Len(file.order)} :
                       \A i, j \in DOMAIN k : k[i] = k[j] => i = j} :
           file' = NextUpState(Input(sessions, manual, slack), keys, file.done, now)
    /\ file' # file
    /\ UNCHANGED <<now, sessions, manual, slack, enriching, gone>>
    /\ StillMarked

(* markBackendNextUpDone *)
MarkNextUpDone ==
    /\ Step
    /\ \E i \in Range(Input(sessions, manual, slack)) :
           /\ NextUpDoneKey(i) \notin file.done
           /\ file' = NextUpState(Input(sessions, manual, slack), file.order,
                                  file.done \cup {NextUpDoneKey(i)}, now)
           /\ marked' = (marked \cap Available) \cup {NextUpDoneKey(i)}
    /\ UNCHANGED <<now, sessions, manual, slack, enriching, gone>>

(* GET /api/next-up *)
GetNextUp ==
    /\ file' = NextUpState(Input(sessions, manual, slack), file.order, file.done, now)
    /\ UNCHANGED <<now, sessions, manual, slack, enriching, gone, steps, restarts>>
    /\ StillMarked

(* An event that is over is off the list at the next request. *)
TimePasses ==
    /\ now < MaxNow /\ now' = now + 1
    /\ UNCHANGED <<sessions, manual, slack, enriching, file, gone, marked, steps, restarts>>

(* A restart: over the restored sessions, the list is synchronised with    *)
(* the first of them, the first two, and so on, and with nothing else; if  *)
(* there is none the file waits for the first request.                     *)
Restart ==
    /\ restarts < MaxRestarts /\ restarts' = restarts + 1
    /\ LET saved == Filtered(sessions, {s \in Range(sessions) : s.status \in {"stopped", "error", "detached"}})
           restored == Map(saved, LAMBDA s : [s EXCEPT !.status = "starting", !.lastActivity = now])
           after[n \in 0 .. Len(restored)] ==
               IF n = 0 THEN file
               ELSE NextUpState(Map(SubSeq(restored, 1, n), SessionToNextUp),
                                after[n - 1].order, after[n - 1].done, now)
       IN  /\ sessions' = restored
           /\ file' = after[Len(restored)]
           /\ marked' = IF restored = <<>> THEN marked \cap Available ELSE {}
    /\ enriching' = {}
    /\ UNCHANGED <<now, manual, slack, gone, steps>>

NextUpNext ==
    \/ \E id \in Sessions : SessionReported(id)
    \/ \E n \in 1 .. Cardinality(Sessions) : SessionChanges(n) \/ SessionRemoved(n)
    \/ \E id \in Manual : ManualTaskAdded(id) \/ ManualTaskRemoved(id)
    \/ \E id \in Slack : SlackEventArrives(id) \/ RemoveSlackNotification(id)
    \/ \E n \in enriching : StoreSlackNotification(n)
    \/ ClearSlackNotifications
    \/ SetNextUpOrder \/ MarkNextUpDone \/ GetNextUp
    \/ TimePasses \/ Restart

NextUpSpec == NextUpInit /\ [][NextUpNext]_nextUpVars

-----------------------------------------------------------------------------
(* What a client is sent. *)
Shown == KeysOf(BuildNextUpItems(Input(sessions, manual, slack),
                                 NextUpState(Input(sessions, manual, slack), file.order, file.done, now).order,
                                 file.done, now))

(* Recomputing the list changes nothing, and it orders each item there is  *)
(* once: the three broadcasts of a handler and the desktop's requests, all *)
(* of which recompute and save it (next-up-state.ts:8-10), agree.          *)
Settled ==
    LET once == NextUpState(Input(sessions, manual, slack), file.order, file.done, now)
    IN  /\ NextUpState(Input(sessions, manual, slack), once.order, once.done, now) = once
        /\ Len(once.order) = Len(Input(sessions, manual, slack))
        /\ Range(once.order) = {i.key : i \in Range(Input(sessions, manual, slack))}

(* An item the user marked done stays off the list until it is marked for  *)
(* something else (a session that moved on), whatever comes and goes; but  *)
(* a restart that restores a session forgets the marks                     *)
(* (server.ts:13-20).                                                      *)
DoneStaysDone ==
    /\ (marked \cap Available) \subseteq file.done
    /\ \A i \in Range(Input(sessions, manual, slack)) :
          NextUpDoneKey(i) \in marked => i.key \notin Range(Shown)

InOrder(order, a, b) ==
    \E i, j \in DOMAIN order : i < j /\ order[i] = a /\ order[j] = b

(* What comes and goes does not shuffle the rest: two keys keep their      *)
(* places relative to each other through every change but the user's own   *)
(* and a restart; Slack's keys follow their own order (syncNextUpOrder).   *)
UserActs == steps' # steps /\ UNCHANGED <<sessions, manual, slack>>

OrderIsKept ==
    [][ restarts' = restarts /\ ~UserActs =>
          LET still == {k \in Range(file.order) : k[1] # "slack"} \cap Range(file'.order)
          IN  \A a, b \in still : InOrder(file.order, a, b) => InOrder(file'.order, a, b)
      ]_nextUpVars

=============================================================================
