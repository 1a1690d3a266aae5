----------------------------- MODULE TaskSources -----------------------------
(***************************************************************************)
(* Where manual tasks come from besides the user: the recurring-task       *)
(* scheduler (modules/recurring-tasks) and the poll of GitHub for review   *)
(* requests (modules/github-reviews).  Both put tasks on the list of       *)
(* manual-tasks/service.ts, and each remembers what it already made, in a  *)
(* file of its own (shared/settings.ts).                                   *)
(*                                                                         *)
(* A handler runs to its end unless the process dies, between two of its   *)
(* writes or in the middle of one: writeFileSync truncates the file first, *)
(* so a torn file does not parse and is loaded as the default.             *)
(***************************************************************************)
EXTENDS Lists

CONSTANTS
    Rules,         \* ids of recurring tasks
    Schedules,     \* the schedules the run considers, records as in Schedule
    PRs,           \* pull requests that ask for the viewer's review
    MonthLengths,  \* lengths of the months of the run's calendar, a sequence
    WeekLength,    \* days in a week of that calendar
    LastMinute,    \* a day's minutes are 0 .. LastMinute
    MaxManual,     \* MAX_MANUAL_TASKS
    MaxRules,      \* MAX_RECURRING_TASKS
    MaxCrashes     \* bound: crashes

ASSUME TaskSourcesAssumption ==
    /\ MonthLengths \in Seq(Nat \ {0}) /\ MonthLengths # <<>>
    /\ WeekLength \in Nat \ {0} /\ LastMinute \in Nat
    /\ MaxManual \in Nat \ {0} /\ MaxRules \in Nat \ {0}
    /\ MaxCrashes \in Nat
    /\ Rules \cap PRs = {} /\ IsFiniteSet(PRs)
    /\ \A s \in Schedules : s.n \in Nat \ {0} \* normalizeRecurringIntervalDays, ...DayOfMonth

-----------------------------------------------------------------------------
(* The calendar: days are counted from 1. *)

DaysIn[k \in 0 .. Len(MonthLengths)] == IF k = 0 THEN 0 ELSE DaysIn[k - 1] + MonthLengths[k]

DaysBefore(m) == DaysIn[m - 1]

LastDay == DaysIn[Len(MonthLengths)]
Days == 1 .. LastDay

MonthOf(d) == CHOOSE m \in DOMAIN MonthLengths : DaysBefore(m) < d /\ d <= DaysBefore(m) + MonthLengths[m]
DayOfMonth(d) == d - DaysBefore(MonthOf(d))
DayOfWeek(d) == d % WeekLength

Smaller(i, j) == IF i < j THEN i ELSE j

-----------------------------------------------------------------------------
VARIABLES
    day, minute,
    up,        \* is the backend running?
    mem,       \* manualTasks and recurringTasks, newest first, and the reviews seen
    disk,      \* the files of the same three
    torn,      \* those of them that do not parse
    polling,   \* isGitHubReviewPollInFlight
    everMade,  \* history: rules that were ever created
    born,      \* history: <<source, day>> -> tasks of it that reached the disk
    cutOff,    \* history: <<source, day>> the dying process may not have noted down
    ran,       \* history: <<rule, day>> that a completed run should have served
    crashes

vars == <<day, minute, up, mem, disk, torn, polling, everMade, born, cutOff, ran, crashes>>

Empty == [manual |-> <<>>, rules |-> <<>>, seen |-> {}]
NoDay == 0

Init ==
    /\ day = 1 /\ minute = 0
    /\ up = TRUE /\ mem = Empty /\ disk = Empty /\ torn = {} /\ polling = FALSE
    /\ everMade = {} /\ cutOff = {} /\ ran = {} /\ crashes = 0
    /\ born = [x \in (Rules \cup PRs) \X Days |-> 0]

Upto(s, n) == SubSeq(s, 1, Smaller(n, Len(s)))

-----------------------------------------------------------------------------
(* When a rule is due. *)

IsRecurringIntervalDue(task, d) == d >= task.anchor /\ (d - task.anchor) % task.n = 0

(* A bug to catch in IsRecurringMonthlyDue: short months have no 31st. *)
ExactDayDue(task, d) == DayOfMonth(d) = task.n

IsRecurringMonthlyDue(task, d) == DayOfMonth(d) = Smaller(task.n, MonthLengths[MonthOf(d)])

IsRecurringTaskDue(task, d, t) ==
    /\ t >= task.time
    /\ CASE task.frequency = "daily" -> TRUE
         [] task.frequency = "interval" -> IsRecurringIntervalDue(task, d)
         [] task.frequency = "monthly" -> IsRecurringMonthlyDue(task, d)
         [] OTHER -> DayOfWeek(d) \in task.daysOfWeek

-----------------------------------------------------------------------------
(* Handlers and their writes.  A write is [file, val, made]: made is the    *)
(* set with the <<source, day>> of the task it adds to the list, or empty. *)

Write(file, val, made) == [file |-> file, val |-> val, made |-> made]

(* writeJsonFile for the first n of the writes: each file is as last written. *)
Written(writes, n) ==
    [file \in DOMAIN disk |->
        LET ks == {k \in 1 .. n : writes[k].file = file}
        IN  IF ks = {} THEN disk[file] ELSE writes[CHOOSE k \in ks : \A j \in ks : j <= k].val]

FilesOf(writes, n) == {writes[k].file : k \in 1 .. n}

Count(writes, n) ==
    [x \in DOMAIN born |-> born[x] + Cardinality({k \in 1 .. n : x \in writes[k].made})]

(* A handler that leaves memory as `after' runs to its end. *)
Complete(after, writes) ==
    /\ mem' = after
    /\ disk' = Written(writes, Len(writes))
    /\ torn' = torn \ FilesOf(writes, Len(writes))
    /\ born' = Count(writes, Len(writes))
    /\ UNCHANGED <<day, minute, up, cutOff, crashes>>

(* The process dies after n of its writes, having torn the next or not.    *)
CutShort(writes) ==
    /\ crashes < MaxCrashes /\ crashes' = crashes + 1
    /\ up' = FALSE /\ mem' = Empty /\ polling' = FALSE
    /\ \E n \in 0 .. Len(writes) - 1, tear \in BOOLEAN :
           LET file == writes[n + 1].file
           IN  /\ disk' = Written(writes, n)
               /\ torn' = (torn \ FilesOf(writes, n)) \cup (IF tear THEN {file} ELSE {})
               /\ born' = Count(writes, n)
               /\ cutOff' = cutOff \cup (UNION {w.made : w \in Range(writes)})
                                   \cup (IF tear /\ file = "seen" THEN PRs \X Days ELSE {})
    /\ UNCHANGED <<day, minute, everMade, ran>>

(* storeManualTask for the first k of the sources, in turn. *)
Stored(sources, k) ==
    LET after[n \in 0 .. k] ==
            IF n = 0 THEN mem.manual
            ELSE Upto(<<[from |-> sources[n], on |-> day]>> \o after[n - 1], MaxManual)
    IN  after[k]

Stores(sources) ==
    [k \in DOMAIN sources |-> Write("manual", Stored(sources, k), {<<sources[k], day>>})]

(* A bug to catch in MakeThenNote: what was made is noted down first. *)
NoteThenMake(sources, note) == <<note>> \o Stores(sources)

MakeThenNote(sources, note) == Stores(sources) \o <<note>>

-----------------------------------------------------------------------------
(* The scheduler and the recurring tasks. *)

DueRules ==
    Filtered(mem.rules, {r \in Range(mem.rules) : IsRecurringTaskDue(r, day, minute) /\ r.last # day})

(* A bug to catch in Noted: lastGeneratedDate is not set. *)
NotNoted(r) == r

Noted(r) == [r EXCEPT !.last = day]

(* A rule's occurrences, by the calendar: every day; every n-th day from   *)
(* its anchor; the days of the week; the last day of each month that is    *)
(* not past the n-th.                                                      *)
Occurrence(r, d) ==
    CASE r.frequency = "daily" -> TRUE
      [] r.frequency = "interval" -> \E k \in 0 .. LastDay : d = r.anchor + k * r.n
      [] r.frequency = "monthly" ->
            LET early == {e \in Days : MonthOf(e) = MonthOf(d) /\ DayOfMonth(e) <= r.n}
            IN  d \in early /\ \A e \in early : e <= d
      [] OTHER -> DayOfWeek(d) \in r.daysOfWeek

(* To be served by a run now: it is time, and the rule was not made today  *)
(* after its time.                                                         *)
Expected(r) == /\ Occurrence(r, day) /\ minute >= r.time
               /\ r.createdAt[1] = day => r.createdAt[2] < r.time

RunDueRecurringTasks ==
    /\ up
    /\ LET due == DueRules
           after == [n \in DOMAIN mem.rules |->
                        IF mem.rules[n] \in Range(due) THEN Noted(mem.rules[n]) ELSE mem.rules[n]]
           sources == [n \in DOMAIN due |-> due[n].id]
           writes == IF due = <<>> THEN <<>> ELSE MakeThenNote(sources, Write("rules", after, {}))
       IN  \/ /\ Complete([mem EXCEPT !.manual = Stored(sources, Len(sources)), !.rules = after], writes)
              /\ ran' = ran \cup {<<r.id, day>> : r \in {q \in Range(mem.rules) : Expected(q)}}
              /\ UNCHANGED <<polling, everMade>>
           \/ CutShort(writes)

(* The day a rule made now counts as served: today, if it is due. *)
GetInitialRecurringTaskGeneratedDate(r) == IF IsRecurringTaskDue(r, day, minute) THEN day ELSE NoDay

CreateRecurringTask(id) ==
    /\ up /\ id \notin everMade
    /\ \E s \in Schedules, t \in 0 .. LastMinute :
           LET r == [id |-> id, frequency |-> s.frequency, n |-> s.n, daysOfWeek |-> s.daysOfWeek,
                     anchor |-> day, time |-> t, createdAt |-> <<day, minute>>, last |-> NoDay]
               after == Upto(<<[r EXCEPT !.last = GetInitialRecurringTaskGeneratedDate(r)]>> \o mem.rules,
                             MaxRules)
               writes == <<Write("rules", after, {})>>
           IN  \/ /\ Complete([mem EXCEPT !.rules = after], writes)
                  /\ everMade' = everMade \cup {id}
                  /\ UNCHANGED <<polling, ran>>
               \/ CutShort(writes)

RemoveRecurringTask(id) ==
    /\ up /\ id \in {r.id : r \in Range(mem.rules)}
    /\ LET after == Filtered(mem.rules, {r \in Range(mem.rules) : r.id # id})
           writes == <<Write("rules", after, {})>>
       IN  \/ Complete([mem EXCEPT !.rules = after], writes) /\ UNCHANGED <<polling, everMade, ran>>
           \/ CutShort(writes)

RemoveManualTask(n) ==
    /\ up /\ n \in DOMAIN mem.manual
    /\ LET after == SubSeq(mem.manual, 1, n - 1) \o SubSeq(mem.manual, n + 1, Len(mem.manual))
           writes == <<Write("manual", after, {})>>
       IN  \/ Complete([mem EXCEPT !.manual = after], writes) /\ UNCHANGED <<polling, everMade, ran>>
           \/ CutShort(writes)

-----------------------------------------------------------------------------
(* pollGitHubReviewRequests: it awaits GitHub's answers, and no second     *)
(* poll begins meanwhile.                                                  *)

PollBegins ==
    /\ up /\ ~polling /\ PRs # {}
    /\ polling' = TRUE
    /\ UNCHANGED <<day, minute, up, mem, disk, torn, everMade, born, cutOff, ran, crashes>>

Listings == {l \in UNION {[1 .. n -> PRs] : n \in 0 .. Cardinality(PRs)} :
                \A i, j \in DOMAIN l : l[i] = l[j] => i = j}

(* The requests for the viewer, in the order GitHub lists them; none if a  *)
(* call failed.                                                            *)
PollEnds ==
    /\ up /\ polling
    /\ \E listing \in Listings :
           LET new == Filtered(listing, PRs \ mem.seen)
               after == mem.seen \cup Range(new)
               writes == IF new = <<>> THEN <<>> ELSE MakeThenNote(new, Write("seen", after, {}))
           IN  \/ /\ Complete([mem EXCEPT !.manual = Stored(new, Len(new)), !.seen = after], writes)
                  /\ polling' = FALSE
                  /\ UNCHANGED <<everMade, ran>>
               \/ CutShort(writes)

-----------------------------------------------------------------------------
(* The process and the clock. *)

Dies ==
    /\ up /\ crashes < MaxCrashes /\ crashes' = crashes + 1
    /\ up' = FALSE /\ mem' = Empty /\ polling' = FALSE
    /\ UNCHANGED <<day, minute, disk, torn, everMade, born, cutOff, ran>>

(* loadManualTasks, loadRecurringTasks, loadSeenGitHubReviewRequests. *)
Loaded(file) == IF file \in torn THEN Empty[file] ELSE disk[file]

(* restorePersistedState; the scheduler's first run is a step of its own.  *)
Starts ==
    /\ ~up /\ up' = TRUE
    /\ mem' = [file \in DOMAIN Empty |-> Loaded(file)]
    /\ UNCHANGED <<day, minute, disk, torn, polling, everMade, born, cutOff, ran, crashes>>

Tick ==
    /\ minute < LastMinute \/ day < LastDay
    /\ IF minute < LastMinute THEN minute' = minute + 1 /\ day' = day
       ELSE minute' = 0 /\ day' = day + 1
    /\ UNCHANGED <<up, mem, disk, torn, polling, everMade, born, cutOff, ran, crashes>>

Next ==
    \/ RunDueRecurringTasks
    \/ \E id \in Rules : CreateRecurringTask(id) \/ RemoveRecurringTask(id)
    \/ \E n \in 1 .. MaxManual : RemoveManualTask(n)
    \/ PollBegins \/ PollEnds
    \/ Dies \/ Starts \/ Tick

Spec == Init /\ [][Next]_vars

-----------------------------------------------------------------------------
TypeOK ==
    /\ day \in Days /\ minute \in 0 .. LastMinute
    /\ Len(mem.manual) <= MaxManual /\ Len(mem.rules) <= MaxRules /\ mem.seen \subseteq PRs
    /\ \A i, j \in DOMAIN mem.rules : mem.rules[i].id = mem.rules[j].id => i = j
    /\ polling => up

(* One task for one occurrence of a rule and one for a review request,     *)
(* however often scheduler and poll run and the backend restarts; only a   *)
(* process that died between storing a task and noting it down             *)
(* (scheduler.ts:31-38, github-reviews/index.ts:66-74) can have the task   *)
(* made again.                                                             *)
OncePerOccurrence ==
    /\ \A x \in Rules \X Days : born[x] <= 1 \/ x \in cutOff
    /\ \A p \in PRs : \A d, e \in Days :
          (\A f \in Days : <<p, f>> \notin cutOff) =>
              born[<<p, d>>] <= 1 /\ (born[<<p, d>>] = 1 /\ born[<<p, e>>] = 1 => d = e)

(* Whatever is noted down was made: an occurrence the scheduler ran for    *)
(* has its task, by the calendar and not by the code's arithmetic, and a   *)
(* review request in the seen file had one stored before.                  *)
NothingForgotten ==
    /\ \A x \in ran : born[x] >= 1
    /\ \A p \in Loaded("seen") : \E d \in Days : born[<<p, d>>] >= 1

=============================================================================
