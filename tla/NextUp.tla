------------------------------- MODULE NextUp --------------------------------
(***************************************************************************)
(* shared/next-up.ts: one list out of sessions, manual tasks, Slack        *)
(* notifications and calendar events, in an order that is part computed    *)
(* and part the user's.  Keys are <<source, id>>.  Priorities are ten      *)
(* times those of the code.                                                *)
(***************************************************************************)
EXTENDS Lists, SequencesExt

Position(s, x) == CHOOSE n \in DOMAIN s : s[n] = x

-----------------------------------------------------------------------------
(* The items. *)

Item(source, id, start, priority, status) ==
    [key |-> <<source, id>>, source |-> source, startDate |-> start, priority |-> priority,
     status |-> status]

SessionPriority(status) ==
    CASE status = "needs_attention" -> 0
      [] status = "error" -> 10
      [] status \in {"waiting", "starting"} -> 30
      [] status \in {"stopped", "detached"} -> 40
      [] status = "paused" -> 60
      [] OTHER -> 50

SessionToNextUp(s) == Item("session", s.id, s.lastActivity, SessionPriority(s.status), s.status)

ManualTaskToNextUp(t) == Item("manual", t.id, t.createdAt, t.priority, "")

SlackNotificationToNextUp(n) == Item("slack", n.id, n.receivedAt, 20 + n.rank, "")

(* Within CALENDAR_TOP_WINDOW_MS of its start, taken as the unit of time.  *)
IsCalendarEventUrgent(e, now) == e.end >= now /\ now >= e.start - 1

GoogleCalendarEventToNextUp(e, now) ==
    Item("calendar", e.id, e.start, IF IsCalendarEventUrgent(e, now) THEN -10 ELSE 45, "")

(* An event of today, until it is over. *)
IsCalendarEventVisibleToday(e, now) == e.end >= now

(* An item marked done comes back when what it was marked for changes. *)
NextUpDoneKey(item) ==
    CASE item.source = "session" -> <<item.key, item.status, item.startDate>>
      [] item.source = "calendar" -> <<item.key, "", item.startDate>>
      [] OTHER -> <<item.key, "", 0>>

-----------------------------------------------------------------------------
(* Sorting, as Array.sort does: stable.  `before' holds the pairs whose     *)
(* first has to come before its second.                                    *)

Ordered(items, before) ==
    LET Place(list, x) == 1 + Cardinality({i \in DOMAIN list : <<x, list[i]>> \notin before})
        after[n \in 0 .. Len(items)] ==
            IF n = 0 THEN <<>>
            ELSE InsertAt(after[n - 1], Place(after[n - 1], items[n]), items[n])
    IN  after[Len(items)]

SortPriority(item) == IF item.source = "manual" THEN 25 ELSE item.priority
TaskPriority(item) == IF item.source = "manual" THEN item.priority ELSE 0

CompareDefault(a, b) ==
    \/ SortPriority(a) < SortPriority(b)
    \/ /\ SortPriority(a) = SortPriority(b)
       /\ \/ TaskPriority(a) < TaskPriority(b)
          \/ /\ TaskPriority(a) = TaskPriority(b)
             /\ IF a.source = b.source /\ a.source \in {"calendar", "slack"}
                THEN a.startDate < b.startDate ELSE b.startDate < a.startDate

DisplayGroup(item, now) ==
    IF item.source = "calendar" THEN (IF item.priority < 0 /\ item.startDate <= now + 1 THEN 0 ELSE 2)
    ELSE IF item.source = "session" /\ item.status \in {"running", "paused"} THEN 3 ELSE 1

(* The user's order decides only between items alike in all this. *)
CompareOrdered(a, b, order, now) ==
    LET rankOf(x) == <<DisplayGroup(x, now), SortPriority(x), TaskPriority(x)>>
        last(x) == IF x.source = "calendar" THEN x.startDate ELSE Position(order, x.key)
        ra == rankOf(a)
        rb == rankOf(b)
    IN  \/ \E n \in 1 .. 3 : ra[n] < rb[n] /\ \A k \in 1 .. n - 1 : ra[k] = rb[k]
        \/ ra = rb /\ last(a) < last(b)

-----------------------------------------------------------------------------
(* The order. *)

(* `key' goes before the first of those that come after it by default. *)
InsertedByDefault(order, key, keys) ==
    LET later == {n \in DOMAIN order : Position(keys, order[n]) > Position(keys, key)}
        at == IF later = {} THEN Len(order) + 1 ELSE CHOOSE n \in later : \A k \in later : n <= k
    IN  InsertAt(order, at, key)

(* Slack's keys are among themselves in their default order, in the places *)
(* that Slack's keys had.                                                  *)
NormalizeSlackNextUpOrder(order, keys) ==
    LET places == {n \in DOMAIN order : order[n][1] = "slack"}
        sorted == Filtered(keys, {k \in Range(order) : k[1] = "slack"})
    IN  [n \in DOMAIN order |->
            IF n \in places THEN sorted[Cardinality({p \in places : p <= n})] ELSE order[n]]

(* A bug to catch in SyncNextUpOrder: keys of what is gone are kept. *)
SyncWithoutPruning(order, keys) == order \o Filtered(keys, Range(keys) \ Range(order))

(* Another: what is new brings back the default order. *)
SyncByResorting(order, keys) ==
    LET kept == Filtered(order, Range(keys))
    IN  IF Range(keys) \subseteq Range(kept) THEN NormalizeSlackNextUpOrder(kept, keys) ELSE keys

SyncNextUpOrder(order, keys) ==
    LET kept == Filtered(order, Range(keys))
        missing == Filtered(keys, Range(keys) \ Range(kept))
        after[n \in 0 .. Len(missing)] ==
            IF n = 0 THEN kept ELSE InsertedByDefault(after[n - 1], missing[n], keys)
    IN  NormalizeSlackNextUpOrder(after[Len(missing)], keys)

KeysOf(items) == [n \in DOMAIN items |-> items[n].key]

BuildNextUpItems(all, order, done, now) ==
    LET there == {i \in Range(all) : NextUpDoneKey(i) \notin done}
        items == Ordered(Filtered(all, there), {p \in there \X there : CompareDefault(p[1], p[2])})
        synced == SyncNextUpOrder(order, KeysOf(items))
    IN  Ordered(items, {p \in there \X there : CompareOrdered(p[1], p[2], synced, now)})

(* A bug to catch in NextUpState: what is done does not count as there. *)
StateOfShown(all, order, done, now) ==
    LET available == BuildNextUpItems(all, <<>>, done, now)
    IN  [order |-> SyncNextUpOrder(order, KeysOf(available)),
         done |-> done \cap {NextUpDoneKey(i) : i \in Range(available)}]

(* createNextUpState *)
NextUpState(all, order, done, now) ==
    LET available == BuildNextUpItems(all, <<>>, {}, now)
    IN  [order |-> SyncNextUpOrder(order, KeysOf(available)),
         done |-> done \cap {NextUpDoneKey(i) : i \in Range(available)}]

=============================================================================
