--------------------------- MODULE MCTaskSources ----------------------------
EXTENDS TaskSources, TLC

Rule(frequency, n, days) == [frequency |-> frequency, n |-> n, daysOfWeek |-> days]

(* Months of one and two days, weeks of two. *)
MCMonthLengths == <<1, 2>>
MCSchedules == {Rule("daily", 1, {}), Rule("interval", 2, {}), Rule("monthly", 2, {}), Rule("weekly", 1, {1})}

(* Nothing tells one pull request from another. *)
MCSymmetry == Permutations(PRs)

=============================================================================
