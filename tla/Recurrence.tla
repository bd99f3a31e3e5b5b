------------------------------- MODULE Recurrence ------------------------------
(* The recurrence rules of internal/schedule, and the life of one rule: it is *)
(* saved, and each pass of the scheduler computes the next run from the       *)
(* moment it has come to, which may be late.                                  *)
(*                                                                            *)
(* A moment is a number of minutes in UTC; a zone says how far its clock is   *)
(* ahead, before and after one change.  Days, months and years are as long as *)
(* the constants say: the code's arithmetic does not depend on it.  Days and  *)
(* months are counted from the first.  Cron expressions are a library's.      *)
EXTENDS Integers, FiniteSetsExt

CONSTANTS
    Rules,       \* the rules that may be saved
    Zones,       \* the time zones
    Saves,       \* the moments at which a rule may be saved
    DayLength,   \* minutes in a day
    WeekLength,  \* days in a week
    YearLength,  \* months in a year
    Months,      \* bound: how many months there are
    FirstDay,    \* the day each month begins on
    DayTries, MonthTries, YearTries,  \* how far a rule looks ahead
    MinTime,     \* bound: nothing is saved or starts earlier
    MaxTime,     \* bound: no pass runs later
    Late         \* bound: how late a pass comes

ASSUME CalendarAssumption ==
    /\ {DayLength, WeekLength, YearLength, Months} \subseteq Nat \ {0}
    /\ FirstDay \in [0 .. Months -> Nat] /\ FirstDay[0] = 0
    /\ \A k \in 0 .. Months - 1 : FirstDay[k] < FirstDay[k + 1]
    /\ {DayTries, MonthTries, YearTries} \subseteq Nat \ {0}

\* No clock is set by more than a day, and none at or east of Greenwich forward
\* by a whole one.
ASSUME ZoneAssumption ==
    \A z \in Zones :
        /\ z \in [change : Int, before : Int, since : Int]
        /\ z.since - z.before \in -DayLength .. DayLength
        /\ z.before >= 0 => z.since - z.before < DayLength

VARIABLES
    rule,    \* the rule as it was stored
    zone,    \* its time zone
    after,   \* the moment its next run was computed from
    next     \* next_run_at

vars == <<rule, zone, after, next>>

Never == -1
None == -1

\* An interval is 0 when it is not given, a day or month likewise; so are the
\* moments start, end and run, by None.
ASSUME RuleAssumption ==
    /\ MinTime \in Nat /\ MaxTime \in Nat /\ Late \in Nat
    /\ Saves \subseteq MinTime + 1 .. MaxTime
    /\ \A r \in Rules :
          r \in [kind : {"once", "daily", "weekly", "monthly", "yearly"},
                 interval : Nat, time : 0 .. DayLength - 1,
                 weekdays : SUBSET Int, day : Int, month : Int,
                 start : MinTime .. MaxTime \cup {None}, end : Int, run : Int]

--------------------------------------------------------------------------------
(* The calendar and the clock.                                                *)

Month == 0 .. Months - 1
Length(k) == FirstDay[k + 1] - FirstDay[k]
MonthOf(day) ==
    CHOOSE k \in Month : FirstDay[k] <= day /\ day < FirstDay[k + 1]
DayOf(day) == day - FirstDay[MonthOf(day)] + 1
YearOf(day) == MonthOf(day) \div YearLength

Offset(z, t) == IF t < z.change THEN z.before ELSE z.since
Local(z, t) == t + Offset(z, t)
Today(z, t) == Local(z, t) \div DayLength

\* time.Date: the offset is looked up with the local time taken for UTC, and
\* once more if the moment it leads to lies on the other side of the change.  A
\* local time that does not exist becomes one on either side of the gap.
Date(z, day, time) ==
    LET local == day * DayLength + time
        guess == Offset(z, local)
        t == local - guess
    IN  IF guess = 0 \/ (t < z.change <=> local < z.change)
        THEN t ELSE local - Offset(z, t)

\* The day that the code takes for this one: that of its midnight.
DayFrom(z, day) == Today(z, Date(z, day, 0))

\* The calendar reaches as far as a rule looks ahead, and its months and years
\* at least as far as the days; it begins with a midnight that exists.
ASSUME ReachAssumption ==
    \A z \in Zones :
        /\ DayFrom(z, 0) = 0
        /\ \A t \in MinTime .. MaxTime :
              LET today == Today(z, t)
                  last == today + DayTries - 1
              IN  /\ today >= 0 /\ last < FirstDay[Months]
                  /\ MonthOf(today) + MonthTries < Months
                  /\ (YearOf(today) + YearTries) * YearLength <= Months
                  /\ MonthOf(last) < MonthOf(today) + MonthTries
                  /\ YearOf(last) < YearOf(today) + YearTries

--------------------------------------------------------------------------------
(* schedule.Next                                                              *)

Interval(r) == IF r.interval = 0 THEN 1 ELSE r.interval
Weekdays(r) == r.weekdays \cap 0 .. WeekLength - 1

\* A fault: without a start, intervals are counted from the beginning of time.
Anchor_Unset(r, z, t) == IF r.start = None THEN 0 ELSE Today(z, r.start)

\* The day that intervals are counted from.
Anchor(r, z, t) ==
    IF r.start = None THEN DayFrom(z, Today(z, t)) ELSE Today(z, r.start)

\* A fault: a local time that does not exist is taken as time.Date makes it.
Candidate_Unchecked(z, day, time, t) ==
    IF Date(z, day, time) > t THEN Date(z, day, time) ELSE Never

\* The moment of the local time, if it exists and is later.
Candidate(z, day, time, t) ==
    IF /\ Date(z, day, time) > t
       /\ Local(z, Date(z, day, time)) = day * DayLength + time
    THEN Date(z, day, time) ELSE Never

\* What a rule finds at the i-th day, month or year from today's on.
OnDay(r, z, t, i) ==
    LET day == DayFrom(z, Today(z, t) + i)
        since == day - Anchor(r, z, t)
        weekdays == IF Weekdays(r) = {} THEN {Anchor(r, z, t) % WeekLength}
                    ELSE Weekdays(r)
    IN  IF /\ since >= 0
           /\ IF r.kind = "daily" THEN since % Interval(r) = 0
              ELSE /\ (since \div WeekLength) % Interval(r) = 0
                   /\ day % WeekLength \in weekdays
        THEN Candidate(z, day, r.time, t) ELSE Never

\* The day of the rule, or the anchor's; in a shorter month there is none.
InMonth(r, z, t, k) ==
    LET day == IF r.day = 0 THEN DayOf(Anchor(r, z, t)) ELSE r.day
    IN  IF day \in 1 .. Length(k)
        THEN Candidate(z, FirstDay[k] + day - 1, r.time, t) ELSE Never

OnMonth(r, z, t, i) ==
    LET k == MonthOf(DayFrom(z, FirstDay[MonthOf(Today(z, t)) + i]))
        since == k - MonthOf(Anchor(r, z, t))
    IN  IF since >= 0 /\ since % Interval(r) = 0
        THEN InMonth(r, z, t, k) ELSE Never

OnYear(r, z, t, i) ==
    LET year == YearOf(Today(z, t)) + i
        since == year - YearOf(Anchor(r, z, t))
        month == IF r.month = 0 THEN MonthOf(Anchor(r, z, t)) % YearLength
                 ELSE r.month - 1
    IN  IF /\ since >= 0 /\ since % Interval(r) = 0
           /\ month \in 0 .. YearLength - 1
        THEN InMonth(r, z, t, year * YearLength + month) ELSE Never

\* The loops end at the first place that has a candidate.
FirstFound(found) ==
    LET places == {i \in DOMAIN found : found[i] # Never}
    IN  IF places = {} THEN Never ELSE found[Min(places)]

NextOf(r, z, t) ==
    CASE r.kind = "once" -> IF r.run > t THEN r.run ELSE Never
      [] r.kind \in {"daily", "weekly"} ->
             FirstFound([i \in 0 .. DayTries - 1 |-> OnDay(r, z, t, i)])
      [] r.kind = "monthly" ->
             FirstFound([i \in 0 .. MonthTries - 1 |-> OnMonth(r, z, t, i)])
      [] r.kind = "yearly" ->
             FirstFound([i \in 0 .. YearTries - 1 |-> OnYear(r, z, t, i)])

NextRun(r, z, t) ==
    LET run == NextOf(r, z, t)
    IN  IF r.end # None /\ run > r.end THEN Never ELSE run

\* The preview has the rule without the start that a save adds; from its second
\* result on, it counts from the result before.
Preview(r, z, t) == NextRun([r EXCEPT !.start = None], z, t)

--------------------------------------------------------------------------------
(* The life of a rule.                                                        *)

\* A rule that repeats starts now unless it says when; it is looked at from a
\* minute before.  One without a next run is refused.
Init ==
    /\ zone \in Zones
    /\ \E r \in Rules, now \in Saves :
          /\ rule = IF r.kind = "once" \/ r.start # None THEN r
                    ELSE [r EXCEPT !.start = now]
          /\ after = now - 1
    /\ next = NextRun(rule, zone, after)
    /\ next # Never

\* The worker finds the rule due and computes the next run from now.
Run ==
    /\ next # Never
    /\ \E now \in next .. next + Late :
          /\ now <= MaxTime
          /\ after' = now
          /\ next' = NextRun(rule, zone, now)
    /\ UNCHANGED <<rule, zone>>

Next == Run
Spec == Init /\ [][Next]_vars

--------------------------------------------------------------------------------
(* What a rule promises.                                                      *)

\* The moments at which the zone's clock shows the local time: none in a gap,
\* two when the clock was set back.
Readings(z, local) ==
    {t \in {local - z.before, local - z.since} : Local(z, t) = local}

\* The days a rule names, on paper, from the day, month or year of its start on.
Falls(r, z, day) ==
    LET first == Today(z, r.start)
        days == day - first
        months == MonthOf(day) - MonthOf(first)
        years == YearOf(day) - YearOf(first)
        every(n) == n >= 0 /\ n % Interval(r) = 0
        named(value, default) == IF value = 0 THEN default ELSE value
    IN  CASE r.kind = "daily" -> every(days)
          [] r.kind = "weekly" ->
                 /\ days >= 0 /\ every(days \div WeekLength)
                 /\ \/ day % WeekLength \in Weekdays(r)
                    \/ Weekdays(r) = {} /\ days % WeekLength = 0
          [] r.kind = "monthly" ->
                 every(months) /\ DayOf(day) = named(r.day, DayOf(first))
          [] r.kind = "yearly" ->
                 /\ every(years)
                 /\ (MonthOf(day) % YearLength) + 1
                      = named(r.month, (MonthOf(first) % YearLength) + 1)
                 /\ DayOf(day) = named(r.day, DayOf(first))

\* The code looks at the midnight of this day, or of the first of its month, and
\* takes it for the day before: west of Greenwich, where the clock is set forward
\* at midnight (schedule.go:136, :158 and :176).
MidnightMissed(r, z, day) ==
    LET begin == IF r.kind = "monthly" THEN FirstDay[MonthOf(day)] ELSE day
    IN  /\ r.kind # "yearly"
        /\ z.before < 0
        /\ Readings(z, begin * DayLength) = {}

\* The next run is the first local time the rule names after the moment it was
\* computed from: no named day is passed over, however late the scheduler is,
\* in a short month or where the clock changes, and a local time that comes
\* twice counts once.  Left out are the days whose midnight the code misses.
NextIsFirst ==
    rule.kind # "once" =>
        /\ next # Never =>
              /\ next > after
              /\ Local(zone, next) % DayLength = rule.time
              /\ Falls(rule, zone, Today(zone, next))
        /\ \A day \in Today(zone, after) .. Today(zone, after) + DayTries - 1 :
              LET times == Readings(zone, day * DayLength + rule.time)
              IN  /\ Falls(rule, zone, day) /\ ~MidnightMissed(rule, zone, day)
                  /\ times # {} /\ \A t \in times : t > after
                  /\ rule.end = None \/ \A t \in times : t <= rule.end
                  => next # Never /\ next <= Max(times)

\* A preview goes on from a run as the schedule does, though it counts intervals
\* from that run and the schedule from its start.  Left out are named weekdays
\* with an interval, where the preview's weeks begin on the weekday of the run,
\* and runs on a day whose midnight is missing, where it counts from a day next
\* to it.
PreviewGoesOn ==
    /\ next # Never /\ next <= MaxTime
    /\ rule.kind # "once"
    /\ rule.kind = "weekly" => Interval(rule) = 1 \/ Weekdays(rule) = {}
    /\ DayFrom(zone, Today(zone, next)) = Today(zone, next)
    => Preview(rule, zone, next) = NextRun(rule, zone, next)
================================================================================
