------------------------------ MODULE MCRecurrence -----------------------------
(* A small calendar for Recurrence: days of four minutes, weeks of three days *)
(* and years of two months, of which every second first month is longer.  The *)
(* last rules were saved before, or start later.  Some name weekdays, days or  *)
(* months that there are not.                                                 *)
EXTENDS Recurrence

MCFirstDay == [k \in 0 .. Months |->
    (k \div 4) * 11 + <<0, 3, 5, 9>>[(k % 4) + 1]]

\* No change; forward by a minute, at midnight and not, west and east of
\* Greenwich; back by a minute; forward and back by a whole day.
Zone(change, before, since) ==
    [change |-> change, before |-> before, since |-> since]
MCZones == {Zone(0, 0, 0), Zone(21, 0, 1), Zone(22, 1, 2), Zone(25, -1, 0),
            Zone(18, 2, 3), Zone(22, 1, 0), Zone(26, 0, -1), Zone(22, -2, 2),
            Zone(20, 2, -2)}

Rule(kind, interval, time) ==
    [kind |-> kind, interval |-> interval, time |-> time, weekdays |-> {},
     day |-> 0, month |-> 0, start |-> None, end |-> None, run |-> None]

MCRules ==
    LET times == 0 .. DayLength - 1
        intervals == 0 .. 2
    IN  {[Rule("once", 0, 0) EXCEPT !.run = t] : t \in {9, 20}}
        \cup {[Rule("daily", i, h) EXCEPT !.end = e] :
                 i \in 0 .. 3, h \in times, e \in {None, 30}}
        \cup {[Rule("weekly", i, h) EXCEPT !.weekdays = w] :
                 i \in intervals, h \in times, w \in {{}, {1}, {0, 2}, {7}}}
        \cup {[Rule("monthly", i, h) EXCEPT !.day = d] :
                 i \in intervals, h \in times, d \in {-1, 0, 1, 3, 4}}
        \cup {[Rule("yearly", i, h) EXCEPT !.day = d, !.month = m] :
                 i \in intervals, h \in times, d \in {0, 3, 4}, m \in {0, 1, 2, 3}}
        \cup {[Rule(kind, i, h) EXCEPT !.start = t, !.day = d] :
                 kind \in {"daily", "weekly", "monthly", "yearly"},
                 i \in 1 .. 2, h \in times, t \in {2, 21}, d \in {0, 1}}
================================================================================
