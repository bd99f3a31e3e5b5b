------------------------------- MODULE Scheduler -------------------------------
(* Timed events: the schedules table, the scheduler goroutine that turns due  *)
(* schedules into events, and the administrator who edits them meanwhile.     *)
(*                                                                            *)
(* The scheduler loads due schedules once per pass and works through what it  *)
(* loaded: it stores an event for each, then moves the schedule's next run.   *)
(* These are two transactions.  A crash or an error between them, and an edit *)
(* at any point of the pass, find the schedule as the first one left it.      *)
(*                                                                            *)
(* Time counts minutes.  A recurrence is the set of minutes at which it falls *)
(* due; how that set comes from a calendar rule is the business of            *)
(* schedule.Next and not of this module.                                      *)
EXTENDS Integers, Sequences, FiniteSets

CONSTANTS
    Schedule,     \* ids of schedules
    Recurrence,   \* recurrences that schedules may have
    Occurs,       \* the minutes at which a recurrence falls due
    MaxTime,      \* bound: the clock stops here
    Batch,        \* schedules loaded per pass (32)
    Lead,         \* how far before now saveSchedule looks for the next run (1)
    Quota,        \* bound: how many edits, deletions, errors and crashes
    NoRow

Never == -1
Time == 0 .. MaxTime

ASSUME RecurrenceAssumption ==
    /\ MaxTime \in Nat
    /\ Occurs \in [Recurrence -> SUBSET Time]

ASSUME LimitAssumption == Batch \in Nat \ {0} /\ Lead \in Nat

ASSUME SchedulerQuota == Quota \in Nat

\* A row of schedules: its recurrence, the enabled flag, next_run_at, and whether
\* its stored payload can be read back as JSON.
Row == [rec : Recurrence, on : BOOLEAN, next : Time \cup {Never},
        sound : BOOLEAN]

Item == [id : Schedule, row : Row]

ASSUME ScheduleAssumption == IsFiniteSet(Schedule) /\ NoRow \notin Row

VARIABLES
    now,      \* the clock
    row,      \* the table schedules, NoRow where there is none
    pass,     \* what the current pass has loaded and not finished
    stored,   \* the event of the first item is stored, its next run not moved
    edit,     \* the row a save request has computed and not yet written
    runs,     \* history: how many events were stored for an occurrence
    saves,    \* history: how often a schedule was saved
    repeated, \* history: schedules whose pass was cut between its transactions
    left      \* disturbances that may still happen

history == <<runs, saves, repeated>>
vars == <<now, row, pass, stored, edit, history, left>>

After(r, t) == {o \in Occurs[r] : o > t}

\* schedule.Next: the first occurrence strictly after t, if there is one.
NextRun(r, t) ==
    IF After(r, t) = {} THEN Never
    ELSE CHOOSE o \in After(r, t) : \A p \in After(r, t) : o <= p

Due(s) ==
    /\ row[s] # NoRow
    /\ row[s].on
    /\ row[s].next # Never
    /\ row[s].next <= now

Disturb == left > 0 /\ left' = left - 1

--------------------------------------------------------------------------------

Init ==
    /\ now = 0
    /\ row = [s \in Schedule |-> NoRow]
    /\ pass = <<>>
    /\ stored = FALSE
    /\ edit = [s \in Schedule |-> NoRow]
    /\ runs = [s \in Schedule |-> [t \in Time |-> 0]]
    /\ saves = [s \in Schedule |-> 0]
    /\ repeated = {}
    /\ left = Quota

Tick ==
    /\ now < MaxTime
    /\ now' = now + 1
    /\ UNCHANGED <<row, pass, stored, edit, history, left>>

\* DueSchedules: the Batch schedules that are due the longest, in that order.
\* The scheduler polls when it has finished the pass before.
Poll ==
    LET due == {s \in Schedule : Due(s)}
        size == IF Cardinality(due) < Batch THEN Cardinality(due) ELSE Batch
    IN  /\ pass = <<>>
        /\ due # {}
        /\ \E order \in [1 .. size -> due] :
              /\ \A i, k \in 1 .. size :
                    i < k => /\ order[i] # order[k]
                             /\ row[order[i]].next <= row[order[k]].next
              /\ \A s \in due \ {order[i] : i \in 1 .. size} :
                    row[order[size]].next <= row[s].next
              /\ pass' = [i \in 1 .. size |->
                             [id |-> order[i], row |-> row[order[i]]]]
        /\ UNCHANGED <<now, row, stored, edit, history, left>>

\* A fault: the pass ends at an item that cannot be read, instead of going on.
SkipItem_EndsPass ==
    /\ pass # <<>> /\ ~stored
    /\ ~Head(pass).row.sound
    /\ pass' = <<>>
    /\ UNCHANGED <<now, row, stored, edit, history, left>>

\* The item's payload cannot be decrypted or parsed: it is passed over, and is
\* still due at the next pass.
SkipItem ==
    /\ pass # <<>> /\ ~stored
    /\ ~Head(pass).row.sound
    /\ pass' = Tail(pass)
    /\ UNCHANGED <<now, row, stored, edit, history, left>>

\* AcceptEvent stores an event for the item as it was loaded.  The event refers
\* to the schedule, so there must still be one.
StoreEvent ==
    LET item == Head(pass)
    IN  /\ pass # <<>> /\ ~stored
        /\ item.row.sound
        /\ row[item.id] # NoRow
        /\ runs' = [runs EXCEPT ![item.id][item.row.next] = @ + 1]
        /\ stored' = TRUE
        /\ UNCHANGED <<now, row, pass, edit, saves, repeated, left>>

\* A fault: the pass goes on to mark a run it could not store.
StoreFails_Marks ==
    /\ pass # <<>> /\ ~stored
    /\ Head(pass).row.sound
    /\ \/ row[Head(pass).id] = NoRow /\ UNCHANGED left
       \/ row[Head(pass).id] # NoRow /\ Disturb
    /\ stored' = TRUE
    /\ UNCHANGED <<now, row, pass, edit, history>>

\* Storing the event fails: the schedule is gone, or the database fails.
StoreFails ==
    /\ pass # <<>> /\ ~stored
    /\ Head(pass).row.sound
    /\ \/ row[Head(pass).id] = NoRow /\ UNCHANGED left
       \/ row[Head(pass).id] # NoRow /\ Disturb
    /\ pass' = Tail(pass)
    /\ UNCHANGED <<now, row, stored, edit, history>>

\* A fault: the occurrence of this very minute counts as still to come.
MarkedRow_SameMinute(old, r, t) ==
    LET next == NextRun(r, t - 1)
    IN  [old EXCEPT !.next = next, !.on = @ /\ next # Never]

\* A fault: the next run is counted from the run that was due, so that runs
\* missed while the program was down are all made up for.
MarkedRow_MakesUp(old, r, t) ==
    LET next == NextRun(r, old.next)
    IN  [old EXCEPT !.next = next, !.on = @ /\ next # Never]

\* The columns MarkScheduleRun writes, for the recurrence r that was loaded with
\* the item: a schedule with no further run is switched off.
MarkedRow(old, r, t) ==
    LET next == NextRun(r, t)
    IN  [old EXCEPT !.next = next, !.on = @ /\ next # Never]

\* The next run is moved, counted from now: however many runs were missed while
\* the program was down, there is one event for them.  The row may have been
\* edited or deleted since it was loaded.
MarkRun ==
    LET item == Head(pass)
        s == item.id
    IN  /\ stored
        /\ row' = IF row[s] = NoRow THEN row
                  ELSE [row EXCEPT ![s] = MarkedRow(@, item.row.rec, now)]
        /\ pass' = Tail(pass)
        /\ stored' = FALSE
        /\ UNCHANGED <<now, edit, history, left>>

\* MarkScheduleRun fails, and the event stays stored.
MarkFails ==
    /\ stored
    /\ Disturb
    /\ repeated' = repeated \cup {Head(pass).id}
    /\ pass' = Tail(pass)
    /\ stored' = FALSE
    /\ UNCHANGED <<now, row, edit, runs, saves>>

\* The process stops and starts again; requests in flight are lost with it.
Crash ==
    /\ Disturb
    /\ repeated' = IF stored THEN repeated \cup {Head(pass).id} ELSE repeated
    /\ pass' = <<>>
    /\ stored' = FALSE
    /\ edit' = [s \in Schedule |-> NoRow]
    /\ UNCHANGED <<now, row, runs, saves>>

--------------------------------------------------------------------------------

\* saveSchedule computes the next run from a little before now, and refuses to
\* enable a schedule that has none.
BeginSave(s, r, on, sound) ==
    LET next == NextRun(r, now - Lead)
    IN  /\ edit[s] = NoRow
        /\ ~(on /\ next = Never)
        /\ Disturb
        /\ edit' = [edit EXCEPT ![s] =
                       [rec |-> r, on |-> on, next |-> next, sound |-> sound]]
        /\ UNCHANGED <<now, row, pass, stored, history>>

\* The row is inserted, or replaced if there is one: also when the scheduler has
\* moved its next run, or somebody has deleted it, since it was computed.
CommitSave(s) ==
    /\ edit[s] # NoRow
    /\ row' = [row EXCEPT ![s] = edit[s]]
    /\ edit' = [edit EXCEPT ![s] = NoRow]
    /\ saves' = [saves EXCEPT ![s] = @ + 1]
    /\ UNCHANGED <<now, pass, stored, runs, repeated, left>>

\* Deleting a schedule, or the target group it sends to.
Delete(s) ==
    /\ row[s] # NoRow
    /\ Disturb
    /\ row' = [row EXCEPT ![s] = NoRow]
    /\ UNCHANGED <<now, pass, stored, edit, history>>

--------------------------------------------------------------------------------

Next ==
    \/ Tick
    \/ Poll \/ SkipItem \/ StoreEvent \/ StoreFails \/ MarkRun \/ MarkFails
    \/ \E s \in Schedule, r \in Recurrence, on, sound \in BOOLEAN :
          BeginSave(s, r, on, sound)
    \/ \E s \in Schedule : CommitSave(s) \/ Delete(s)
    \/ Crash

Spec == Init /\ [][Next]_vars

\* The scheduler polls every 15 seconds and each of its steps ends.  Nothing
\* makes the clock, an administrator or a failure act.
Fairness ==
    /\ WF_vars(Poll)
    /\ WF_vars(SkipItem)
    /\ WF_vars(StoreEvent \/ StoreFails)
    /\ WF_vars(MarkRun)

FairSpec == Spec /\ Fairness

--------------------------------------------------------------------------------

Resaved == {s \in Schedule : saves[s] > 1}

TypeOK ==
    /\ now \in Time
    /\ row \in [Schedule -> Row \cup {NoRow}]
    /\ pass \in Seq(Item)
    /\ stored \in BOOLEAN
    /\ stored => pass # <<>>
    /\ edit \in [Schedule -> Row \cup {NoRow}]
    /\ runs \in [Schedule -> [Time -> Nat]]
    /\ saves \in [Schedule -> Nat]
    /\ repeated \subseteq Schedule
    /\ left \in Nat

\* There is one event for an occurrence.  Only a schedule that is saved again
\* within Lead of a run, or whose run was stored and not marked, runs twice.
OneEventPerOccurrence ==
    \A s \in Schedule \ (Resaved \cup repeated), t \in Time : runs[s][t] <= 1

\* An enabled schedule has a next run, whatever order edits and passes come in:
\* one without would be shown as enabled and never run again.
EnabledHasNextRun ==
    \A s \in Schedule :
        row[s] # NoRow /\ row[s].on => row[s].next # Never

\* The scheduler, not a save, moves the row it had loaded; nobody has saved it
\* since.
MovesLoadedRow(s) ==
    /\ row[s] # NoRow /\ row'[s] # NoRow /\ row'[s] # row[s]
    /\ edit' = edit
    /\ Head(pass) = [id |-> s, row |-> row[s]]

\* Action property: the scheduler moves a schedule past an occurrence only when
\* an event was stored for it, whatever failed or crashed in between.
NoRunIsLost ==
    [][\A s \in Schedule :
          MovesLoadedRow(s) => runs[s][row[s].next] > 0]_vars

\* What there is to see of the scheduler, for those who keep the schedules.
Plan == [s \in {z \in Schedule : row[z] # NoRow} |->
            [rec |-> row[s].rec, on |-> row[s].on, next |-> row[s].next]]
Held == [s \in Schedule |-> {t \in Time : runs[s][t] > 0}]
Saved == {s \in Schedule : saves[s] > 0}
Loose == Resaved \cup repeated

Agenda == INSTANCE Agenda WITH
    plan <- Plan, held <- Held, saved <- Saved, loose <- Loose

\* Every step is one of the agenda, or is not seen: the run planned has one
\* event before the next is planned, which is the first still to come, however
\* passes, edits, deletions, failures and crashes interleave.
KeepsAgenda == Agenda!Spec

\* Liveness: a due schedule with a payload that can be read does not stay due:
\* it runs, or it is edited or deleted.  That needs fewer than Batch schedules
\* whose payload cannot be read: these stay due, ahead of all others.
FewUnreadable ==
    Cardinality({s \in Schedule : row[s] # NoRow /\ ~row[s].sound}) < Batch

DueRunsHappen ==
    []FewUnreadable =>
        \A s \in Schedule :
            Due(s) /\ row[s].sound ~> ~(Due(s) /\ row[s].sound)

================================================================================
