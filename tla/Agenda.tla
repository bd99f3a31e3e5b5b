--------------------------------- MODULE Agenda --------------------------------
(* What the scheduler promises those who keep schedules, with no pass, no     *)
(* batch, no transaction and no crash in it.  A schedule that was saved once  *)
(* and never cut short is tidy: its planned run has one event, at its time or *)
(* later and as long as the schedule is there; then, and only then, the next  *)
(* run is planned, which is the first occurrence still to come.  A schedule   *)
(* that is saved again, or cut short after a run, is loose: an occurrence may *)
(* have a second event, and the run planned may be that of an older rule, but *)
(* it lies ahead, and a schedule that is on always has one.                   *)
EXTENDS Integers

CONSTANTS
    Schedule,     \* ids of schedules
    Recurrence,   \* recurrences that schedules may have
    Occurs,       \* the times at which a recurrence falls due
    Never         \* no next run

VARIABLES
    now,          \* the clock
    plan,         \* the schedules there are: recurrence, enabled flag, next run
    held,         \* the occurrences of a schedule that had their event
    saved,        \* the schedules that were ever saved
    loose         \* those saved again, or cut short

vars == <<now, plan, held, saved, loose>>

\* n is the first time after t at which r falls due, if there is one.
IsNext(r, t, n) ==
    IF n = Never THEN \A o \in Occurs[r] : o <= t
                 ELSE n \in Occurs[r] /\ n > t
                      /\ \A o \in Occurs[r] : o <= t \/ n <= o

Planned(s, p) ==
    [z \in DOMAIN plan \cup {s} |-> IF z = s THEN p ELSE plan[z]]

Init ==
    /\ now = 0
    /\ plan = [s \in {} |-> Never]
    /\ held = [s \in Schedule |-> {}]
    /\ saved = {}
    /\ loose = {}

Tick == now' = now + 1 /\ UNCHANGED <<plan, held, saved, loose>>

\* A save plans an occurrence of the rule, and can only enable a schedule that
\* has one.
Save(s) ==
    /\ \E r \in Recurrence, on \in BOOLEAN :
          \E n \in Occurs[r] \cup {Never} :
             /\ on => n # Never
             /\ n = Never => IsNext(r, now, Never)
             /\ plan' = Planned(s, [rec |-> r, on |-> on, next |-> n])
    /\ saved' = saved \cup {s}
    /\ loose' = IF s \in saved THEN loose \cup {s} ELSE loose
    /\ UNCHANGED <<now, held>>

Remove(s) ==
    /\ plan' = [z \in DOMAIN plan \ {s} |-> plan[z]]
    /\ UNCHANGED <<now, held, saved, loose>>

\* The planned run of a tidy schedule has its event, and has one only.
Happen(s) ==
    /\ s \in DOMAIN plan \ loose
    /\ plan[s].on /\ plan[s].next # Never /\ plan[s].next <= now
    /\ plan[s].next \notin held[s]
    /\ held' = [held EXCEPT ![s] = @ \cup {plan[s].next}]
    /\ UNCHANGED <<now, plan, saved, loose>>

\* However late that was, the run planned next is the first one still to come.
Advance(s) ==
    /\ s \in DOMAIN plan \ loose
    /\ plan[s].next \in held[s]
    /\ \E n \in Occurs[plan[s].rec] \cup {Never} :
          /\ IsNext(plan[s].rec, now, n)
          /\ plan' = Planned(s, [rec |-> plan[s].rec, on |-> n # Never,
                                 next |-> n])
    /\ UNCHANGED <<now, held, saved, loose>>

\* A schedule is cut short after a run.
CutShort(s) ==
    /\ held[s] # {}
    /\ loose' = loose \cup {s}
    /\ UNCHANGED <<now, plan, held, saved>>

HappenLoosely(s) ==
    /\ s \in DOMAIN plan \cap loose
    /\ \E r \in Recurrence : \E o \in Occurs[r] :
          o <= now /\ held' = [held EXCEPT ![s] = @ \cup {o}]
    /\ UNCHANGED <<now, plan, saved, loose>>

AdvanceLoosely(s) ==
    /\ s \in DOMAIN plan \cap loose
    /\ \E r \in Recurrence : \E n \in Occurs[r] \cup {Never} :
          /\ IsNext(r, now, n)
          /\ plan' = Planned(s, [rec |-> plan[s].rec, next |-> n,
                                 on |-> plan[s].on /\ n # Never])
    /\ UNCHANGED <<now, held, saved, loose>>

Next ==
    \/ Tick
    \/ \E s \in Schedule :
          \/ Save(s) \/ Remove(s) \/ CutShort(s)
          \/ Happen(s) \/ Advance(s)
          \/ HappenLoosely(s) \/ AdvanceLoosely(s)

Spec == Init /\ [][Next]_vars
================================================================================
