---------------------------- MODULE SchedulerProofs ----------------------------
(* Theorems about Scheduler, for any number of schedules, any recurrences and *)
(* any bound on the clock, on a pass and on disturbances.                     *)
EXTENDS Scheduler, FiniteSetTheorems, WellFoundedInduction, TLAPS

\* What a pass has loaded was due then, and each schedule is in it once.
PassFits ==
    /\ \A i \in 1 .. Len(pass) :
          pass[i].row.next \in Time /\ pass[i].row.next <= now
    /\ \A i, k \in 1 .. Len(pass) : i # k => pass[i].id # pass[k].id

EditsHaveNextRun ==
    \A s \in Schedule :
        edit[s] # NoRow /\ edit[s].on => edit[s].next # Never

\* Between the two transactions of a run there is its event.
StoredHasEvent ==
    stored => runs[pass[1].id][pass[1].row.next] > 0

\* Saved once at most, and never cut between the two transactions.
Plain == Schedule \ (Resaved \cup repeated)

\* Nobody but the pass changes a plain schedule: what was loaded is its row.
PlainIsAsLoaded ==
    \A s \in Plain :
        /\ saves[s] = 0 => /\ row[s] = NoRow
                           /\ \A t \in Time : runs[s][t] = 0
        /\ \A i \in 1 .. Len(pass) :
              pass[i].id = s =>
                 /\ saves[s] # 0
                 /\ row[s] # NoRow => row[s] = pass[i].row

\* An occurrence with an event lies before the next run, except between the two
\* transactions.
EventsLieBehind ==
    \A s \in Plain, t \in Time :
        runs[s][t] > 0 /\ row[s] # NoRow =>
            \/ row[s].next = Never
            \/ t < row[s].next
            \/ stored /\ pass[1].id = s /\ t = row[s].next

SchedulerInvariant ==
    /\ TypeOK /\ PassFits
    /\ EditsHaveNextRun /\ EnabledHasNextRun
    /\ StoredHasEvent
    /\ PlainIsAsLoaded /\ EventsLieBehind /\ OneEventPerOccurrence

--------------------------------------------------------------------------------
\* A set of times that is not empty has a first one, which NextRun chooses.
LEMMA FirstOf ==
  ASSUME NEW S \in SUBSET Time, S # {}
  PROVE  \E o \in S : \A p \in S : o <= p
PROOF
<1>1. S \subseteq Nat BY RecurrenceAssumption DEF Time
<1>2. PICK o \in S : \A p \in S : ~ (<<p, o>> \in OpToRel(<, Nat))
  BY <1>1, NatLessThanWellFounded, WFMin, Zenon
<1>3. ASSUME NEW p \in S PROVE o <= p
  <2>1. o \in Nat /\ p \in Nat BY <1>1
  <2>2. ~(p < o) BY <1>2, <2>1, Zenon DEF OpToRel
  <2> QED BY <2>1, <2>2
<1> QED BY <1>3

\* A next run lies after the moment it is computed from, and is a time or none.
LEMMA NextRunIsLater ==
  ASSUME NEW r \in Recurrence, NEW t \in Int
  PROVE  /\ NextRun(r, t) \in Time \cup {Never}
         /\ NextRun(r, t) # Never => NextRun(r, t) > t
PROOF
<1>1. After(r, t) \in SUBSET Time BY RecurrenceAssumption DEF After
<1>2. CASE After(r, t) = {} BY <1>2 DEF NextRun
<1>3. CASE After(r, t) # {}
  <2>1. \E o \in After(r, t) : \A p \in After(r, t) : o <= p
    BY <1>1, <1>3, FirstOf
  <2>2. NextRun(r, t) \in After(r, t) BY <1>3, <2>1 DEF NextRun
  <2>3. \A o \in After(r, t) : o > t BY DEF After
  <2> QED BY <1>1, <2>2, <2>3
<1> QED BY <1>2, <1>3

\* The row a mark writes is on only with a next run, and one that is later.
LEMMA MarkedRowFits ==
  ASSUME NEW old \in Row, NEW r \in Recurrence, NEW t \in Time
  PROVE  LET new == MarkedRow(old, r, t)
         IN  /\ new \in Row
             /\ new.on => new.next # Never
             /\ new.next = Never \/ new.next > t
PROOF
<1>1. t \in Int BY RecurrenceAssumption DEF Time
<1>2. NextRun(r, t) \in Time \cup {Never}
      /\ (NextRun(r, t) # Never => NextRun(r, t) > t)
  BY <1>1, NextRunIsLater
<1> QED BY <1>2 DEF MarkedRow, Row

\* The rest of a pass.
LEMMA RestOfPass ==
  ASSUME NEW p \in Seq(Item), p # <<>>
  PROVE  /\ Len(p) \in Nat /\ Len(p) >= 1
         /\ Head(p) = p[1] /\ p[1] \in Item
         /\ Tail(p) \in Seq(Item)
         /\ Len(Tail(p)) = Len(p) - 1
         /\ \A i \in 1 .. Len(Tail(p)) : /\ Tail(p)[i] = p[i + 1]
                                       /\ i + 1 \in 2 .. Len(p)
PROOF
  OBVIOUS

\* What is left of a pass when its first schedule is done still fits the clock.
LEMMA ShorterPass ==
  ASSUME TypeOK, PassFits, pass # <<>>, pass' = Tail(pass), now' = now
  PROVE  PassFits'
PROOF
<1>1. pass \in Seq(Item) BY DEF TypeOK
<1>2. \A i \in 1 .. Len(pass') :
         i + 1 \in 1 .. Len(pass) /\ pass'[i] = pass[i + 1] /\ i \in Int
  BY <1>1, RestOfPass
<1>3. \A i \in 1 .. Len(pass') :
         pass'[i].row.next \in Time /\ pass'[i].row.next <= now
  BY <1>2 DEF PassFits
<1>4. \A i, k \in 1 .. Len(pass') : i # k => pass'[i].id # pass'[k].id
  <2> SUFFICES ASSUME NEW i \in 1 .. Len(pass'), NEW k \in 1 .. Len(pass'), i # k
               PROVE  pass'[i].id # pass'[k].id
    OBVIOUS
  <2>1. i + 1 # k + 1 BY <1>2
  <2> QED BY <1>2, <2>1 DEF PassFits
<1> QED BY <1>3, <1>4 DEF PassFits

\* At the start there is no schedule and no pass under way.
LEMMA InitHolds == Init => SchedulerInvariant
PROOF
<1> SUFFICES ASSUME Init PROVE SchedulerInvariant OBVIOUS
<1>1. TypeOK
  <2>1. pass \in Seq(Item) BY DEF Init
  <2>2. now \in Time BY RecurrenceAssumption DEF Init, Time
  <2>3. runs \in [Schedule -> [Time -> Nat]] BY DEF Init
  <2> QED BY <2>1, <2>2, <2>3, SchedulerQuota DEF Init, TypeOK
<1>2. PassFits BY DEF Init, PassFits
<1>3. EditsHaveNextRun /\ EnabledHasNextRun /\ StoredHasEvent
  BY DEF Init, EditsHaveNextRun, EnabledHasNextRun, StoredHasEvent
<1>4. PlainIsAsLoaded BY DEF Init, PlainIsAsLoaded, Plain
<1>5. EventsLieBehind BY DEF Init, EventsLieBehind, Plain
<1>6. OneEventPerOccurrence BY DEF Init, OneEventPerOccurrence
<1> QED BY <1>1, <1>2, <1>3, <1>4, <1>5, <1>6 DEF SchedulerInvariant

\* A disturbance leaves a natural number of them.
LEMMA LeftAfter ==
  ASSUME left \in Nat, Disturb
  PROVE  left' \in Nat
PROOF
  BY DEF Disturb

\* Time passes.
LEMMA TickKeeps ==
  ASSUME SchedulerInvariant, Tick
  PROVE  SchedulerInvariant'
PROOF
<1> USE DEF SchedulerInvariant
<1>1. TypeOK' BY RecurrenceAssumption DEF Tick, TypeOK, history, Time, Never
<1>2. PassFits'
  BY RecurrenceAssumption DEF Tick, PassFits, history, TypeOK, Time, Never
<1>3. EditsHaveNextRun' BY DEF Tick, EditsHaveNextRun, history
<1>4. EnabledHasNextRun' BY DEF Tick, EnabledHasNextRun, history
<1>5. StoredHasEvent' BY DEF Tick, StoredHasEvent, history
<1>6. PlainIsAsLoaded' BY DEF Tick, PlainIsAsLoaded, Plain, Resaved, history
<1>7. EventsLieBehind' BY DEF Tick, EventsLieBehind, Plain, Resaved, history
<1>8. OneEventPerOccurrence'
  BY DEF Tick, OneEventPerOccurrence, Resaved, history
<1> QED BY <1>1, <1>2, <1>3, <1>4, <1>5, <1>6, <1>7, <1>8

\* A pass loads due schedules, as many as the batch allows, each of them once.
LEMMA PollLoads ==
  ASSUME Poll
  PROVE  LET due == {s \in Schedule : Due(s)}
             size == IF Cardinality(due) < Batch THEN Cardinality(due)
                                                 ELSE Batch
         IN  \E order \in [1 .. size -> due] :
                /\ \A i, k \in 1 .. size : i < k => order[i] # order[k]
                /\ pass' = [i \in 1 .. size |->
                              [id |-> order[i], row |-> row[order[i]]]]
PROOF
<1> DEFINE due == {s \in Schedule : Due(s)}
           size == IF Cardinality(due) < Batch THEN Cardinality(due) ELSE Batch
           Loads(order) == pass' = [i \in 1 .. size |->
                                      [id |-> order[i], row |-> row[order[i]]]]
<1>1. PICK order \in [1 .. size -> due] :
         /\ \A i, k \in 1 .. size :
               i < k => /\ order[i] # order[k]
                        /\ row[order[i]].next <= row[order[k]].next
         /\ Loads(order)
  BY Zenon DEF Poll
<1> HIDE DEF size, due, Loads
<1>2. \A i, k \in 1 .. size : i < k => order[i] # order[k] BY <1>1
<1>3. \E o \in [1 .. size -> due] :
         /\ \A i, k \in 1 .. size : i < k => o[i] # o[k]
         /\ Loads(o)
  BY <1>1, <1>2
<1> QED BY <1>3, Zenon DEF size, due, Loads

\* What is loaded is due, and as it stands in the table.
LEMMA PollKeeps ==
  ASSUME SchedulerInvariant, Poll
  PROVE  SchedulerInvariant'
PROOF
<1> USE DEF SchedulerInvariant
<1> DEFINE due == {s \in Schedule : Due(s)}
           size == IF Cardinality(due) < Batch THEN Cardinality(due) ELSE Batch
<1>a. size \in Nat
  <2>1. IsFiniteSet(due) BY ScheduleAssumption, FS_Subset
  <2> QED BY <2>1, LimitAssumption, FS_CardinalityType
<1>b. PICK order \in [1 .. size -> due] :
         /\ \A i, k \in 1 .. size : i < k => order[i] # order[k]
         /\ pass' = [i \in 1 .. size |->
                       [id |-> order[i], row |-> row[order[i]]]]
  BY PollLoads
<1> HIDE DEF size
<1>c. \A i \in 1 .. size :
         /\ order[i] \in Schedule /\ Due(order[i])
         /\ pass'[i].id = order[i] /\ pass'[i].row = row[order[i]]
  BY <1>b
<1> HIDE DEF due
<1>d. pass' \in Seq(Item) /\ Len(pass') = size
  <2>1. \A i \in 1 .. size :
          [id |-> order[i], row |-> row[order[i]]] \in Item
    BY <1>c DEF Due, TypeOK, Item
  <2> QED BY <1>a, <1>b, <2>1
<1>e. /\ ~stored
      /\ UNCHANGED <<now, row, stored, edit, runs, saves, repeated, left>>
  BY DEF Poll, TypeOK, history
<1>1. TypeOK' BY <1>d, <1>e DEF TypeOK
<1>2. PassFits'
  <2>1. \A i \in 1 .. size :
           row[order[i]].next \in Time /\ row[order[i]].next <= now
    BY <1>c DEF Due, TypeOK, Row
  <2>2. \A i, k \in 1 .. size : i # k => order[i] # order[k]
    <3>1. \A i, k \in 1 .. size : i # k => i < k \/ k < i BY <1>a
    <3> QED BY <1>b, <3>1
  <2> QED BY <1>c, <1>d, <1>e, <2>1, <2>2 DEF PassFits
<1>3. EditsHaveNextRun' BY <1>e DEF EditsHaveNextRun
<1>4. EnabledHasNextRun' BY <1>e DEF EnabledHasNextRun
<1>5. StoredHasEvent' BY <1>e DEF StoredHasEvent
<1>6. PlainIsAsLoaded'
  <2>1. \A i \in 1 .. Len(pass') :
           row[pass'[i].id] # NoRow /\ pass'[i].row = row[pass'[i].id]
    BY <1>c, <1>d DEF Due
  <2> QED BY <1>e, <2>1 DEF PlainIsAsLoaded, Plain, Resaved
<1>7. EventsLieBehind' BY <1>e DEF EventsLieBehind, Plain, Resaved
<1>8. OneEventPerOccurrence' BY <1>e DEF OneEventPerOccurrence, Resaved
<1> QED BY <1>1, <1>2, <1>3, <1>4, <1>5, <1>6, <1>7, <1>8

\* An item that cannot be read is passed over.
LEMMA SkipItemKeeps ==
  ASSUME SchedulerInvariant, SkipItem
  PROVE  SchedulerInvariant'
PROOF
<1> USE DEF SchedulerInvariant
<1>1. TypeOK' BY DEF SkipItem, TypeOK, history
<1>2. PassFits' BY ShorterPass DEF SkipItem
<1>3. EditsHaveNextRun' BY DEF SkipItem, EditsHaveNextRun, history
<1>4. EnabledHasNextRun' BY DEF SkipItem, EnabledHasNextRun, history
<1>5. StoredHasEvent' BY DEF SkipItem, StoredHasEvent, history
<1>6. PlainIsAsLoaded' BY DEF SkipItem, PlainIsAsLoaded, Plain, Resaved, history
<1>7. EventsLieBehind' BY DEF SkipItem, EventsLieBehind, Plain, Resaved, history
<1>8. OneEventPerOccurrence'
  BY DEF SkipItem, OneEventPerOccurrence, Resaved, history
<1> QED BY <1>1, <1>2, <1>3, <1>4, <1>5, <1>6, <1>7, <1>8

\* The first event of the occurrence: what has events lies behind it.
LEMMA StoreEventKeeps ==
  ASSUME SchedulerInvariant, StoreEvent
  PROVE  SchedulerInvariant'
PROOF
<1> USE DEF SchedulerInvariant
<1> DEFINE item == pass[1]
           due == item.row.next
<1>0. pass # <<>> /\ pass \in Seq(Item) BY DEF StoreEvent, TypeOK
<1>a. /\ item \in Item /\ item = Head(pass) /\ item.id \in Schedule
      /\ 1 \in 1 .. Len(pass)
  <2>1. item \in Item /\ item = Head(pass) BY <1>0, RestOfPass
  <2>2. 1 \in 1 .. Len(pass) BY <1>0, RestOfPass
  <2> QED BY <2>1, <2>2 DEF Item
<1>b. due \in Time BY <1>a DEF PassFits
<1>c. runs' = [runs EXCEPT ![item.id][due] = @ + 1] /\ stored' = TRUE
      /\ UNCHANGED <<now, row, pass, edit, saves, repeated, left>>
  BY <1>a DEF StoreEvent
<1>d. runs[item.id][due] \in Nat /\ runs'[item.id][due] = runs[item.id][due] + 1
      /\ \A s \in Schedule, t \in Time :
            s # item.id \/ t # due => runs'[s][t] = runs[s][t]
  BY <1>a, <1>b, <1>c DEF TypeOK
<1>e. item.id \in Plain => row[item.id] = item.row /\ runs[item.id][due] = 0
  <2> SUFFICES ASSUME item.id \in Plain
               PROVE  row[item.id] = item.row /\ runs[item.id][due] = 0
    OBVIOUS
  <2>1. row[item.id] # NoRow /\ ~stored BY <1>a DEF StoreEvent
  <2>2. row[item.id] = item.row BY <1>a, <2>1 DEF PlainIsAsLoaded
  <2>3. due # Never /\ ~(due < due)
    BY <1>b, RecurrenceAssumption DEF Time, Never
  <2>4. ~(runs[item.id][due] > 0)
    BY <1>b, <2>1, <2>2, <2>3 DEF EventsLieBehind
  <2> QED BY <1>d, <2>2, <2>4
<1> HIDE DEF item, due
<1>1. TypeOK'
  <2>1. runs' \in [Schedule -> [Time -> Nat]] BY <1>a, <1>b, <1>c DEF TypeOK
  <2>2. pass # <<>> BY DEF StoreEvent
  <2> QED BY <1>c, <2>1, <2>2 DEF TypeOK
<1>2. PassFits' BY <1>c DEF PassFits
<1>3. EditsHaveNextRun' BY <1>c DEF EditsHaveNextRun
<1>4. EnabledHasNextRun' BY <1>c DEF EnabledHasNextRun
<1>5. StoredHasEvent'
  <2>1. pass'[1].id = item.id /\ pass'[1].row.next = due
    BY <1>c DEF item, due
  <2>2. runs'[item.id][due] > 0 BY <1>d
  <2> QED BY <2>1, <2>2 DEF StoredHasEvent
<1>6. PlainIsAsLoaded'
  <2>1. item.id \in Plain => saves[item.id] # 0
    BY <1>a DEF PlainIsAsLoaded, item
  <2> QED BY <1>c, <1>d, <2>1 DEF PlainIsAsLoaded, Plain, Resaved
<1>7. EventsLieBehind'
  <2> SUFFICES ASSUME NEW s \in Plain, NEW t \in Time,
                      runs'[s][t] > 0, row[s] # NoRow
               PROVE  \/ row[s].next = Never \/ t < row[s].next
                      \/ pass[1].id = s /\ t = row[s].next
    BY <1>c DEF EventsLieBehind, Plain, Resaved
  <2>1. CASE s = item.id /\ t = due BY <1>e, <2>1 DEF item, due
  <2>2. CASE ~(s = item.id /\ t = due)
    <3>1. runs[s][t] > 0 BY <1>d, <2>2 DEF Plain
    <3> QED BY <3>1 DEF EventsLieBehind
  <2> QED BY <2>1, <2>2
<1>8. OneEventPerOccurrence'
  BY <1>c, <1>d, <1>e DEF OneEventPerOccurrence, Plain, Resaved
<1> QED BY <1>1, <1>2, <1>3, <1>4, <1>5, <1>6, <1>7, <1>8

\* The event of a due schedule cannot be stored, and the pass goes on.
LEMMA StoreFailsKeeps ==
  ASSUME SchedulerInvariant, StoreFails
  PROVE  SchedulerInvariant'
PROOF
<1> USE DEF SchedulerInvariant
<1>1. TypeOK' BY DEF StoreFails, TypeOK, history, Disturb
<1>2. PassFits' BY ShorterPass DEF StoreFails
<1>3. EditsHaveNextRun' BY DEF StoreFails, EditsHaveNextRun, history
<1>4. EnabledHasNextRun' BY DEF StoreFails, EnabledHasNextRun, history
<1>5. StoredHasEvent' BY DEF StoreFails, StoredHasEvent, history
<1>6. PlainIsAsLoaded'
  BY DEF StoreFails, PlainIsAsLoaded, Plain, Resaved, history
<1>7. EventsLieBehind'
  BY DEF StoreFails, EventsLieBehind, Plain, Resaved, history
<1>8. OneEventPerOccurrence'
  BY DEF StoreFails, OneEventPerOccurrence, Resaved, history
<1> QED BY <1>1, <1>2, <1>3, <1>4, <1>5, <1>6, <1>7, <1>8

\* The next run is after now, and now is not before the run that had its event.
LEMMA MarkRunKeeps ==
  ASSUME SchedulerInvariant, MarkRun
  PROVE  SchedulerInvariant'
PROOF
<1> USE DEF SchedulerInvariant
<1> DEFINE item == pass[1]
<1>a. /\ pass # <<>> /\ item \in Item /\ item = Head(pass)
      /\ item.id \in Schedule
      /\ item.row \in Row /\ item.row.rec \in Recurrence
      /\ Tail(pass) \in Seq(Item)
  BY RestOfPass DEF MarkRun, TypeOK, Item, Row
<1> DEFINE new == MarkedRow(row[item.id], item.row.rec, now)
<1>b. row[item.id] # NoRow =>
         /\ new \in Row /\ (new.on => new.next # Never)
         /\ new.next = Never \/ new.next > now
  BY <1>a, MarkedRowFits DEF TypeOK
<1>c. /\ row[item.id] = NoRow => row' = row
      /\ row[item.id] # NoRow => row' = [row EXCEPT ![item.id] = new]
  BY <1>a DEF MarkRun
<1> HIDE DEF new
<1>1. TypeOK'
  <2>1. row' \in [Schedule -> Row \cup {NoRow}] BY <1>a, <1>b, <1>c DEF TypeOK
  <2> QED BY <1>a, <2>1 DEF MarkRun, TypeOK, history
<1>2. PassFits' BY ShorterPass DEF MarkRun, TypeOK
<1>3. EditsHaveNextRun' BY DEF MarkRun, EditsHaveNextRun, history
<1>4. EnabledHasNextRun'
  BY <1>a, <1>b, <1>c DEF EnabledHasNextRun, TypeOK
<1>5. StoredHasEvent' BY DEF MarkRun, StoredHasEvent, history
<1>6. PlainIsAsLoaded'
  <2>1. ASSUME NEW s \in Plain, NEW i \in 1 .. Len(pass'), pass'[i].id = s
        PROVE  /\ saves[s] # 0
               /\ row'[s] # NoRow => row'[s] = pass'[i].row
    <3>1. /\ i \in Nat /\ i + 1 # 1 /\ i + 1 \in 1 .. Len(pass)
          /\ 1 \in 1 .. Len(pass) /\ pass'[i] = pass[i + 1]
      BY <1>a, RestOfPass DEF MarkRun, TypeOK
    <3>2. s # item.id BY <2>1, <3>1 DEF PassFits
    <3>3. row'[s] = row[s] BY <1>c, <3>2 DEF TypeOK, Plain
    <3> QED BY <2>1, <3>1, <3>3 DEF PlainIsAsLoaded
  <2>2. ASSUME NEW s \in Plain, saves[s] = 0
        PROVE  row'[s] = NoRow /\ \A t \in Time : runs[s][t] = 0
    <3>1. row[s] = NoRow BY <2>2 DEF PlainIsAsLoaded
    <3>2. row'[s] = NoRow BY <1>c, <3>1 DEF TypeOK, Plain
    <3> QED BY <2>2, <3>2 DEF PlainIsAsLoaded
  <2>3. UNCHANGED <<saves, runs, repeated>> BY DEF MarkRun, history
  <2> QED BY <2>1, <2>2, <2>3 DEF PlainIsAsLoaded, Plain, Resaved
<1>7. EventsLieBehind'
  <2> SUFFICES ASSUME NEW s \in Plain, NEW t \in Time,
                      runs[s][t] > 0, row'[s] # NoRow
               PROVE  row'[s].next = Never \/ t < row'[s].next
    BY DEF EventsLieBehind, MarkRun, Plain, Resaved, history
  <2>1. s \in Schedule BY DEF Plain
  <2>2. CASE s # item.id
    <3>1. row'[s] = row[s] BY <1>c, <2>1, <2>2 DEF TypeOK
    <3> QED BY <3>1, <2>2 DEF EventsLieBehind
  <2>3. CASE s = item.id
    <3>1. 1 \in 1 .. Len(pass) BY <1>a, RestOfPass DEF TypeOK
    <3>2. row[s] # NoRow /\ row'[s] = new BY <1>c, <2>1, <2>3 DEF TypeOK
    <3>3. row[s] = item.row BY <3>1, <3>2, <2>3 DEF PlainIsAsLoaded
    <3>4. row[s].next \in Time /\ row[s].next <= now
      BY <3>1, <3>3 DEF PassFits
    <3>5. t <= row[s].next
      <4>1. row[s].next # Never BY <3>4, RecurrenceAssumption DEF Time, Never
      <4>2. t < row[s].next \/ t = row[s].next
        BY <3>2, <4>1 DEF EventsLieBehind
      <4> QED BY <4>2, <3>4, RecurrenceAssumption DEF Time
    <3>6. now \in Int /\ t \in Int /\ row[s].next \in Int
      BY <3>4, RecurrenceAssumption DEF TypeOK, Time
    <3>7. new \in Row /\ (new.next = Never \/ new.next > now)
      BY <1>b, <2>3, <3>2
    <3>8. new.next \in Int BY <3>7, RecurrenceAssumption DEF Row, Time, Never
    <3> QED BY <3>2, <3>4, <3>5, <3>6, <3>7, <3>8
  <2> QED BY <2>2, <2>3
<1>8. OneEventPerOccurrence'
  BY DEF MarkRun, OneEventPerOccurrence, Resaved, history
<1> QED BY <1>1, <1>2, <1>3, <1>4, <1>5, <1>6, <1>7, <1>8

\* The schedule is no longer plain.
LEMMA MarkFailsKeeps ==
  ASSUME SchedulerInvariant, MarkFails
  PROVE  SchedulerInvariant'
PROOF
<1> USE DEF SchedulerInvariant
<1>1. TypeOK'
  <2>1. pass' \in Seq(Item) BY RestOfPass DEF MarkFails, TypeOK
  <2>2. repeated' \subseteq Schedule BY RestOfPass DEF MarkFails, TypeOK, Item
  <2>3. stored' = FALSE /\ UNCHANGED <<now, row, edit, runs, saves>>
    BY DEF MarkFails
  <2> QED BY <2>1, <2>2, <2>3, LeftAfter DEF MarkFails, TypeOK
<1>2. PassFits' BY ShorterPass DEF MarkFails, TypeOK
<1>3. EditsHaveNextRun' BY DEF MarkFails, EditsHaveNextRun
<1>4. EnabledHasNextRun' BY DEF MarkFails, EnabledHasNextRun
<1>5. StoredHasEvent' BY DEF MarkFails, StoredHasEvent
<1>6. PlainIsAsLoaded' BY DEF MarkFails, PlainIsAsLoaded, Plain, Resaved
<1>7. EventsLieBehind' BY DEF MarkFails, EventsLieBehind, Plain, Resaved
<1>8. OneEventPerOccurrence' BY DEF MarkFails, OneEventPerOccurrence, Resaved
<1> QED BY <1>1, <1>2, <1>3, <1>4, <1>5, <1>6, <1>7, <1>8

\* A save computes the next run, before its statement is executed.
LEMMA BeginSaveKeeps ==
  ASSUME SchedulerInvariant, NEW s \in Schedule, NEW r \in Recurrence,
         NEW on \in BOOLEAN, NEW sound \in BOOLEAN, BeginSave(s, r, on, sound)
  PROVE  SchedulerInvariant'
PROOF
<1> USE DEF SchedulerInvariant
<1> DEFINE next == NextRun(r, now - Lead)
<1>0. next \in Time \cup {Never}
  BY NextRunIsLater, LimitAssumption, RecurrenceAssumption DEF TypeOK, Time
<1>1. TypeOK'
  <2>1. [rec |-> r, on |-> on, next |-> next, sound |-> sound] \in Row
    BY <1>0 DEF Row
  <2>2. edit' \in [Schedule -> Row \cup {NoRow}] BY <2>1 DEF BeginSave, TypeOK
  <2> QED BY <2>2, LeftAfter DEF BeginSave, TypeOK, history
<1>2. PassFits' BY DEF BeginSave, PassFits, history
<1>3. EditsHaveNextRun' BY DEF BeginSave, EditsHaveNextRun, history
<1>4. EnabledHasNextRun' BY DEF BeginSave, EnabledHasNextRun, history
<1>5. StoredHasEvent' BY DEF BeginSave, StoredHasEvent, history
<1>6. PlainIsAsLoaded'
  BY DEF BeginSave, PlainIsAsLoaded, Plain, Resaved, history
<1>7. EventsLieBehind'
  BY DEF BeginSave, EventsLieBehind, Plain, Resaved, history
<1>8. OneEventPerOccurrence'
  BY DEF BeginSave, OneEventPerOccurrence, Resaved, history
<1> QED BY <1>1, <1>2, <1>3, <1>4, <1>5, <1>6, <1>7, <1>8

\* The first save finds no event, and the second makes the schedule not plain.
LEMMA CommitSaveKeeps ==
  ASSUME SchedulerInvariant, NEW s \in Schedule, CommitSave(s)
  PROVE  SchedulerInvariant'
PROOF
<1> USE DEF SchedulerInvariant
<1>1. TypeOK' BY DEF CommitSave, TypeOK
<1>2. PassFits' BY DEF CommitSave, PassFits
<1>3. EditsHaveNextRun' BY DEF CommitSave, EditsHaveNextRun
<1>4. EnabledHasNextRun'
  BY DEF CommitSave, TypeOK, EditsHaveNextRun, EnabledHasNextRun
<1>5. StoredHasEvent' BY DEF CommitSave, StoredHasEvent
<1>6. PlainIsAsLoaded'
  BY DEF CommitSave, PlainIsAsLoaded, Plain, Resaved, TypeOK
<1>7. EventsLieBehind'
  <2> SUFFICES ASSUME NEW z \in Plain', NEW t \in Time,
                      runs[z][t] > 0, row'[z] # NoRow
               PROVE  \/ row'[z].next = Never \/ t < row'[z].next
                      \/ stored /\ pass[1].id = z /\ t = row'[z].next
    BY DEF EventsLieBehind, CommitSave
  <2>1. z \in Plain /\ (z = s => saves[s] = 0)
    BY DEF Plain, Resaved, CommitSave, TypeOK
  <2>2. z # s BY <2>1 DEF PlainIsAsLoaded
  <2>3. row'[z] = row[z] BY <2>1, <2>2 DEF CommitSave, TypeOK, Plain
  <2> QED BY <2>1, <2>3 DEF EventsLieBehind
<1>8. OneEventPerOccurrence'
  BY DEF CommitSave, OneEventPerOccurrence, Resaved, TypeOK
<1> QED BY <1>1, <1>2, <1>3, <1>4, <1>5, <1>6, <1>7, <1>8

\* A schedule is deleted, whether or not a pass has it loaded.
LEMMA DeleteKeeps ==
  ASSUME SchedulerInvariant, NEW s \in Schedule, Delete(s)
  PROVE  SchedulerInvariant'
PROOF
<1> USE DEF SchedulerInvariant
<1>1. TypeOK' BY DEF Delete, TypeOK, history, Disturb
<1>2. PassFits' BY DEF Delete, PassFits, history
<1>3. EditsHaveNextRun' BY DEF Delete, EditsHaveNextRun, history
<1>4. EnabledHasNextRun' BY DEF Delete, EnabledHasNextRun, history
<1>5. StoredHasEvent' BY DEF Delete, StoredHasEvent, history
<1>6. PlainIsAsLoaded' BY DEF Delete, PlainIsAsLoaded, Plain, Resaved, history
<1>7. EventsLieBehind' BY DEF Delete, EventsLieBehind, Plain, Resaved, history
<1>8. OneEventPerOccurrence'
  BY DEF Delete, OneEventPerOccurrence, Resaved, history
<1> QED BY <1>1, <1>2, <1>3, <1>4, <1>5, <1>6, <1>7, <1>8

\* The process stops, and the pass under way and the saves are lost.
LEMMA CrashKeeps ==
  ASSUME SchedulerInvariant, Crash
  PROVE  SchedulerInvariant'
PROOF
<1> USE DEF SchedulerInvariant
<1>1. TypeOK'
  <2>1. pass' \in Seq(Item) BY DEF Crash
  <2>2. repeated' \subseteq Schedule BY RestOfPass DEF Crash, TypeOK, Item
  <2>3. edit' \in [Schedule -> Row \cup {NoRow}] BY DEF Crash
  <2>4. stored' = FALSE /\ UNCHANGED <<now, row, runs, saves>> BY DEF Crash
  <2> QED BY <2>1, <2>2, <2>3, <2>4, LeftAfter DEF Crash, TypeOK
<1>2. PassFits' BY DEF Crash, PassFits
<1>3. EditsHaveNextRun' BY DEF Crash, EditsHaveNextRun
<1>4. EnabledHasNextRun' BY DEF Crash, EnabledHasNextRun
<1>5. StoredHasEvent' BY DEF Crash, StoredHasEvent
<1>6. PlainIsAsLoaded' BY DEF Crash, PlainIsAsLoaded, Plain, Resaved
<1>7. EventsLieBehind' BY DEF Crash, EventsLieBehind, Plain, Resaved
<1>8. OneEventPerOccurrence' BY DEF Crash, OneEventPerOccurrence, Resaved
<1> QED BY <1>1, <1>2, <1>3, <1>4, <1>5, <1>6, <1>7, <1>8

\* Every step keeps the invariant.
LEMMA NextHolds == SchedulerInvariant /\ [Next]_vars => SchedulerInvariant'
PROOF
<1> SUFFICES ASSUME SchedulerInvariant, [Next]_vars PROVE SchedulerInvariant'
  OBVIOUS
<1>1. CASE Tick BY <1>1, TickKeeps
<1>2. CASE Poll BY <1>2, PollKeeps
<1>3. CASE SkipItem BY <1>3, SkipItemKeeps
<1>4. CASE StoreEvent BY <1>4, StoreEventKeeps
<1>5. CASE StoreFails BY <1>5, StoreFailsKeeps
<1>6. CASE MarkRun BY <1>6, MarkRunKeeps
<1>7. CASE MarkFails BY <1>7, MarkFailsKeeps
<1>8. ASSUME NEW s \in Schedule, NEW r \in Recurrence,
             NEW on \in BOOLEAN, NEW sound \in BOOLEAN,
             BeginSave(s, r, on, sound)
      PROVE  SchedulerInvariant'
  BY <1>8, BeginSaveKeeps
<1>9. ASSUME NEW s \in Schedule, CommitSave(s) \/ Delete(s)
      PROVE  SchedulerInvariant'
  BY <1>9, CommitSaveKeeps, DeleteKeeps
<1>10. CASE Crash BY <1>10, CrashKeeps
<1>11. CASE UNCHANGED vars
  BY <1>11 DEF vars, history, SchedulerInvariant, TypeOK, PassFits,
     EditsHaveNextRun, EnabledHasNextRun, StoredHasEvent, PlainIsAsLoaded,
     EventsLieBehind, OneEventPerOccurrence, Plain, Resaved
<1> QED
  BY <1>1, <1>2, <1>3, <1>4, <1>5, <1>6, <1>7, <1>8, <1>9, <1>10, <1>11
     DEF Next

\* Only the mark of a run moves a row that was loaded, and its event is stored.
LEMMA MovedRowHasRun ==
  ASSUME SchedulerInvariant, [Next]_vars, NEW s \in Schedule, MovesLoadedRow(s)
  PROVE  runs[s][row[s].next] > 0
PROOF
<1>1. row'[s] # row[s] /\ row'[s] # NoRow /\ edit' = edit BY DEF MovesLoadedRow
<1>2. row \in [Schedule -> Row \cup {NoRow}]
      /\ edit \in [Schedule -> Row \cup {NoRow}]
  BY DEF SchedulerInvariant, TypeOK
<1>3. ~UNCHANGED row BY <1>1
<1>4. ~Tick /\ ~Poll /\ ~SkipItem /\ ~StoreEvent /\ ~StoreFails /\ ~MarkFails
      /\ ~Crash /\ ~UNCHANGED vars
  BY <1>3 DEF Tick, Poll, SkipItem, StoreEvent, StoreFails, MarkFails, Crash,
              vars
<1>5. ASSUME NEW z \in Schedule PROVE ~CommitSave(z) /\ ~Delete(z)
  <2>1. ~CommitSave(z) BY <1>1, <1>2 DEF CommitSave
  <2>2. ~Delete(z) BY <1>1, <1>2 DEF Delete
  <2> QED BY <2>1, <2>2
<1>6. \A z \in Schedule, r \in Recurrence, on, sound \in BOOLEAN :
         ~BeginSave(z, r, on, sound)
  BY <1>3 DEF BeginSave
<1>7. MarkRun BY <1>4, <1>5, <1>6 DEF Next
<1>8. stored /\ pass # <<>> /\ pass \in Seq(Item)
  BY <1>7 DEF MarkRun, SchedulerInvariant, TypeOK
<1>9. pass[1] = [id |-> s, row |-> row[s]]
  BY <1>8, RestOfPass DEF MovesLoadedRow
<1> QED BY <1>8, <1>9 DEF SchedulerInvariant, StoredHasEvent

--------------------------------------------------------------------------------
\* Loaded passes, edits under way and stored events stay what they were loaded,
\* computed and stored for, whatever comes in between.
THEOREM SchedulerInvariantHolds == Spec => []SchedulerInvariant
PROOF
<1>1. Init => SchedulerInvariant BY InitHolds
<1>2. SchedulerInvariant /\ [Next]_vars => SchedulerInvariant' BY NextHolds
<1> QED BY <1>1, <1>2, PTL DEF Spec

\* Every variable keeps its type.
THEOREM SchedulerTypeCorrect == Spec => []TypeOK
PROOF
  BY SchedulerInvariantHolds, PTL DEF SchedulerInvariant

\* No order of saves, passes and crashes leaves a schedule enabled without a
\* next run.
THEOREM EnabledAlwaysHasNextRun == Spec => []EnabledHasNextRun
PROOF
  BY SchedulerInvariantHolds, PTL DEF SchedulerInvariant

\* A schedule saved once and never cut between its two transactions has one
\* event for each occurrence at most, for any recurrence.
THEOREM NoOccurrenceTwice == Spec => []OneEventPerOccurrence
PROOF
  BY SchedulerInvariantHolds, PTL DEF SchedulerInvariant

\* The scheduler never moves a schedule past an occurrence without an event.
THEOREM NoRunIsEverLost == Spec => NoRunIsLost
PROOF
<1>1. SchedulerInvariant /\ [Next]_vars =>
         [\A s \in Schedule :
             MovesLoadedRow(s) => runs[s][row[s].next] > 0]_vars
  BY MovedRowHasRun
<1> QED BY <1>1, SchedulerInvariantHolds, PTL DEF Spec, NoRunIsLost

--------------------------------------------------------------------------------
\* The times at which any recurrence falls due.
Occurrence == UNION {Occurs[r] : r \in Recurrence}

\* A save has computed an occurrence of its rule, or none because none is left.
EditsFollowRule ==
    \A s \in Schedule :
        edit[s] # NoRow =>
            /\ edit[s].next \in Occurs[edit[s].rec] \cup {Never}
            /\ edit[s].next = Never => \A o \in Occurs[edit[s].rec] : o <= now

\* What a pass has loaded was enabled, and its run is an occurrence, as that of
\* every row.
RowsFollowRules ==
    /\ \A s \in Schedule : row[s] # NoRow => row[s].next \in Occurrence \cup {Never}
    /\ \A i \in 1 .. Len(pass) : pass[i].row.on /\ pass[i].row.next \in Occurrence

RulesFollowed == EditsFollowRule /\ RowsFollowRules

\* The next run is the next of the agenda.
LEMMA NextRunIsNext ==
  ASSUME NEW r \in Recurrence, NEW t \in Int
  PROVE  /\ NextRun(r, t) \in Occurs[r] \cup {Never}
         /\ Agenda!IsNext(r, t, NextRun(r, t))
PROOF
<1>0. /\ Occurs[r] \in SUBSET Time /\ Time \subseteq Nat /\ Never \notin Time
      /\ \A o \in Occurs[r] : o \in Int
  BY RecurrenceAssumption DEF Time, Never
<1>1. After(r, t) \in SUBSET Time BY <1>0 DEF After
<1>2. CASE After(r, t) = {}
  <2>1. \A o \in Occurs[r] : o <= t BY <1>0, <1>2 DEF After
  <2> QED BY <1>2, <2>1 DEF NextRun, Agenda!IsNext
<1>3. CASE After(r, t) # {}
  <2>1. \E o \in After(r, t) : \A p \in After(r, t) : o <= p
    BY <1>1, <1>3, FirstOf
  <2> DEFINE n == NextRun(r, t)
  <2>2. n \in After(r, t) /\ \A p \in After(r, t) : n <= p
    BY <1>3, <2>1 DEF NextRun
  <2> HIDE DEF n
  <2>3. n \in Occurs[r] /\ n > t /\ n # Never
    BY <1>0, <2>2 DEF After
  <2>4. \A o \in Occurs[r] : o <= t \/ n <= o
    BY <1>0, <2>2 DEF After
  <2>5. Agenda!IsNext(r, t, n) BY <2>3, <2>4 DEF Agenda!IsNext
  <2> QED BY <2>3, <2>5 DEF n
<1> QED BY <1>2, <1>3

\* Saves and passes keep to the rules, whatever comes in between.
LEMMA RulesKept ==
  ASSUME SchedulerInvariant, RulesFollowed, [Next]_vars
  PROVE  RulesFollowed'
PROOF
<1> USE DEF RulesFollowed
<1>0. /\ TypeOK /\ now \in Int /\ \A r \in Recurrence : Occurs[r] \subseteq Int
      /\ Time \subseteq Int
  BY RecurrenceAssumption DEF SchedulerInvariant, TypeOK, Time
<1>1. CASE Tick
  <2>1. UNCHANGED <<row, pass, edit>> /\ now' = now + 1
    BY <1>1 DEF Tick
  <2>2. ASSUME NEW s \in Schedule, edit[s] # NoRow,
               edit[s].next = Never, NEW o \in Occurs[edit[s].rec]
        PROVE  o <= now + 1
    <3>1. o <= now BY <2>2 DEF EditsFollowRule
    <3>2. o \in Int BY <1>0, <2>2 DEF TypeOK, Row
    <3> QED BY <1>0, <3>1, <3>2
  <2>3. EditsFollowRule' BY <2>1, <2>2 DEF EditsFollowRule
  <2> QED BY <2>1, <2>3 DEF RowsFollowRules
<1>2. CASE Poll
  <2> DEFINE due == {s \in Schedule : Due(s)}
             size == IF Cardinality(due) < Batch THEN Cardinality(due) ELSE Batch
  <2>1. PICK order \in [1 .. size -> due] :
           pass' = [i \in 1 .. size |->
                       [id |-> order[i], row |-> row[order[i]]]]
    BY <1>2, PollLoads
  <2>2. size \in Nat
    <3>1. IsFiniteSet(due) BY ScheduleAssumption, FS_Subset
    <3> QED BY <3>1, LimitAssumption, FS_CardinalityType
  <2> HIDE DEF size
  <2>3. ASSUME NEW i \in 1 .. size
        PROVE  pass'[i].row.on /\ pass'[i].row.next \in Occurrence
    <3>1. order[i] \in Schedule /\ Due(order[i]) /\ pass'[i].row = row[order[i]]
      BY <2>1
    <3> QED BY <3>1 DEF Due, RowsFollowRules
  <2> HIDE DEF due
  <2>4. Len(pass') = size BY <2>1, <2>2
  <2>5. UNCHANGED <<now, row, edit>> BY <1>2 DEF Poll
  <2> QED BY <2>3, <2>4, <2>5 DEF EditsFollowRule, RowsFollowRules
<1>3. CASE SkipItem \/ StoreFails \/ MarkFails
  <2>1. UNCHANGED <<now, row, edit>> /\ pass # <<>> /\ pass' = Tail(pass)
    BY <1>0, <1>3 DEF SkipItem, StoreFails, MarkFails, TypeOK
  <2>2. \A i \in 1 .. Len(pass') : i + 1 \in 1 .. Len(pass) /\ pass'[i] = pass[i + 1]
    BY <1>0, <2>1, RestOfPass DEF TypeOK
  <2> QED BY <2>1, <2>2 DEF EditsFollowRule, RowsFollowRules
<1>4. CASE StoreEvent
  <2>1. UNCHANGED <<now, row, edit, pass>> BY <1>4 DEF StoreEvent
  <2> QED BY <2>1 DEF EditsFollowRule, RowsFollowRules
<1>5. CASE MarkRun
  <2> DEFINE s == pass[1].id
             n == NextRun(pass[1].row.rec, now)
  <2>1. /\ pass # <<>> /\ Head(pass) = pass[1] /\ s \in Schedule
        /\ pass[1].row.rec \in Recurrence
    BY <1>0, <1>5, RestOfPass DEF MarkRun, TypeOK, Item, Row
  <2>2. n \in Occurrence \cup {Never}
    BY <1>0, <2>1, NextRunIsNext DEF Occurrence
  <2>3. /\ UNCHANGED <<now, edit>> /\ pass' = Tail(pass)
        /\ row' \in {row, [row EXCEPT ![s] = MarkedRow(@, pass[1].row.rec, now)]}
    BY <1>5, <2>1 DEF MarkRun
  <2>4. row[s] # NoRow => MarkedRow(row[s], pass[1].row.rec, now).next = n
    BY <1>0, <2>1 DEF MarkedRow, TypeOK, Row
  <2>5. \A i \in 1 .. Len(pass') : i + 1 \in 1 .. Len(pass) /\ pass'[i] = pass[i + 1]
    BY <1>0, <2>1, <2>3, RestOfPass DEF TypeOK
  <2>6. row[s] = NoRow => row' = row BY <1>5, <2>1 DEF MarkRun
  <2> HIDE DEF n, s
  <2>7. \A z \in Schedule :
           row'[z] # NoRow => row'[z] = row[z] \/ row'[z].next = n
    BY <1>0, <2>1, <2>3, <2>4, <2>6 DEF TypeOK
  <2>8. \A z \in Schedule :
           row'[z] # NoRow => row'[z].next \in Occurrence \cup {Never}
    BY <2>2, <2>7 DEF RowsFollowRules
  <2> QED BY <2>3, <2>5, <2>8 DEF EditsFollowRule, RowsFollowRules
<1>6. ASSUME NEW s \in Schedule, NEW r \in Recurrence, NEW on \in BOOLEAN,
             NEW sound \in BOOLEAN, BeginSave(s, r, on, sound)
      PROVE  RulesFollowed'
  <2> DEFINE n == NextRun(r, now - Lead)
  <2>1. now - Lead \in Int /\ now - Lead <= now BY <1>0, LimitAssumption
  <2>2. n \in Occurs[r] \cup {Never} /\ Agenda!IsNext(r, now - Lead, n)
    BY <2>1, NextRunIsNext
  <2>3. /\ UNCHANGED <<now, row, pass>>
        /\ edit' = [edit EXCEPT ![s] = [rec |-> r, on |-> on, next |-> n,
                                        sound |-> sound]]
    BY <1>6 DEF BeginSave
  <2> HIDE DEF n
  <2>4. ASSUME n = Never, NEW o \in Occurs[r] PROVE o <= now
    <3>1. o <= now - Lead BY <2>2, <2>4 DEF Agenda!IsNext
    <3>2. o \in Int BY <1>0
    <3> QED BY <1>0, <3>1, <3>2, LimitAssumption
  <2>5. EditsFollowRule'
    BY <1>0, <2>2, <2>3, <2>4 DEF EditsFollowRule, TypeOK
  <2> QED BY <2>3, <2>5 DEF RowsFollowRules
<1>7. ASSUME NEW s \in Schedule, CommitSave(s) PROVE RulesFollowed'
  <2>1. /\ edit[s] # NoRow /\ edit[s].rec \in Recurrence
        /\ row' = [row EXCEPT ![s] = edit[s]]
        /\ edit' = [edit EXCEPT ![s] = NoRow] /\ UNCHANGED <<now, pass>>
    BY <1>0, <1>7 DEF CommitSave, TypeOK, Row
  <2>2. edit[s].next \in Occurrence \cup {Never}
    BY <2>1 DEF EditsFollowRule, Occurrence
  <2>3. EditsFollowRule' BY <1>0, <2>1 DEF EditsFollowRule, TypeOK
  <2>4. RowsFollowRules' BY <1>0, <2>1, <2>2 DEF RowsFollowRules, TypeOK
  <2> QED BY <2>3, <2>4
<1>8. ASSUME NEW s \in Schedule, Delete(s) PROVE RulesFollowed'
  <2>1. row' = [row EXCEPT ![s] = NoRow] /\ UNCHANGED <<now, pass, edit>>
    BY <1>8 DEF Delete
  <2> QED BY <1>0, <2>1 DEF EditsFollowRule, RowsFollowRules, TypeOK
<1>9. CASE Crash
  <2>1. /\ pass' = <<>> /\ edit' = [s \in Schedule |-> NoRow]
        /\ UNCHANGED <<now, row>>
    BY <1>9 DEF Crash
  <2> QED BY <2>1 DEF EditsFollowRule, RowsFollowRules
<1>10. CASE UNCHANGED vars
  <2>1. UNCHANGED <<now, row, pass, edit>> BY <1>10 DEF vars
  <2> QED BY <2>1 DEF EditsFollowRule, RowsFollowRules
<1> QED
  BY <1>1, <1>2, <1>3, <1>4, <1>5, <1>6, <1>7, <1>8, <1>9, <1>10 DEF Next

\* What the agenda shows of one row.
Shown(v) == [rec |-> v.rec, on |-> v.on, next |-> v.next]

\* The agenda shows the rows there are.
LEMMA PlanShows ==
  /\ DOMAIN Plan = {s \in Schedule : row[s] # NoRow}
  /\ \A s \in Schedule : row[s] # NoRow => Plan[s] = Shown(row[s])
PROOF
  BY DEF Plan, Shown

\* A row that is written is planned, and one that is removed is planned no more.
LEMMA PlanFollowsRow ==
  ASSUME TypeOK, NEW s \in Schedule, NEW v, row' = [row EXCEPT ![s] = v]
  PROVE  /\ v # NoRow => Plan' = Agenda!Planned(s, Shown(v))
         /\ v = NoRow => Plan' = [z \in DOMAIN Plan \ {s} |-> Plan[z]]
PROOF
<1>1. row'[s] = v /\ \A z \in Schedule \ {s} : row'[z] = row[z]
  BY DEF TypeOK
<1>2. /\ DOMAIN Plan = {z \in Schedule : row[z] # NoRow}
      /\ DOMAIN Plan' = {z \in Schedule : row'[z] # NoRow}
      /\ \A z \in DOMAIN Plan : Plan[z] = Shown(row[z])
      /\ \A z \in DOMAIN Plan' : Plan'[z] = Shown(row'[z])
  BY DEF Plan, Shown
<1>3. Plan' = [z \in DOMAIN Plan' |-> Plan'[z]]
  BY DEF Plan
<1>4. CASE v # NoRow
  <2>1. DOMAIN Plan' = DOMAIN Plan \cup {s} BY <1>1, <1>2, <1>4
  <2>2. \A z \in DOMAIN Plan' :
           Plan'[z] = IF z = s THEN Shown(v) ELSE Plan[z]
    BY <1>1, <1>2, <1>4
  <2> QED BY <1>3, <1>4, <2>1, <2>2 DEF Agenda!Planned
<1>5. CASE v = NoRow
  <2>1. DOMAIN Plan' = DOMAIN Plan \ {s} BY <1>1, <1>2, <1>5
  <2>2. \A z \in DOMAIN Plan' : Plan'[z] = Plan[z]
    BY <1>1, <1>2, <1>5
  <2> QED BY <1>3, <1>5, <2>1, <2>2
<1> QED BY <1>4, <1>5

\* The agenda sees rows, counts of events and saves, and which runs were cut.
LEMMA SameAgenda ==
  ASSUME UNCHANGED <<row, runs, saves, repeated>>
  PROVE  UNCHANGED <<Plan, Held, Saved, Loose>>
PROOF
  BY DEF Plan, Held, Saved, Loose, Resaved

\* The event of a run is that of the planned one, or the schedule is loose.
LEMMA StoreEventMaps ==
  ASSUME SchedulerInvariant, RulesFollowed, StoreEvent
  PROVE  [Agenda!Next]_Agenda!vars
PROOF
<1> USE DEF SchedulerInvariant
<1> DEFINE item == pass[1]
           s == item.id
           o == item.row.next
<1>1. /\ pass # <<>> /\ pass \in Seq(Item) /\ ~stored
      /\ runs' = [runs EXCEPT ![Head(pass).id][Head(pass).row.next] = @ + 1]
      /\ row[Head(pass).id] # NoRow
      /\ UNCHANGED <<now, row, saves, repeated>>
  BY DEF StoreEvent, TypeOK
<1>2. item \in Item /\ item = Head(pass) /\ 1 \in 1 .. Len(pass)
  BY <1>1, RestOfPass
<1>3. /\ s \in Schedule /\ o \in Time /\ o <= now /\ o \in Occurrence
      /\ item.row.on /\ row[s] # NoRow
  BY <1>1, <1>2 DEF PassFits, RulesFollowed, RowsFollowRules, Item
<1>4. /\ runs'[s][o] = runs[s][o] + 1 /\ runs[s][o] \in Nat
      /\ \A z \in Schedule, t \in Time :
            z # s \/ t # o => runs'[z][t] = runs[z][t]
  BY <1>1, <1>2, <1>3 DEF TypeOK
<1> HIDE DEF o
<1>5. s \notin Loose => item.row = row[s]
  BY <1>2, <1>3 DEF PlainIsAsLoaded, Plain, Loose
<1> HIDE DEF s, item
<1>6. Held' = [Held EXCEPT ![s] = @ \cup {o}]
  <2>1. \A z \in Schedule :
           {t \in Time : runs'[z][t] > 0} =
              IF z = s THEN {t \in Time : runs[z][t] > 0} \cup {o}
                       ELSE {t \in Time : runs[z][t] > 0}
    BY <1>3, <1>4
  <2> QED BY <1>3, <2>1 DEF Held
<1>7. UNCHANGED <<Plan, Saved, Loose>>
  BY <1>1 DEF Plan, Saved, Loose, Resaved
<1>8. s \in DOMAIN Plan /\ Plan[s] = Shown(row[s]) BY <1>3, PlanShows
<1>9. CASE s \in Loose
  <2>1. PICK r \in Recurrence : o \in Occurs[r] BY <1>3 DEF Occurrence
  <2>2. Agenda!HappenLoosely(s)
    BY <1>1, <1>3, <1>6, <1>7, <1>8, <1>9, <2>1
    DEF Agenda!HappenLoosely
  <2> QED BY <1>3, <2>2 DEF Agenda!Next
<1>10. CASE s \notin Loose
  <2>1. row[s].next = o /\ row[s].on BY <1>3, <1>5, <1>10 DEF o
  <2>2. o # Never /\ ~(o < o) BY <1>3, RecurrenceAssumption DEF Time, Never
  <2>3. s \in Plain BY <1>3, <1>10 DEF Plain, Loose
  <2>4. ~(runs[s][o] > 0)
    BY <1>1, <1>3, <2>1, <2>2, <2>3 DEF EventsLieBehind
  <2>5. o \notin Held[s] BY <1>3, <2>4 DEF Held
  <2>6. /\ Plan[s].on /\ Plan[s].next = o
    BY <1>8, <2>1 DEF Shown
  <2>7. Agenda!Happen(s)
    BY <1>1, <1>3, <1>6, <1>7, <1>8, <1>10, <2>2, <2>5, <2>6
    DEF Agenda!Happen
  <2> QED BY <1>3, <2>7 DEF Agenda!Next
<1> QED BY <1>9, <1>10

\* The mark of a run moves the planned one that had its event, to the first
\* occurrence still to come, or the schedule is loose.
LEMMA MarkRunMaps ==
  ASSUME SchedulerInvariant, RulesFollowed, MarkRun
  PROVE  [Agenda!Next]_Agenda!vars
PROOF
<1> USE DEF SchedulerInvariant
<1> DEFINE item == pass[1]
           s == item.id
           n == NextRun(item.row.rec, now)
           new == MarkedRow(row[s], item.row.rec, now)
<1>1. /\ stored /\ pass # <<>> /\ pass \in Seq(Item)
      /\ UNCHANGED <<now, runs, saves, repeated>>
  BY DEF MarkRun, TypeOK, history
<1>2. item \in Item /\ item = Head(pass) /\ 1 \in 1 .. Len(pass)
  BY <1>1, RestOfPass
<1>3. /\ row[s] = NoRow => row' = row
      /\ row[s] # NoRow => row' = [row EXCEPT ![s] = new]
  BY <1>2 DEF MarkRun
<1>4. /\ s \in Schedule /\ item.row.rec \in Recurrence
      /\ item.row.next \in Time /\ item.row.on /\ now \in Int
      /\ runs[s][item.row.next] > 0
  <2>1. s \in Schedule /\ item.row.rec \in Recurrence
    BY <1>2 DEF Item, Row
  <2>2. item.row.next \in Time BY <1>2 DEF PassFits
  <2>3. item.row.on BY <1>2 DEF RulesFollowed, RowsFollowRules
  <2>4. now \in Int BY RecurrenceAssumption DEF TypeOK, Time
  <2>5. runs[s][item.row.next] > 0 BY <1>1 DEF StoredHasEvent
  <2> QED BY <2>1, <2>2, <2>3, <2>4, <2>5
<1>5. n \in Occurs[item.row.rec] \cup {Never}
      /\ Agenda!IsNext(item.row.rec, now, n)
  BY <1>4, NextRunIsNext
<1>6. row[s] # NoRow =>
         /\ new # NoRow
         /\ Shown(new) = [rec |-> row[s].rec, next |-> n,
                          on |-> row[s].on /\ n # Never]
  <2>1. row[s] # NoRow => row[s] \in Row /\ new \in Row
    BY <1>4, MarkedRowFits, RecurrenceAssumption DEF TypeOK
  <2> QED BY <2>1, ScheduleAssumption DEF MarkedRow, Shown, Row
<1> HIDE DEF n, new
<1>7. s \notin Loose /\ row[s] # NoRow => item.row = row[s]
  BY <1>2, <1>4 DEF PlainIsAsLoaded, Plain, Loose
<1>8. UNCHANGED <<Held, Saved, Loose>>
  BY <1>1 DEF Held, Saved, Loose, Resaved
<1> HIDE DEF s, item
<1>9. CASE row[s] = NoRow
  <2>1. UNCHANGED Plan BY <1>3, <1>9 DEF Plan
  <2> QED BY <1>1, <1>8, <2>1 DEF Agenda!vars
<1>10. CASE row[s] # NoRow
  <2>1. Plan' = Agenda!Planned(s, Shown(new))
    BY <1>3, <1>4, <1>6, <1>10, PlanFollowsRow
  <2>2. s \in DOMAIN Plan /\ Plan[s] = Shown(row[s])
    BY <1>4, <1>10, PlanShows
  <2>3. Plan[s].rec = row[s].rec /\ Plan[s].on = row[s].on
        /\ Plan[s].next = row[s].next
    BY <2>2 DEF Shown
  <2>4. CASE s \in Loose
    <3>1. Plan' = Agenda!Planned(s, [rec |-> Plan[s].rec, next |-> n,
                                     on |-> Plan[s].on /\ n # Never])
      BY <1>6, <1>10, <2>1, <2>3
    <3>2. Agenda!AdvanceLoosely(s)
      BY <1>1, <1>4, <1>5, <1>8, <2>2, <2>4, <3>1
      DEF Agenda!AdvanceLoosely
    <3> QED BY <1>4, <3>2 DEF Agenda!Next
  <2>5. CASE s \notin Loose
    <3>1. row[s].rec = item.row.rec /\ row[s].next = item.row.next
          /\ row[s].on = item.row.on
      BY <1>7, <1>10, <2>5
    <3>2. Shown(new) = [rec |-> Plan[s].rec, on |-> n # Never, next |-> n]
      BY <1>4, <1>6, <1>10, <2>3, <3>1
    <3>3. Plan[s].next \in Held[s] BY <1>4, <2>3, <3>1 DEF Held
    <3>4. n \in Occurs[Plan[s].rec] \cup {Never}
          /\ Agenda!IsNext(Plan[s].rec, now, n)
      BY <1>5, <2>3, <3>1
    <3>5. Agenda!Advance(s)
      BY <1>1, <1>8, <2>1, <2>2, <2>5, <3>2, <3>3, <3>4
      DEF Agenda!Advance
    <3> QED BY <1>4, <3>5 DEF Agenda!Next
  <2> QED BY <2>4, <2>5
<1> QED BY <1>9, <1>10

\* A pass that is cut after the event of a run makes its schedule loose.
LEMMA CutMaps ==
  ASSUME SchedulerInvariant, stored,
         repeated' = repeated \cup {Head(pass).id},
         UNCHANGED <<now, row, runs, saves>>
  PROVE  [Agenda!Next]_Agenda!vars
PROOF
<1> USE DEF SchedulerInvariant
<1> DEFINE s == pass[1].id
<1>1. /\ pass # <<>> /\ pass \in Seq(Item) BY DEF TypeOK
<1>2. pass[1] \in Item /\ pass[1] = Head(pass) /\ 1 \in 1 .. Len(pass)
  BY <1>1, RestOfPass
<1>3. /\ s \in Schedule /\ pass[1].row.next \in Time
      /\ runs[s][pass[1].row.next] > 0
  BY <1>2 DEF Item, PassFits, StoredHasEvent
<1>4. Held[s] # {} BY <1>3 DEF Held
<1>5. UNCHANGED <<now, Plan, Held, Saved, Resaved>>
      /\ Loose' = Loose \cup {s}
  BY <1>2 DEF Plan, Held, Saved, Loose, Resaved
<1> HIDE DEF s
<1>6. Agenda!CutShort(s) BY <1>4, <1>5 DEF Agenda!CutShort
<1> QED BY <1>3, <1>6 DEF Agenda!Next

\* A save plans what it computed; a second one makes its schedule loose.
LEMMA CommitSaveMaps ==
  ASSUME SchedulerInvariant, RulesFollowed, NEW s \in Schedule, CommitSave(s)
  PROVE  [Agenda!Next]_Agenda!vars
PROOF
<1> USE DEF SchedulerInvariant
<1> DEFINE v == edit[s]
<1>1. /\ v # NoRow /\ v \in Row /\ row' = [row EXCEPT ![s] = v]
      /\ saves' = [saves EXCEPT ![s] = @ + 1]
      /\ UNCHANGED <<now, runs, repeated>>
  BY DEF CommitSave, TypeOK
<1>2. /\ v.rec \in Recurrence /\ v.on \in BOOLEAN
      /\ v.next \in Occurs[v.rec] \cup {Never}
      /\ v.next = Never => \A o \in Occurs[v.rec] : o <= now
      /\ v.on => v.next # Never
  BY <1>1 DEF Row, RulesFollowed, EditsFollowRule, EditsHaveNextRun
<1> HIDE DEF v
<1>3. v.next = Never => Agenda!IsNext(v.rec, now, Never)
  BY <1>2 DEF Agenda!IsNext
<1>4. Plan' = Agenda!Planned(s, [rec |-> v.rec, on |-> v.on, next |-> v.next])
  BY <1>1, PlanFollowsRow DEF Shown
<1>5. saves[s] \in Nat /\ \A z \in Schedule : saves[z] \in Nat BY DEF TypeOK
<1>6. saves'[s] = saves[s] + 1 /\ \A z \in Schedule \ {s} : saves'[z] = saves[z]
  BY <1>1 DEF TypeOK
<1>7. Saved' = Saved \cup {s} BY <1>5, <1>6 DEF Saved
<1>8. Resaved' = IF s \in Saved THEN Resaved \cup {s} ELSE Resaved
  <2>1. s \in Saved <=> saves[s] > 0 BY DEF Saved
  <2>2. ASSUME s \in Saved PROVE Resaved' = Resaved \cup {s}
    <3>1. saves'[s] > 1 BY <1>5, <1>6, <2>1, <2>2
    <3> QED BY <1>6, <3>1 DEF Resaved
  <2>3. ASSUME s \notin Saved PROVE Resaved' = Resaved
    <3>1. ~(saves'[s] > 1) /\ ~(saves[s] > 1) BY <1>5, <1>6, <2>1, <2>3
    <3> QED BY <1>6, <3>1 DEF Resaved
  <2> QED BY <2>2, <2>3
<1>9. Held' = Held BY <1>1 DEF Held
<1>10. Loose' = IF s \in Saved THEN Loose \cup {s} ELSE Loose
  BY <1>1, <1>8 DEF Loose
<1>11. Agenda!Save(s)
  BY <1>1, <1>2, <1>3, <1>4, <1>7, <1>9, <1>10 DEF Agenda!Save
<1> QED BY <1>11 DEF Agenda!Next

\* Every step is one of the agenda, or not seen.
LEMMA NextMapsToAgenda ==
  ASSUME SchedulerInvariant, RulesFollowed, [Next]_vars
  PROVE  [Agenda!Next]_Agenda!vars
PROOF
<1>1. CASE UNCHANGED <<now, row, runs, saves, repeated>>
  <2>1. UNCHANGED <<now, Plan, Held, Saved, Loose>> BY <1>1, SameAgenda
  <2> QED BY <2>1 DEF Agenda!vars
<1>2. CASE Tick
  <2>1. now' = now + 1 /\ UNCHANGED <<row, runs, saves, repeated>>
    BY <1>2 DEF Tick, history
  <2>2. UNCHANGED <<Plan, Held, Saved, Loose>> BY <2>1, SameAgenda
  <2>3. Agenda!Tick BY <2>1, <2>2 DEF Agenda!Tick
  <2> QED BY <2>3 DEF Agenda!Next
<1>3. CASE StoreEvent BY <1>3, StoreEventMaps
<1>4. CASE MarkRun BY <1>4, MarkRunMaps
<1>5. CASE MarkFails BY <1>5, CutMaps DEF MarkFails
<1>6. CASE Crash
  <2>1. CASE stored BY <1>6, <2>1, CutMaps DEF Crash
  <2>2. CASE ~stored BY <1>1, <1>6, <2>2 DEF Crash
  <2> QED BY <2>1, <2>2
<1>7. ASSUME NEW s \in Schedule, CommitSave(s)
      PROVE  [Agenda!Next]_Agenda!vars
  BY <1>7, CommitSaveMaps
<1>8. ASSUME NEW s \in Schedule, Delete(s) PROVE [Agenda!Next]_Agenda!vars
  <2>1. row' = [row EXCEPT ![s] = NoRow] /\ UNCHANGED <<now, runs, saves, repeated>>
    BY <1>8 DEF Delete, history
  <2>2. Plan' = [z \in DOMAIN Plan \ {s} |-> Plan[z]]
    BY <2>1, PlanFollowsRow DEF SchedulerInvariant
  <2>3. UNCHANGED <<Held, Saved, Loose>>
    BY <2>1 DEF Held, Saved, Loose, Resaved
  <2>4. Agenda!Remove(s) BY <2>1, <2>2, <2>3 DEF Agenda!Remove
  <2> QED BY <2>4 DEF Agenda!Next
<1>9. CASE Poll \/ SkipItem \/ StoreFails
           \/ \E s \in Schedule, r \in Recurrence, on, sound \in BOOLEAN :
                 BeginSave(s, r, on, sound)
  BY <1>1, <1>9 DEF Poll, SkipItem, StoreFails, BeginSave, history
<1>10. CASE UNCHANGED vars BY <1>1, <1>10 DEF vars, history
<1> QED
  BY <1>2, <1>3, <1>4, <1>5, <1>6, <1>7, <1>8, <1>9, <1>10 DEF Next

\* The scheduler, its passes, its failures and the edits beside it implement the
\* agenda, for any schedules, recurrences, batch size and lead.
THEOREM SchedulerIsAnAgenda == Spec => KeepsAgenda
PROOF
<1>1. Init => SchedulerInvariant /\ RulesFollowed /\ Agenda!Init
  <2> SUFFICES ASSUME Init PROVE SchedulerInvariant /\ RulesFollowed /\ Agenda!Init
    OBVIOUS
  <2>1. RulesFollowed
    BY DEF Init, RulesFollowed, EditsFollowRule, RowsFollowRules
  <2>2. {z \in Schedule : row[z] # NoRow} = {} /\ now = 0 BY DEF Init
  <2>3. Plan = [s \in {} |-> Never] BY <2>2 DEF Plan
  <2>4. Held = [s \in Schedule |-> {}] BY DEF Init, Held
  <2>5. Saved = {} /\ Loose = {} BY DEF Init, Saved, Loose, Resaved
  <2>6. Agenda!Init BY <2>2, <2>3, <2>4, <2>5 DEF Agenda!Init
  <2> QED BY <2>1, <2>6, InitHolds
<1>2. SchedulerInvariant /\ RulesFollowed /\ [Next]_vars
        => SchedulerInvariant' /\ RulesFollowed'
  BY NextHolds, RulesKept
<1>3. SchedulerInvariant /\ RulesFollowed /\ [Next]_vars
        => [Agenda!Next]_Agenda!vars
  BY NextMapsToAgenda
<1> QED BY <1>1, <1>2, <1>3, PTL DEF Spec, KeepsAgenda, Agenda!Spec
================================================================================
