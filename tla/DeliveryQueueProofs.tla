-------------------------- MODULE DeliveryQueueProofs --------------------------
(***************************************************************************)
(* What holds of the queue for any number of workers, events and jobs.     *)
(* Three parts: what holds for any timing (CoreInvariant is inductive, and *)
(* each property it names follows; there is a lemma for each part of it,   *)
(* with one step for each action that can disturb that part), what holds   *)
(* if every delivery ends within the lease, and that the queue then        *)
(* implements its contract.                                                *)
(***************************************************************************)
EXTENDS DeliveryQueue, TLAPS

(* Only these actions write the columns of delivery_jobs.  The lemmas about the
   columns need one step for each of them, instead of one for every action.   *)
JobStep ==
    \/ \E e \in Event, p \in Policies, B \in SUBSET Binding :
          AcceptEvent(e, p, B)
    \/ \E w \in Worker, j \in Job : ClaimJob(w, j)
    \/ \E w \in Worker : FinishAttempt(w)
    \/ \E j \in Job : RetryJob(j)
    \/ \E J \in SUBSET Job : RemoveJobs(J)
    \/ Tick

\* Every step either writes delivery_jobs in one of those ways or leaves it.
LEMMA JobSteps ==
    [Next]_vars => JobStep \/ UNCHANGED jobVars
<1>. SUFFICES ASSUME [Next]_vars PROVE JobStep \/ UNCHANGED jobVars
  OBVIOUS
<1>1. ASSUME NEW w \in Worker, WorkerStep(w)
      PROVE  JobStep \/ UNCHANGED jobVars
  BY <1>1 DEF WorkerStep, JobStep, PrepareFails, BeginSend, RemoteAccepts,
     SendReturns, FinishFails, ReadPolicy, ReplacePayload, FinalizeFails
<1>2. ASSUME NEW B \in SUBSET Binding, SaveGroup(B) \/ DeleteBindings(B)
      PROVE  JobStep
  BY <1>2 DEF SaveGroup, DeleteBindings, CascadeBindings, JobStep
<1>3. ASSUME NEW D \in SUBSET Event, DeleteOldEvents(D)
      PROVE  JobStep
  BY <1>3 DEF DeleteOldEvents, JobStep
<1>4. ASSUME NEW E \in SUBSET Event, PurgePayloads(E) \/ Crash
      PROVE  UNCHANGED jobVars
  BY <1>4 DEF PurgePayloads, Crash
<1>5. CASE UNCHANGED vars
  BY <1>5 DEF vars
<1>. QED
  BY <1>1, <1>2, <1>3, <1>4, <1>5 DEF Next, JobStep

\* The columns of delivery_jobs keep their types; the attempt counter stays
\* within its bound because an active job has an attempt left.
LEMMA TypeJobsStep ==
    CoreInvariant /\ [Next]_vars => TypeJobs'
<1>. SUFFICES ASSUME CoreInvariant, JobStep \/ UNCHANGED jobVars
              PROVE  TypeJobs'
  BY JobSteps
<1>0. TypeJobs
  BY DEF CoreInvariant, TypeOK
<1>1. ASSUME NEW e \in Event, NEW p \in Policies, NEW B \in SUBSET Binding,
             AcceptEvent(e, p, B)
      PROVE  TypeJobs'
  BY <1>0, <1>1 DEF AcceptEvent, TypeJobs, Statuses, Active, JobsOf
<1>2. ASSUME NEW w \in Worker, NEW j \in Job, ClaimJob(w, j)
      PROVE  TypeJobs'
  BY <1>0, <1>2, TimingAssumption
  DEF ClaimJob, TypeJobs, Statuses, Active, NoLock
<1>3. ASSUME NEW w \in Worker, FinishAttempt(w)
      PROVE  TypeJobs'
  <2>1. held[w] \in Job /\ try[w] \in 1 .. MaxAttempts
    BY <1>3 DEF CoreInvariant, WorkersHoldJobs, FinishAttempt
  <2>2. StatusAfter(try[w], outcome[w] = "ok") \in Statuses
    BY DEF StatusAfter, Statuses, Active, Terminal
  <2>3. WaitsAfter(try[w], outcome[w] = "ok") \subseteq Int
    BY <2>1, TimingAssumption DEF WaitsAfter, StatusAfter
  <2>4. [attempt |-> try[w], ok |-> outcome[w] = "ok"] \in Row
    BY <2>1 DEF Row
  <2>5. status' \in [Job -> Statuses] /\ attempts' \in [Job -> 0 .. MaxAttempts]
    BY <1>0, <1>3, <2>1, <2>2, TimingAssumption
    DEF FinishAttempt, AttemptsAfter, TypeJobs
  <2>6. wait' \in [Job -> Int]
    BY <1>0, <1>3, <2>1, <2>3 DEF FinishAttempt, TypeJobs
  <2>7. lockAge' \in [Job -> NoLock .. LeaseTime + 1]
    <3>1. NoLock \in NoLock .. LeaseTime + 1
      BY TimingAssumption DEF NoLock
    <3>. QED
      BY <1>0, <1>3, <2>1, <3>1 DEF FinishAttempt, TypeJobs
  <2>8. log' \in [Job -> Seq(Row)]
    <3>1. Append(log[held[w]], [attempt |-> try[w], ok |-> outcome[w] = "ok"])
             \in Seq(Row)
      BY <1>0, <2>1, <2>4 DEF TypeJobs
    <3>. QED
      BY <1>0, <1>3, <2>1, <3>1 DEF FinishAttempt, TypeJobs
  <2>. QED
    BY <2>5, <2>6, <2>7, <2>8 DEF TypeJobs
<1>4. ASSUME NEW j \in Job, RetryJob(j)
      PROVE  TypeJobs'
  BY <1>0, <1>4, TimingAssumption
  DEF RetryJob, TypeJobs, Statuses, Active, NoLock
<1>5. ASSUME NEW J \in SUBSET Job, RemoveJobs(J)
      PROVE  TypeJobs'
  BY <1>0, <1>5, TimingAssumption DEF RemoveJobs, TypeJobs, Statuses, NoLock
<1>6. CASE Tick
  BY <1>0, <1>6, TimingAssumption DEF Tick, TypeJobs, Overdue, NoLock
<1>7. CASE UNCHANGED jobVars
  BY <1>0, <1>7 DEF jobVars, TypeJobs
<1>. QED
  BY <1>1, <1>2, <1>3, <1>4, <1>5, <1>6, <1>7 DEF JobStep

\* The columns of a job stay consistent with one another and with its log: what
\* FinishAttempt writes in one transaction belongs together.
LEMMA JobColumnsStep ==
    CoreInvariant /\ [Next]_vars
        => AbsentJobsAreEmpty' /\ AttemptsLeft' /\ LogMatchesJob'
<1> DEFINE Columns == AbsentJobsAreEmpty /\ AttemptsLeft /\ LogMatchesJob
<1>. SUFFICES ASSUME CoreInvariant, JobStep \/ UNCHANGED jobVars
              PROVE  Columns'
  BY JobSteps
<1>0. TypeJobs /\ Columns
  BY DEF CoreInvariant, TypeOK
<1>1. ASSUME NEW e \in Event, NEW p \in Policies, NEW B \in SUBSET Binding,
             AcceptEvent(e, p, B)
      PROVE  Columns'
  BY <1>0, <1>1, TimingAssumption
  DEF CoreInvariant, NothingBeforeTheEvent, AcceptEvent, TypeJobs, JobsOf,
      AbsentJobsAreEmpty, AttemptsLeft,
      LogMatchesJob, LatestRowCounts, Active, Terminal, NoLock
<1>2. ASSUME NEW w \in Worker, NEW j \in Job, ClaimJob(w, j)
      PROVE  Columns'
  BY <1>0, <1>2, TimingAssumption
  DEF ClaimJob, Claimable, TypeJobs, AbsentJobsAreEmpty, AttemptsLeft,
      LogMatchesJob, LatestRowCounts, Active, Terminal, NoLock
<1>3. ASSUME NEW w \in Worker, FinishAttempt(w)
      PROVE  Columns'
  <2>. PICK h \in Job : h = held[w]
    BY <1>3 DEF CoreInvariant, WorkersHoldJobs, FinishAttempt
  <2>. PICK ok \in BOOLEAN : ok = (outcome[w] = "ok")
    OBVIOUS
  <2>. PICK row : row = [attempt |-> try[w], ok |-> ok]
    OBVIOUS
  <2>1. try[w] \in 1 .. MaxAttempts /\ row \in Row
    BY <1>3 DEF CoreInvariant, WorkersHoldJobs, FinishAttempt, Row
  <2>2. AttemptsLeft' /\ AbsentJobsAreEmpty'
    BY <1>0, <1>3, <2>1, TimingAssumption
    DEF FinishAttempt, AttemptsAfter, StatusAfter, TypeJobs, AttemptsLeft,
        AbsentJobsAreEmpty, Active, NoLock
  <2>3. /\ log[h] \in Seq(Row)
        /\ log'[h] = Append(log[h], row)
        /\ attempts'[h] = try[w]
    BY <1>0, <1>3, <2>1 DEF FinishAttempt, AttemptsAfter, TypeJobs
  <2>4. ok <=> status'[h] = "success"
    BY <1>0, <1>3, <2>1 DEF FinishAttempt, StatusAfter, TypeJobs
  <2>5. LatestRowCounts(h)'
    <3>1. /\ log'[h] # <<>>
          /\ log'[h][Len(log'[h])] = row
      BY <2>1, <2>3
    <3>. QED
      BY <2>3, <2>4, <3>1 DEF LatestRowCounts
  <2>6. ASSUME NEW j \in Job \ {h} PROVE LatestRowCounts(j)'
    <3>1. /\ log'[j] = log[j]
          /\ attempts'[j] = attempts[j]
          /\ status'[j] = status[j]
      BY <1>0, <1>3, <2>1 DEF FinishAttempt, TypeJobs
    <3>. QED
      BY <1>0, <3>1 DEF LogMatchesJob, LatestRowCounts
  <2>. QED
    BY <2>2, <2>5, <2>6 DEF LogMatchesJob
<1>4. ASSUME NEW j \in Job, RetryJob(j)
      PROVE  Columns'
  BY <1>0, <1>4, TimingAssumption DEF RetryJob, TypeJobs, AbsentJobsAreEmpty,
     AttemptsLeft,
      LogMatchesJob, LatestRowCounts, Active, Terminal, NoLock
<1>5. ASSUME NEW J \in SUBSET Job, RemoveJobs(J)
      PROVE  Columns'
  BY <1>0, <1>5, TimingAssumption DEF RemoveJobs, TypeJobs,
     AbsentJobsAreEmpty, AttemptsLeft,
      LogMatchesJob, LatestRowCounts, Active, Terminal, NoLock
<1>6. CASE Tick
  BY <1>0, <1>6, TimingAssumption DEF Tick, TypeJobs, AbsentJobsAreEmpty,
     AttemptsLeft,
      LogMatchesJob, LatestRowCounts, Active, Terminal, NoLock
<1>7. CASE UNCHANGED jobVars
  BY <1>0, <1>7 DEF jobVars, TypeJobs, AbsentJobsAreEmpty, AttemptsLeft,
      LogMatchesJob, LatestRowCounts, Active, Terminal, NoLock
<1>. QED
  BY <1>1, <1>2, <1>3, <1>4, <1>5, <1>6, <1>7 DEF JobStep

\* A worker that lets go of its job has the state of an idle one.
LEMMA ReleaseType ==
    ASSUME TypeWorkers, NEW W, ReleaseWorkers(W)
    PROVE  TypeWorkers'
BY TimingAssumption DEF TypeWorkers, ReleaseWorkers, Places, Payloads, Outcomes

\* A disturbance that may still happen keeps the quota natural.
LEMMA DisturbType ==
    ASSUME left \in Nat, NEW kind, Disturb(kind)
    PROVE  left' \in Nat
BY DEF Disturb

\* Workers that let go hold nothing they would have to know anything about.
LEMMA ReleaseHolds ==
    ASSUME WorkersHoldJobs, NEW W, ReleaseWorkers(W), UNCHANGED <<policy,
    accepted>>
    PROVE  WorkersHoldJobs'
BY DEF WorkersHoldJobs, ReleaseWorkers

\* What a worker holds keeps its type, and what it knows stays true: its job
\* exists, its attempt is one that may be made, its success is an acceptance.
LEMMA TypeWorkersStep ==
    CoreInvariant /\ [Next]_vars => TypeWorkers' /\ WorkersHoldJobs'
<1>. SUFFICES ASSUME CoreInvariant, [Next]_vars
              PROVE  TypeWorkers' /\ WorkersHoldJobs'
  OBVIOUS
<1>0. TypeWorkers /\ TypeJobs /\ TypeStore /\ TypeHistory /\ WorkersHoldJobs
  BY DEF CoreInvariant, TypeOK
<1>1. ASSUME NEW e \in Event, NEW p \in Policies, NEW B \in SUBSET Binding,
             AcceptEvent(e, p, B)
      PROVE  TypeWorkers' /\ WorkersHoldJobs'
  <2>1. p # "unset"
    BY PolicyAssumption
  <2>. QED
    BY <1>0, <1>1, <2>1, JobAssumption DEF AcceptEvent, TypeWorkers,
       TypeStore, WorkersHoldJobs, workerVars, ghostVars
<1>2. ASSUME NEW w \in Worker, NEW j \in Job, ClaimJob(w, j)
      PROVE  TypeWorkers' /\ WorkersHoldJobs'
  <2>1. attempts[j] + 1 \in 1 .. MaxAttempts
    BY <1>0, <1>2, TimingAssumption
    DEF CoreInvariant, AttemptsLeft, Active, TypeJobs, ClaimJob, Claimable
  <2>2. payload[EventOf[j]] \in Payloads
    BY <1>0, JobAssumption DEF TypeStore
  <2>3. policy[EventOf[j]] # "unset"
    BY <1>2, JobAssumption
    DEF CoreInvariant, NothingBeforeTheEvent, ClaimJob, Claimable, JobsOf
  <2>4. TypeWorkers'
    BY <1>0, <1>2, <2>1, <2>2, TimingAssumption DEF ClaimJob, TypeWorkers,
       Places
  <2>5. WorkersHoldJobs'
    BY <1>0, <1>2, <2>1, <2>3 DEF ClaimJob, WorkersHoldJobs, TypeWorkers,
       storeVars, eventVars, ghostVars
  <2>. QED
    BY <2>4, <2>5
<1>3. ASSUME NEW w \in Worker,
             PrepareFails(w) \/ BeginSend(w) \/ RemoteAccepts(w)
                \/ SendReturns(w, "ok") \/ SendReturns(w, "failed")
      PROVE  TypeWorkers' /\ WorkersHoldJobs'
  <2>1. TypeWorkers'
    BY <1>0, <1>3
    DEF PrepareFails, BeginSend, RemoteAccepts, SendReturns, TypeWorkers,
        Places, Outcomes
  <2>2. WorkersHoldJobs'
    BY <1>0, <1>3
    DEF PrepareFails, BeginSend, RemoteAccepts, SendReturns, WorkersHoldJobs,
        TypeWorkers, storeVars, eventVars, ghostVars
  <2>. QED
    BY <2>1, <2>2
<1>4. ASSUME NEW w \in Worker, FinishAttempt(w)
      PROVE  TypeWorkers' /\ WorkersHoldJobs'
  BY <1>0, <1>4 DEF FinishAttempt, TypeWorkers, WorkersHoldJobs, Places,
     storeVars, eventVars, ghostVars
<1>5. ASSUME NEW w \in Worker,
             FinishFails(w) \/ ReplacePayload(w) \/ FinalizeFails(w)
      PROVE  TypeWorkers' /\ WorkersHoldJobs'
  BY <1>0, <1>5, ReleaseType, ReleaseHolds DEF FinishFails, ReplacePayload,
     FinalizeFails, storeVars, eventVars, ghostVars
<1>6. ASSUME NEW w \in Worker, ReadPolicy(w)
      PROVE  TypeWorkers' /\ WorkersHoldJobs'
  <2>1. UNCHANGED <<policy, accepted>>
    BY <1>6 DEF ReadPolicy, storeVars, eventVars, ghostVars
  <2>2. CASE ReleaseWorkers({w})
    BY <1>0, <2>1, <2>2, ReleaseType, ReleaseHolds
  <2>3. CASE /\ pc[w] = "settle" /\ pc' = [pc EXCEPT ![w] = "replace"]
             /\ UNCHANGED <<held, try, snap, outcome, elapsed>>
    BY <1>0, <2>1, <2>3 DEF TypeWorkers, WorkersHoldJobs, Places
  <2>. QED
    BY <1>6, <2>2, <2>3 DEF ReadPolicy
<1>7. CASE Crash
  BY <1>0, <1>7, ReleaseType, ReleaseHolds DEF Crash, eventVars
<1>8. CASE Tick
  <2>1. ASSUME NEW w \in Worker, pc[w] # "idle"
        PROVE  elapsed[w] + 1 \in 0 .. HoldLimit
    <3>1. elapsed[w] < Deadline(w) /\ elapsed[w] \in Nat
      BY <1>0, <1>8, <2>1, TimingAssumption DEF Tick, TypeWorkers
    <3>2. Deadline(w) \in Nat /\ Deadline(w) <= HoldLimit
      BY TimingAssumption DEF Deadline
    <3>. QED
      BY <3>1, <3>2, TimingAssumption
  <2>. QED
    BY <1>0, <1>8, <2>1, TimingAssumption DEF Tick, TypeWorkers,
       WorkersHoldJobs, storeVars, eventVars, ghostVars
<1>9. CASE UNCHANGED <<workerVars, policy, accepted>>
  BY <1>0, <1>9 DEF workerVars, TypeWorkers, WorkersHoldJobs
<1>10. ASSUME NEW j \in Job, RetryJob(j)
       PROVE  UNCHANGED <<workerVars, policy, accepted>>
  BY <1>10 DEF RetryJob, storeVars, eventVars
<1>11. ASSUME NEW B \in SUBSET Binding, SaveGroup(B) \/ DeleteBindings(B)
       PROVE  UNCHANGED <<workerVars, policy, accepted>>
  BY <1>11 DEF SaveGroup, DeleteBindings, CascadeBindings, eventVars
<1>12. ASSUME NEW E \in SUBSET Event, PurgePayloads(E) \/ DeleteOldEvents(E)
       PROVE  UNCHANGED <<workerVars, policy, accepted>>
  BY <1>12 DEF PurgePayloads, DeleteOldEvents, ghostVars
<1>13. CASE UNCHANGED vars
  BY <1>9, <1>13 DEF vars, storeVars, eventVars, ghostVars
<1>. QED
  BY <1>1, <1>2, <1>3, <1>4, <1>5, <1>6, <1>7, <1>8, <1>9, <1>10, <1>11, <1>12,
     <1>13 DEF Next, WorkerStep

\* The columns of events and the rows of target_bindings keep their types.
LEMMA TypeStoreStep ==
    CoreInvariant /\ [Next]_vars => TypeStore'
<1>. SUFFICES ASSUME CoreInvariant, [Next]_vars
              PROVE  TypeStore'
  OBVIOUS
<1>0. TypeStore
  BY DEF CoreInvariant, TypeOK
<1>1. ASSUME NEW e \in Event, NEW p \in Policies, NEW B \in SUBSET Binding,
             AcceptEvent(e, p, B)
      PROVE  TypeStore'
  BY <1>0, <1>1 DEF AcceptEvent, TypeStore, Payloads
<1>2. ASSUME NEW w \in Worker, ReplacePayload(w)
      PROVE  TypeStore'
  BY <1>0, <1>2 DEF ReplacePayload, Retained, TypeStore, Payloads
<1>3. ASSUME NEW B \in SUBSET Binding, SaveGroup(B) \/ DeleteBindings(B)
      PROVE  TypeStore'
  BY <1>0, <1>3
  DEF SaveGroup, DeleteBindings, CascadeBindings, eventVars, TypeStore
<1>4. ASSUME NEW E \in SUBSET Event, PurgePayloads(E) \/ DeleteOldEvents(E)
      PROVE  TypeStore'
  BY <1>0, <1>4 DEF PurgePayloads, DeleteOldEvents, TypeStore, Payloads
<1>5. CASE Crash
  BY <1>0, <1>5 DEF Crash, eventVars, TypeStore
<1>6. CASE UNCHANGED storeVars
  BY <1>0, <1>6 DEF storeVars, eventVars, TypeStore
<1>7. ASSUME NEW w \in Worker, WorkerStep(w), ~ReplacePayload(w)
      PROVE  UNCHANGED storeVars
  BY <1>7 DEF WorkerStep, ClaimJob, PrepareFails, BeginSend, RemoteAccepts,
     SendReturns, FinishAttempt, FinishFails, ReadPolicy, FinalizeFails
<1>. QED
  BY <1>1, <1>2, <1>3, <1>4, <1>5, <1>6, <1>7 DEF Next, RetryJob, Tick, vars

\* The quota and the history variables keep their types.
LEMMA TypeHistoryStep ==
    CoreInvariant /\ [Next]_vars => TypeHistory'
<1>. SUFFICES ASSUME CoreInvariant, [Next]_vars
              PROVE  TypeHistory'
  OBVIOUS
<1>0. TypeHistory /\ TypeWorkers /\ WorkersHoldJobs
  BY DEF CoreInvariant, TypeOK
<1>1. ASSUME NEW w \in Worker, RemoteAccepts(w)
      PROVE  TypeHistory'
  BY <1>0, <1>1 DEF RemoteAccepts, WorkersHoldJobs, TypeHistory
<1>2. ASSUME NEW w \in Worker, FinishFails(w) \/ FinalizeFails(w)
      PROVE  TypeHistory'
  BY <1>0, <1>2, DisturbType, JobAssumption
  DEF FinishFails, FinalizeFails, WorkersHoldJobs, ghostVars, TypeHistory
<1>3. ASSUME NEW j \in Job, RetryJob(j)
      PROVE  TypeHistory'
  BY <1>0, <1>3, DisturbType, JobAssumption DEF RetryJob, TypeHistory
<1>4. ASSUME NEW B \in SUBSET Binding, SaveGroup(B) \/ DeleteBindings(B)
      PROVE  TypeHistory'
  BY <1>0, <1>4, DisturbType, JobAssumption
  DEF SaveGroup, DeleteBindings, CascadeBindings, TypeHistory
<1>5. ASSUME NEW E \in SUBSET Event, PurgePayloads(E)
      PROVE  TypeHistory'
  BY <1>0, <1>5, DisturbType DEF PurgePayloads, TypeHistory
<1>6. CASE Crash
  <2>1. \A w \in Worker : pc[w] \in {"settle", "replace"}
      => EventOf[held[w]] \in Event
    BY <1>0, JobAssumption DEF WorkersHoldJobs
  <2>. QED
    BY <1>0, <1>6, <2>1, DisturbType DEF Crash, TypeHistory
<1>7. CASE UNCHANGED <<left, ghostVars>>
  BY <1>0, <1>7 DEF ghostVars, TypeHistory
<1>8. ASSUME NEW w \in Worker, WorkerStep(w), ~RemoteAccepts(w),
             ~FinishFails(w), ~FinalizeFails(w)
      PROVE  UNCHANGED <<left, ghostVars>>
  BY <1>8 DEF WorkerStep, ClaimJob, PrepareFails, BeginSend,
     SendReturns, FinishAttempt, ReplacePayload, ReadPolicy
<1>. QED
  BY <1>1, <1>2, <1>3, <1>4, <1>5, <1>6, <1>7, <1>8 DEF Next, AcceptEvent,
     DeleteOldEvents, Tick, vars

\* A message the channel accepted stays accepted.
LEMMA AcceptedGrows ==
    [Next]_vars => accepted \subseteq accepted'
<1>. SUFFICES ASSUME [Next]_vars PROVE accepted \subseteq accepted'
  OBVIOUS
<1>1. ASSUME NEW w \in Worker, WorkerStep(w) PROVE accepted \subseteq accepted'
  BY <1>1 DEF WorkerStep, ClaimJob, PrepareFails, BeginSend, RemoteAccepts,
     SendReturns, FinishAttempt, FinishFails, ReadPolicy, ReplacePayload,
     FinalizeFails, ghostVars
<1>. QED
  BY <1>1 DEF Next, AcceptEvent, RetryJob, SaveGroup, DeleteBindings,
     CascadeBindings, PurgePayloads, DeleteOldEvents, Crash, Tick, vars,
     ghostVars

\* No step makes a job a success that the channel never accepted.
LEMMA SuccessStep ==
    CoreInvariant /\ [Next]_vars => SuccessWasAccepted'
<1>. SUFFICES ASSUME CoreInvariant, JobStep \/ UNCHANGED jobVars,
                     accepted \subseteq accepted'
              PROVE  SuccessWasAccepted'
  BY JobSteps, AcceptedGrows
<1>0. TypeJobs /\ SuccessWasAccepted
  BY DEF CoreInvariant, TypeOK
<1>1. ASSUME NEW w \in Worker, FinishAttempt(w)
      PROVE  SuccessWasAccepted'
  <2>1. outcome[w] = "ok" => held[w] \in accepted
    BY DEF CoreInvariant, WorkersHoldJobs
  <2>2. held[w] \in Job
    BY <1>1 DEF CoreInvariant, WorkersHoldJobs, FinishAttempt
  <2>3. \A j \in Job : status'[j] = "success" /\ j # held[w]
      => status[j] = "success"
    BY <1>0, <1>1, <2>2 DEF FinishAttempt, TypeJobs
  <2>4. status'[held[w]] = "success" => outcome[w] = "ok"
    BY <1>0, <1>1, <2>2 DEF FinishAttempt, TypeJobs, StatusAfter
  <2>. QED
    BY <1>0, <2>1, <2>3, <2>4 DEF SuccessWasAccepted
<1>2. ASSUME ~ \E w \in Worker : FinishAttempt(w)
      PROVE  \A j \in Job : status'[j] = "success" => status[j] = "success"
  BY <1>0, <1>2 DEF JobStep, AcceptEvent, ClaimJob, RetryJob, RemoveJobs,
     Tick, jobVars, TypeJobs
<1>. QED
  BY <1>0, <1>1, <1>2 DEF SuccessWasAccepted

\* Jobs and payloads come with their event, never before it.
LEMMA EventsFirstStep ==
    CoreInvariant /\ [Next]_vars => NothingBeforeTheEvent'
<1>. SUFFICES ASSUME CoreInvariant, [Next]_vars
              PROVE  NothingBeforeTheEvent'
  OBVIOUS
<1>0. TypeJobs /\ TypeStore /\ NothingBeforeTheEvent /\ WorkersHoldJobs
  BY DEF CoreInvariant, TypeOK
<1>1. ASSUME NEW e \in Event, NEW p \in Policies, NEW B \in SUBSET Binding,
             AcceptEvent(e, p, B)
      PROVE  NothingBeforeTheEvent'
  <2>1. p # "unset"
    BY PolicyAssumption
  <2>. QED
    BY <1>0, <1>1, <2>1 DEF AcceptEvent, NothingBeforeTheEvent, TypeStore,
       TypeJobs, JobsOf
<1>2. ASSUME policy' = policy,
             \A j \in Job : status[j] = "absent" => status'[j] = "absent",
             \A e \in Event : payload[e] = "absent" => payload'[e] = "absent"
      PROVE  NothingBeforeTheEvent'
  BY <1>0, <1>2 DEF NothingBeforeTheEvent, JobsOf
<1>3. ASSUME NEW w \in Worker, WorkerStep(w)
      PROVE  NothingBeforeTheEvent'
  <2>1. policy' = policy
    BY <1>3 DEF WorkerStep, ClaimJob, PrepareFails, BeginSend, RemoteAccepts,
       SendReturns, FinishAttempt, FinishFails, ReadPolicy, ReplacePayload,
       FinalizeFails, storeVars, eventVars
  <2>2. \A j \in Job : status[j] = "absent" => status'[j] = "absent"
    BY <1>0, <1>3 DEF WorkerStep, ClaimJob, Claimable, PrepareFails,
       BeginSend, RemoteAccepts,
       SendReturns, FinishAttempt, FinishFails, ReadPolicy, ReplacePayload,
       FinalizeFails, jobVars, TypeJobs
  <2>3. \A e \in Event : payload[e] = "absent" => payload'[e] = "absent"
    BY <1>0, <1>3 DEF WorkerStep, ClaimJob, PrepareFails, BeginSend,
       RemoteAccepts,
       SendReturns, FinishAttempt, FinishFails, ReadPolicy, ReplacePayload,
       FinalizeFails, storeVars, eventVars, TypeStore
  <2>. QED
    BY <1>2, <2>1, <2>2, <2>3
<1>4. ASSUME NEW j \in Job, RetryJob(j)
      PROVE  NothingBeforeTheEvent'
  BY <1>0, <1>2, <1>4 DEF RetryJob, storeVars, eventVars, TypeJobs
<1>5. ASSUME NEW B \in SUBSET Binding, SaveGroup(B) \/ DeleteBindings(B)
      PROVE  NothingBeforeTheEvent'
  BY <1>0, <1>2, <1>5 DEF SaveGroup, DeleteBindings, CascadeBindings,
     RemoveJobs, eventVars, TypeJobs
<1>6. ASSUME NEW E \in SUBSET Event, PurgePayloads(E) \/ DeleteOldEvents(E)
      PROVE  NothingBeforeTheEvent'
  BY <1>0, <1>2, <1>6 DEF PurgePayloads, DeleteOldEvents, RemoveJobs, jobVars,
     TypeJobs, TypeStore
<1>7. CASE Crash
  BY <1>2, <1>7 DEF Crash, jobVars, eventVars
<1>8. CASE Tick
  BY <1>2, <1>8 DEF Tick, storeVars, eventVars
<1>9. CASE UNCHANGED vars
  BY <1>2, <1>9 DEF vars, jobVars, storeVars, eventVars
<1>. QED
  BY <1>1, <1>3, <1>4, <1>5, <1>6, <1>7, <1>8, <1>9 DEF Next

\* Once an event is stored its payload never becomes the received one again.
LEMMA NotRawStep ==
    ASSUME CoreInvariant, [Next]_vars, NEW e \in Event,
           payload[e] # "raw", policy[e] # "unset"
    PROVE  payload'[e] # "raw"
<1>0. TypeStore
  BY DEF CoreInvariant, TypeOK
<1>1. ASSUME NEW w \in Worker, WorkerStep(w)
      PROVE  payload'[e] # "raw"
  BY <1>0, <1>1 DEF WorkerStep, ClaimJob, PrepareFails, BeginSend,
     RemoteAccepts,
     SendReturns, FinishAttempt, FinishFails, ReadPolicy, ReplacePayload,
     Retained,
     FinalizeFails, storeVars, eventVars, TypeStore
<1>2. ASSUME NEW f \in Event, NEW p \in Policies, NEW B \in SUBSET Binding,
             AcceptEvent(f, p, B)
      PROVE  payload'[e] # "raw"
  BY <1>0, <1>2 DEF AcceptEvent, TypeStore
<1>. QED
  BY <1>0, <1>1, <1>2
  DEF Next, RetryJob, SaveGroup, DeleteBindings, CascadeBindings, PurgePayloads,
      DeleteOldEvents, Crash, Tick, vars, storeVars, eventVars, TypeStore

\* A worker that read no payload holds a job of an event that has none to mask.
LEMMA EmptyHandedStep ==
    CoreInvariant /\ [Next]_vars => EmptyHanded'
<1>. SUFFICES ASSUME CoreInvariant, [Next]_vars
              PROVE  EmptyHanded'
  OBVIOUS
<1>0. TypeStore /\ TypeWorkers /\ WorkersHoldJobs /\ EmptyHanded
  BY DEF CoreInvariant, TypeOK
<1>1. ASSUME NEW w \in Worker, pc'[w] # "idle", snap'[w] = "null",
             pc[w] # "idle", snap[w] = "null", held'[w] = held[w]
      PROVE  payload'[EventOf[held'[w]]] # "raw"
  BY <1>0, <1>1, NotRawStep, JobAssumption DEF WorkersHoldJobs, EmptyHanded
<1>2. ASSUME NEW W, ReleaseWorkers(W)
      PROVE  EmptyHanded'
  BY <1>1, <1>2 DEF ReleaseWorkers, EmptyHanded
<1>3. CASE UNCHANGED <<held, snap>> /\ \A w \in Worker : pc'[w] # "idle"
    => pc[w] # "idle"
  BY <1>1, <1>3 DEF EmptyHanded
<1>4. ASSUME NEW v \in Worker, NEW j \in Job, ClaimJob(v, j)
      PROVE  EmptyHanded'
  <2>1. ASSUME NEW w \in Worker, w # v, pc'[w] # "idle", snap'[w] = "null"
        PROVE  payload'[EventOf[held'[w]]] # "raw"
    BY <1>0, <1>1, <1>4, <2>1 DEF ClaimJob, TypeWorkers
  <2>2. snap'[v] = "null" => payload'[EventOf[held'[v]]] # "raw"
    BY <1>0, <1>4 DEF ClaimJob, TypeWorkers, storeVars, eventVars
  <2>. QED
    BY <2>1, <2>2 DEF EmptyHanded
<1>5. ASSUME NEW v \in Worker, WorkerStep(v)
      PROVE  EmptyHanded'
  <2>1. CASE PrepareFails(v) \/ BeginSend(v) \/ RemoteAccepts(v)
    BY <1>0, <1>3, <2>1 DEF PrepareFails, BeginSend, RemoteAccepts, TypeWorkers
  <2>2. CASE SendReturns(v, "ok") \/ SendReturns(v,
  "failed") \/ FinishAttempt(v)
    BY <1>0, <1>3, <2>2 DEF SendReturns, FinishAttempt, TypeWorkers
  <2>3. CASE FinishFails(v) \/ ReplacePayload(v) \/ FinalizeFails(v)
    BY <1>2, <2>3 DEF FinishFails, ReplacePayload, FinalizeFails
  <2>4. CASE ReadPolicy(v)
    <3>1. CASE ReleaseWorkers({v})
      BY <1>2, <3>1
    <3>2. CASE /\ pc[v] = "settle" /\ pc' = [pc EXCEPT ![v] = "replace"]
               /\ UNCHANGED <<held, try, snap, outcome, elapsed>>
      BY <1>0, <1>3, <3>2 DEF TypeWorkers
    <3>. QED
      BY <2>4, <3>1, <3>2 DEF ReadPolicy
  <2>. QED
    BY <1>4, <1>5, <2>1, <2>2, <2>3, <2>4 DEF WorkerStep
<1>6. CASE Crash
  BY <1>2, <1>6 DEF Crash
<1>. QED
  BY <1>3, <1>5, <1>6
  DEF Next, AcceptEvent, RetryJob, SaveGroup, DeleteBindings, CascadeBindings,
      PurgePayloads, DeleteOldEvents, Tick, vars, workerVars

\* Complete, now and in the next state, in terms the provers can use.
LEMMA CompleteDef ==
    ASSUME NEW e \in Event
    PROVE  /\ Complete(e) <=>
                /\ \E j \in Job : EventOf[j] = e /\ status[j] # "absent"
                /\ \A j \in Job : EventOf[j] = e
                    => status[j] \in Terminal \cup {"absent"}
           /\ Complete(e)' <=>
                /\ \E j \in Job : EventOf[j] = e /\ status'[j] # "absent"
                /\ \A j \in Job : EventOf[j] = e
                    => status'[j] \in Terminal \cup {"absent"}
<1>1. Complete(e) <=>
        /\ \E j \in Job : EventOf[j] = e /\ status[j] # "absent"
        /\ \A j \in Job : EventOf[j] = e
            => status[j] \in Terminal \cup {"absent"}
  BY DEF Complete, RowsOf, JobsOf
<1>2. Complete(e)' <=>
        /\ \E j \in Job : EventOf[j] = e /\ status'[j] # "absent"
        /\ \A j \in Job : EventOf[j] = e
            => status'[j] \in Terminal \cup {"absent"}
  BY DEF Complete, RowsOf, JobsOf
<1>. QED
  BY <1>1, <1>2

\* Some worker is about to finalise the event.
Settling(e) ==
    \E w \in Worker : pc[w] \in {"settle", "replace"} /\ EventOf[held[w]] = e

\* However the last job of an event ends, the payload has been masked or
\* dropped by the time nobody is about to do it, unless that was cut short.
LEMMA PolicyStep ==
    CoreInvariant /\ [Next]_vars => PolicyApplied'
<1>. SUFFICES ASSUME CoreInvariant, [Next]_vars, NEW e \in Event,
e \notin missed',
                     Complete(e)', ~Settling(e)'
              PROVE  payload'[e] # "raw"
  BY DEF PolicyApplied, Settling
<1>0. /\ TypeJobs /\ TypeStore /\ TypeWorkers /\ WorkersHoldJobs /\ EmptyHanded
      /\ NothingBeforeTheEvent
      /\ e \notin missed /\ Complete(e) /\ ~Settling(e) => payload[e] # "raw"
  BY DEF CoreInvariant, TypeOK, PolicyApplied, Settling
<1>1. CASE /\ Complete(e) /\ ~Settling(e) /\ missed \subseteq missed' 
           /\ policy[e] # "unset"
  BY <1>0, <1>1, NotRawStep
<1>2. Complete(e) => policy[e] # "unset"
  BY <1>0, CompleteDef DEF NothingBeforeTheEvent, JobsOf
<1>3. ASSUME NEW p \in Policies, NEW f \in Event, NEW B \in SUBSET Binding,
             AcceptEvent(f, p, B)
      PROVE  payload'[e] # "raw"
  <2>1. Complete(e) /\ ~Settling(e)
    <3>1. \A j \in Job : status'[j] = status[j] \/ status'[j] = "pending"
      BY <1>0, <1>3 DEF AcceptEvent, TypeJobs
    <3>2. \A j \in Job : EventOf[j] = e => status'[j] = status[j]
      BY <3>1, CompleteDef DEF Terminal
    <3>. QED
      BY <1>3, <3>2, CompleteDef DEF AcceptEvent, Settling, workerVars
  <2>. QED
    BY <1>1, <1>2, <1>3, <2>1 DEF AcceptEvent, ghostVars
<1>4. ASSUME NEW w \in Worker, NEW j \in Job, ClaimJob(w, j)
      PROVE  payload'[e] # "raw"
  <2>1. EventOf[j] # e
    BY <1>0, <1>4, CompleteDef DEF ClaimJob, TypeJobs, Terminal
  <2>2. Complete(e) /\ ~Settling(e)
    <3>1. \A k \in Job : EventOf[k] = e => status'[k] = status[k]
      BY <1>0, <1>4, <2>1 DEF ClaimJob, TypeJobs
    <3>2. \A v \in Worker : pc[v] \in {"settle", "replace"}
             => pc'[v] = pc[v] /\ held'[v] = held[v]
      BY <1>0, <1>4 DEF ClaimJob, TypeWorkers
    <3>. QED
      BY <3>1, <3>2, CompleteDef DEF Settling
  <2>. QED
    BY <1>1, <1>2, <1>4, <2>2 DEF ClaimJob, ghostVars
<1>5. ASSUME NEW w \in Worker,
             PrepareFails(w) \/ BeginSend(w) \/ RemoteAccepts(w)
                \/ SendReturns(w, "ok") \/ SendReturns(w, "failed")
                \/ FinishFails(w)
      PROVE  payload'[e] # "raw"
  <2>1. status' = status /\ missed' = missed
    BY <1>5 DEF PrepareFails, BeginSend, RemoteAccepts, SendReturns,
       FinishFails, jobVars, ghostVars
  <2>2. \A v \in Worker : pc[v] \in {"settle", "replace"}
           => pc'[v] = pc[v] /\ held'[v] = held[v]
    BY <1>0, <1>5 DEF PrepareFails, BeginSend, RemoteAccepts, SendReturns,
       FinishFails, ReleaseWorkers, TypeWorkers
  <2>. QED
    BY <1>1, <1>2, <2>1, <2>2, CompleteDef DEF Settling
<1>6. ASSUME NEW w \in Worker, FinishAttempt(w)
      PROVE  payload'[e] # "raw"
  <2>1. held'[w] = held[w] /\ pc'[w] = "settle"
    BY <1>0, <1>6 DEF FinishAttempt, TypeWorkers
  <2>2. EventOf[held[w]] # e
    BY <2>1 DEF Settling
  <2>3. \A k \in Job : EventOf[k] = e => status'[k] = status[k]
    BY <1>0, <1>6, <2>2 DEF FinishAttempt, TypeJobs
  <2>4. \A v \in Worker : pc[v] \in {"settle", "replace"}
           => pc'[v] = pc[v] /\ held'[v] = held[v]
    BY <1>0, <1>6 DEF FinishAttempt, TypeWorkers
  <2>. QED
    BY <1>1, <1>2, <1>6, <2>3, <2>4, CompleteDef DEF Settling, FinishAttempt,
       ghostVars
<1>7. ASSUME NEW w \in Worker, ReadPolicy(w)
      PROVE  payload'[e] # "raw"
  <2>1. Complete(e) /\ missed' = missed /\ payload' = payload
    BY <1>7, CompleteDef DEF ReadPolicy, jobVars, ghostVars, storeVars,
       eventVars
  <2>2. CASE EventOf[held[w]] # e
    <3>1. \A v \in Worker : v # w => pc'[v] = pc[v] /\ held'[v] = held[v]
      BY <1>0, <1>7 DEF ReadPolicy, ReleaseWorkers, TypeWorkers
    <3>. QED
      BY <1>1, <1>2, <2>1, <2>2, <3>1 DEF Settling
  <2>3. CASE EventOf[held[w]] = e
    <3>1. ~(pc'[w] = "replace" /\ held' = held)
      BY <2>3 DEF Settling
    <3>2. snap[w] = "null"
      BY <1>0, <1>7, <2>1, <2>3, <3>1 DEF ReadPolicy, TypeWorkers
    <3>. QED
      BY <1>0, <1>7, <2>1, <2>3, <3>2 DEF EmptyHanded, ReadPolicy
  <2>. QED
    BY <2>2, <2>3
<1>8. ASSUME NEW w \in Worker, ReplacePayload(w)
      PROVE  payload'[e] # "raw"
  <2>1. CASE EventOf[held[w]] = e
    BY <1>0, <1>8, <2>1 DEF ReplacePayload, Retained, TypeStore
  <2>2. CASE EventOf[held[w]] # e
    <3>1. \A v \in Worker : v # w => pc'[v] = pc[v] /\ held'[v] = held[v]
      BY <1>0, <1>8 DEF ReplacePayload, ReleaseWorkers
    <3>2. status' = status /\ missed' = missed
      BY <1>8 DEF ReplacePayload, jobVars, ghostVars
    <3>. QED
      BY <1>1, <1>2, <2>2, <3>1, <3>2, CompleteDef DEF Settling
  <2>. QED
    BY <2>1, <2>2
<1>9. ASSUME NEW W, ReleaseWorkers(W), status' = status,
             missed' = missed \cup {EventOf[held[w]] :
                w \in {v \in Worker :
                         v \in W /\ pc[v] \in {"settle", "replace"}}}
      PROVE  payload'[e] # "raw"
  <2>1. \A v \in Worker :
           pc[v] \in {"settle", "replace"} /\ EventOf[held[v]] = e
           => pc'[v] = pc[v] /\ held'[v] = held[v]
    BY <1>9 DEF ReleaseWorkers
  <2>. QED
    BY <1>1, <1>2, <1>9, <2>1, CompleteDef DEF Settling
<1>10. ASSUME NEW w \in Worker, FinalizeFails(w)
       PROVE  payload'[e] # "raw"
  <2>1. missed' = missed \cup {EventOf[held[u]] :
           u \in {v \in Worker : v \in {w} /\ pc[v] \in {"settle", "replace"}}}
    BY <1>10 DEF FinalizeFails
  <2>. QED
    BY <1>9, <1>10, <2>1 DEF FinalizeFails, jobVars
<1>11. CASE Crash
  <2>1. missed' = missed \cup {EventOf[held[u]] :
           u \in {v \in Worker :
                    v \in Worker /\ pc[v] \in {"settle", "replace"}}}
    BY <1>11 DEF Crash
  <2>. QED
    BY <1>9, <1>11, <2>1 DEF Crash, jobVars
<1>12. ASSUME NEW j \in Job, RetryJob(j)
       PROVE  payload'[e] # "raw"
  <2>1. EventOf[j] # e
    BY <1>0, <1>12, CompleteDef DEF RetryJob, TypeJobs, Terminal
  <2>2. \A k \in Job : EventOf[k] = e => status'[k] = status[k]
    BY <1>0, <1>12, <2>1 DEF RetryJob, TypeJobs
  <2>. QED
    BY <1>1, <1>2, <1>12, <2>2, CompleteDef DEF Settling, RetryJob, workerVars
<1>13. ASSUME NEW B \in SUBSET Binding, CascadeBindings(B)
       PROVE  payload'[e] # "raw"
  <2>1. ~Settling(e) /\ missed \subseteq missed'
    BY <1>13 DEF CascadeBindings, workerVars, Settling
  <2>2. Complete(e)
    <3>1. \A k \in Job : status'[k] # status[k]
        => status'[k] = "absent" /\ BindingOf[k] \in B
      BY <1>0, <1>13 DEF CascadeBindings, RemoveJobs, TypeJobs
    <3>2. \A k \in Job : BindingOf[k] \in B /\ status[k] \in Active
        => EventOf[k] \in missed'
      BY <1>13 DEF CascadeBindings
    <3>3. \A k \in Job : EventOf[k] = e /\ status'[k] # status[k]
        => status[k] \in Terminal \cup {"absent"}
      BY <1>0, <3>1, <3>2 DEF TypeJobs, Statuses
    <3>4. \A k \in Job : status'[k] # "absent" => status'[k] = status[k]
      BY <3>1
    <3>. QED
      BY <3>3, <3>4, CompleteDef
  <2>. QED
    BY <1>1, <1>2, <2>1, <2>2
<1>14. ASSUME NEW E \in SUBSET Event, PurgePayloads(E)
       PROVE  payload'[e] # "raw"
  BY <1>1, <1>2, <1>14, CompleteDef DEF PurgePayloads, jobVars, workerVars,
     Settling
<1>15. ASSUME NEW D \in SUBSET Event, DeleteOldEvents(D)
       PROVE  payload'[e] # "raw"
  <2>1. CASE e \in D
    BY <1>0, <1>15, <2>1 DEF DeleteOldEvents
  <2>2. CASE e \notin D
    <3>1. \A k \in Job : EventOf[k] = e => status'[k] = status[k]
      BY <1>0, <1>15, <2>2 DEF DeleteOldEvents, RemoveJobs, TypeJobs
    <3>. QED
      BY <1>1, <1>2, <1>15, <3>1, CompleteDef DEF DeleteOldEvents, workerVars,
         ghostVars, Settling
  <2>. QED
    BY <2>1, <2>2
<1>16. CASE Tick \/ UNCHANGED vars
  BY <1>1, <1>2, <1>16, CompleteDef DEF Tick, vars, jobVars, workerVars,
     ghostVars, Settling
<1>. QED
  BY <1>3, <1>4, <1>5, <1>6, <1>7, <1>8, <1>10, <1>11, <1>12, <1>13, <1>14,
     <1>15,
     <1>16 DEF Next, WorkerStep, SaveGroup, DeleteBindings

\* A payload that was masked or dropped is not written back as received.
LEMMA MaskedStep ==
    ASSUME CoreInvariant, [Next]_vars, NEW e \in Event,
           payload[e] \in {"redacted", "null"}
    PROVE  payload'[e] # "raw"
<1>0. TypeStore /\ NothingBeforeTheEvent
  BY DEF CoreInvariant, TypeOK
<1>1. ASSUME NEW w \in Worker, WorkerStep(w)
      PROVE  payload'[e] # "raw"
  BY <1>0, <1>1 DEF WorkerStep, ClaimJob, PrepareFails, BeginSend,
     RemoteAccepts,
     SendReturns, FinishAttempt, FinishFails, ReadPolicy, ReplacePayload,
     Retained, FinalizeFails, storeVars, eventVars, TypeStore
<1>2. ASSUME NEW f \in Event, NEW p \in Policies, NEW B \in SUBSET Binding,
             AcceptEvent(f, p, B)
      PROVE  payload'[e] # "raw"
  BY <1>0, <1>2 DEF AcceptEvent, NothingBeforeTheEvent, TypeStore
<1>. QED
  BY <1>0, <1>1, <1>2 DEF Next, RetryJob, SaveGroup, DeleteBindings,
     CascadeBindings,
     PurgePayloads, DeleteOldEvents, Crash, Tick, vars, storeVars, eventVars,
     TypeStore

--------------------------------------------------------------------------------

\* The initial state satisfies the invariant.
LEMMA CoreInit ==
    Init => CoreInvariant
<1>. SUFFICES ASSUME Init PROVE CoreInvariant
  OBVIOUS
<1>1. TypeOK
  <2>1. TypeJobs
    BY TimingAssumption DEF Init, TypeJobs, Statuses, NoLock
  <2>2. TypeStore
    BY DEF Init, TypeStore, Payloads
  <2>3. TypeWorkers
    BY TimingAssumption DEF Init, TypeWorkers, Places, Payloads, Outcomes
  <2>4. TypeHistory
    BY QuotaAssumption DEF Init, TypeHistory
  <2>. QED
    BY <2>1, <2>2, <2>3, <2>4 DEF TypeOK
<1>2. WorkersHoldJobs /\ EmptyHanded
  BY DEF Init, WorkersHoldJobs, EmptyHanded
<1>3. AbsentJobsAreEmpty /\ NothingBeforeTheEvent
  BY DEF Init, AbsentJobsAreEmpty, NothingBeforeTheEvent, JobsOf
<1>4. AttemptsLeft /\ SuccessWasAccepted
  BY DEF Init, AttemptsLeft, SuccessWasAccepted, Active, NoLock
<1>5. LogMatchesJob
  BY DEF Init, LogMatchesJob, LatestRowCounts, Terminal
<1>6. PolicyApplied
  BY DEF Init, PolicyApplied, Complete, RowsOf, JobsOf
<1>. QED
  BY <1>1, <1>2, <1>3, <1>4, <1>5, <1>6 DEF CoreInvariant

\* Every step keeps it.
LEMMA CoreStep ==
    CoreInvariant /\ [Next]_vars => CoreInvariant'
<1>. SUFFICES ASSUME CoreInvariant, [Next]_vars PROVE CoreInvariant'
  OBVIOUS
<1>1. TypeOK'
  BY TypeJobsStep, TypeStoreStep, TypeWorkersStep, TypeHistoryStep DEF TypeOK
<1>2. WorkersHoldJobs' /\ EmptyHanded'
  BY TypeWorkersStep, EmptyHandedStep
<1>3. AbsentJobsAreEmpty' /\ AttemptsLeft' /\ LogMatchesJob'
  BY JobColumnsStep
<1>4. NothingBeforeTheEvent' /\ SuccessWasAccepted' /\ PolicyApplied'
  BY EventsFirstStep, SuccessStep, PolicyStep
<1>. QED
  BY <1>1, <1>2, <1>3, <1>4 DEF CoreInvariant

\* CoreInvariant holds in every reachable state of the queue, however many
\* workers, events and jobs there are, and however late a worker comes.
THEOREM CoreIsInvariant ==
    Spec => []CoreInvariant
  BY CoreInit, CoreStep, PTL DEF Spec

\* Every variable keeps to its type: no attempt is numbered beyond MaxAttempts,
\* and no worker takes longer than HoldLimit.
THEOREM TypeCorrect ==
    Spec => []TypeOK
<1>1. CoreInvariant => TypeOK
  BY DEF CoreInvariant
<1>. QED
  BY <1>1, CoreIsInvariant, PTL

\* A job that can be claimed has an attempt left, so backoff in FinishAttempt is
\* never indexed beyond its table; a job is locked just while it is processing.
THEOREM AttemptsAreLeft ==
    Spec => []AttemptsLeft
<1>1. CoreInvariant => AttemptsLeft
  BY DEF CoreInvariant
<1>. QED
  BY <1>1, CoreIsInvariant, PTL

\* A job is marked delivered only if the channel accepted its message.
THEOREM SuccessIsAcceptance ==
    Spec => []SuccessWasAccepted
<1>1. CoreInvariant => SuccessWasAccepted
  BY DEF CoreInvariant
<1>. QED
  BY <1>1, CoreIsInvariant, PTL

\* The job's row and the last row of its log agree, also when several workers
\* finish attempts of the same job in any order.
THEOREM LogAgreesWithJob ==
    Spec => []LogMatchesJob
<1>1. CoreInvariant => LogMatchesJob
  BY DEF CoreInvariant
<1>. QED
  BY <1>1, CoreIsInvariant, PTL

\* The payload policy has been applied to every event whose jobs are all done,
\* once nobody is about to apply it.
THEOREM PolicyIsApplied ==
    Spec => []PolicyApplied
<1>1. CoreInvariant => PolicyApplied
  BY DEF CoreInvariant
<1>. QED
  BY <1>1, CoreIsInvariant, PTL

\* A masked or dropped payload is never written back as it was received.
THEOREM MaskedForGood ==
    Spec => PayloadStaysMasked
<1>1. CoreInvariant /\ [Next]_vars
        => [\A e \in Event :
              payload[e] \in {"redacted", "null"} => payload'[e] # "raw"]_vars
  BY MaskedStep
<1>. QED
  BY <1>1, CoreIsInvariant, PTL DEF Spec, PayloadStaysMasked

-------------------------------------------------------------------------------
(* What holds of the queue when every worker, its waits for the database      *)
(* included, finishes within the lease: HoldLimit <= LeaseTime.  Relative to  *)
(* CoreInvariant, LeaseInvariant is inductive; its heart is LeaseHeld: the    *)
(* lock of a job that is being delivered is as old as the delivery.           *)

\* A job once requeued under a worker's hands counts as such for good.
LEMMA InterferedGrows ==
    [Next]_vars => interfered \subseteq interfered'
<1>. SUFFICES ASSUME [Next]_vars PROVE interfered \subseteq interfered'
  OBVIOUS
<1>1. ASSUME NEW w \in Worker, WorkerStep(w) PROVE interfered \subseteq interfered'
  BY <1>1 DEF WorkerStep, ClaimJob, PrepareFails, BeginSend, RemoteAccepts,
     SendReturns, FinishAttempt, FinishFails, ReadPolicy, ReplacePayload,
     FinalizeFails, ghostVars
<1>. QED
  BY <1>1 DEF Next, AcceptEvent, RetryJob, SaveGroup, DeleteBindings,
     CascadeBindings, PurgePayloads, DeleteOldEvents, Crash, Tick, vars,
     ghostVars

\* Nobody starts to deliver, and a delivery in progress keeps its job and its
\* attempt; only time adds to the time it has taken.
HandsKept ==
    \A w \in Worker :
        Delivering(w)' => /\ Delivering(w)
                          /\ held'[w] = held[w]
                          /\ try'[w] = try[w]
                          /\ Tick \/ elapsed'[w] = elapsed[w]

\* A delivery starts with a claim and with nothing else.
LEMMA HandSteps ==
    CoreInvariant /\ [Next]_vars
        => HandsKept \/ \E w \in Worker, j \in Job : ClaimJob(w, j)
<1>. SUFFICES ASSUME TypeWorkers, [Next]_vars,
                     ~ \E w \in Worker, j \in Job : ClaimJob(w, j)
              PROVE  HandsKept
  BY DEF CoreInvariant, TypeOK
<1>1. ASSUME NEW W, ReleaseWorkers(W)
      PROVE  HandsKept
  BY <1>1 DEF ReleaseWorkers, HandsKept, Delivering
<1>2. CASE UNCHANGED workerVars
  BY <1>2 DEF workerVars, HandsKept, Delivering
<1>3. ASSUME NEW v \in Worker, WorkerStep(v)
      PROVE  HandsKept
  <2>1. CASE PrepareFails(v) \/ BeginSend(v)
    BY <2>1 DEF PrepareFails, BeginSend, HandsKept, Delivering, TypeWorkers
  <2>2. CASE RemoteAccepts(v) \/ SendReturns(v, "ok") \/ SendReturns(v,
  "failed")
    BY <2>2 DEF RemoteAccepts, SendReturns, HandsKept, Delivering, TypeWorkers
  <2>3. CASE FinishAttempt(v)
    BY <2>3 DEF FinishAttempt, HandsKept, Delivering, TypeWorkers
  <2>4. CASE FinishFails(v) \/ ReplacePayload(v) \/ FinalizeFails(v)
    BY <1>1, <2>4 DEF FinishFails, ReplacePayload, FinalizeFails
  <2>5. CASE ReadPolicy(v)
    <3>1. CASE ReleaseWorkers({v})
      BY <1>1, <3>1
    <3>2. CASE /\ pc' = [pc EXCEPT ![v] = "replace"]
               /\ UNCHANGED <<held, try, snap, outcome, elapsed>>
      BY <3>2 DEF HandsKept, Delivering, TypeWorkers
    <3>. QED
      BY <2>5, <3>1, <3>2 DEF ReadPolicy
  <2>. QED
    BY <1>3, <2>1, <2>2, <2>3, <2>4, <2>5 DEF WorkerStep
<1>4. CASE Crash
  BY <1>1, <1>4 DEF Crash
<1>5. CASE Tick
  BY <1>5 DEF Tick, HandsKept, Delivering
<1>. QED
  BY <1>2, <1>3, <1>4, <1>5 DEF Next, AcceptEvent, RetryJob, SaveGroup,
     DeleteBindings,
     CascadeBindings, PurgePayloads, DeleteOldEvents, vars

\* The lease: no worker can claim the job that another is delivering, because
\* that one is done before its lock is old enough to be ignored.
LEMMA LeaseProtects ==
    ASSUME HoldLimit <= LeaseTime, CoreInvariant, LeaseHeld,
           NEW w \in Worker, Delivering(w), held[w] \notin interfered
    PROVE  ~Claimable(held[w])
<1>1. elapsed[w] \in 0 .. HoldLimit
  BY DEF CoreInvariant, TypeOK, TypeWorkers
<1>2. \/ status[held[w]] = "absent"
      \/ status[held[w]] = "processing" /\ lockAge[held[w]] = elapsed[w]
  BY DEF LeaseHeld
<1>. QED
  BY <1>1, <1>2, TimingAssumption DEF Claimable

\* The lock a worker took stays as it left it while it delivers.
LEMMA LeaseHeldStep ==
    ASSUME HoldLimit <= LeaseTime, CoreInvariant, LeaseInvariant, [Next]_vars
    PROVE  LeaseHeld'
<1>. SUFFICES ASSUME NEW w \in Worker, Delivering(w)',
held'[w] \notin interfered'
              PROVE  \/ status'[held'[w]] = "absent"
                     \/ /\ status'[held'[w]] = "processing"
                        /\ lockAge'[held'[w]] = elapsed'[w]
                        /\ try'[w] = attempts'[held'[w]] + 1
  BY DEF LeaseHeld
<1>0. /\ TypeJobs /\ TypeWorkers /\ WorkersHoldJobs /\ NothingBeforeTheEvent
      /\ LeaseHeld /\ OneWorkerPerJob
  BY DEF CoreInvariant, TypeOK, LeaseInvariant
<1>1. CASE \E v \in Worker, k \in Job : ClaimJob(v, k)
  <2>. PICK v \in Worker, k \in Job : ClaimJob(v, k)
    BY <1>1
  <2>1. CASE w = v
    BY <1>0, <2>1 DEF ClaimJob, TypeJobs, TypeWorkers, WorkersHoldJobs
  <2>2. CASE w # v
    <3>1. /\ Delivering(w) /\ held'[w] = held[w] /\ try'[w] = try[w]
          /\ elapsed'[w] = elapsed[w] /\ interfered' = interfered
      BY <1>0, <2>2 DEF ClaimJob, Delivering, TypeWorkers, ghostVars
    <3>2. held[w] # k
      BY <1>0, <3>1, LeaseProtects DEF ClaimJob
    <3>. QED
      BY <1>0, <3>1, <3>2 DEF ClaimJob, LeaseHeld, TypeJobs
  <2>. QED
    BY <2>1, <2>2
<1>2. CASE HandsKept
  <2>. PICK j \in Job : j = held[w] /\ j = held'[w]
    BY <1>0, <1>2 DEF HandsKept, WorkersHoldJobs, Delivering
  <2>0. /\ Delivering(w) /\ held[w] = j /\ held'[w] = j /\ try'[w] = try[w]
        /\ Tick \/ elapsed'[w] = elapsed[w]
        /\ j \notin interfered
    BY <1>2, InterferedGrows DEF HandsKept
  <2>1. \/ status[j] = "absent"
        \/ /\ status[j] = "processing"
           /\ lockAge[j] = elapsed[w]
           /\ try[w] = attempts[j] + 1
    BY <1>0, <2>0 DEF LeaseHeld
  <2>2. ASSUME NEW e \in Event, NEW p \in Policies, NEW B \in SUBSET Binding,
               AcceptEvent(e, p, B)
        PROVE  /\ status'[j] = status[j] /\ lockAge' = lockAge
               /\ attempts' = attempts /\ elapsed' = elapsed
    <3>1. policy[EventOf[j]] # "unset"
      BY <1>0, <2>0 DEF WorkersHoldJobs, Delivering
    <3>. QED
      BY <1>0, <2>2, <3>1 DEF AcceptEvent, TypeJobs, JobsOf, workerVars
  <2>3. ASSUME NEW v \in Worker, FinishAttempt(v)
        PROVE  /\ status'[j] = status[j] /\ lockAge'[j] = lockAge[j]
               /\ attempts'[j] = attempts[j] /\ elapsed' = elapsed
    <3>1. v # w
      BY <1>0, <2>3 DEF FinishAttempt, Delivering, TypeWorkers
    <3>2. held[v] # j
      BY <1>0, <2>0, <2>3, <3>1 DEF FinishAttempt, OneWorkerPerJob, Delivering
    <3>. QED
      BY <1>0, <2>3, <3>2 DEF FinishAttempt, TypeJobs
  <2>4. ASSUME NEW k \in Job, RetryJob(k)
        PROVE  /\ status'[j] = status[j] /\ lockAge'[j] = lockAge[j]
               /\ attempts'[j] = attempts[j] /\ elapsed' = elapsed
    <3>1. k # j
      BY <2>0, <2>4 DEF RetryJob
    <3>. QED
      BY <1>0, <2>4, <3>1 DEF RetryJob, TypeJobs, workerVars
  <2>5. ASSUME NEW J \in SUBSET Job, RemoveJobs(J), j \notin J
        PROVE  /\ status'[j] = status[j] /\ lockAge'[j] = lockAge[j]
               /\ attempts'[j] = attempts[j]
    BY <2>5 DEF RemoveJobs
  <2>6. ASSUME NEW J \in SUBSET Job, RemoveJobs(J), j \in J
        PROVE  status'[j] = "absent"
    BY <2>6 DEF RemoveJobs
  <2>7. CASE Tick
    <3>1. /\ elapsed[w] < HoldLimit /\ elapsed[w] \in Nat
          /\ elapsed'[w] = elapsed[w] + 1
      BY <1>0, <2>0, <2>7, TimingAssumption DEF Tick, Deadline, Delivering,
         TypeWorkers
    <3>. QED
      BY <1>0, <2>0, <2>1, <2>7, <3>1, TimingAssumption DEF Tick, TypeJobs
  <2>8. CASE ~Tick
    BY <2>0, <2>1, <2>2, <2>3, <2>4, <2>5, <2>6, <2>8, JobSteps, <1>1
    DEF JobStep, jobVars
  <2>. QED
    BY <2>7, <2>8
<1>. QED
  BY <1>1, <1>2, HandSteps

\* No step makes two workers deliver one job.
LEMMA OneWorkerStep ==
    ASSUME HoldLimit <= LeaseTime, CoreInvariant, LeaseInvariant, [Next]_vars
    PROVE  OneWorkerPerJob'
<1>. SUFFICES ASSUME NEW v \in Worker, NEW w \in Worker, v # w,
                     Delivering(v)', Delivering(w)', held'[v] = held'[w]
              PROVE  held'[v] \in interfered'
  BY DEF OneWorkerPerJob
<1>0. TypeWorkers /\ LeaseHeld /\ OneWorkerPerJob
  BY DEF CoreInvariant, TypeOK, LeaseInvariant
<1>1. CASE HandsKept
  BY <1>0, <1>1, InterferedGrows DEF HandsKept, OneWorkerPerJob
<1>2. ASSUME NEW u \in Worker, NEW j \in Job, ClaimJob(u, j)
      PROVE  held'[v] \in interfered'
  <2>1. \A x \in Worker \ {u} :
           /\ Delivering(x)' => Delivering(x)
           /\ held'[x] = held[x]
    BY <1>0, <1>2 DEF ClaimJob, Delivering, TypeWorkers
  <2>2. held'[u] = j /\ Claimable(j) /\ interfered' = interfered
    BY <1>0, <1>2 DEF ClaimJob, TypeWorkers, ghostVars
  <2>3. \A x \in Worker : Delivering(x) /\ held[x] = j => j \in interfered
    BY <1>0, <2>2, LeaseProtects
  <2>4. CASE u = v
    BY <2>1, <2>2, <2>3, <2>4
  <2>5. CASE u = w
    BY <2>1, <2>2, <2>3, <2>5
  <2>6. CASE u # v /\ u # w
    BY <1>0, <2>1, <2>2, <2>6 DEF OneWorkerPerJob
  <2>. QED
    BY <2>4, <2>5, <2>6
<1>. QED
  BY <1>1, <1>2, HandSteps

\* An attempt that ends adds the next number to the log, after failures only.
LEMMA HistoryStep ==
    ASSUME CoreInvariant, LeaseInvariant, [Next]_vars
    PROVE  CompleteHistory'
<1>. SUFFICES ASSUME NEW j \in Job, j \notin interfered'
              PROVE  /\ Len(log'[j]) = attempts'[j]
                     /\ \A i \in 1 .. Len(log'[j]) :
                           /\ log'[j][i].attempt = i
                           /\ i < Len(log'[j]) => ~log'[j][i].ok
  BY DEF CompleteHistory
<1>0. /\ TypeJobs /\ LogMatchesJob /\ LeaseHeld /\ AbsentJobsAreEmpty
      /\ NothingBeforeTheEvent
  BY DEF CoreInvariant, TypeOK, LeaseInvariant
<1>1. /\ j \notin interfered
      /\ Len(log[j]) = attempts[j]
      /\ \A i \in 1 .. Len(log[j]) :
            /\ log[j][i].attempt = i
            /\ i < Len(log[j]) => ~log[j][i].ok
  BY InterferedGrows DEF LeaseInvariant, CompleteHistory
<1>2. CASE log'[j] = log[j] /\ attempts'[j] = attempts[j]
  BY <1>1, <1>2
<1>3. CASE log'[j] = <<>> /\ attempts'[j] = 0
  BY <1>3
<1>4. ASSUME NEW w \in Worker, FinishAttempt(w), held[w] = j
      PROVE  /\ Len(log'[j]) = attempts'[j]
             /\ \A i \in 1 .. Len(log'[j]) :
                   /\ log'[j][i].attempt = i
                   /\ i < Len(log'[j]) => ~log'[j][i].ok
  <2>. PICK n \in Nat : n = attempts[j]
    BY <1>0, TimingAssumption DEF TypeJobs
  <2>. PICK row : row = [attempt |-> try[w], ok |-> outcome[w] = "ok"]
    OBVIOUS
  <2>1. status[j] = "processing" /\ try[w] = n + 1
    BY <1>0, <1>1, <1>4 DEF FinishAttempt, LeaseHeld, Delivering
  <2>2. row \in Row
    BY <1>4 DEF Row, CoreInvariant, WorkersHoldJobs, FinishAttempt
  <2>3. /\ log[j] \in Seq(Row) /\ Len(log[j]) = n
        /\ log'[j] = Append(log[j], row)
        /\ attempts'[j] = n + 1
    BY <1>0, <1>1, <1>4, <2>1 DEF FinishAttempt, AttemptsAfter, TypeJobs
  <2>4. n # 0 => ~log[j][n].ok
    BY <1>0, <2>1, <2>3 DEF LogMatchesJob, LatestRowCounts
  <2>5. \A i \in 1 .. n : log[j][i].attempt = i /\ ~log[j][i].ok
    BY <1>1, <2>3, <2>4
  <2>6. /\ Len(log'[j]) = n + 1
        /\ log'[j][n + 1] = row
        /\ \A i \in 1 .. n : log'[j][i] = log[j][i]
    BY <2>2, <2>3
  <2>7. row.attempt = n + 1
    BY <2>1
  <2>. QED
    BY <2>3, <2>5, <2>6, <2>7
<1>5. ASSUME NEW w \in Worker, FinishAttempt(w), held[w] # j
      PROVE  log'[j] = log[j] /\ attempts'[j] = attempts[j]
  BY <1>0, <1>5 DEF FinishAttempt, TypeJobs
<1>6. ASSUME NEW k \in Job, RetryJob(k)
      PROVE  \/ log'[j] = log[j] /\ attempts'[j] = attempts[j]
             \/ log'[j] = <<>> /\ attempts'[j] = 0
  BY <1>0, <1>6 DEF RetryJob, TypeJobs
<1>7. ASSUME NEW J \in SUBSET Job, RemoveJobs(J)
      PROVE  \/ log'[j] = log[j] /\ attempts'[j] = attempts[j]
             \/ log'[j] = <<>> /\ attempts'[j] = 0
  BY <1>0, <1>7 DEF RemoveJobs, TypeJobs
<1>. QED
  BY <1>2, <1>3, <1>4, <1>5, <1>6, <1>7, JobSteps
  DEF JobStep, AcceptEvent, ClaimJob, Tick, jobVars

\* No worker takes a delivered job back: it would have to hold it, and what a
\* worker holds is processing.
LEMMA DeliveredStep ==
    ASSUME CoreInvariant, LeaseInvariant, [Next]_vars, NEW j \in Job,
           status[j] = "success", status'[j] # "success", j \notin interfered
    PROVE  \/ status'[j] = "absent"
           \/ status'[j] = "pending" /\ attempts'[j] = 0
<1>0. TypeJobs /\ LeaseHeld /\ NothingBeforeTheEvent
  BY DEF CoreInvariant, TypeOK, LeaseInvariant
<1>1. ASSUME NEW e \in Event, NEW p \in Policies, NEW B \in SUBSET Binding,
             AcceptEvent(e, p, B)
      PROVE  FALSE
  BY <1>0, <1>1, JobAssumption DEF AcceptEvent, NothingBeforeTheEvent, JobsOf,
     TypeJobs
<1>2. ASSUME NEW w \in Worker, NEW k \in Job, ClaimJob(w, k)
      PROVE  FALSE
  BY <1>0, <1>2 DEF ClaimJob, Claimable, TypeJobs
<1>3. ASSUME NEW w \in Worker, FinishAttempt(w)
      PROVE  FALSE
  <2>1. held[w] = j
    BY <1>0, <1>3 DEF FinishAttempt, TypeJobs
  <2>. QED
    BY <1>0, <1>3, <2>1 DEF FinishAttempt, LeaseHeld, Delivering
<1>4. ASSUME NEW k \in Job, RetryJob(k)
      PROVE  status'[j] = "pending" /\ attempts'[j] = 0
  BY <1>0, <1>4 DEF RetryJob, TypeJobs
<1>5. ASSUME NEW J \in SUBSET Job, RemoveJobs(J)
      PROVE  status'[j] = "absent"
  BY <1>0, <1>5 DEF RemoveJobs, TypeJobs
<1>. QED
  <2>1. ~(Tick \/ UNCHANGED jobVars)
    BY DEF Tick, jobVars
  <2>. QED
    BY <1>1, <1>2, <1>3, <1>4, <1>5, <2>1, JobSteps DEF JobStep

\* In a step after which an event is still undisturbed, none of its jobs becomes
\* one to deliver, except those that come with it.
LEMMA NoRevival ==
    ASSUME CoreInvariant, LeaseInvariant, [Next]_vars, NEW j \in Job,
           EventOf[j] \notin disturbed', status[j] \notin Active,
           policy[EventOf[j]] # "unset"
    PROVE  status'[j] \notin Active
<1>0. /\ TypeJobs /\ LeaseHeld /\ \A k \in interfered : EventOf[k] \in disturbed
  BY DEF CoreInvariant, TypeOK, LeaseInvariant, FinalisersComeLast
<1>1. ASSUME NEW e \in Event, NEW p \in Policies, NEW B \in SUBSET Binding,
             AcceptEvent(e, p, B)
      PROVE  status'[j] = status[j]
  BY <1>0, <1>1 DEF AcceptEvent, JobsOf, TypeJobs
<1>2. ASSUME NEW w \in Worker, NEW k \in Job, ClaimJob(w, k)
      PROVE  status'[j] = status[j]
  BY <1>0, <1>2 DEF ClaimJob, Claimable, Active, TypeJobs
<1>3. ASSUME NEW w \in Worker, FinishAttempt(w)
      PROVE  status'[j] = status[j]
  <2>1. CASE held[w] = j
    <3>1. j \notin interfered
      BY <1>0, <1>3 DEF FinishAttempt, ghostVars
    <3>. QED
      BY <1>0, <1>3, <2>1, <3>1 DEF FinishAttempt, LeaseHeld, Delivering, Active
  <2>2. CASE held[w] # j
    BY <1>0, <1>3, <2>2 DEF FinishAttempt, TypeJobs
  <2>. QED
    BY <2>1, <2>2
<1>4. ASSUME NEW k \in Job, RetryJob(k)
      PROVE  status'[j] = status[j]
  BY <1>0, <1>4 DEF RetryJob, TypeJobs
<1>5. ASSUME NEW J \in SUBSET Job, RemoveJobs(J)
      PROVE  status'[j] = status[j] \/ status'[j] = "absent"
  BY <1>0, <1>5 DEF RemoveJobs, TypeJobs
<1>6. CASE Tick \/ UNCHANGED jobVars
  BY <1>6 DEF Tick, jobVars
<1>. QED
  BY <1>1, <1>2, <1>3, <1>4, <1>5, <1>6, JobSteps DEF JobStep, Active

\* What was requeued under a worker's hands belongs to a disturbed event.
LEMMA DisturbedGrows ==
    ASSUME CoreInvariant, LeaseInvariant, [Next]_vars
    PROVE  /\ disturbed \subseteq disturbed'
           /\ \A j \in interfered' : EventOf[j] \in disturbed'
<1>0. \A k \in interfered : EventOf[k] \in disturbed
  BY DEF LeaseInvariant, FinalisersComeLast
<1>1. ASSUME NEW j \in Job, RetryJob(j)
      PROVE  /\ disturbed \subseteq disturbed'
             /\ \A k \in interfered' : EventOf[k] \in disturbed'
  BY <1>0, <1>1 DEF RetryJob
<1>2. CASE interfered' = interfered /\ disturbed \subseteq disturbed'
  BY <1>0, <1>2
<1>3. ASSUME NEW w \in Worker, WorkerStep(w)
      PROVE  interfered' = interfered /\ disturbed \subseteq disturbed'
  BY <1>3 DEF WorkerStep, ClaimJob, PrepareFails, BeginSend, RemoteAccepts,
     SendReturns, FinishAttempt, FinishFails, ReadPolicy, ReplacePayload,
     FinalizeFails, ghostVars
<1>. QED
  BY <1>1, <1>2, <1>3
  DEF Next, AcceptEvent, SaveGroup, DeleteBindings, CascadeBindings,
      PurgePayloads,
      DeleteOldEvents, Crash, Tick, vars, ghostVars

\* A worker decides to replace a payload only after the last job to deliver.
LEMMA FinalisersStep ==
    ASSUME CoreInvariant, LeaseInvariant, [Next]_vars
    PROVE  FinalisersComeLast'
<1>. SUFFICES ASSUME NEW w \in Worker, NEW j \in Job, pc'[w] = "replace",
                     EventOf[j] = EventOf[held'[w]],
                     EventOf[j] \notin disturbed'
              PROVE  status'[j] \notin Active
  BY DisturbedGrows DEF FinalisersComeLast
<1>0. TypeWorkers /\ TypeJobs /\ WorkersHoldJobs /\ FinalisersComeLast
  BY DEF CoreInvariant, TypeOK, LeaseInvariant
<1>1. CASE pc[w] = "replace" /\ held'[w] = held[w]
  <2>1. status[j] \notin Active
    BY <1>0, <1>1, DisturbedGrows DEF FinalisersComeLast
  <2>2. policy[EventOf[j]] # "unset"
    BY <1>0, <1>1 DEF WorkersHoldJobs
  <2>. QED
    BY <2>1, <2>2, NoRevival
<1>2. ASSUME NEW W, ReleaseWorkers(W)
      PROVE  pc[w] = "replace" /\ held'[w] = held[w]
  BY <1>2 DEF ReleaseWorkers
<1>3. ASSUME ReadPolicy(w), pc[w] # "replace"
      PROVE  status'[j] \notin Active
  <2>1. Complete(EventOf[held[w]]) /\ held'[w] = held[w] /\ status' = status
    BY <1>0, <1>3 DEF ReadPolicy, ReleaseWorkers, TypeWorkers, jobVars
  <2>2. EventOf[held[w]] \in Event
    BY <1>0, <1>3, JobAssumption DEF ReadPolicy, WorkersHoldJobs
  <2>. QED
    BY <2>1, <2>2, CompleteDef DEF Terminal, Active
<1>4. ASSUME NEW v \in Worker, ReadPolicy(v), v # w
      PROVE  pc[w] = "replace" /\ held'[w] = held[w]
  BY <1>0, <1>4 DEF ReadPolicy, ReleaseWorkers, TypeWorkers
<1>5. ASSUME NEW v \in Worker, WorkerStep(v), ~ReadPolicy(v)
      PROVE  pc[w] = "replace" /\ held'[w] = held[w]
  <2>1. CASE \E k \in Job : ClaimJob(v, k)
    BY <1>0, <2>1 DEF ClaimJob, TypeWorkers
  <2>2. CASE PrepareFails(v) \/ BeginSend(v) \/ RemoteAccepts(v)
    BY <1>0, <2>2 DEF PrepareFails, BeginSend, RemoteAccepts, TypeWorkers
  <2>3. CASE SendReturns(v, "ok") \/ SendReturns(v,
  "failed") \/ FinishAttempt(v)
    BY <1>0, <2>3 DEF SendReturns, FinishAttempt, TypeWorkers
  <2>4. CASE FinishFails(v) \/ ReplacePayload(v) \/ FinalizeFails(v)
    BY <1>2, <2>4 DEF FinishFails, ReplacePayload, FinalizeFails
  <2>. QED
    BY <1>5, <2>1, <2>2, <2>3, <2>4 DEF WorkerStep
<1>6. CASE Crash
  BY <1>1, <1>2, <1>6 DEF Crash
<1>7. CASE UNCHANGED <<pc, held>>
  BY <1>1, <1>7
<1>8. \/ \E v \in Worker : WorkerStep(v)
      \/ Crash
      \/ UNCHANGED <<pc, held>>
  BY DEF Next, AcceptEvent, RetryJob, SaveGroup, DeleteBindings,
     CascadeBindings,
      PurgePayloads, DeleteOldEvents, Tick, vars, workerVars
<1>9. ASSUME NEW v \in Worker, WorkerStep(v)
      PROVE  status'[j] \notin Active
  <2>1. CASE pc[w] = "replace" /\ held'[w] = held[w]
    BY <1>1, <2>1
  <2>2. CASE ReadPolicy(v) /\ v = w
    <3>1. pc[w] # "replace"
      BY <2>2 DEF ReadPolicy
    <3>. QED
      BY <1>3, <2>2, <3>1
  <2>. QED
    BY <1>4, <1>5, <1>9, <2>1, <2>2
<1>. QED
  BY <1>6, <1>7, <1>8, <1>9

\* No step takes the payload from a job that is still to be delivered.
LEMMA PayloadKeptStep ==
    ASSUME CoreInvariant, LeaseInvariant, [Next]_vars
    PROVE  PayloadKeptWhileNeeded'
<1>. SUFFICES ASSUME NEW j \in Job, status'[j] \in Active,
EventOf[j] \notin disturbed'
              PROVE  payload'[EventOf[j]] = "raw"
  BY DEF PayloadKeptWhileNeeded
<1>0. /\ TypeJobs /\ TypeStore /\ TypeWorkers /\ WorkersHoldJobs
      /\ NothingBeforeTheEvent /\ FinalisersComeLast
  BY DEF CoreInvariant, TypeOK, LeaseInvariant
<1>1. ASSUME NEW e \in Event, NEW p \in Policies, NEW B \in SUBSET Binding,
             AcceptEvent(e, p, B)
      PROVE  payload'[EventOf[j]] = "raw"
  <2>1. CASE EventOf[j] = e
    BY <1>0, <1>1, <2>1 DEF AcceptEvent, TypeStore
  <2>2. CASE EventOf[j] # e
    <3>1. /\ status'[j] = status[j]
          /\ payload'[EventOf[j]] = payload[EventOf[j]]
          /\ disturbed' = disturbed
      BY <1>0, <1>1, <2>2, JobAssumption
      DEF AcceptEvent, TypeJobs, TypeStore, JobsOf, ghostVars
    <3>. QED
      BY <3>1 DEF LeaseInvariant, PayloadKeptWhileNeeded
  <2>. QED
    BY <2>1, <2>2
<1>2. ASSUME ~ \E e \in Event, p \in Policies,
B \in SUBSET Binding : AcceptEvent(e, p, B)
      PROVE  status[j] \in Active /\ payload[EventOf[j]] = "raw"
  <2>1. policy[EventOf[j]] = "unset" => status'[j] = "absent"
    <3>1. policy[EventOf[j]] = "unset" => status[j] = "absent"
      BY <1>0, JobAssumption DEF NothingBeforeTheEvent, JobsOf
    <3>2. status[j] = "absent" => status'[j] = "absent"
      BY <1>0, <1>2, JobSteps DEF JobStep, ClaimJob, Claimable, FinishAttempt,
         RetryJob, RemoveJobs, Tick, jobVars, TypeJobs
    <3>. QED
      BY <3>1, <3>2
  <2>2. status[j] \in Active
    BY <2>1, NoRevival DEF Active
  <2>. QED
    BY <2>2, DisturbedGrows DEF LeaseInvariant, PayloadKeptWhileNeeded
<1>3. ASSUME NEW w \in Worker, ReplacePayload(w)
      PROVE  payload'[EventOf[j]] = payload[EventOf[j]]
  <2>1. status' = status /\ disturbed' = disturbed
    BY <1>3 DEF ReplacePayload, jobVars, ghostVars
  <2>2. EventOf[held[w]] # EventOf[j]
    BY <1>0, <1>3, <2>1 DEF ReplacePayload, FinalisersComeLast
  <2>. QED
    BY <1>0, <1>3, <2>2 DEF ReplacePayload, TypeStore
<1>4. ASSUME NEW w \in Worker, WorkerStep(w), ~ReplacePayload(w)
      PROVE  payload' = payload
  BY <1>4 DEF WorkerStep, ClaimJob, PrepareFails, BeginSend, RemoteAccepts,
     SendReturns, FinishAttempt, FinishFails, ReadPolicy, FinalizeFails,
     storeVars, eventVars
<1>5. ASSUME NEW E \in SUBSET Event, PurgePayloads(E)
      PROVE  payload'[EventOf[j]] = payload[EventOf[j]]
  BY <1>0, <1>5, JobAssumption DEF PurgePayloads, TypeStore
<1>6. ASSUME NEW D \in SUBSET Event, DeleteOldEvents(D)
      PROVE  payload'[EventOf[j]] = payload[EventOf[j]]
  BY <1>0, <1>6, JobAssumption DEF DeleteOldEvents, RemoveJobs, TypeJobs,
     TypeStore, Active
<1>. QED
  BY <1>1, <1>2, <1>3, <1>4, <1>5, <1>6
  DEF Next, RetryJob, SaveGroup, DeleteBindings, CascadeBindings, Crash, Tick,
      vars, storeVars, eventVars

--------------------------------------------------------------------------------

\* The initial state satisfies the invariant.
LEMMA LeaseInit ==
    Init => LeaseInvariant
<1>. SUFFICES ASSUME Init PROVE LeaseInvariant
  OBVIOUS
<1>1. LeaseHeld /\ OneWorkerPerJob
  BY DEF Init, LeaseHeld, OneWorkerPerJob, Delivering
<1>2. CompleteHistory
  BY DEF Init, CompleteHistory
<1>3. FinalisersComeLast /\ PayloadKeptWhileNeeded
  BY DEF Init, FinalisersComeLast, PayloadKeptWhileNeeded, Active
<1>. QED
  BY <1>1, <1>2, <1>3 DEF LeaseInvariant

\* Every step keeps it while a worker is quicker than its lease.
LEMMA LeaseStep ==
    ASSUME HoldLimit <= LeaseTime
    PROVE  CoreInvariant /\ LeaseInvariant /\ [Next]_vars => LeaseInvariant'
BY LeaseHeldStep, OneWorkerStep, HistoryStep, FinalisersStep, PayloadKeptStep
DEF LeaseInvariant

\* LeaseInvariant holds in every reachable state of a queue whose workers, waits
\* for the database included, finish within the lease.
THEOREM LeaseIsInvariant ==
    ASSUME HoldLimit <= LeaseTime
    PROVE  Spec => []LeaseInvariant
<1>1. CoreInvariant /\ LeaseInvariant /\ [Next]_vars => LeaseInvariant'
  BY LeaseStep
<1>. QED
  BY <1>1, LeaseInit, CoreIsInvariant, PTL DEF Spec

\* The lease of ClaimJob is exclusive: no two workers deliver the same job at
\* the same time, unless an administrator requeued it under their hands.
THEOREM JobHasOneWorker ==
    ASSUME HoldLimit <= LeaseTime
    PROVE  Spec => []OneWorkerPerJob
<1>1. LeaseInvariant => OneWorkerPerJob
  BY DEF LeaseInvariant
<1>2. Spec => []LeaseInvariant
  BY LeaseIsInvariant
<1>. QED
  BY <1>1, <1>2, PTL

\* The delivery log of a job is 1, 2, 3 ... without gap or repetition, a success
\* at most at its end.
THEOREM HistoryIsComplete ==
    ASSUME HoldLimit <= LeaseTime
    PROVE  Spec => []CompleteHistory
<1>1. LeaseInvariant => CompleteHistory
  BY DEF LeaseInvariant
<1>2. Spec => []LeaseInvariant
  BY LeaseIsInvariant
<1>. QED
  BY <1>1, <1>2, PTL

\* Finalising one job never takes the payload from another that still needs it.
THEOREM PayloadIsKept ==
    ASSUME HoldLimit <= LeaseTime
    PROVE  Spec => []PayloadKeptWhileNeeded
<1>1. LeaseInvariant => PayloadKeptWhileNeeded
  BY DEF LeaseInvariant
<1>2. Spec => []LeaseInvariant
  BY LeaseIsInvariant
<1>. QED
  BY <1>1, <1>2, PTL

\* A delivered job is taken back by an administrator only, never by a worker.
THEOREM DeliveredForGood ==
    ASSUME HoldLimit <= LeaseTime
    PROVE  Spec => DeliveredStaysDelivered
<1>1. CoreInvariant /\ LeaseInvariant /\ [Next]_vars
        => [\A j \in Job :
              status[j] = "success" /\ status'[j] # "success"
                  => \/ status'[j] = "absent"
                     \/ status'[j] = "pending" /\ attempts'[j] = 0
                     \/ j \in interfered]_vars
  BY DeliveredStep
<1>2. Spec => []LeaseInvariant
  BY LeaseIsInvariant
<1>. QED
  BY <1>1, <1>2, CoreIsInvariant, PTL DEF Spec, DeliveredStaysDelivered

-------------------------------------------------------------------------------
(* The queue implements its contract.  Seen through PhaseOf, every step of a  *)
(* worker before the end of its attempt stutters, and the end of an attempt   *)
(* that nobody interfered with is, by LeaseHeld, the end of the one attempt   *)
(* that the job is due for.                                                   *)

\* Pending and processing are one phase: steps between them are not seen.
LEMMA SamePhase ==
    ASSUME \A j \in Job : PhaseOf(status'[j]) = PhaseOf(status[j]),
           attempts' = attempts, accepted' = accepted, interfered' = interfered
    PROVE  UNCHANGED Contract!vars
BY DEF Contract!vars

\* What the contract sees of each status.
LEMMA Phases ==
    /\ PhaseOf("absent") = "none"
    /\ PhaseOf("pending") = "queued"
    /\ PhaseOf("processing") = "queued"
    /\ PhaseOf("success") = "delivered"
    /\ PhaseOf("dead") = "dead"
BY DEF PhaseOf, Active

\* Before the first event the contract's state is initial too.
LEMMA ContractInit ==
    Init => Contract!Init
BY Phases DEF Init, Contract!Init

\* The jobs that come with an event were in no phase before.
LEMMA AcceptEnqueues ==
    ASSUME CoreInvariant, NEW e \in Event, NEW p \in Policies,
           NEW B \in SUBSET Binding, AcceptEvent(e, p, B)
    PROVE  Contract!Next
<1>. DEFINE J == {j \in JobsOf(e) : BindingOf[j] \in B}
<1>1. J \in SUBSET Job /\ \A j \in J : status[j] = "absent"
  BY DEF JobsOf, AcceptEvent, CoreInvariant, NothingBeforeTheEvent
<1>2. /\ status' = [j \in Job |-> IF j \in J THEN "pending" ELSE status[j]]
      /\ attempts' = attempts /\ accepted' = accepted /\ interfered' = interfered
  BY DEF AcceptEvent, ghostVars
<1>3. \A j \in Job : PhaseOf(status'[j]) =
                        IF j \in J THEN "queued" ELSE PhaseOf(status[j])
  BY <1>2, Phases
<1>4. \A j \in J : PhaseOf(status[j]) = "none"
  BY <1>1, Phases
<1>5. Contract!Enqueue(J)
  BY <1>1, <1>2, <1>3, <1>4 DEF Contract!Enqueue
<1>. QED
  BY <1>1, <1>5 DEF Contract!Next

\* A claim leaves a queued job queued, also when it takes it from another.
LEMMA ClaimStutters ==
    ASSUME CoreInvariant, NEW w \in Worker, NEW j \in Job, ClaimJob(w, j)
    PROVE  UNCHANGED Contract!vars
<1>1. status \in [Job -> Statuses]
  BY DEF CoreInvariant, TypeOK, TypeJobs
<1>2. PhaseOf("processing") = "queued" /\ PhaseOf(status[j]) = "queued"
  BY Phases DEF ClaimJob, Claimable
<1>3. \A k \in Job : PhaseOf(status'[k]) = PhaseOf(status[k])
  BY <1>1, <1>2 DEF ClaimJob
<1>. QED
  BY <1>3, SamePhase DEF ClaimJob, ghostVars

\* The end of an attempt is the contract's only when nobody came in its way;
\* else it may be the late end of an attempt begun before a manual retry.
LEMMA AttemptEnds ==
    ASSUME HoldLimit <= LeaseTime, CoreInvariant, LeaseInvariant,
           NEW w \in Worker, FinishAttempt(w)
    PROVE  Contract!Next
<1>0. TypeJobs /\ TypeWorkers /\ WorkersHoldJobs /\ LeaseHeld
  BY DEF CoreInvariant, TypeOK, LeaseInvariant
<1>. DEFINE j == held[w]
            n == try[w]
            ok == outcome[w] = "ok"
            s == StatusAfter(n, ok)
<1>1. /\ j \in Job /\ n \in 1 .. MaxAttempts /\ status[j] # "absent"
      /\ ok => j \in accepted
  BY <1>0 DEF FinishAttempt, WorkersHoldJobs
<1>2. /\ status' = [status EXCEPT ![j] = s]
      /\ attempts' = [attempts EXCEPT ![j] = n]
      /\ accepted' = accepted /\ interfered' = interfered
  BY DEF FinishAttempt, AttemptsAfter, ghostVars
<1>3. /\ PhaseOf(s) = IF ok THEN "delivered"
                      ELSE IF n < MaxAttempts THEN "queued" ELSE "dead"
      /\ PhaseOf(status[j]) # "none"
  <2>1. s = IF ok THEN "success" ELSE IF n < MaxAttempts THEN "pending" ELSE "dead"
    BY <1>1, TimingAssumption DEF StatusAfter
  <2>2. status[j] \in {"pending", "processing", "success", "dead"}
    BY <1>0, <1>1 DEF TypeJobs, Statuses, Active, Terminal
  <2>. HIDE DEF s, ok, n, j
  <2>. QED
    BY <2>1, <2>2, Phases
<1>4. [k \in Job |-> PhaseOf(status'[k])]
        = [[k \in Job |-> PhaseOf(status[k])] EXCEPT ![j] = PhaseOf(s)]
  BY <1>0, <1>1, <1>2 DEF TypeJobs
<1>5. CASE j \in interfered
  <2>1. Contract!EndLate(j, n, PhaseOf(s))
    BY <1>1, <1>2, <1>3, <1>4, <1>5, TimingAssumption DEF Contract!EndLate
  <2>. QED
    BY <1>1, <1>3, <2>1 DEF Contract!Next
<1>6. CASE j \notin interfered
  <2>1. status[j] = "processing" /\ n = attempts[j] + 1
    BY <1>0, <1>1, <1>6 DEF FinishAttempt, LeaseHeld, Delivering
  <2>2. PhaseOf(status[j]) = "queued"
    BY <2>1, Phases
  <2>3. CASE ok
    BY <1>1, <1>2, <1>3, <1>4, <2>1, <2>2, <2>3
    DEF Contract!Succeed, Contract!Next
  <2>4. CASE ~ok
    BY <1>1, <1>2, <1>3, <1>4, <2>1, <2>2, <2>4
    DEF Contract!Fail, Contract!Next
  <2>. QED
    BY <2>3, <2>4
<1>. QED
  BY <1>5, <1>6

\* What the administrator and the maintenance task remove is a set of jobs.
LEMMA RemovalRemoves ==
    ASSUME NEW J \in SUBSET Job, RemoveJobs(J), accepted' = accepted,
           interfered' = interfered
    PROVE  Contract!Next
<1>1. \A j \in Job : PhaseOf(status'[j]) =
                        IF j \in J THEN "none" ELSE PhaseOf(status[j])
  BY Phases DEF RemoveJobs
<1>2. Contract!Remove(J)
  BY <1>1 DEF Contract!Remove, RemoveJobs
<1>. QED
  BY <1>2 DEF Contract!Next

\* A manual retry queues the job again, and contests an attempt under way.
LEMMA RetryRequeues ==
    ASSUME CoreInvariant, NEW j \in Job, RetryJob(j)
    PROVE  Contract!Next
<1>1. TypeJobs
  BY DEF CoreInvariant, TypeOK
<1>2. [k \in Job |-> PhaseOf(status'[k])]
        = [[k \in Job |-> PhaseOf(status[k])] EXCEPT ![j] = "queued"]
  BY <1>1, Phases DEF RetryJob, TypeJobs
<1>3. PhaseOf(status[j]) # "none"
  BY <1>1, Phases DEF RetryJob, TypeJobs, Statuses, Active, Terminal
<1>4. Contract!Requeue(j)
  BY <1>2, <1>3 DEF RetryJob, Contract!Requeue
<1>. QED
  BY <1>4 DEF Contract!Next

\* Every step of the queue is one of the contract, or is not seen by it.
LEMMA ContractStep ==
    ASSUME HoldLimit <= LeaseTime
    PROVE  CoreInvariant /\ LeaseInvariant /\ [Next]_vars
               => [Contract!Next]_Contract!vars
<1>. SUFFICES ASSUME CoreInvariant, LeaseInvariant, [Next]_vars
              PROVE  Contract!Next \/ UNCHANGED Contract!vars
  OBVIOUS
<1>1. CASE UNCHANGED vars
  BY <1>1 DEF vars, jobVars, ghostVars, Contract!vars
<1>2. ASSUME NEW w \in Worker, WorkerStep(w)
      PROVE  Contract!Next \/ UNCHANGED Contract!vars
  <2>1. CASE RemoteAccepts(w)
    <3>1. held[w] \in Job
      BY <2>1 DEF RemoteAccepts, CoreInvariant, WorkersHoldJobs
    <3>2. Contract!Accept(held[w])
      BY <2>1 DEF RemoteAccepts, Contract!Accept, jobVars
    <3>. QED
      BY <3>1, <3>2 DEF Contract!Next
  <2>2. CASE FinishAttempt(w)
    BY <2>2, AttemptEnds
  <2>3. CASE \E j \in Job : ClaimJob(w, j)
    BY <2>3, ClaimStutters
  <2>. QED
    BY <1>2, <2>1, <2>2, <2>3 DEF WorkerStep, PrepareFails, BeginSend,
       SendReturns, FinishFails, ReadPolicy, ReplacePayload, FinalizeFails,
       jobVars, ghostVars, Contract!vars
<1>3. ASSUME NEW B \in SUBSET Binding, SaveGroup(B) \/ DeleteBindings(B)
      PROVE  Contract!Next
  BY <1>3, RemovalRemoves DEF SaveGroup, DeleteBindings, CascadeBindings
<1>4. ASSUME NEW D \in SUBSET Event, DeleteOldEvents(D)
      PROVE  Contract!Next
  BY <1>4, RemovalRemoves DEF DeleteOldEvents, ghostVars
<1>5. ASSUME NEW E \in SUBSET Event, PurgePayloads(E)
      PROVE  UNCHANGED Contract!vars
  BY <1>5 DEF PurgePayloads, jobVars, Contract!vars
<1>6. CASE Crash \/ Tick
  BY <1>6 DEF Crash, Tick, jobVars, ghostVars, Contract!vars
<1>. QED
  BY <1>1, <1>2, <1>3, <1>4, <1>5, <1>6, AcceptEnqueues, RetryRequeues DEF Next

\* The durable queue of the README: whatever workers, crashes and payload
\* policies do, a job stays queued until a channel accepted its message or
\* MaxAttempts attempts failed, and then stays as it is.
THEOREM QueueKeepsContract ==
    ASSUME HoldLimit <= LeaseTime
    PROVE  Spec => KeepsContract
<1>1. CoreInvariant /\ LeaseInvariant /\ [Next]_vars
        => [Contract!Next]_Contract!vars
  BY ContractStep
<1>2. Spec => []LeaseInvariant
  BY LeaseIsInvariant
<1>. QED
  BY <1>1, <1>2, ContractInit, CoreIsInvariant, PTL
  DEF Spec, KeepsContract, Contract!Spec
===============================================================================
