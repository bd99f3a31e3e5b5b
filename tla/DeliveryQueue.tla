----------------------------- MODULE DeliveryQueue -----------------------------
(* The durable delivery queue and the workers that drain it.                  *)
(*                                                                            *)
(* State that survives a crash is what SQLite holds: delivery_jobs (status,   *)
(* attempts, wait, lockAge), delivery_attempts (log) and events (policy,      *)
(* payload).  State that a crash loses is what a worker goroutine holds while *)
(* it runs processJob: the job it claimed, the attempt number and payload it  *)
(* read at that moment, and the outcome of the send.                          *)
(*                                                                            *)
(* Every database transaction is one action; a worker may be interrupted      *)
(* between any two of them, and between the remote accepting a message and    *)
(* the answer coming back.                                                    *)
(*                                                                            *)
(* Time is relative: wait[j] is run_after minus now, lockAge[j] is now minus  *)
(* locked_at, and Tick lets one unit pass.                                    *)
EXTENDS Integers, Sequences, FiniteSets

CONSTANTS
    Worker,       \* delivery worker goroutines (WORKER_CONCURRENCY of them)
    Event,        \* rows of events
    Binding,      \* rows of target_bindings
    Job,          \* rows of delivery_jobs, one for an event and a binding
    EventOf,      \* delivery_jobs.event_id
    BindingOf,    \* delivery_jobs.binding_id
    Policies,     \* payload policies that events may have
    MaxAttempts,  \* attempts before a job is dead (5)
    Backoff,      \* delay after failed attempt n, for n in 1..MaxAttempts-1
    Jitter,       \* largest random delay added to it (under 5 seconds)
    LeaseTime,    \* age beyond which a lock no longer protects a job (5 min)
    SendTimeout,  \* longest a send may take (20 seconds)
    HoldLimit,    \* longest a worker takes from claim to its last write: the
                  \* send plus the waits for the one database connection
    Horizon,      \* an overdue wait is not distinguished beyond this
    Disturbances, \* the kinds of disturbance that may happen in a behaviour
    Quota,        \* bound: how many of them, of whatever kinds
    NoJob

ASSUME JobAssumption ==
    /\ EventOf \in [Job -> Event]
    /\ BindingOf \in [Job -> Binding]
    /\ NoJob \notin Job

ASSUME UniqueJobAssumption ==
    \A j, k \in Job :
        EventOf[j] = EventOf[k] /\ BindingOf[j] = BindingOf[k] => j = k

ASSUME PolicyAssumption == Policies \subseteq {"redacted", "metadata", "none"}

ASSUME TimingAssumption ==
    /\ MaxAttempts \in Nat \ {0}
    /\ Backoff \in [1 .. MaxAttempts - 1 -> Nat]
    /\ Jitter \in Nat
    /\ LeaseTime \in Nat
    /\ SendTimeout \in Nat
    /\ HoldLimit \in Nat
    /\ SendTimeout <= HoldLimit
    /\ Horizon \in Nat

ASSUME QuotaAssumption ==
    /\ Disturbances \subseteq {"retry", "crash", "dbfail", "drop", "purge"}
    /\ Quota \in Nat

VARIABLES
    status,       \* delivery_jobs.status; "absent" when there is no such row
    attempts,     \* delivery_jobs.attempts
    wait,         \* delivery_jobs.run_after, relative to now
    lockAge,      \* age of delivery_jobs.locked_at; NoLock when it is NULL
    log,          \* delivery_attempts of the job since it was last queued
    policy,       \* events.payload_policy; "unset" before the event is stored
    payload,      \* what events.payload_enc holds
    bindings,     \* the rows of target_bindings that exist
    doomed,       \* events whose payload the running Cleanup has just purged
    pc,           \* where each worker is in processJob
    held,         \* the job it claimed
    try,          \* the number of the attempt it makes
    snap,         \* the payload it read with the claim
    outcome,      \* how far its send got
    elapsed,      \* time since it claimed the job
    left,         \* disturbances that may still happen
    accepted,     \* history: jobs some attempt of which the remote accepted
    interfered,   \* history: jobs requeued by hand while a worker held them
    disturbed,    \* history: events with a job requeued by hand, or purged
    missed        \* history: events whose finalisation was interrupted

jobVars == <<status, attempts, wait, lockAge, log>>
eventVars == <<policy, payload>>
storeVars == <<eventVars, bindings, doomed>>
workerVars == <<pc, held, try, snap, outcome, elapsed>>
ghostVars == <<accepted, interfered, disturbed, missed>>
vars == <<jobVars, storeVars, workerVars, left, ghostVars>>

NoLock == -1
Active == {"pending", "processing"}
Terminal == {"success", "dead"}
Statuses == {"absent"} \cup Active \cup Terminal
Payloads == {"absent", "raw", "redacted", "null"}
Places == {"idle", "claimed", "sending", "finish", "settle", "replace"}
Outcomes == {"none", "sent", "ok", "failed"}
Row == [attempt : 1 .. MaxAttempts, ok : BOOLEAN]

\* The worker is between ClaimJob and the commit of FinishAttempt.
Delivering(w) == pc[w] \in {"claimed", "sending", "finish"}

JobsOf(e) == {j \in Job : EventOf[j] = e}
RowsOf(e) == {j \in JobsOf(e) : status[j] # "absent"}

\* A fault: jobs in the hands of a worker are not counted as remaining.
Complete_PendingOnly(e) == /\ RowsOf(e) # {}
                           /\ \A j \in RowsOf(e) : status[j] # "pending"

\* EventPayloadPolicyIfComplete finds a row and no job left to deliver; an
\* event without a single job gives no row at all.
Complete(e) == /\ RowsOf(e) # {}
               /\ \A j \in RowsOf(e) : status[j] \in Terminal

--------------------------------------------------------------------------------

Init ==
    /\ status = [j \in Job |-> "absent"]
    /\ attempts = [j \in Job |-> 0]
    /\ wait = [j \in Job |-> 0]
    /\ lockAge = [j \in Job |-> NoLock]
    /\ log = [j \in Job |-> <<>>]
    /\ policy = [e \in Event |-> "unset"]
    /\ payload = [e \in Event |-> "absent"]
    /\ bindings = Binding
    /\ doomed = {}
    /\ pc = [w \in Worker |-> "idle"]
    /\ held = [w \in Worker |-> NoJob]
    /\ try = [w \in Worker |-> 0]
    /\ snap = [w \in Worker |-> "absent"]
    /\ outcome = [w \in Worker |-> "none"]
    /\ elapsed = [w \in Worker |-> 0]
    /\ left = Quota
    /\ accepted = {}
    /\ interfered = {}
    /\ disturbed = {}
    /\ missed = {}

Disturb(kind) == /\ kind \in Disturbances
                 /\ left > 0
                 /\ left' = left - 1

\* The event is stored with its payload as received, nothing masked yet, and
\* one job for every enabled binding of the groups it goes to.
AcceptEvent(e, p, B) ==
    /\ policy[e] = "unset"
    /\ B \subseteq bindings
    /\ LET new == {j \in JobsOf(e) : BindingOf[j] \in B}
       IN  status' = [j \in Job |-> IF j \in new THEN "pending" ELSE status[j]]
    /\ policy' = [policy EXCEPT ![e] = p]
    /\ payload' = [payload EXCEPT ![e] = "raw"]
    /\ UNCHANGED <<attempts, wait, lockAge, log, bindings, doomed, workerVars,
                   left, ghostVars>>

--------------------------------------------------------------------------------
(* The worker: processJob, one action per transaction and per message.       *)

\* Faults a change could introduce: the lease is not looked at, or a job that is
\* processing is never taken over.
Claimable_LeaseIgnored(j) == status[j] \in Active /\ wait[j] <= 0
Claimable_NoTakeover(j) == status[j] = "pending" /\ wait[j] <= 0

Claimable(j) ==
    /\ \/ status[j] = "pending"
       \/ status[j] = "processing" /\ lockAge[j] > LeaseTime
    /\ wait[j] <= 0

\* ClaimJob takes a job that is due earliest.  Rows due at the same time are
\* told apart by created_at, to the second: any of them may come first.
ClaimJob(w, j) ==
    /\ pc[w] = "idle"
    /\ Claimable(j)
    /\ \A k \in Job : Claimable(k) => wait[j] <= wait[k]
    /\ status' = [status EXCEPT ![j] = "processing"]
    /\ lockAge' = [lockAge EXCEPT ![j] = 0]
    /\ pc' = [pc EXCEPT ![w] = "claimed"]
    /\ held' = [held EXCEPT ![w] = j]
    /\ try' = [try EXCEPT ![w] = attempts[j] + 1]
    /\ snap' = [snap EXCEPT ![w] = payload[EventOf[j]]]
    /\ UNCHANGED <<attempts, wait, log, storeVars, outcome, elapsed,
                   left, ghostVars>>

\* Everything before the send that may fail: the channel is disabled, the
\* template does not render, a secret or the payload does not decrypt.  A
\* payload that is no longer there never decrypts.
PrepareFails(w) ==
    /\ pc[w] = "claimed"
    /\ pc' = [pc EXCEPT ![w] = "finish"]
    /\ outcome' = [outcome EXCEPT ![w] = "failed"]
    /\ UNCHANGED <<jobVars, storeVars, held, try, snap, elapsed, left,
                   ghostVars>>

BeginSend(w) ==
    /\ pc[w] = "claimed"
    /\ snap[w] # "null"
    /\ pc' = [pc EXCEPT ![w] = "sending"]
    /\ UNCHANGED <<jobVars, storeVars, held, try, snap, outcome, elapsed,
                   left, ghostVars>>

\* The channel accepts the message; the worker does not know it yet.
RemoteAccepts(w) ==
    /\ pc[w] = "sending"
    /\ outcome[w] = "none"
    /\ outcome' = [outcome EXCEPT ![w] = "sent"]
    /\ accepted' = accepted \cup {held[w]}
    /\ UNCHANGED <<jobVars, storeVars, pc, held, try, snap, elapsed, left,
                   interfered, disturbed, missed>>

\* Send returns.  Success is an answer of the channel that accepted the message;
\* failure is a refusal, or a timeout that may hide an acceptance.
SendReturns_TimeoutIsSuccess(w, result) ==
    /\ pc[w] = "sending"
    /\ outcome' = [outcome EXCEPT ![w] = result]
    /\ pc' = [pc EXCEPT ![w] = "finish"]
    /\ UNCHANGED <<jobVars, storeVars, held, try, snap, elapsed, left,
                   ghostVars>>

SendReturns(w, result) ==
    /\ pc[w] = "sending"
    /\ result = "ok" => outcome[w] = "sent"
    /\ outcome' = [outcome EXCEPT ![w] = result]
    /\ pc' = [pc EXCEPT ![w] = "finish"]
    /\ UNCHANGED <<jobVars, storeVars, held, try, snap, elapsed, left,
                   ghostVars>>

ReleaseWorkers(W) ==
    /\ pc' = [w \in Worker |-> IF w \in W THEN "idle" ELSE pc[w]]
    /\ held' = [w \in Worker |-> IF w \in W THEN NoJob ELSE held[w]]
    /\ try' = [w \in Worker |-> IF w \in W THEN 0 ELSE try[w]]
    /\ snap' = [w \in Worker |-> IF w \in W THEN "absent" ELSE snap[w]]
    /\ outcome' = [w \in Worker |-> IF w \in W THEN "none" ELSE outcome[w]]
    /\ elapsed' = [w \in Worker |-> IF w \in W THEN 0 ELSE elapsed[w]]

\* Faults: dead one attempt early, the counter advanced from what the row holds
\* by now.
StatusAfter_OneEarly(n, ok) ==
    IF ok THEN "success" ELSE IF n + 1 >= MaxAttempts THEN "dead" ELSE "pending"
AttemptsAfter_Increment(j, n) == attempts[j] + 1

\* What an attempt makes of its job.  Neither the status nor the lock that the
\* row has by now is looked at.
StatusAfter(n, ok) ==
    IF ok THEN "success" ELSE IF n >= MaxAttempts THEN "dead" ELSE "pending"

WaitsAfter(n, ok) ==
    IF StatusAfter(n, ok) = "pending" THEN Backoff[n] .. Backoff[n] + Jitter
                                      ELSE {0}

AttemptsAfter(j, n) == n

FinishAttempt(w) ==
    LET j == held[w]
        n == try[w]
        ok == outcome[w] = "ok"
    IN  /\ pc[w] = "finish"
        /\ status[j] # "absent"
        /\ status' = [status EXCEPT ![j] = StatusAfter(n, ok)]
        /\ attempts' = [attempts EXCEPT ![j] = AttemptsAfter(j, n)]
        /\ \E d \in WaitsAfter(n, ok) : wait' = [wait EXCEPT ![j] = d]
        /\ lockAge' = [lockAge EXCEPT ![j] = NoLock]
        /\ log' = [log EXCEPT ![j] = Append(@, [attempt |-> n, ok |-> ok])]
        /\ pc' = [pc EXCEPT ![w] = "settle"]
        /\ UNCHANGED <<storeVars, held, try, snap, outcome, elapsed,
                       left, ghostVars>>

\* The transaction fails: always when the job is gone, because the attempt's
\* row refers to it, and otherwise when the database returns an error.
FinishFails(w) ==
    /\ pc[w] = "finish"
    /\ \/ status[held[w]] = "absent" /\ UNCHANGED left
       \/ status[held[w]] # "absent" /\ Disturb("dbfail")
    /\ ReleaseWorkers({w})
    /\ UNCHANGED <<jobVars, storeVars, ghostVars>>

\* finalizeEventPayload reads the policy and whether the event is complete, and
\* goes on only with something to write.
ReadPolicy(w) ==
    LET e == EventOf[held[w]]
    IN  /\ pc[w] = "settle"
        /\ \/ /\ Complete(e)
              /\ ~(policy[e] = "redacted" /\ snap[w] = "null")
              /\ pc' = [pc EXCEPT ![w] = "replace"]
              /\ UNCHANGED <<held, try, snap, outcome, elapsed>>
           \/ /\ \/ ~Complete(e)
                 \/ policy[e] = "redacted" /\ snap[w] = "null"
              /\ ReleaseWorkers({w})
        /\ UNCHANGED <<jobVars, storeVars, left, ghostVars>>

\* What is written is decided by the policy; the redacted form is made from the
\* payload the worker read when it claimed the job.  (Fault: written as read.)
Retained_Snapshot(e) == IF policy[e] = "redacted" THEN "raw" ELSE "null"

Retained(e) == IF policy[e] = "redacted" THEN "redacted" ELSE "null"

ReplacePayload(w) ==
    LET e == EventOf[held[w]]
    IN  /\ pc[w] = "replace"
        /\ payload' = [payload EXCEPT
                          ![e] = IF @ = "absent" THEN @ ELSE Retained(e)]
        /\ ReleaseWorkers({w})
        /\ UNCHANGED <<jobVars, policy, bindings, doomed, left, ghostVars>>

\* Either statement of the finalisation fails; the error is dropped.
FinalizeFails(w) ==
    /\ pc[w] \in {"settle", "replace"}
    /\ Disturb("dbfail")
    /\ missed' = missed \cup {EventOf[held[w]]}
    /\ ReleaseWorkers({w})
    /\ UNCHANGED <<jobVars, storeVars, accepted, interfered, disturbed>>

--------------------------------------------------------------------------------
(* The administrator, the maintenance task, time, and the process itself.    *)

\* The redelivery handler: whatever state the job is in, it is queued afresh.
RetryJob(j) ==
    /\ status[j] # "absent"
    /\ Disturb("retry")
    /\ status' = [status EXCEPT ![j] = "pending"]
    /\ attempts' = [attempts EXCEPT ![j] = 0]
    /\ wait' = [wait EXCEPT ![j] = 0]
    /\ lockAge' = [lockAge EXCEPT ![j] = NoLock]
    /\ log' = [log EXCEPT ![j] = <<>>]
    /\ disturbed' = disturbed \cup {EventOf[j]}
    /\ interfered' = IF \E w \in Worker : Delivering(w) /\ held[w] = j
                     THEN interfered \cup {j} ELSE interfered
    /\ UNCHANGED <<storeVars, workerVars, accepted, missed>>

\* Rows of delivery_jobs that go with a row they refer to.
RemoveJobs(J) ==
    /\ status' = [j \in Job |-> IF j \in J THEN "absent" ELSE status[j]]
    /\ attempts' = [j \in Job |-> IF j \in J THEN 0 ELSE attempts[j]]
    /\ wait' = [j \in Job |-> IF j \in J THEN 0 ELSE wait[j]]
    /\ lockAge' = [j \in Job |-> IF j \in J THEN NoLock ELSE lockAge[j]]
    /\ log' = [j \in Job |-> IF j \in J THEN <<>> ELSE log[j]]

\* The jobs of bindings B go, delivered or not, because they refer to them.
CascadeBindings(B) ==
    LET J == {j \in Job : BindingOf[j] \in B}
    IN  /\ RemoveJobs(J)
        /\ missed' = missed \cup
                        {EventOf[j] : j \in {k \in J : status[k] \in Active}}
        /\ UNCHANGED <<eventVars, doomed, workerVars, accepted, interfered,
                       disturbed>>

\* Saving a target group, be it to rename it, deletes its bindings and inserts
\* them again.
SaveGroup(B) ==
    /\ B # {}
    /\ B \subseteq bindings
    /\ Disturb("drop")
    /\ CascadeBindings(B)
    /\ UNCHANGED bindings

\* Deleting a group, a channel or a template deletes the bindings that use it.
DeleteBindings(B) ==
    /\ B # {}
    /\ B \subseteq bindings
    /\ Disturb("drop")
    /\ CascadeBindings(B)
    /\ bindings' = bindings \ B

\* The first statement of Cleanup: payloads older than the payload retention go.
\* How old an event is, against a retention counted in days, is left open.
PurgePayloads(E) ==
    /\ doomed = {}
    /\ E # {}
    /\ \A e \in E : payload[e] # "absent"
    /\ Disturb("purge")
    /\ payload' = [e \in Event |-> IF e \in E THEN "null" ELSE payload[e]]
    /\ doomed' = E
    /\ disturbed' = disturbed \cup E
    /\ UNCHANGED <<jobVars, policy, bindings, workerVars, accepted, interfered,
                   missed>>

\* The second statement: events older than the metadata retention, which is no
\* shorter, go with their jobs.
DeleteOldEvents(D) ==
    /\ doomed # {}
    /\ D \subseteq doomed
    /\ RemoveJobs({j \in Job : EventOf[j] \in D})
    /\ payload' = [e \in Event |-> IF e \in D THEN "absent" ELSE payload[e]]
    /\ doomed' = {}
    /\ UNCHANGED <<policy, bindings, workerVars, left, ghostVars>>

\* The process stops at any point, and starts again with what the database
\* holds.  A shutdown is the same: nothing waits for the workers.
Crash ==
    /\ Disturb("crash")
    /\ missed' = missed \cup
                    {EventOf[held[w]] :
                        w \in {v \in Worker : pc[v] \in {"settle", "replace"}}}
    /\ doomed' = {}
    /\ ReleaseWorkers(Worker)
    /\ UNCHANGED <<jobVars, eventVars, bindings, accepted, interfered,
                   disturbed>>

\* Time passes, but not past the deadline of a worker that holds a job.
Deadline(w) ==
    IF pc[w] \in {"claimed", "sending"} THEN SendTimeout ELSE HoldLimit

Overdue(n) == IF n > -Horizon THEN n - 1 ELSE n

Tick ==
    /\ \A w \in Worker : pc[w] # "idle" => elapsed[w] < Deadline(w)
    /\ wait' = [j \in Job |-> IF status[j] \in Active THEN Overdue(wait[j])
                                                      ELSE wait[j]]
    /\ lockAge' = [j \in Job |-> IF lockAge[j] \in 0 .. LeaseTime
                                 THEN lockAge[j] + 1 ELSE lockAge[j]]
    /\ elapsed' = [w \in Worker |->
                       IF pc[w] = "idle" THEN 0 ELSE elapsed[w] + 1]
    /\ UNCHANGED <<status, attempts, log, storeVars, pc, held, try, snap,
                   outcome, left, ghostVars>>

--------------------------------------------------------------------------------

WorkerStep(w) ==
    \/ \E j \in Job : ClaimJob(w, j)
    \/ PrepareFails(w)
    \/ BeginSend(w)
    \/ RemoteAccepts(w)
    \/ \E result \in {"ok", "failed"} : SendReturns(w, result)
    \/ FinishAttempt(w)
    \/ FinishFails(w)
    \/ ReadPolicy(w)
    \/ ReplacePayload(w)
    \/ FinalizeFails(w)

Next ==
    \/ \E e \in Event, p \in Policies, B \in SUBSET Binding :
          AcceptEvent(e, p, B)
    \/ \E w \in Worker : WorkerStep(w)
    \/ \E j \in Job : RetryJob(j)
    \/ \E B \in SUBSET Binding : SaveGroup(B)
    \/ \E B \in SUBSET Binding : DeleteBindings(B)
    \/ \E E \in SUBSET Event : PurgePayloads(E)
    \/ \E D \in SUBSET Event : DeleteOldEvents(D)
    \/ Crash
    \/ Tick

Spec == Init /\ [][Next]_vars

\* Workers poll every second and each of their calls returns; time passes; and
\* the maintenance task, once started, runs its second statement.  Nothing
\* obliges an event to come, an administrator to act or anything to fail.
Fairness ==
    /\ WF_vars(Tick)
    /\ WF_vars(\E D \in SUBSET Event : DeleteOldEvents(D))
    /\ \A w \in Worker :
          /\ WF_vars(\E j \in Job : ClaimJob(w, j))
          /\ WF_vars(PrepareFails(w) \/ BeginSend(w))
          /\ WF_vars(\E result \in {"ok", "failed"} : SendReturns(w, result))
          /\ WF_vars(FinishAttempt(w) \/ FinishFails(w))
          /\ WF_vars(ReadPolicy(w))
          /\ WF_vars(ReplacePayload(w))

FairSpec == Spec /\ Fairness

--------------------------------------------------------------------------------
(* Properties.                                                               *)

TypeJobs ==
    /\ status \in [Job -> Statuses]
    /\ attempts \in [Job -> 0 .. MaxAttempts]
    /\ wait \in [Job -> Int]
    /\ lockAge \in [Job -> NoLock .. LeaseTime + 1]
    /\ log \in [Job -> Seq(Row)]

TypeStore ==
    /\ policy \in [Event -> Policies \cup {"unset"}]
    /\ payload \in [Event -> Payloads]
    /\ bindings \subseteq Binding
    /\ doomed \subseteq Event

TypeWorkers ==
    /\ pc \in [Worker -> Places]
    /\ held \in [Worker -> Job \cup {NoJob}]
    /\ try \in [Worker -> 0 .. MaxAttempts]
    /\ snap \in [Worker -> Payloads]
    /\ outcome \in [Worker -> Outcomes]
    /\ elapsed \in [Worker -> 0 .. HoldLimit]

TypeHistory ==
    /\ left \in Nat
    /\ accepted \subseteq Job
    /\ interfered \subseteq Job
    /\ disturbed \subseteq Event
    /\ missed \subseteq Event

TypeOK == TypeJobs /\ TypeStore /\ TypeWorkers /\ TypeHistory

\* A job that can still be claimed has an attempt left, and a dead one has used
\* them all: a worker never makes attempt MaxAttempts + 1, for which the table
\* of delays has no entry.  A job is locked exactly while it is processing: one
\* that is processing with no lock would never be claimed again.
AttemptsLeft ==
    \A j \in Job :
        /\ status[j] \in Active => attempts[j] < MaxAttempts
        /\ status[j] = "dead" => attempts[j] = MaxAttempts
        /\ (lockAge[j] # NoLock) <=> (status[j] = "processing")

\* A job is a success only when the channel accepted its message, whatever
\* crashes, manual retries and late workers did in between.
SuccessWasAccepted ==
    \A j \in Job : status[j] = "success" => j \in accepted

\* The state of a job is the one its latest attempt left: the row of
\* delivery_attempts and the columns of delivery_jobs never disagree, also when
\* an attempt ends after the job was claimed, requeued or finished by others.
LatestRowCounts(j) ==
    IF log[j] = <<>>
    THEN attempts[j] = 0 /\ status[j] \notin Terminal
    ELSE /\ log[j][Len(log[j])].attempt = attempts[j]
         /\ log[j][Len(log[j])].ok <=> status[j] = "success"

LogMatchesJob == \A j \in Job : LatestRowCounts(j)

\* No two workers deliver the same job at the same time, unless it was requeued
\* by hand while one of them had it.  This is what the lease is for; it needs
\* HoldLimit <= LeaseTime.
OneWorkerPerJob ==
    \A v, w \in Worker :
        v # w /\ Delivering(v) /\ Delivering(w) /\ held[v] = held[w]
            => held[v] \in interfered

\* The attempts of a job since it was last queued are numbered 1, 2, 3 and so
\* on without a gap or a repetition, and only the last may be a success, unless
\* it was requeued by hand while a worker had it.
CompleteHistory ==
    \A j \in Job \ interfered :
        /\ Len(log[j]) = attempts[j]
        /\ \A i \in 1 .. Len(log[j]) :
              /\ log[j][i].attempt = i
              /\ i < Len(log[j]) => ~log[j][i].ok

\* While an event still has a job to deliver, its payload is the one received:
\* finishing one job never takes the payload from another.  (Neither a manual
\* retry nor a retention purge has touched the event.)
PayloadKeptWhileNeeded ==
    \A j \in Job :
        status[j] \in Active /\ EventOf[j] \notin disturbed
            => payload[EventOf[j]] = "raw"

\* Once every job of an event is delivered or dead and no worker is about to
\* finalise it, its payload has been masked or dropped as the policy says.
\* (No crash, database error or removal of its jobs has cut that short.)
PolicyApplied ==
    \A e \in Event \ missed :
        /\ Complete(e)
        /\ ~ \E w \in Worker :
                pc[w] \in {"settle", "replace"} /\ EventOf[held[w]] = e
        => payload[e] # "raw"

\* Action property: a job that was delivered stays so until it is requeued by
\* hand or removed; no late worker takes it back.
DeliveredStaysDelivered ==
    [][\A j \in Job :
          status[j] = "success" /\ status'[j] # "success"
              => \/ status'[j] = "absent"
                 \/ status'[j] = "pending" /\ attempts'[j] = 0
                 \/ j \in interfered]_vars

\* Action property: a payload that has been masked or dropped never comes back
\* as it was received, though a worker may still hold it.
PayloadStaysMasked ==
    [][\A e \in Event :
          payload[e] \in {"redacted", "null"} => payload'[e] # "raw"]_vars

\* What makes the properties above inductive.  A worker that is not idle holds
\* a job of a stored event, is at an attempt that exists, and believes in a
\* success only when the channel accepted.
WorkersHoldJobs ==
    \A w \in Worker :
        /\ pc[w] = "idle" => outcome[w] = "none" /\ elapsed[w] = 0
        /\ pc[w] # "idle" => /\ held[w] \in Job
                             /\ try[w] \in 1 .. MaxAttempts
                             /\ policy[EventOf[held[w]]] # "unset"
        /\ pc[w] \in {"claimed", "sending"} => outcome[w] \in {"none", "sent"}
        /\ outcome[w] \in {"sent", "ok"} => held[w] \in accepted

\* The columns of a row that is not there are empty, and before an event is
\* stored there is no job of it.
AbsentJobsAreEmpty ==
    \A j \in Job :
        status[j] = "absent"
            => attempts[j] = 0 /\ lockAge[j] = NoLock /\ log[j] = <<>>

NothingBeforeTheEvent ==
    \A e \in Event :
        policy[e] = "unset" =>
            /\ payload[e] = "absent"
            /\ \A j \in JobsOf(e) : status[j] = "absent"

\* A worker in whose way nobody came still has the lock it took: the age of the
\* lock is the time since the claim, and no attempt was counted meanwhile.
LeaseHeld ==
    \A w \in Worker :
        Delivering(w) /\ held[w] \notin interfered =>
            \/ status[held[w]] = "absent"
            \/ /\ status[held[w]] = "processing"
               /\ lockAge[held[w]] = elapsed[w]
               /\ try[w] = attempts[held[w]] + 1

\* What a manual retry takes from a worker belongs to an event it disturbed; a
\* worker about to replace the payload of an undisturbed event left no job to
\* deliver; and a worker that found no payload holds a job of an event without.
FinalisersComeLast ==
    /\ \A j \in interfered : EventOf[j] \in disturbed
    /\ \A w \in Worker, j \in Job :
          /\ pc[w] = "replace"
          /\ EventOf[j] = EventOf[held[w]]
          /\ EventOf[j] \notin disturbed
          => status[j] \notin Active

EmptyHanded ==
    \A w \in Worker :
        pc[w] # "idle" /\ snap[w] = "null" => payload[EventOf[held[w]]] # "raw"

CoreInvariant ==
    /\ TypeOK
    /\ WorkersHoldJobs
    /\ AbsentJobsAreEmpty
    /\ NothingBeforeTheEvent
    /\ AttemptsLeft
    /\ SuccessWasAccepted
    /\ LogMatchesJob
    /\ EmptyHanded
    /\ PolicyApplied

LeaseInvariant ==
    /\ LeaseHeld
    /\ OneWorkerPerJob
    /\ CompleteHistory
    /\ FinalisersComeLast
    /\ PayloadKeptWhileNeeded

\* The queue implements its contract: pending and processing are one phase, in
\* which claims, leases, crashes and takeovers are not seen.  Like the lease it
\* needs HoldLimit <= LeaseTime.
PhaseOf(s) == CASE s = "absent" -> "none"
                [] s \in Active -> "queued"
                [] s = "success" -> "delivered"
                [] s = "dead" -> "dead"

Contract == INSTANCE QueueContract WITH
                phase <- [j \in Job |-> PhaseOf(status[j])],
                tries <- attempts,
                contested <- interfered

KeepsContract == Contract!Spec

\* Action property, of the README's durable queue and at-least-once delivery: a
\* job leaves the queue undelivered only with its event or its binding.
QueuedJobsSurvive ==
    [][\A j \in Job :
          status[j] \in Active /\ status'[j] = "absent"
              => \/ BindingOf[j] \notin bindings'
                 \/ payload'[EventOf[j]] = "absent"]_vars

\* Liveness: every job that is queued is delivered, dies or is removed, through
\* crashes that leave it locked and errors that leave it processing.
EveryJobSettles ==
    \A j \in Job : status[j] \in Active ~> status[j] \notin Active

================================================================================
