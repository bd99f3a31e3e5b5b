----------------------------- MODULE QueueContract -----------------------------
(* What the delivery queue promises of a job, whatever workers, leases,       *)
(* crashes and payload policies are behind it: a job that is queued stays     *)
(* queued until a channel has accepted its message or MaxAttempts attempts    *)
(* have failed, one after the other, and then stays as it is until somebody   *)
(* queues it again or removes it.                                             *)
(*                                                                            *)
(* A job that is queued again while an attempt is under way is contested: that *)
(* attempt still counts when it ends, and may overtake the new ones.          *)
EXTENDS Integers

CONSTANTS
    Job,          \* the jobs there may be
    MaxAttempts   \* attempts before a job is dead

VARIABLES
    phase,        \* "none", "queued", "delivered" or "dead"
    tries,        \* attempts counted since the job was queued
    accepted,     \* jobs whose message a channel has accepted
    contested     \* jobs queued again with an attempt under way

vars == <<phase, tries, accepted, contested>>

Init ==
    /\ phase = [j \in Job |-> "none"]
    /\ tries = [j \in Job |-> 0]
    /\ accepted = {}
    /\ contested = {}

\* An event comes with all its jobs.
Enqueue(J) ==
    /\ \A j \in J : phase[j] = "none"
    /\ phase' = [j \in Job |-> IF j \in J THEN "queued" ELSE phase[j]]
    /\ UNCHANGED <<tries, accepted, contested>>

\* A channel accepts the message; the queue need not learn of it.
Accept(j) ==
    /\ accepted' = accepted \cup {j}
    /\ UNCHANGED <<phase, tries, contested>>

\* An attempt of a queued job ends.
Succeed(j) ==
    /\ phase[j] = "queued"
    /\ j \in accepted
    /\ phase' = [phase EXCEPT ![j] = "delivered"]
    /\ tries' = [tries EXCEPT ![j] = @ + 1]
    /\ UNCHANGED <<accepted, contested>>

Fail(j) ==
    /\ phase[j] = "queued"
    /\ tries' = [tries EXCEPT ![j] = @ + 1]
    /\ phase' = [phase EXCEPT ![j] = IF tries[j] + 1 < MaxAttempts THEN "queued"
                                                                   ELSE "dead"]
    /\ UNCHANGED <<accepted, contested>>

\* An attempt of a contested job ends: it leaves the job as if it were the nth
\* since the job was queued.
EndLate(j, n, p) ==
    /\ j \in contested
    /\ phase[j] # "none"
    /\ p = "delivered" => j \in accepted
    /\ p = "dead" => n = MaxAttempts
    /\ phase' = [phase EXCEPT ![j] = p]
    /\ tries' = [tries EXCEPT ![j] = n]
    /\ UNCHANGED <<accepted, contested>>

\* By hand, from any phase.
Requeue(j) ==
    /\ phase[j] # "none"
    /\ phase' = [phase EXCEPT ![j] = "queued"]
    /\ tries' = [tries EXCEPT ![j] = 0]
    /\ contested' \in {contested, contested \cup {j}}
    /\ UNCHANGED accepted

\* With their event, or with what they are to be sent to.
Remove(J) ==
    /\ phase' = [j \in Job |-> IF j \in J THEN "none" ELSE phase[j]]
    /\ tries' = [j \in Job |-> IF j \in J THEN 0 ELSE tries[j]]
    /\ UNCHANGED <<accepted, contested>>

Next ==
    \/ \E J \in SUBSET Job : Enqueue(J) \/ Remove(J)
    \/ \E j \in Job :
          \/ Accept(j) \/ Succeed(j) \/ Fail(j) \/ Requeue(j)
          \/ \E n \in 1 .. MaxAttempts, p \in {"queued", "delivered", "dead"} :
                EndLate(j, n, p)

Spec == Init /\ [][Next]_vars

================================================================================
