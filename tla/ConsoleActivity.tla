---------------------------- MODULE ConsoleActivity ---------------------------
(***************************************************************************)
(* The pages of the console that poll: the activity page, with its tabs of *)
(* deliveries and events, and the dashboard.  They show what the workers   *)
(* are doing meanwhile; a dead delivery can be sent for another round.     *)
(***************************************************************************)
EXTENDS ConsoleTab, FiniteSets

CONSTANT MaxEvents    \* bound: the events that ever arrive

ASSUME EventsAssumption == /\ MaxEvents \in Nat
                           /\ \A t \in Tours : t.events \in 0..MaxEvents

VARIABLE jobs    \* the server's delivery jobs, one per event

activityVars == <<jobs>>
Job == 1..MaxEvents
Arrived == {j \in Job : jobs[j] # "none"}
With(status) == {j \in Job : jobs[j] = status}

(* What the three polled queries read.                                     *)
DeliveryList == [j \in Arrived |-> jobs[j]]
EventList == Arrived
Metrics == [events |-> Cardinality(Arrived),
            pending |-> Cardinality(With("pending")),
            failed |-> Cardinality(With("dead"))]

ActivityForm == [tab |-> "deliveries"]
DashboardForm == [tab |-> "none"]

ChooseTab ==
  /\ page = "activity" /\ GateOpen
  /\ \E tab \in {"deliveries", "events"} \ {view.tab} :
       view' = [view EXCEPT !.tab = tab]
  /\ UNCHANGED <<tour, page, copy, calls, sent, sessionVars, faults, excused,
                 jobs>>

(* The button of a row is live when the copy shows it dead, and does not   *)
(* wait for a retry under way.                                             *)
DeadRows == IF copy["deliveries"].known
            THEN {j \in DOMAIN copy["deliveries"].value :
                    copy["deliveries"].value[j] = "dead"}
            ELSE {}

Retry ==
  /\ page = "activity" /\ GateOpen /\ view.tab = "deliveries"
  /\ \E j \in DeadRows : Send(<<"retry", "activity">>, j)
  /\ UNCHANGED <<view, jobs>>

(* RetryJob makes a job pending whatever it was.                           *)
ServeRetry(i) ==
  /\ Accepted(i, <<"retry", "activity">>)
  /\ calls[i].arg \in Arrived
  /\ jobs' = [jobs EXCEPT ![calls[i].arg] = "pending"]
  /\ Served(i, Blank)
  /\ UNCHANGED <<tour, page, view, copy, sent, sessionVars, faults, excused>>

RetryAnswered(i) ==
  /\ Answered(i, <<"retry", "activity">>)
  /\ Done(i)
  /\ copy' = Invalidated(copy, {"deliveries"})
  /\ UNCHANGED <<tour, page, view, sent, sessionVars, faults, excused, jobs>>

LoseRetryAnswer(i) ==
  /\ Lost(i, <<"retry", "activity">>)
  /\ UNCHANGED <<view, copy, excused, jobs>>

(* An event arrives with its job, or a worker ends one: dead or delivered. *)
Workers ==
  /\ \/ \E j \in 1..tour.events :
                       /\ jobs[j] = "none" /\ \A k \in 1..(j - 1) : k \in Arrived
                       /\ jobs' = [jobs EXCEPT ![j] = "pending"]
     \/ \E j \in With("pending") : \E end \in {"success", "dead"} :
          jobs' = [jobs EXCEPT ![j] = end]
  /\ UNCHANGED tabVars

ActivityNext ==
  \/ ChooseTab \/ Retry
  \/ \E i \in Call : ServeRetry(i) \/ RetryAnswered(i) \/ LoseRetryAnswer(i)
  \/ Workers

JobsTypeOK == jobs \in [Job -> {"none", "pending", "success", "dead"}]
===============================================================================
