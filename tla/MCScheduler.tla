------------------------------ MODULE MCScheduler ------------------------------
(* Instances of Scheduler for TLC.                                            *)
EXTENDS Scheduler, TLC

\* One run, or runs at each minute.
MCOccurs == [r \in Recurrence |->
    CASE r = "once" -> {1}
      [] r = "often" -> {1, 2}]
================================================================================
