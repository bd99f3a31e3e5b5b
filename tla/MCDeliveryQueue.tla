---------------------------- MODULE MCDeliveryQueue ----------------------------
(* Instances of DeliveryQueue for TLC.  One unit of time stands for anything  *)
(* from the send timeout to a lease; only the order of the limits matters.    *)
EXTENDS DeliveryQueue, TLC

MCJob == Event \X Binding
MCEventOf == [j \in MCJob |-> j[1]]
MCBindingOf == [j \in MCJob |-> j[2]]

MCBackoff == [n \in 1 .. MaxAttempts - 1 |-> n]

MCSymmetry == Permutations(Worker) \cup Permutations(Binding)
================================================================================
