-------------------------------- MODULE MCIngest -------------------------------
(* Instances of Ingest for TLC.                                               *)
EXTENDS Ingest, TLC

CONSTANTS r1, r2, r3, s1, s2, x1, x2, g1, g2, b1, b2, k1

MCSourceOf == [r \in Request |-> IF r = r3 /\ s2 \in Source THEN s2 ELSE s1]
MCKeyOf == [r \in Request |-> k1]
MCMatches == [x \in Rule |-> Request]
MCCreatedAt == [x \in Rule |-> 0]
MCGroupOf == [b \in Binding |-> IF b = b1 THEN g1 ELSE g2]

\* Requests r1 and r2 come from the same source.
MCSymmetry == Permutations({r1, r2})

\* Of two alike senders only one is varied; each rule has its own group.
MCInit ==
    /\ Init
    /\ source[s2] = [on |-> TRUE, mode |-> "first_match", policy |-> "redacted"]
    /\ \A x \in Rule : rule[x].src = s1
    /\ rule[x1].group = g1 /\ rule[x2].group = g2
    /\ bindings = Binding
MCSpec == MCInit /\ [][Next]_vars
================================================================================
