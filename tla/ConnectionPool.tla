---------------------------- MODULE ConnectionPool ----------------------------
(* The database connections that requests and workers share.                  *)
(*                                                                            *)
(* A statement or a transaction takes a connection from the pool, waiting for *)
(* one if need be, and gives it back when it is done.  Listing the target     *)
(* groups is different: it reads a group, and for each takes a connection for *)
(* the group's bindings while the first one is still reading groups.          *)
EXTENDS Integers, FiniteSets

CONSTANTS
    Pools,        \* the pools to consider, each a set of connections: Open
                  \* calls SetMaxOpenConns(1), so its pool has one
    Worker,       \* goroutines whose calls end only when they are served
    Request,      \* handlers, whose context ends when the client hangs up
    Group,        \* ids of target groups
    NoOne

Caller == Worker \cup Request

ASSUME PoolAssumption ==
    /\ \A pool \in Pools : IsFiniteSet(pool) /\ pool # {}
    /\ Worker \cap Request = {}
    /\ NoOne \notin Caller

VARIABLES
    owner,        \* who uses each connection
    pc,           \* what each caller is at
    group,        \* the group that a call is to write, for a call that does
    todo,         \* the groups whose bindings a listing has still to read
    groups        \* the table target_groups

vars == <<owner, pc, group, todo, groups>>

Places == {"idle",
           "wants",                        \* a statement, a transaction
           "runs",
           "wants_groups", "reads_groups", \* ListGroups
           "wants_bindings", "reads_bindings"}

Conn == DOMAIN owner
Held(c) == {x \in Conn : owner[x] = c}
Goes(c, place) == pc' = [pc EXCEPT ![c] = place]

--------------------------------------------------------------------------------

Init ==
    /\ owner \in {[x \in pool |-> NoOne] : pool \in Pools}
    /\ pc = [c \in Caller |-> "idle"]
    /\ group = [c \in Caller |-> NoOne]
    /\ todo = [c \in Caller |-> {}]
    /\ groups = {}

\* A call of the store that is one statement or one transaction.  Requests may
\* write a group: g is saved if there is none and deleted if there is one.
Call(c, g) ==
    /\ pc[c] = "idle"
    /\ c \in Worker => g = NoOne
    /\ pc' = [pc EXCEPT ![c] = "wants"]
    /\ group' = [group EXCEPT ![c] = g]
    /\ UNCHANGED <<owner, todo, groups>>

CallListGroups(c) ==
    /\ c \in Request
    /\ pc[c] = "idle"
    /\ pc' = [pc EXCEPT ![c] = "wants_groups"]
    /\ UNCHANGED <<owner, group, todo, groups>>

\* A caller that waits for a connection is handed one that nobody uses.  The
\* pool hands it to a waiting caller at random.
Take(c) ==
    /\ \E x \in Conn : owner[x] = NoOne /\ owner' = [owner EXCEPT ![x] = c]
    /\ \/ pc[c] = "wants" /\ Goes(c, "runs") /\ UNCHANGED todo
       \/ /\ pc[c] = "wants_groups"
          /\ Goes(c, "reads_groups")
          /\ todo' = [todo EXCEPT ![c] = groups]
       \/ pc[c] = "wants_bindings" /\ Goes(c, "reads_bindings") /\ UNCHANGED todo
    /\ UNCHANGED <<group, groups>>

\* SaveGroup inserts a group, DeleteGroup deletes it; other calls do neither.
Written(g) ==
    IF g = NoOne THEN groups
    ELSE IF g \in groups THEN groups \ {g} ELSE groups \cup {g}

\* The statement is done: the connection is free again.
Finish(c) ==
    /\ pc[c] = "runs"
    /\ owner' = [x \in Conn |-> IF owner[x] = c THEN NoOne ELSE owner[x]]
    /\ Goes(c, "idle")
    /\ group' = [group EXCEPT ![c] = NoOne]
    /\ groups' = Written(group[c])
    /\ UNCHANGED todo

\* The row of a group has been read; the rows are still open.
ReadGroup(c) ==
    /\ pc[c] = "reads_groups"
    /\ todo[c] # {}
    /\ Goes(c, "wants_bindings")
    /\ UNCHANGED <<owner, group, todo, groups>>

\* GroupBindings is done and gives back its own connection, not the first.
ReadBindings(c) ==
    /\ pc[c] = "reads_bindings"
    /\ \E x \in Held(c) : owner' = [owner EXCEPT ![x] = NoOne]
    /\ \E g \in todo[c] : todo' = [todo EXCEPT ![c] = @ \ {g}]
    /\ Goes(c, "reads_groups")
    /\ UNCHANGED <<group, groups>>

\* The listing is complete and its rows are closed.
ListingDone(c) ==
    /\ pc[c] = "reads_groups"
    /\ todo[c] = {}
    /\ owner' = [x \in Conn |-> IF owner[x] = c THEN NoOne ELSE owner[x]]
    /\ Goes(c, "idle")
    /\ UNCHANGED <<group, todo, groups>>

\* A fault: the rows of the listing are not closed when it fails.
HangUp_RowsOpen(c) ==
    /\ c \in Request
    /\ pc[c] # "idle"
    /\ Goes(c, "idle")
    /\ owner' = [x \in Conn |-> IF owner[x] = c /\ pc[c] # "wants_bindings"
                                THEN NoOne ELSE owner[x]]
    /\ group' = [group EXCEPT ![c] = NoOne]
    /\ todo' = [todo EXCEPT ![c] = {}]
    /\ UNCHANGED groups

\* The client hangs up: the request's context ends, a wait or a statement fails,
\* a transaction is rolled back, and what was open is closed.
HangUp(c) ==
    /\ c \in Request
    /\ pc[c] # "idle"
    /\ Goes(c, "idle")
    /\ owner' = [x \in Conn |-> IF owner[x] = c THEN NoOne ELSE owner[x]]
    /\ group' = [group EXCEPT ![c] = NoOne]
    /\ todo' = [todo EXCEPT ![c] = {}]
    /\ UNCHANGED groups

Work(c) == Finish(c) \/ ReadGroup(c) \/ ReadBindings(c) \/ ListingDone(c)

Next ==
    \E c \in Caller :
        \/ \E g \in Group \cup {NoOne} : Call(c, g)
        \/ CallListGroups(c)
        \/ Take(c)
        \/ Work(c)
        \/ HangUp(c)

Spec == Init /\ [][Next]_vars

\* Statements end, and a caller that is passed over again and again is handed a
\* connection in the end.
Fairness == \A c \in Caller : WF_vars(Work(c)) /\ SF_vars(Take(c))

\* Nobody hangs up for good reason; and, for what can be said of the others, the
\* client of a listing that hangs does so in the end.
FairSpec == Spec /\ Fairness
ImpatientSpec ==
    /\ FairSpec
    /\ \A c \in Request : WF_vars(pc[c] = "wants_bindings" /\ HangUp(c))

--------------------------------------------------------------------------------

TypeOK ==
    /\ owner \in UNION {[pool -> Caller \cup {NoOne}] : pool \in Pools}
    /\ pc \in [Caller -> Places]
    /\ group \in [Caller -> Group \cup {NoOne}]
    /\ todo \in [Caller -> SUBSET Group]
    /\ groups \subseteq Group

\* Who is idle, or waits for a first connection, keeps none from the others: on
\* every path out of a call, its connections are given back.
NothingLeaks ==
    \A c \in Caller :
        Cardinality(Held(c)) =
            CASE pc[c] \in {"idle", "wants", "wants_groups"} -> 0
              [] pc[c] \in {"runs", "reads_groups", "wants_bindings"} -> 1
              [] pc[c] = "reads_bindings" -> 2

\* Liveness: what a worker asks of the database is done in the end, if only the
\* clients of listings that hang give up waiting for them.
WorkersAreServed == \A c \in Worker : pc[c] = "wants" ~> pc[c] = "idle"

\* Liveness, of the API's description of the listing: it is answered, unless the
\* client hangs up.  A listing that answers ends by ListingDone.
Answers(c) == pc[c] = "reads_groups" /\ todo[c] = {}

GroupsAreListed ==
    \A c \in Request :
        pc[c] = "wants_groups" ~> Answers(c) \/ pc[c] = "idle"

================================================================================
