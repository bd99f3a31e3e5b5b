-------------------------- MODULE ConnectionPoolProofs -------------------------
(* Theorems about ConnectionPool, for pools of any size and any number of     *)
(* callers and groups.                                                        *)
EXTENDS ConnectionPool, FiniteSetTheorems, TLAPS

NeedsNone == {"idle", "wants", "wants_groups"}
NeedsOne  == {"runs", "reads_groups", "wants_bindings"}

\* Which connections a caller has, where NothingLeaks only counts them.
HoldsOwn(c) ==
    /\ pc[c] \in NeedsNone => Held(c) = {}
    /\ pc[c] \in NeedsOne => \E x \in Conn : Held(c) = {x}
    /\ pc[c] = "reads_bindings" =>
           \E x, y \in Conn : x # y /\ Held(c) = {x, y}

PoolInvariant == TypeOK /\ \A c \in Caller : HoldsOwn(c)

--------------------------------------------------------------------------------
\* The pool is a function on its connections, and no caller is NoOne.
LEMMA PoolIsFunction ==
  ASSUME TypeOK
  PROVE  /\ owner \in [Conn -> Caller \cup {NoOne}]
         /\ \E pool \in Pools : Conn = pool
PROOF
  BY DEF TypeOK, Conn

\* A step that rewrites who owns which connection leaves the pool the same size.
LEMMA SameConnections ==
  ASSUME TypeOK, NEW f \in [Conn -> Caller \cup {NoOne}], owner' = f
  PROVE  /\ owner' \in UNION {[pool -> Caller \cup {NoOne}] : pool \in Pools}
         /\ Conn' = Conn
PROOF
<1>1. PICK pool \in Pools : Conn = pool BY PoolIsFunction
<1>2. owner' \in [pool -> Caller \cup {NoOne}] BY <1>1
<1>3. DOMAIN owner' = pool BY <1>2
<1> QED BY <1>1, <1>2, <1>3 DEF Conn

\* A step that keeps the pool's owners leaves everybody with the same
\* connections; what is freed or taken concerns nobody else.
LEMMA HeldAfter ==
  ASSUME TypeOK, NEW f \in [Conn -> Caller \cup {NoOne}], owner' = f,
         NEW d \in Caller
  PROVE  Held(d)' = {x \in Conn : f[x] = d}
PROOF
  BY SameConnections DEF Held

\* The pool starts with every connection free and nobody under way.
LEMMA InitHolds == Init => PoolInvariant
PROOF
<1> SUFFICES ASSUME Init PROVE PoolInvariant OBVIOUS
<1>1. PICK pool \in Pools : owner = [x \in pool |-> NoOne] BY DEF Init
<1>2. TypeOK BY <1>1 DEF Init, TypeOK, Places
<1>3. ASSUME NEW c \in Caller PROVE HoldsOwn(c)
  <2>1. Held(c) = {} BY <1>1, PoolAssumption DEF Held, Conn
  <2>2. pc[c] = "idle" BY DEF Init
  <2> QED BY <2>1, <2>2 DEF HoldsOwn, NeedsNone, NeedsOne
<1> QED BY <1>2, <1>3 DEF PoolInvariant

\* A caller that keeps its place and its connections still holds its own.
LEMMA OthersKeepTheirs ==
  ASSUME NEW d \in Caller, HoldsOwn(d), pc'[d] = pc[d], Held(d)' = Held(d),
         Conn' = Conn
  PROVE  HoldsOwn(d)'
PROOF
  BY DEF HoldsOwn

\* A step of caller c that leaves the pool alone and takes it from one place to
\* another where it needs as many connections.
LEMMA NobodyServed ==
  ASSUME PoolInvariant, NEW c \in Caller, NEW place \in Places, Goes(c, place),
         UNCHANGED owner, TypeOK',
         \/ pc[c] \in NeedsNone /\ place \in NeedsNone
         \/ pc[c] \in NeedsOne /\ place \in NeedsOne
  PROVE  PoolInvariant'
PROOF
<1>1. Conn' = Conn /\ \A d \in Caller : Held(d)' = Held(d) BY DEF Conn, Held
<1>2. pc \in [Caller -> Places] BY DEF PoolInvariant, TypeOK
<1>3. ASSUME NEW d \in Caller \ {c} PROVE HoldsOwn(d)'
  BY <1>1, <1>2, OthersKeepTheirs DEF Goes, PoolInvariant
<1>4. HoldsOwn(c)'
  <2>1. pc'[c] = place BY <1>2 DEF Goes
  <2>2. HoldsOwn(c) BY DEF PoolInvariant
  <2> QED BY <1>1, <2>1, <2>2 DEF HoldsOwn, NeedsNone, NeedsOne
<1> QED BY <1>3, <1>4 DEF PoolInvariant

\* A step of caller c that changes the pool: it is enough to look at what c has
\* after it, as long as it has only taken what was free or left what it had.
LEMMA OnlyOneServed ==
  ASSUME PoolInvariant, NEW c \in Caller, NEW place \in Places, Goes(c, place),
         NEW f \in [Conn -> Caller \cup {NoOne}], owner' = f,
         \A x \in Conn : f[x] # owner[x] => {f[x], owner[x]} \subseteq {c, NoOne},
         TypeOK',
         (HoldsOwn(c))'
  PROVE  PoolInvariant'
PROOF
<1>1. TypeOK BY DEF PoolInvariant
<1>2. owner \in [Conn -> Caller \cup {NoOne}] BY <1>1, PoolIsFunction
<1>3. Conn' = Conn BY <1>1, SameConnections
<1>4. ASSUME NEW d \in Caller \ {c} PROVE HoldsOwn(d)'
  <2>1. Held(d)' = {x \in Conn : f[x] = d} BY <1>1, HeldAfter
  <2>2. Held(d)' = Held(d) BY <2>1, <1>2, PoolAssumption DEF Held
  <2>3. pc'[d] = pc[d] BY <1>1 DEF TypeOK, Goes
  <2> QED BY <1>3, <2>2, <2>3, OthersKeepTheirs DEF PoolInvariant
<1> QED BY <1>4 DEF PoolInvariant

\* A request arrives and has no connection yet.
LEMMA CallKeeps ==
  ASSUME PoolInvariant, NEW c \in Caller, NEW g \in Group \cup {NoOne}, Call(c, g)
  PROVE  PoolInvariant'
PROOF
<1>1. TypeOK' BY SameConnections DEF PoolInvariant, TypeOK, Call, Places
<1>2. Goes(c, "wants") /\ UNCHANGED owner /\ pc[c] = "idle" BY DEF Call, Goes
<1> QED BY <1>1, <1>2, NobodyServed DEF Places, NeedsNone

\* A request for the list of groups arrives and has no connection yet.
LEMMA CallListGroupsKeeps ==
  ASSUME PoolInvariant, NEW c \in Caller, CallListGroups(c)
  PROVE  PoolInvariant'
PROOF
<1>1. TypeOK' BY DEF PoolInvariant, TypeOK, CallListGroups, Places
<1>2. Goes(c, "wants_groups") /\ UNCHANGED owner /\ pc[c] = "idle"
  BY DEF CallListGroups, Goes
<1> QED BY <1>1, <1>2, NobodyServed DEF Places, NeedsNone

\* Whoever takes a connection had one less before.
LEMMA TakeKeeps ==
  ASSUME PoolInvariant, NEW c \in Caller, Take(c)
  PROVE  PoolInvariant'
PROOF
<1>0. TypeOK /\ HoldsOwn(c) BY DEF PoolInvariant
<1>1. PICK x \in Conn : owner[x] = NoOne /\ owner' = [owner EXCEPT ![x] = c]
  BY DEF Take
<1> DEFINE f == [owner EXCEPT ![x] = c]
<1>2. owner \in [Conn -> Caller \cup {NoOne}] BY <1>0, PoolIsFunction
<1>3. f \in [Conn -> Caller \cup {NoOne}] /\ owner' = f BY <1>1, <1>2
<1>4. Conn' = Conn /\ Held(c)' = {y \in Conn : f[y] = c}
  BY <1>0, <1>3, SameConnections, HeldAfter
<1>5. Held(c)' = Held(c) \cup {x} /\ x \notin Held(c)
  BY <1>1, <1>2, <1>4, PoolAssumption DEF Held
<1>6. pc \in [Caller -> Places] /\ todo \in [Caller -> SUBSET Group]
      /\ group \in [Caller -> Group \cup {NoOne}] /\ groups \subseteq Group
  BY <1>0 DEF TypeOK
<1>7. owner' \in UNION {[pool -> Caller \cup {NoOne}] : pool \in Pools}
  BY <1>0, <1>3, SameConnections
<1>8. TypeOK' BY <1>6, <1>7 DEF Take, Goes, TypeOK, Places
<1>9. \A y \in Conn : f[y] # owner[y] => {f[y], owner[y]} \subseteq {c, NoOne}
  BY <1>1, <1>2
<1>10. CASE pc[c] = "wants" /\ Goes(c, "runs")
  <2>1. pc'[c] = "runs" BY <1>10, <1>6 DEF Goes
  <2>2. Held(c)' = {x} BY <1>0, <1>5, <1>10 DEF HoldsOwn, NeedsNone
  <2>3. HoldsOwn(c)' BY <1>4, <2>1, <2>2 DEF HoldsOwn, NeedsNone, NeedsOne
  <2> QED BY <1>3, <1>8, <1>9, <1>10, <2>3, OnlyOneServed DEF Places
<1>11. CASE pc[c] = "wants_groups" /\ Goes(c, "reads_groups")
  <2>1. pc'[c] = "reads_groups" BY <1>11, <1>6 DEF Goes
  <2>2. Held(c)' = {x} BY <1>0, <1>5, <1>11 DEF HoldsOwn, NeedsNone
  <2>3. HoldsOwn(c)' BY <1>4, <2>1, <2>2 DEF HoldsOwn, NeedsNone, NeedsOne
  <2> QED BY <1>3, <1>8, <1>9, <1>11, <2>3, OnlyOneServed DEF Places
<1>12. CASE pc[c] = "wants_bindings" /\ Goes(c, "reads_bindings")
  <2>1. pc'[c] = "reads_bindings" BY <1>12, <1>6 DEF Goes
  <2>2. PICK y \in Conn : Held(c) = {y}
    BY <1>0, <1>12 DEF HoldsOwn, NeedsOne
  <2>3. x # y /\ Held(c)' = {x, y} BY <1>5, <2>2
  <2>4. HoldsOwn(c)' BY <1>4, <2>1, <2>3 DEF HoldsOwn, NeedsNone, NeedsOne
  <2> QED BY <1>3, <1>8, <1>9, <1>12, <2>4, OnlyOneServed DEF Places
<1> QED BY <1>10, <1>11, <1>12 DEF Take

\* A caller that gives back all it had.
LEMMA GivesBackAll ==
  ASSUME PoolInvariant, NEW c \in Caller, Goes(c, "idle"),
         owner' = [x \in Conn |-> IF owner[x] = c THEN NoOne ELSE owner[x]],
         group' \in [Caller -> Group \cup {NoOne}],
         todo' \in [Caller -> SUBSET Group], groups' \subseteq Group
  PROVE  PoolInvariant'
PROOF
<1> DEFINE f == [x \in Conn |-> IF owner[x] = c THEN NoOne ELSE owner[x]]
<1>0. TypeOK BY DEF PoolInvariant
<1>1. owner \in [Conn -> Caller \cup {NoOne}] BY <1>0, PoolIsFunction
<1>2. f \in [Conn -> Caller \cup {NoOne}] /\ owner' = f BY <1>1
<1>3. Conn' = Conn /\ Held(c)' = {y \in Conn : f[y] = c}
      /\ owner' \in UNION {[pool -> Caller \cup {NoOne}] : pool \in Pools}
  BY <1>0, <1>2, SameConnections, HeldAfter
<1>4. Held(c)' = {} BY <1>1, <1>3, PoolAssumption
<1>5. pc \in [Caller -> Places] BY <1>0 DEF TypeOK
<1>6. pc' \in [Caller -> Places] /\ pc'[c] = "idle" BY <1>5 DEF Goes, Places
<1>7. TypeOK' BY <1>3, <1>6 DEF TypeOK
<1>8. HoldsOwn(c)' BY <1>4, <1>6 DEF HoldsOwn, NeedsOne
<1>9. \A y \in Conn : f[y] # owner[y] => {f[y], owner[y]} \subseteq {c, NoOne}
  OBVIOUS
<1> QED BY <1>2, <1>7, <1>8, <1>9, OnlyOneServed DEF Places

\* A served caller goes on: it finishes, or asks for its next connection.
LEMMA WorkKeeps ==
  ASSUME PoolInvariant, NEW c \in Caller, Work(c)
  PROVE  PoolInvariant'
PROOF
<1>0. TypeOK /\ HoldsOwn(c) BY DEF PoolInvariant
<1>1. pc \in [Caller -> Places] /\ todo \in [Caller -> SUBSET Group]
      /\ group \in [Caller -> Group \cup {NoOne}] /\ groups \subseteq Group
  BY <1>0 DEF TypeOK
<1>2. CASE Finish(c)
  <2>1. groups' \subseteq Group BY <1>1, <1>2 DEF Finish, Written
  <2>2. group' \in [Caller -> Group \cup {NoOne}] BY <1>1, <1>2 DEF Finish
  <2> QED BY <1>1, <1>2, <2>1, <2>2, GivesBackAll DEF Finish
<1>3. CASE ReadGroup(c)
  <2>1. TypeOK' BY <1>0, <1>3 DEF ReadGroup, Goes, TypeOK, Places
  <2> QED BY <1>3, <2>1, NobodyServed DEF ReadGroup, Places, NeedsOne
<1>4. CASE ReadBindings(c)
  <2>1. PICK x \in Held(c) : owner' = [owner EXCEPT ![x] = NoOne]
    BY <1>4 DEF ReadBindings
  <2> DEFINE f == [owner EXCEPT ![x] = NoOne]
  <2>2. owner \in [Conn -> Caller \cup {NoOne}] BY <1>0, PoolIsFunction
  <2>3. f \in [Conn -> Caller \cup {NoOne}] /\ owner' = f BY <2>1, <2>2
  <2>4. Conn' = Conn /\ Held(c)' = {y \in Conn : f[y] = c}
        /\ owner' \in UNION {[pool -> Caller \cup {NoOne}] : pool \in Pools}
    BY <1>0, <2>3, SameConnections, HeldAfter
  <2>5. Held(c)' = Held(c) \ {x} BY <2>1, <2>2, <2>4, PoolAssumption DEF Held
  <2>6. \E y \in Conn : Held(c)' = {y}
    BY <1>0, <1>4, <2>1, <2>5 DEF ReadBindings, HoldsOwn
  <2>7. pc' \in [Caller -> Places] /\ pc'[c] = "reads_groups"
    BY <1>1, <1>4 DEF ReadBindings, Goes, Places
  <2>8. todo' \in [Caller -> SUBSET Group] BY <1>1, <1>4 DEF ReadBindings
  <2>9. TypeOK' BY <1>1, <1>4, <2>4, <2>7, <2>8 DEF ReadBindings, TypeOK
  <2>10. HoldsOwn(c)' BY <2>4, <2>6, <2>7 DEF HoldsOwn, NeedsNone
  <2>11. \A y \in Conn : f[y] # owner[y] => {f[y], owner[y]} \subseteq {c, NoOne}
    BY <2>1, <2>2 DEF Held
  <2> QED
    BY <1>4, <2>3, <2>9, <2>10, <2>11, OnlyOneServed DEF ReadBindings, Places
<1>5. CASE ListingDone(c)
  BY <1>1, <1>5, GivesBackAll DEF ListingDone
<1> QED BY <1>2, <1>3, <1>4, <1>5 DEF Work

\* A caller gives up and everything it holds goes back to the pool.
LEMMA HangUpKeeps ==
  ASSUME PoolInvariant, NEW c \in Caller, HangUp(c)
  PROVE  PoolInvariant'
PROOF
<1>1. todo \in [Caller -> SUBSET Group] /\ groups \subseteq Group
      /\ group \in [Caller -> Group \cup {NoOne}]
  BY DEF PoolInvariant, TypeOK
<1>2. group' \in [Caller -> Group \cup {NoOne}] BY <1>1 DEF HangUp
<1>3. todo' \in [Caller -> SUBSET Group] BY <1>1 DEF HangUp
<1> QED BY <1>1, <1>2, <1>3, GivesBackAll DEF HangUp

\* Every step keeps the invariant.
LEMMA NextHolds == PoolInvariant /\ [Next]_vars => PoolInvariant'
PROOF
<1> SUFFICES ASSUME PoolInvariant, [Next]_vars PROVE PoolInvariant' OBVIOUS
<1>1. ASSUME NEW c \in Caller,
             \/ \E g \in Group \cup {NoOne} : Call(c, g)
             \/ CallListGroups(c) \/ Take(c) \/ Work(c) \/ HangUp(c)
      PROVE  PoolInvariant'
  BY <1>1, CallKeeps, CallListGroupsKeeps, TakeKeeps, WorkKeeps, HangUpKeeps
<1>2. CASE UNCHANGED vars
  BY <1>2 DEF vars, PoolInvariant, TypeOK, HoldsOwn, Held, Conn
<1> QED BY <1>1, <1>2 DEF Next

--------------------------------------------------------------------------------
\* Every caller holds the connections of the place it is at, and no other.
THEOREM PoolInvariantHolds == Spec => []PoolInvariant
PROOF
<1>1. Init => PoolInvariant BY InitHolds
<1>2. PoolInvariant /\ [Next]_vars => PoolInvariant' BY NextHolds
<1> QED BY <1>1, <1>2, PTL DEF Spec

\* Two different things are two.
LEMMA TwoOf ==
  ASSUME NEW x, NEW y, x # y
  PROVE  Cardinality({x, y}) = 2
PROOF
<1>1. IsFiniteSet({x}) /\ Cardinality({x}) = 1 BY FS_Singleton
<1>2. y \notin {x} OBVIOUS
<1>3. Cardinality({x} \cup {y}) = Cardinality({x}) + 1
  BY <1>1, <1>2, FS_AddElement
<1>4. {x, y} = {x} \cup {y} OBVIOUS
<1> QED BY <1>1, <1>3, <1>4

\* What NothingLeaks counts, in the terms of HoldsOwn.
LEMMA OwnIsCounted ==
  ASSUME NEW c \in Caller, TypeOK, HoldsOwn(c)
  PROVE  Cardinality(Held(c)) =
            CASE pc[c] \in {"idle", "wants", "wants_groups"} -> 0
              [] pc[c] \in {"runs", "reads_groups", "wants_bindings"} -> 1
              [] pc[c] = "reads_bindings" -> 2
PROOF
<1>1. pc[c] \in NeedsNone \cup NeedsOne \cup {"reads_bindings"}
  BY DEF TypeOK, Places, NeedsNone, NeedsOne
<1>2. CASE pc[c] \in NeedsNone
  <2>1. Cardinality(Held(c)) = 0 BY <1>2, FS_EmptySet DEF HoldsOwn
  <2>2. pc[c] \notin {"runs", "reads_groups", "wants_bindings"}
        /\ pc[c] # "reads_bindings"
    BY <1>2 DEF NeedsNone
  <2> QED BY <1>2, <2>1, <2>2, Zenon DEF NeedsNone
<1>3. CASE pc[c] \in NeedsOne
  <2>1. Cardinality(Held(c)) = 1 BY <1>3, FS_Singleton DEF HoldsOwn
  <2>2. pc[c] \notin {"idle", "wants", "wants_groups"}
        /\ pc[c] # "reads_bindings"
    BY <1>3 DEF NeedsOne
  <2> QED BY <1>3, <2>1, <2>2, Zenon DEF NeedsOne
<1>4. CASE pc[c] = "reads_bindings"
  <2>1. PICK x, y \in Conn : x # y /\ Held(c) = {x, y} BY <1>4 DEF HoldsOwn
  <2>2. Cardinality({x, y}) = 2 BY <2>1, TwoOf
  <2>3. Cardinality(Held(c)) = 2 BY <2>1, <2>2, Zenon
  <2>4. pc[c] \notin {"idle", "wants", "wants_groups"}
        /\ pc[c] \notin {"runs", "reads_groups", "wants_bindings"}
    BY <1>4
  <2> QED BY <1>4, <2>3, <2>4, Zenon
<1> QED BY <1>1, <1>2, <1>3, <1>4

\* Every variable keeps its type, whoever calls, waits or hangs up.
THEOREM PoolTypeCorrect == Spec => []TypeOK
PROOF
  BY PoolInvariantHolds, PTL DEF PoolInvariant

\* Whatever calls, waits and hang-ups there are, a caller has the connections of
\* the place it is at, and none when it is done.
THEOREM PoolNeverLeaks == Spec => []NothingLeaks
PROOF
<1>1. PoolInvariant => NothingLeaks
  BY OwnIsCounted DEF PoolInvariant, NothingLeaks
<1> QED BY <1>1, PoolInvariantHolds, PTL

\* In a pool of one, a listing that has read a group never gets to its bindings:
\* it, and everybody else, waits for the connection it keeps.
THEOREM ListingNeedsTwo ==
  ASSUME \A pool \in Pools : Cardinality(pool) = 1
  PROVE  Spec => [](\A c \in Caller : pc[c] # "reads_bindings")
PROOF
<1>1. PoolInvariant => \A c \in Caller : pc[c] # "reads_bindings"
  <2> SUFFICES ASSUME PoolInvariant, NEW c \in Caller, pc[c] = "reads_bindings"
               PROVE  FALSE
    OBVIOUS
  <2>1. PICK x, y \in Conn : x # y /\ Held(c) = {x, y}
    BY DEF PoolInvariant, HoldsOwn
  <2>2. PICK pool \in Pools : Conn = pool BY PoolIsFunction DEF PoolInvariant
  <2>3. IsFiniteSet(pool) /\ Cardinality(pool) = 1 BY PoolAssumption
  <2>4. {x, y} \subseteq pool BY <2>1, <2>2
  <2>5. Cardinality({x, y}) <= Cardinality(pool) BY <2>3, <2>4, FS_Subset
  <2>6. Cardinality({x, y}) = 2 BY <2>1, TwoOf
  <2> QED BY <2>3, <2>5, <2>6
<1> QED BY <1>1, PoolInvariantHolds, PTL
================================================================================
