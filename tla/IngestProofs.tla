------------------------------ MODULE IngestProofs -----------------------------
(* Theorems about Ingest, for any number of requests, sources, rules and      *)
(* groups, any window and retention, and any disturbances.                    *)
EXTENDS Ingest, FiniteSetTheorems, TLAPS

Early == {"new", "found", "routed"}

\* What a request has not come to yet.
NothingBeforeItsTime ==
    \A r \in Request :
        /\ pc[r] \in Early => event[r] = None
        /\ pc[r] \in {"new", "found"} =>
              groups[r] = {} /\ \A b \in Binding : <<r, b>> \notin jobs
        /\ pc[r] = "new" => seen[r] = None
        /\ pc[r] \in {"found", "routed", "mask"} => seen[r] # None

\* An event in the table is the one its request stored.
RowsAreTheirs ==
    \A r \in Request :
        event[r] # None =>
            /\ kept[r] # None /\ event[r].at = kept[r]
            /\ event[r].key = KeyOf[r]
            /\ event[r].src \in {SourceOf[r], None}

\* An event that was stored is still in the table, under its source, or older
\* than the retention; unless its source was deleted.
KeptIsRemembered ==
    \A r \in Request :
        kept[r] # None =>
            /\ kept[r] <= now
            /\ SourceOf[r] \notin deleted =>
                  IF event[r] = None THEN now - kept[r] > Retention
                                     ELSE event[r].src = SourceOf[r]

\* A job sends to a group that the request was routed to, and first_match routes
\* to one.
JobsFollowRoutes ==
    \A r \in Request :
        /\ \A b \in Binding : <<r, b>> \in jobs => GroupOf[b] \in groups[r]
        /\ seen[r] # None /\ seen[r].mode = "first_match" =>
              \A g, h \in groups[r] : g = h

\* The inductive invariant.
IngestInvariant ==
    /\ TypeOK /\ NothingBeforeItsTime /\ RowsAreTheirs /\ KeptIsRemembered
    /\ JobsFollowRoutes
    /\ KeyAcceptedOnce /\ AnswerNamesOwnEvent /\ UnmatchedIsMasked

--------------------------------------------------------------------------------
\* Nothing is stored, answered or sent in the beginning.
LEMMA InitHolds == Init => IngestInvariant
PROOF
<1> SUFFICES ASSUME Init PROVE IngestInvariant OBVIOUS
<1>1. TypeOK
  <2>1. source \in [Source -> SourceRow \cup {None}] BY DEF Init, SourceRow
  <2>2. rule \in [Rule -> RuleRow \cup {None}]
    <3>1. rule \in [Rule -> [src : Source, group : Group, prio : {1},
                             on : {TRUE}]]
      BY DEF Init
    <3>2. [src : Source, group : Group, prio : {1}, on : {TRUE}]
             \subseteq RuleRow
      <4>1. {1} \subseteq Nat /\ {TRUE} \subseteq BOOLEAN OBVIOUS
      <4> QED BY <4>1, Zenon DEF RuleRow
    <3> QED BY <3>1, <3>2
  <2>3. now \in 0 .. MaxTime BY RetentionAssumption DEF Init
  <2> QED BY <2>1, <2>2, <2>3, IngestAssumption DEF Init, TypeOK, Places
<1>2. NothingBeforeItsTime BY DEF Init, NothingBeforeItsTime
<1>3. RowsAreTheirs BY DEF Init, RowsAreTheirs
<1>4. KeptIsRemembered BY DEF Init, KeptIsRemembered
<1>5. JobsFollowRoutes BY DEF Init, JobsFollowRoutes
<1>6. KeyAcceptedOnce BY DEF Init, KeyAcceptedOnce
<1>7. AnswerNamesOwnEvent BY DEF Init, AnswerNamesOwnEvent
<1>8. UnmatchedIsMasked BY DEF Init, UnmatchedIsMasked
<1> QED
  BY <1>1, <1>2, <1>3, <1>4, <1>5, <1>6, <1>7, <1>8 DEF IngestInvariant

\* Time passing leaves rows as they are and only makes them older.
LEMMA TickKeeps ==
  ASSUME IngestInvariant, Tick
  PROVE  IngestInvariant'
PROOF
<1> USE DEF IngestInvariant
<1>1. TypeOK'
  BY RetentionAssumption DEF Tick, TypeOK, config, tables, history
<1>2. NothingBeforeItsTime'
  BY DEF Tick, NothingBeforeItsTime, config, tables, history
<1>3. RowsAreTheirs' BY DEF Tick, RowsAreTheirs, config, tables, history
<1>4. KeptIsRemembered'
  <2>1. \A q \in Request : kept[q] # None => kept[q] \in Int BY DEF TypeOK
  <2>2. now \in Int /\ now' = now + 1 /\ Retention \in Int
    BY RetentionAssumption DEF Tick, TypeOK
  <2>3. UNCHANGED <<event, kept, deleted>> BY DEF Tick, tables, history
  <2> QED BY <2>1, <2>2, <2>3 DEF KeptIsRemembered
<1>5. JobsFollowRoutes' BY DEF Tick, JobsFollowRoutes, config, tables, history
<1>6. KeyAcceptedOnce' BY DEF Tick, KeyAcceptedOnce, config, tables, history
<1>7. AnswerNamesOwnEvent'
  BY DEF Tick, AnswerNamesOwnEvent, config, tables, history
<1>8. UnmatchedIsMasked'
  BY DEF Tick, UnmatchedIsMasked, config, tables, history, Final
<1> QED BY <1>1, <1>2, <1>3, <1>4, <1>5, <1>6, <1>7, <1>8

\* A request that has found its source has not stored anything.
LEMMA FindSourceKeeps ==
  ASSUME IngestInvariant, NEW r \in Request, FindSource(r)
  PROVE  IngestInvariant'
PROOF
<1> USE DEF IngestInvariant
<1>1. TypeOK'
  BY IngestAssumption DEF FindSource, TypeOK, Places, config, tables, history
<1>2. NothingBeforeItsTime'
  BY DEF FindSource, NothingBeforeItsTime, Early, config, tables, history,
         TypeOK
<1>3. RowsAreTheirs' BY DEF FindSource, RowsAreTheirs, config, tables, history
<1>4. KeptIsRemembered'
  BY DEF FindSource, KeptIsRemembered, config, tables, history
<1>5. JobsFollowRoutes'
  <2>1. groups[r] = {} /\ \A b \in Binding : <<r, b>> \notin jobs
    BY DEF FindSource, NothingBeforeItsTime
  <2> QED BY <2>1 DEF FindSource, JobsFollowRoutes, config, tables, history
<1>6. KeyAcceptedOnce'
  BY DEF FindSource, KeyAcceptedOnce, config, tables, history
<1>7. AnswerNamesOwnEvent'
  BY DEF FindSource, AnswerNamesOwnEvent, config, tables, history
<1>8. UnmatchedIsMasked'
  BY DEF FindSource, UnmatchedIsMasked, config, tables, history, Final
<1> QED BY <1>1, <1>2, <1>3, <1>4, <1>5, <1>6, <1>7, <1>8

\* A refused request has no event and no answer that names one.
LEMMA RefuseKeeps ==
  ASSUME IngestInvariant, NEW r \in Request, Refuse(r)
  PROVE  IngestInvariant'
PROOF
<1> USE DEF IngestInvariant
<1>1. TypeOK' BY DEF Refuse, TypeOK, config, tables, history, Places
<1>2. NothingBeforeItsTime'
  BY DEF Refuse, NothingBeforeItsTime, Early, config, tables, history, TypeOK
<1>3. RowsAreTheirs' BY DEF Refuse, RowsAreTheirs, config, tables, history
<1>4. KeptIsRemembered' BY DEF Refuse, KeptIsRemembered, config, tables, history
<1>5. JobsFollowRoutes' BY DEF Refuse, JobsFollowRoutes, config, tables, history
<1>6. KeyAcceptedOnce' BY DEF Refuse, KeyAcceptedOnce, config, tables, history
<1>7. AnswerNamesOwnEvent'
  BY DEF Refuse, AnswerNamesOwnEvent, config, tables, history
<1>8. UnmatchedIsMasked'
  BY DEF Refuse, UnmatchedIsMasked, NothingBeforeItsTime, Early, Final, config,
         tables, history, TypeOK
<1> QED BY <1>1, <1>2, <1>3, <1>4, <1>5, <1>6, <1>7, <1>8

\* With first_match, the loop over the rules comes to one group at most.
LEMMA ReadRulesKeeps ==
  ASSUME IngestInvariant, NEW r \in Request, ReadRules(r)
  PROVE  IngestInvariant'
PROOF
<1> USE DEF IngestInvariant
<1>0. PICK G \in Routes(r) : groups' = [groups EXCEPT ![r] = G] BY DEF ReadRules
<1>a. seen[r] \in SourceRow
  BY DEF ReadRules, NothingBeforeItsTime, TypeOK
<1>b. \A x \in Hits(r) : rule[x].group \in Group BY DEF Hits, TypeOK, RuleRow
<1>c. /\ G \subseteq Group
      /\ seen[r].mode = "first_match" => \A g, h \in G : g = h
  <2>1. CASE seen[r].mode = "all_match" \/ Hits(r) = {}
    <3>1. G = {rule[x].group : x \in Hits(r)} BY <1>0, <2>1 DEF Routes
    <3>2. seen[r].mode = "first_match" => G = {} BY <2>1, <3>1
    <3> QED BY <1>b, <3>1, <3>2
  <2>2. CASE ~(seen[r].mode = "all_match" \/ Hits(r) = {})
    <3>1. PICK x \in Hits(r) : G = {rule[x].group} BY <1>0, <2>2 DEF Routes
    <3> QED BY <1>b, <3>1
  <2> QED BY <2>1, <2>2
<1>d. groups'[r] = G /\ \A q \in Request : q # r => groups'[q] = groups[q]
  BY <1>0 DEF TypeOK
<1>1. TypeOK'
  <2>1. groups' \in [Request -> SUBSET Group] BY <1>0, <1>c DEF TypeOK
  <2> QED BY <2>1 DEF ReadRules, TypeOK, Places, config, tables, history
<1>2. NothingBeforeItsTime'
  BY DEF ReadRules, NothingBeforeItsTime, Early, config, tables, history, TypeOK
<1>3. RowsAreTheirs' BY DEF ReadRules, RowsAreTheirs, config, tables, history
<1>4. KeptIsRemembered'
  BY DEF ReadRules, KeptIsRemembered, config, tables, history
<1>5. JobsFollowRoutes'
  <2>1. \A b \in Binding : <<r, b>> \notin jobs
    BY DEF ReadRules, NothingBeforeItsTime
  <2> QED
    BY <1>c, <1>d, <2>1 DEF ReadRules, JobsFollowRoutes, config, tables, history
<1>6. KeyAcceptedOnce'
  BY DEF ReadRules, KeyAcceptedOnce, config, tables, history
<1>7. AnswerNamesOwnEvent'
  BY DEF ReadRules, AnswerNamesOwnEvent, config, tables, history
<1>8. UnmatchedIsMasked'
  BY <1>d
  DEF ReadRules, UnmatchedIsMasked, Final, TypeOK, config, tables, history
<1> QED BY <1>1, <1>2, <1>3, <1>4, <1>5, <1>6, <1>7, <1>8

\* The event that is answered with is stored, and of this key and source.
LEMMA AnswerDuplicateKeeps ==
  ASSUME IngestInvariant, NEW r \in Request, AnswerDuplicate(r)
  PROVE  IngestInvariant'
PROOF
<1> USE DEF IngestInvariant
<1>0. PICK e \in Earlier(r) : reply' = [reply EXCEPT ![r] = e]
  BY DEF AnswerDuplicate
<1>a. e \in Request /\ event[e] # None /\ event[e].src = SourceOf[r]
      /\ event[e].key = KeyOf[r]
  BY DEF Earlier
<1>1. TypeOK'
  <2>1. reply' \in [Request -> Request \cup {None}] BY <1>0, <1>a DEF TypeOK
  <2> QED BY <2>1 DEF AnswerDuplicate, TypeOK, Places, config, tables, history
<1>2. NothingBeforeItsTime'
  BY DEF AnswerDuplicate, NothingBeforeItsTime, Early, config, tables, history,
         TypeOK
<1>3. RowsAreTheirs'
  BY DEF AnswerDuplicate, RowsAreTheirs, config, tables, history
<1>4. KeptIsRemembered'
  BY DEF AnswerDuplicate, KeptIsRemembered, config, tables, history
<1>5. JobsFollowRoutes'
  BY DEF AnswerDuplicate, JobsFollowRoutes, config, tables, history
<1>6. KeyAcceptedOnce'
  BY DEF AnswerDuplicate, KeyAcceptedOnce, config, tables, history
<1>7. AnswerNamesOwnEvent'
  <2>1. kept[e] # None /\ KeyOf[e] = KeyOf[r] BY <1>a DEF RowsAreTheirs
  <2>2. SourceOf[r] # None BY IngestAssumption, NoneAssumption
  <2>3. SourceOf[e] = SourceOf[r] BY <1>a, <2>2 DEF RowsAreTheirs
  <2>4. KeyOf[r] # NoKey BY DEF AnswerDuplicate
  <2>5. reply'[r] = e /\ \A q \in Request : q # r => reply'[q] = reply[q]
    BY <1>0 DEF TypeOK
  <2>6. kept' = kept BY DEF AnswerDuplicate, history
  <2> QED BY <1>a, <2>1, <2>3, <2>4, <2>5, <2>6 DEF AnswerNamesOwnEvent
<1>8. UnmatchedIsMasked'
  BY DEF AnswerDuplicate, UnmatchedIsMasked, NothingBeforeItsTime, Early, Final,
         config, tables, history, TypeOK
<1> QED BY <1>1, <1>2, <1>3, <1>4, <1>5, <1>6, <1>7, <1>8

\* Where AcceptEvent finds no earlier event there was none within the window:
\* what retention has removed is older.
LEMMA WindowIsClear ==
  ASSUME IngestInvariant, NEW r \in Request, NEW q \in Request,
         KeyOf[r] = NoKey \/ Earlier(r) = {},
         kept[q] # None, KeyOf[q] = KeyOf[r], KeyOf[r] # NoKey,
         SourceOf[q] = SourceOf[r], SourceOf[r] \notin deleted
  PROVE  now - kept[q] >= Window
PROOF
<1>1. /\ kept[q] \in Int /\ now \in Int /\ Window \in Int
      /\ Retention \in Int /\ Retention >= Window
  BY RetentionAssumption DEF IngestInvariant, TypeOK
<1>2. CASE event[q] = None
  <2>1. now - kept[q] > Retention
    BY <1>2 DEF IngestInvariant, KeptIsRemembered
  <2> QED BY <1>1, <2>1
<1>3. CASE event[q] # None
  <2>1. /\ event[q].src = SourceOf[r] /\ event[q].key = KeyOf[r]
        /\ event[q].at = kept[q]
    BY <1>3 DEF IngestInvariant, KeptIsRemembered, RowsAreTheirs
  <2>2. ~(kept[q] > now - Window) BY <1>3, <2>1 DEF Earlier
  <2> QED BY <1>1, <2>2
<1> QED BY <1>2, <1>3

\* Events of the key and source are no more or older than the window.
LEMMA StoreEventKeeps ==
  ASSUME IngestInvariant, NEW r \in Request, StoreEvent(r)
  PROVE  IngestInvariant'
PROOF
<1> USE DEF IngestInvariant
<1> DEFINE stored == [src |-> SourceOf[r], key |-> KeyOf[r], at |-> now,
                      policy |-> seen[r].policy, payload |-> "raw"]
<1>a. seen[r] \in SourceRow /\ event[r] = None /\ pc[r] = "routed"
  BY DEF StoreEvent, NothingBeforeItsTime, Early, TypeOK
<1>b. stored \in EventRow /\ stored # None /\ now \in 0 .. MaxTime /\ now # None
  BY <1>a, IngestAssumption, NoneAssumption DEF TypeOK, SourceRow, EventRow
<1>c. /\ event'[r] = stored /\ kept'[r] = now /\ reply'[r] = r
      /\ pc'[r] = IF groups[r] = {} THEN "mask" ELSE "answered"
      /\ \A q \in Request :
            q # r => /\ event'[q] = event[q] /\ kept'[q] = kept[q]
                     /\ reply'[q] = reply[q] /\ pc'[q] = pc[q]
      /\ UNCHANGED <<now, source, rule, bindings, seen, groups, missed, deleted,
                     left>>
  BY DEF StoreEvent, TypeOK, config
<1>d. \A q \in Request, b \in Binding :
         <<q, b>> \in jobs' <=>
            \/ <<q, b>> \in jobs
            \/ q = r /\ b \in bindings /\ GroupOf[b] \in groups[r]
  BY DEF StoreEvent, TypeOK
<1>e. stored.src = SourceOf[r] /\ stored.key = KeyOf[r] /\ stored.at = now
  OBVIOUS
<1> HIDE DEF stored
<1>1. TypeOK'
  <2>1. event' \in [Request -> EventRow \cup {None}]
    BY <1>b DEF StoreEvent, TypeOK, stored
  <2>2. jobs' \subseteq Request \X Binding BY DEF StoreEvent, TypeOK
  <2>3. kept' \in [Request -> 0 .. MaxTime \cup {None}]
    BY <1>b DEF StoreEvent, TypeOK
  <2>4. reply' \in [Request -> Request \cup {None}] BY DEF StoreEvent, TypeOK
  <2>5. pc' \in [Request -> Places] BY DEF StoreEvent, TypeOK, Places
  <2> QED BY <1>c, <2>1, <2>2, <2>3, <2>4, <2>5 DEF TypeOK
<1>2. NothingBeforeItsTime'
  BY <1>a, <1>c, <1>d DEF NothingBeforeItsTime, Early
<1>3. RowsAreTheirs' BY <1>b, <1>c, <1>e DEF RowsAreTheirs
<1>4. KeptIsRemembered'
  BY <1>b, <1>c, <1>e, RetentionAssumption DEF KeptIsRemembered
<1>5. JobsFollowRoutes' BY <1>c, <1>d DEF JobsFollowRoutes
<1>6. KeyAcceptedOnce'
  <2>1. ASSUME NEW q \in Request, q # r, kept[q] # None, KeyOf[q] = KeyOf[r],
               KeyOf[r] # NoKey, SourceOf[q] = SourceOf[r],
               SourceOf[r] \notin deleted
        PROVE  now - kept[q] >= Window
    BY <2>1, WindowIsClear DEF StoreEvent
  <2>2. ASSUME NEW p \in Request, NEW q \in Request, p # q,
               kept'[p] # None, kept'[q] # None,
               KeyOf[p] = KeyOf[q], KeyOf[p] # NoKey,
               SourceOf[p] = SourceOf[q], SourceOf[p] \notin deleted
        PROVE  kept'[p] - kept'[q] >= Window \/ kept'[q] - kept'[p] >= Window
    <3>1. CASE p = r BY <1>c, <2>1, <2>2, <3>1
    <3>2. CASE q = r BY <1>c, <2>1, <2>2, <3>2
    <3>3. CASE p # r /\ q # r
      BY <1>c, <2>2, <3>3 DEF KeyAcceptedOnce
    <3> QED BY <3>1, <3>2, <3>3
  <2> QED BY <1>c, <2>2 DEF KeyAcceptedOnce
<1>7. AnswerNamesOwnEvent' BY <1>b, <1>c DEF AnswerNamesOwnEvent, TypeOK
<1>8. UnmatchedIsMasked' BY <1>c DEF UnmatchedIsMasked, Final
<1> QED BY <1>1, <1>2, <1>3, <1>4, <1>5, <1>6, <1>7, <1>8

\* A failed transaction leaves no event and no job.
LEMMA StoreFailsKeeps ==
  ASSUME IngestInvariant, NEW r \in Request, StoreFails(r)
  PROVE  IngestInvariant'
PROOF
<1> USE DEF IngestInvariant
<1>1. TypeOK' BY DEF StoreFails, TypeOK, config, tables, history, Places
<1>2. NothingBeforeItsTime'
  BY DEF StoreFails, NothingBeforeItsTime, Early, config, tables, history,
         TypeOK
<1>3. RowsAreTheirs' BY DEF StoreFails, RowsAreTheirs, config, tables, history
<1>4. KeptIsRemembered'
  BY DEF StoreFails, KeptIsRemembered, config, tables, history
<1>5. JobsFollowRoutes'
  BY DEF StoreFails, JobsFollowRoutes, config, tables, history
<1>6. KeyAcceptedOnce'
  BY DEF StoreFails, KeyAcceptedOnce, config, tables, history
<1>7. AnswerNamesOwnEvent'
  BY DEF StoreFails, AnswerNamesOwnEvent, config, tables, history
<1>8. UnmatchedIsMasked'
  BY DEF StoreFails, UnmatchedIsMasked, NothingBeforeItsTime, Early, Final,
         config, tables, history, TypeOK
<1> QED BY <1>1, <1>2, <1>3, <1>4, <1>5, <1>6, <1>7, <1>8

\* Only the payload of the event changes.
LEMMA MaskPayloadKeeps ==
  ASSUME IngestInvariant, NEW r \in Request, MaskPayload(r)
  PROVE  IngestInvariant'
PROOF
<1> USE DEF IngestInvariant
<1>a. \A q \in Request :
         /\ event'[q] = None <=> event[q] = None
         /\ event[q] # None =>
               /\ event'[q].at = event[q].at /\ event'[q].key = event[q].key
               /\ event'[q].src = event[q].src
               /\ q # r => event'[q].payload = event[q].payload
               /\ q = r => event'[q].payload # "raw"
         /\ event'[q] \in EventRow \cup {None}
  <2> SUFFICES ASSUME NEW q \in Request, event[r] # None
               PROVE  /\ event'[q] = None <=> event[q] = None
                      /\ event[q] # None =>
                            /\ event'[q].at = event[q].at
                            /\ event'[q].key = event[q].key
                            /\ event'[q].src = event[q].src
                            /\ q # r => event'[q].payload = event[q].payload
                            /\ q = r => event'[q].payload # "raw"
                      /\ event'[q] \in EventRow \cup {None}
    BY DEF MaskPayload, TypeOK
  <2> DEFINE masked == [event[r] EXCEPT !.payload = MaskedAs(seen[r].policy)]
  <2>1. event[r] \in EventRow BY DEF TypeOK
  <2>2. MaskedAs(seen[r].policy) \in {"redacted", "null"} BY DEF MaskedAs
  <2>3. /\ masked \in EventRow /\ masked.at = event[r].at
        /\ masked.key = event[r].key /\ masked.src = event[r].src
        /\ masked.payload # "raw"
    BY <2>1, <2>2 DEF EventRow
  <2>4. masked # None BY <2>3, NoneAssumption
  <2>5. event' = [event EXCEPT ![r] = masked] BY DEF MaskPayload
  <2> HIDE DEF masked
  <2> QED BY <2>3, <2>4, <2>5 DEF TypeOK
<1>b. DOMAIN event' = Request /\ event' = [q \in Request |-> event'[q]]
  BY DEF MaskPayload, TypeOK
<1>c. /\ pc'[r] = "answered" /\ \A q \in Request : q # r => pc'[q] = pc[q]
      /\ pc' \in [Request -> Places] /\ pc[r] = "mask"
      /\ UNCHANGED <<now, source, rule, bindings, jobs, seen, groups, reply,
                     kept, missed, deleted, left>>
  BY DEF MaskPayload, TypeOK, Places, config, history
<1>1. TypeOK'
  <2>1. event' \in [Request -> EventRow \cup {None}] BY <1>a, <1>b
  <2> QED BY <1>c, <2>1 DEF TypeOK
<1>2. NothingBeforeItsTime' BY <1>a, <1>c DEF NothingBeforeItsTime, Early
<1>3. RowsAreTheirs' BY <1>a, <1>c DEF RowsAreTheirs
<1>4. KeptIsRemembered' BY <1>a, <1>c DEF KeptIsRemembered
<1>5. JobsFollowRoutes' BY <1>c DEF JobsFollowRoutes
<1>6. KeyAcceptedOnce' BY <1>c DEF KeyAcceptedOnce
<1>7. AnswerNamesOwnEvent' BY <1>c DEF AnswerNamesOwnEvent
<1>8. UnmatchedIsMasked' BY <1>a, <1>c DEF UnmatchedIsMasked, Final
<1> QED BY <1>1, <1>2, <1>3, <1>4, <1>5, <1>6, <1>7, <1>8

\* A request that fails has stored nothing, or is answered, or is missed.
LEMMA RequestFailsKeeps ==
  ASSUME IngestInvariant, NEW r \in Request, RequestFails(r)
  PROVE  IngestInvariant'
PROOF
<1> USE DEF IngestInvariant
<1>1. TypeOK' BY DEF RequestFails, TypeOK, config, tables, Disturb, Places
<1>2. NothingBeforeItsTime'
  BY DEF RequestFails, NothingBeforeItsTime, Early, config, tables, Final,
         TypeOK
<1>3. RowsAreTheirs' BY DEF RequestFails, RowsAreTheirs, config, tables
<1>4. KeptIsRemembered' BY DEF RequestFails, KeptIsRemembered, config, tables
<1>5. JobsFollowRoutes' BY DEF RequestFails, JobsFollowRoutes, config, tables
<1>6. KeyAcceptedOnce' BY DEF RequestFails, KeyAcceptedOnce, config, tables
<1>7. AnswerNamesOwnEvent'
  BY DEF RequestFails, AnswerNamesOwnEvent, config, tables
<1>8. UnmatchedIsMasked'
  <2> SUFFICES ASSUME NEW q \in Request \ missed', pc'[q] \in Final,
                      event[q] # None, groups[q] = {}
               PROVE  event[q].payload # "raw"
    BY DEF UnmatchedIsMasked, RequestFails, tables
  <2>1. q \notin missed /\ pc[q] # "mask" BY DEF RequestFails, TypeOK, Final
  <2>2. pc[q] \notin Early BY DEF NothingBeforeItsTime
  <2>3. pc[q] \in Final BY <2>1, <2>2 DEF TypeOK, Places, Early, Final
  <2> QED BY <2>1, <2>3 DEF UnmatchedIsMasked
<1> QED BY <1>1, <1>2, <1>3, <1>4, <1>5, <1>6, <1>7, <1>8

\* A crash leaves requests as failures do.
LEMMA CrashKeeps ==
  ASSUME IngestInvariant, Crash
  PROVE  IngestInvariant'
PROOF
<1> USE DEF IngestInvariant
<1>1. TypeOK' BY DEF Crash, TypeOK, config, tables, Disturb, Places
<1>2. NothingBeforeItsTime'
  BY DEF Crash, NothingBeforeItsTime, Early, config, tables, Final, TypeOK
<1>3. RowsAreTheirs' BY DEF Crash, RowsAreTheirs, config, tables
<1>4. KeptIsRemembered' BY DEF Crash, KeptIsRemembered, config, tables
<1>5. JobsFollowRoutes' BY DEF Crash, JobsFollowRoutes, config, tables
<1>6. KeyAcceptedOnce' BY DEF Crash, KeyAcceptedOnce, config, tables
<1>7. AnswerNamesOwnEvent' BY DEF Crash, AnswerNamesOwnEvent, config, tables
<1>8. UnmatchedIsMasked'
  <2> SUFFICES ASSUME NEW q \in Request \ missed', pc'[q] \in Final,
                      event[q] # None, groups[q] = {}
               PROVE  event[q].payload # "raw"
    BY DEF UnmatchedIsMasked, Crash, tables
  <2>1. q \notin missed /\ pc[q] # "mask" BY DEF Crash, TypeOK, Final
  <2>2. pc[q] \notin Early BY DEF NothingBeforeItsTime
  <2>3. pc[q] \in Final BY <2>1, <2>2 DEF TypeOK, Places, Early, Final
  <2> QED BY <2>1, <2>3 DEF UnmatchedIsMasked
<1> QED BY <1>1, <1>2, <1>3, <1>4, <1>5, <1>6, <1>7, <1>8

\* Edits of sources, rules and groups touch no event, job or request.
LEMMA SaveSourceKeeps ==
  ASSUME IngestInvariant, NEW s \in Source, NEW new \in SourceRow,
         SaveSource(s, new)
  PROVE  IngestInvariant'
PROOF
<1> USE DEF IngestInvariant
<1>1. TypeOK' BY DEF SaveSource, TypeOK, tables, history, Disturb
<1>2. NothingBeforeItsTime'
  BY DEF SaveSource, NothingBeforeItsTime, tables, history
<1>3. RowsAreTheirs' BY DEF SaveSource, RowsAreTheirs, tables, history
<1>4. KeptIsRemembered' BY DEF SaveSource, KeptIsRemembered, tables, history
<1>5. JobsFollowRoutes' BY DEF SaveSource, JobsFollowRoutes, tables, history
<1>6. KeyAcceptedOnce' BY DEF SaveSource, KeyAcceptedOnce, tables, history
<1>7. AnswerNamesOwnEvent'
  BY DEF SaveSource, AnswerNamesOwnEvent, tables, history
<1>8. UnmatchedIsMasked'
  BY DEF SaveSource, UnmatchedIsMasked, tables, history, Final
<1> QED BY <1>1, <1>2, <1>3, <1>4, <1>5, <1>6, <1>7, <1>8

\* The events of a deleted source lose it, and its keys are excused.
LEMMA DeleteSourceKeeps ==
  ASSUME IngestInvariant, NEW s \in Source, DeleteSource(s)
  PROVE  IngestInvariant'
PROOF
<1> USE DEF IngestInvariant
<1>1. TypeOK'
  <2>1. \A q \in Request :
           event[q] # None => [event[q] EXCEPT !.src = None] \in EventRow
    BY DEF TypeOK, EventRow
  <2>2. event' \in [Request -> EventRow \cup {None}]
    BY <2>1 DEF DeleteSource, TypeOK
  <2>3. rule' \in [Rule -> RuleRow \cup {None}] BY DEF DeleteSource, TypeOK
  <2>4. left' \in Nat BY DEF DeleteSource, Disturb, TypeOK
  <2> QED BY <2>2, <2>3, <2>4 DEF DeleteSource, TypeOK
<1>2. NothingBeforeItsTime' BY DEF DeleteSource, NothingBeforeItsTime
<1>3. RowsAreTheirs' BY DEF DeleteSource, RowsAreTheirs
<1>4. KeptIsRemembered' BY DEF DeleteSource, KeptIsRemembered
<1>5. JobsFollowRoutes' BY DEF DeleteSource, JobsFollowRoutes
<1>6. KeyAcceptedOnce' BY DEF DeleteSource, KeyAcceptedOnce
<1>7. AnswerNamesOwnEvent' BY DEF DeleteSource, AnswerNamesOwnEvent
<1>8. UnmatchedIsMasked' BY DEF DeleteSource, UnmatchedIsMasked, Final
<1> QED BY <1>1, <1>2, <1>3, <1>4, <1>5, <1>6, <1>7, <1>8

\* A rule is created or changed: no event, job or answer is touched.
LEMMA SaveRuleKeeps ==
  ASSUME IngestInvariant, NEW x \in Rule, NEW new \in RuleRow, SaveRule(x, new)
  PROVE  IngestInvariant'
PROOF
<1> USE DEF IngestInvariant
<1>1. TypeOK' BY DEF SaveRule, TypeOK, tables, history, Disturb
<1>2. NothingBeforeItsTime'
  BY DEF SaveRule, NothingBeforeItsTime, tables, history
<1>3. RowsAreTheirs' BY DEF SaveRule, RowsAreTheirs, tables, history
<1>4. KeptIsRemembered' BY DEF SaveRule, KeptIsRemembered, tables, history
<1>5. JobsFollowRoutes' BY DEF SaveRule, JobsFollowRoutes, tables, history
<1>6. KeyAcceptedOnce' BY DEF SaveRule, KeyAcceptedOnce, tables, history
<1>7. AnswerNamesOwnEvent' BY DEF SaveRule, AnswerNamesOwnEvent, tables, history
<1>8. UnmatchedIsMasked'
  BY DEF SaveRule, UnmatchedIsMasked, tables, history, Final
<1> QED BY <1>1, <1>2, <1>3, <1>4, <1>5, <1>6, <1>7, <1>8

\* A rule is deleted: no event, job or answer is touched.
LEMMA DeleteRuleKeeps ==
  ASSUME IngestInvariant, NEW x \in Rule, DeleteRule(x)
  PROVE  IngestInvariant'
PROOF
<1> USE DEF IngestInvariant
<1>1. TypeOK' BY DEF DeleteRule, TypeOK, tables, history, Disturb
<1>2. NothingBeforeItsTime'
  BY DEF DeleteRule, NothingBeforeItsTime, tables, history
<1>3. RowsAreTheirs' BY DEF DeleteRule, RowsAreTheirs, tables, history
<1>4. KeptIsRemembered' BY DEF DeleteRule, KeptIsRemembered, tables, history
<1>5. JobsFollowRoutes' BY DEF DeleteRule, JobsFollowRoutes, tables, history
<1>6. KeyAcceptedOnce' BY DEF DeleteRule, KeyAcceptedOnce, tables, history
<1>7. AnswerNamesOwnEvent'
  BY DEF DeleteRule, AnswerNamesOwnEvent, tables, history
<1>8. UnmatchedIsMasked'
  BY DEF DeleteRule, UnmatchedIsMasked, tables, history, Final
<1> QED BY <1>1, <1>2, <1>3, <1>4, <1>5, <1>6, <1>7, <1>8

\* A group gets its bindings: the jobs already stored stay as they are.
LEMMA SaveGroupKeeps ==
  ASSUME IngestInvariant, NEW g \in Group, NEW B \in SUBSET Binding,
         SaveGroup(g, B)
  PROVE  IngestInvariant'
PROOF
<1> USE DEF IngestInvariant
<1>1. TypeOK' BY DEF SaveGroup, TypeOK, history, Disturb
<1>2. NothingBeforeItsTime' BY DEF SaveGroup, NothingBeforeItsTime, history
<1>3. RowsAreTheirs' BY DEF SaveGroup, RowsAreTheirs, history
<1>4. KeptIsRemembered' BY DEF SaveGroup, KeptIsRemembered, history
<1>5. JobsFollowRoutes' BY DEF SaveGroup, JobsFollowRoutes, history
<1>6. KeyAcceptedOnce' BY DEF SaveGroup, KeyAcceptedOnce, history
<1>7. AnswerNamesOwnEvent' BY DEF SaveGroup, AnswerNamesOwnEvent, history
<1>8. UnmatchedIsMasked' BY DEF SaveGroup, UnmatchedIsMasked, history, Final
<1> QED BY <1>1, <1>2, <1>3, <1>4, <1>5, <1>6, <1>7, <1>8

\* A group is deleted: the jobs already stored stay as they are.
LEMMA DeleteGroupKeeps ==
  ASSUME IngestInvariant, NEW g \in Group, DeleteGroup(g)
  PROVE  IngestInvariant'
PROOF
<1> USE DEF IngestInvariant
<1>1. TypeOK' BY DEF DeleteGroup, TypeOK, history, Disturb
<1>2. NothingBeforeItsTime' BY DEF DeleteGroup, NothingBeforeItsTime, history
<1>3. RowsAreTheirs' BY DEF DeleteGroup, RowsAreTheirs, history
<1>4. KeptIsRemembered' BY DEF DeleteGroup, KeptIsRemembered, history
<1>5. JobsFollowRoutes' BY DEF DeleteGroup, JobsFollowRoutes, history
<1>6. KeyAcceptedOnce' BY DEF DeleteGroup, KeyAcceptedOnce, history
<1>7. AnswerNamesOwnEvent' BY DEF DeleteGroup, AnswerNamesOwnEvent, history
<1>8. UnmatchedIsMasked' BY DEF DeleteGroup, UnmatchedIsMasked, history, Final
<1> QED BY <1>1, <1>2, <1>3, <1>4, <1>5, <1>6, <1>7, <1>8

\* What is removed is older than the retention, and so than the window.
LEMMA RemoveOldEventsKeeps ==
  ASSUME IngestInvariant, RemoveOldEvents
  PROVE  IngestInvariant'
PROOF
<1> USE DEF IngestInvariant
<1>1. TypeOK' BY DEF RemoveOldEvents, TypeOK, config, history
<1>2. NothingBeforeItsTime'
  BY DEF RemoveOldEvents, NothingBeforeItsTime, config, history
<1>3. RowsAreTheirs' BY DEF RemoveOldEvents, RowsAreTheirs, config, history
<1>4. KeptIsRemembered'
  BY DEF RemoveOldEvents, KeptIsRemembered, RowsAreTheirs, history
<1>5. JobsFollowRoutes'
  BY DEF RemoveOldEvents, JobsFollowRoutes, config, history
<1>6. KeyAcceptedOnce' BY DEF RemoveOldEvents, KeyAcceptedOnce, config, history
<1>7. AnswerNamesOwnEvent'
  BY DEF RemoveOldEvents, AnswerNamesOwnEvent, config, history
<1>8. UnmatchedIsMasked'
  BY DEF RemoveOldEvents, UnmatchedIsMasked, config, history, Final
<1> QED BY <1>1, <1>2, <1>3, <1>4, <1>5, <1>6, <1>7, <1>8


--------------------------------------------------------------------------------
\* Every step of a request keeps the invariant.
LEMMA StepHolds ==
  ASSUME IngestInvariant, NEW r \in Request, RequestStep(r)
  PROVE  IngestInvariant'
PROOF
  BY FindSourceKeeps, RefuseKeeps, ReadRulesKeeps, AnswerDuplicateKeeps,
     StoreEventKeeps, StoreFailsKeeps, MaskPayloadKeeps, RequestFailsKeeps
  DEF RequestStep

\* Every step of the system keeps the invariant.
LEMMA NextHolds ==
  ASSUME IngestInvariant, [Next]_vars
  PROVE  IngestInvariant'
PROOF
<1>1. CASE Tick BY <1>1, TickKeeps
<1>2. CASE \E r \in Request : RequestStep(r) BY <1>2, StepHolds
<1>3. CASE Crash BY <1>3, CrashKeeps
<1>4. CASE \E s \in Source, new \in SourceRow : SaveSource(s, new)
  BY <1>4, SaveSourceKeeps
<1>5. CASE \E s \in Source : DeleteSource(s) BY <1>5, DeleteSourceKeeps
<1>6. CASE \E x \in Rule,
              new \in [src : Source, group : Group, prio : Prio, on : BOOLEAN] :
                 SaveRule(x, new)
  <2>1. [src : Source, group : Group, prio : Prio, on : BOOLEAN]
           \subseteq RuleRow
    BY DEF RuleRow, Prio
  <2> QED BY <1>6, <2>1, SaveRuleKeeps
<1>7. CASE \E x \in Rule : DeleteRule(x) BY <1>7, DeleteRuleKeeps
<1>8. CASE \E g \in Group : \E B \in SUBSET {b \in Binding : GroupOf[b] = g} :
              SaveGroup(g, B)
  BY <1>8, SaveGroupKeeps
<1>9. CASE \E g \in Group : DeleteGroup(g) BY <1>9, DeleteGroupKeeps
<1>10. CASE RemoveOldEvents BY <1>10, RemoveOldEventsKeeps
<1>11. CASE UNCHANGED vars
  <2> USE <1>11 DEF vars, config, tables, history, IngestInvariant
  <2>1. TypeOK' BY DEF TypeOK
  <2>2. NothingBeforeItsTime' BY DEF NothingBeforeItsTime
  <2>3. RowsAreTheirs' BY DEF RowsAreTheirs
  <2>4. KeptIsRemembered' BY DEF KeptIsRemembered
  <2>5. JobsFollowRoutes' BY DEF JobsFollowRoutes
  <2>6. KeyAcceptedOnce' BY DEF KeyAcceptedOnce
  <2>7. AnswerNamesOwnEvent' BY DEF AnswerNamesOwnEvent
  <2>8. UnmatchedIsMasked' BY DEF UnmatchedIsMasked
  <2> QED BY <2>1, <2>2, <2>3, <2>4, <2>5, <2>6, <2>7, <2>8
<1> QED
  BY <1>1, <1>2, <1>3, <1>4, <1>5, <1>6, <1>7, <1>8, <1>9, <1>10, <1>11
  DEF Next

\* The jobs of a request go to one group at most when its routes have one.
LEMMA OneRouteOneGroup ==
  ASSUME TypeOK, JobsFollowRoutes,
         NEW r \in Request, seen[r] # None, seen[r].mode = "first_match"
  PROVE  Cardinality({GroupOf[j[2]] : j \in {k \in jobs : k[1] = r}}) <= 1
PROOF
<1> DEFINE Sent == {GroupOf[j[2]] : j \in {k \in jobs : k[1] = r}}
<1>1. \A x \in Sent : x \in groups[r]
  <2>1. \A k \in jobs : k[1] = r => GroupOf[k[2]] \in groups[r]
    <3> SUFFICES ASSUME NEW k \in jobs, k[1] = r
                 PROVE  GroupOf[k[2]] \in groups[r]
      OBVIOUS
    <3>1. k[2] \in Binding /\ k = <<r, k[2]>> BY DEF TypeOK
    <3> QED BY <3>1 DEF JobsFollowRoutes
  <2> QED BY <2>1
<1>2. \A x, y \in Sent : x = y BY <1>1 DEF JobsFollowRoutes
<1> HIDE DEF Sent
<1>3. CASE Sent = {}
  <2>1. Cardinality(Sent) = 0 BY <1>3, FS_EmptySet, Zenon
  <2> QED BY <2>1 DEF Sent
<1>4. CASE Sent # {}
  <2>1. PICK x : x \in Sent BY <1>4
  <2>2. Sent = {x} BY <1>2, <2>1
  <2>3. Cardinality({x}) = 1 BY FS_Singleton
  <2>4. Cardinality(Sent) = 1 BY <2>2, <2>3, Zenon
  <2> QED BY <2>4 DEF Sent
<1> QED BY <1>3, <1>4

--------------------------------------------------------------------------------
\* A stored event stays its request's own and is remembered for the retention,
\* and jobs go where their request was routed, whatever comes in between.
THEOREM IngestInvariantHolds == Spec => []IngestInvariant
PROOF
<1>1. Init => IngestInvariant BY InitHolds
<1>2. IngestInvariant /\ [Next]_vars => IngestInvariant' BY NextHolds
<1> QED BY <1>1, <1>2, PTL DEF Spec

\* Every variable keeps its type.
THEOREM IngestTypeCorrect == Spec => []TypeOK
PROOF
  BY IngestInvariantHolds, PTL DEF IngestInvariant

\* Whatever requests of one source carry the same key, and whatever crashes,
\* failures, edits and clean-ups come in between, their accepted events are a
\* whole window apart; for any retention as long as the window.
THEOREM KeysAreAcceptedOnce == Spec => []KeyAcceptedOnce
PROOF
  BY IngestInvariantHolds, PTL DEF IngestInvariant

\* An answer always names the event of its request, or of a request of the same
\* source with the same key.
THEOREM AnswersNameOwnEvents == Spec => []AnswerNamesOwnEvent
PROOF
  BY IngestInvariantHolds, PTL DEF IngestInvariant

\* No edit of sources and rules during a request leaves the body of an event
\* that goes nowhere as it came.
THEOREM UnmatchedIsAlwaysMasked == Spec => []UnmatchedIsMasked
PROOF
  BY IngestInvariantHolds, PTL DEF IngestInvariant

\* However many rules and groups there are, and however they are edited and
\* reordered, a first_match source sends an event to one group.
THEOREM FirstMatchAlwaysOneGroup == Spec => []FirstMatchIsOneGroup
PROOF
<1>1. IngestInvariant => FirstMatchIsOneGroup
  BY OneRouteOneGroup DEF IngestInvariant, FirstMatchIsOneGroup
<1> QED BY <1>1, IngestInvariantHolds, PTL

--------------------------------------------------------------------------------
(* Ingestion is an inbox.  Seen through the mapping, most steps of a request  *)
(* change nothing; the others need to know what the request has stored.       *)

\* A request has neither event nor answer before it stores, and its own while
\* it masks.
RepliesFollow ==
    \A r \in Request :
        /\ pc[r] \in Early => kept[r] = None
        /\ pc[r] = "mask" => kept[r] # None /\ reply[r] = r

\* The answers that were sent.
Answers == [r \in Request |-> IF pc[r] = "answered" THEN reply[r] ELSE None]

\* Only StoreEvent gives a request an event, and leads it out of the early
\* places.
LEMMA RepliesFollowStep ==
  ASSUME IngestInvariant, RepliesFollow, [Next]_vars
  PROVE  RepliesFollow'
PROOF
<1> USE DEF IngestInvariant, TypeOK, Early, Final, RepliesFollow
<1>1. CASE \E r \in Request : RequestStep(r)
  <2>1. PICK r \in Request : RequestStep(r) BY <1>1
  <2>2. CASE FindSource(r) \/ Refuse(r) \/ ReadRules(r) \/ StoreFails(r)
    BY <2>2 DEF FindSource, Refuse, ReadRules, StoreFails, history
  <2>3. CASE AnswerDuplicate(r)
    BY <2>3 DEF AnswerDuplicate, history
  <2>4. CASE StoreEvent(r)
    <3>1. now # None BY NoneAssumption
    <3> QED BY <2>4, <3>1 DEF StoreEvent
  <2>5. CASE MaskPayload(r) \/ RequestFails(r)
    BY <2>5 DEF MaskPayload, RequestFails, history
  <2> QED BY <2>1, <2>2, <2>3, <2>4, <2>5 DEF RequestStep
<1>2. CASE Crash
  BY <1>2 DEF Crash
<1>3. CASE UNCHANGED <<pc, kept, reply>>
  BY <1>3
<1> QED
  BY <1>1, <1>2, <1>3
  DEF Next, vars, history, Tick, SaveSource, DeleteSource, SaveRule, DeleteRule,
      SaveGroup, DeleteGroup, RemoveOldEvents

\* Nothing the senders see changes.
LEMMA SameAnswers ==
  ASSUME UNCHANGED <<now, kept, deleted>>,
         \A r \in Request : /\ (pc'[r] = "answered") <=> (pc[r] = "answered")
                            /\ pc[r] = "answered" => reply'[r] = reply[r]
  PROVE  UNCHANGED Inbox!vars
PROOF
  BY DEF Inbox!vars

\* A step of a request is one of the inbox, or not seen.
LEMMA RequestStepMaps ==
  ASSUME IngestInvariant, RepliesFollow, NEW r \in Request, RequestStep(r)
  PROVE  [Inbox!Next]_Inbox!vars
PROOF
<1> USE DEF IngestInvariant, TypeOK
<1>1. CASE FindSource(r) \/ Refuse(r) \/ ReadRules(r) \/ StoreFails(r)
  <2>1. UNCHANGED <<now, kept, deleted, reply>>
        /\ \A q \in Request : (pc'[q] = "answered") <=> (pc[q] = "answered")
    BY <1>1 DEF FindSource, Refuse, ReadRules, StoreFails, history
  <2> QED BY <2>1, SameAnswers
<1>2. CASE AnswerDuplicate(r)
  <2>1. PICK e \in Earlier(r) : reply' = [reply EXCEPT ![r] = e]
    BY <1>2 DEF AnswerDuplicate
  <2>2. /\ UNCHANGED <<now, kept, deleted>> /\ KeyOf[r] # NoKey
        /\ pc[r] = "routed" /\ pc' = [pc EXCEPT ![r] = "answered"]
    BY <1>2 DEF AnswerDuplicate, history
  <2>3. kept[r] = None /\ Answers[r] = None
    BY <2>2 DEF RepliesFollow, Early, Answers
  <2>4. Answers' = [Answers EXCEPT ![r] = e]
    BY <2>1, <2>2 DEF Answers
  <2>5. /\ e \in Request /\ kept[e] # None /\ event[e].at = kept[e]
        /\ event[e].key = KeyOf[e] /\ event[e].src \in {SourceOf[e], None}
        /\ event[e].key = KeyOf[r] /\ event[e].src = SourceOf[r]
        /\ kept[e] > now - Window
    BY <2>1 DEF Earlier, RowsAreTheirs
  <2>6. /\ SourceOf[r] # None /\ kept[e] \in Int /\ now \in Int /\ Window \in Int
    BY <2>5, IngestAssumption, NoneAssumption, RetentionAssumption
  <2>7. e \in Inbox!Repeated(r)
    <3>1. now - kept[e] < Window
      BY <2>5, <2>6
    <3>2. SourceOf[e] = SourceOf[r] /\ KeyOf[e] = KeyOf[r]
      BY <2>5, <2>6
    <3> QED BY <2>2, <2>5, <3>1, <3>2 DEF Inbox!Repeated
  <2>8. Inbox!AnswerRepetition(r)
    BY <2>2, <2>3, <2>4, <2>7 DEF Inbox!AnswerRepetition, Answers
  <2> QED BY <2>8 DEF Inbox!Next
<1>3. CASE StoreEvent(r)
  <2>1. /\ UNCHANGED <<now, deleted>> /\ kept' = [kept EXCEPT ![r] = now]
        /\ pc[r] = "routed" /\ (KeyOf[r] = NoKey \/ Earlier(r) = {})
        /\ pc' = [pc EXCEPT ![r] = IF groups[r] = {} THEN "mask" ELSE "answered"]
        /\ reply' = [reply EXCEPT ![r] = r]
    BY <1>3 DEF StoreEvent
  <2>2. kept[r] = None /\ Answers[r] = None
    BY <2>1 DEF RepliesFollow, Early, Answers
  <2>3. Answers' \in {Answers, [Answers EXCEPT ![r] = r]}
    BY <2>1 DEF Answers
  <2>4. Inbox!Repeated(r) = {} \/ SourceOf[r] \in deleted
    <3>1. ASSUME NEW q \in Inbox!Repeated(r), SourceOf[r] \notin deleted
          PROVE  FALSE
      <4>1. /\ q \in Request /\ KeyOf[r] # NoKey /\ KeyOf[q] = KeyOf[r]
            /\ SourceOf[q] = SourceOf[r] /\ kept[q] # None
            /\ now - kept[q] < Window
        BY <3>1 DEF Inbox!Repeated
      <4>2. now - kept[q] >= Window
        BY <2>1, <3>1, <4>1, WindowIsClear
      <4>3. kept[q] \in Int /\ now \in Int /\ Window \in Int
        BY <4>1, RetentionAssumption
      <4> QED BY <4>1, <4>2, <4>3
    <3> QED BY <3>1
  <2>5. Inbox!Accept(r)
    BY <2>1, <2>2, <2>3, <2>4 DEF Inbox!Accept, Answers
  <2> QED BY <2>5 DEF Inbox!Next
<1>4. CASE MaskPayload(r) \/ (RequestFails(r) /\ pc[r] = "mask")
  <2>1. /\ UNCHANGED <<now, kept, deleted, reply>> /\ pc[r] = "mask"
        /\ pc' = [pc EXCEPT ![r] = "answered"]
    BY <1>4 DEF MaskPayload, RequestFails, history
  <2>2. kept[r] # None /\ Answers[r] = None /\ reply[r] = r
    BY <2>1 DEF RepliesFollow, Answers
  <2>3. Answers' = [Answers EXCEPT ![r] = r]
    BY <2>1, <2>2 DEF Answers
  <2>4. Inbox!Confirm(r)
    BY <2>1, <2>2, <2>3 DEF Inbox!Confirm, Answers
  <2> QED BY <2>4 DEF Inbox!Next
<1>5. CASE RequestFails(r) /\ pc[r] # "mask"
  <2>1. UNCHANGED <<now, kept, deleted, reply>>
        /\ \A q \in Request : (pc'[q] = "answered") <=> (pc[q] = "answered")
    BY <1>5 DEF RequestFails, Final
  <2> QED BY <2>1, SameAnswers
<1> QED BY <1>1, <1>2, <1>3, <1>4, <1>5 DEF RequestStep

\* Every step maps to a step of the inbox or a stutter.
LEMMA NextMaps ==
  ASSUME IngestInvariant, RepliesFollow, [Next]_vars
  PROVE  [Inbox!Next]_Inbox!vars
PROOF
<1> USE DEF IngestInvariant, TypeOK
<1>1. CASE Tick
  <2>1. Inbox!Tick BY <1>1 DEF Tick, Inbox!Tick, history
  <2> QED BY <2>1 DEF Inbox!Next
<1>2. CASE \E r \in Request : RequestStep(r)
  BY <1>2, RequestStepMaps
<1>3. CASE Crash
  <2>1. UNCHANGED <<now, kept, deleted>>
    BY <1>3 DEF Crash
  <2>2. ASSUME NEW q \in Request
        PROVE  /\ (pc'[q] = "answered") <=> (pc[q] = "answered")
               /\ pc[q] = "answered" => reply'[q] = reply[q]
    BY <1>3 DEF Crash, Final
  <2> QED BY <2>1, <2>2, SameAnswers
<1>4. CASE \E s \in Source : DeleteSource(s)
  <2>1. PICK s \in Source : DeleteSource(s) BY <1>4
  <2>2. Inbox!Forget(s)
    BY <2>1 DEF DeleteSource, Inbox!Forget
  <2> QED BY <2>2 DEF Inbox!Next
<1>5. CASE UNCHANGED <<now, kept, deleted, pc, reply>>
  BY <1>5, SameAnswers
<1> QED
  BY <1>1, <1>2, <1>3, <1>4, <1>5
  DEF Next, vars, history, SaveSource, SaveRule, DeleteRule, SaveGroup,
      DeleteGroup, RemoveOldEvents

\* The hook handler, its transactions and whatever runs beside them implement
\* the inbox, for any requests, sources, window and retention.
THEOREM IngestionIsAnInbox == Spec => KeepsInbox
PROOF
<1>1. Init => IngestInvariant /\ RepliesFollow /\ Inbox!Init
  <2> SUFFICES ASSUME Init PROVE IngestInvariant /\ RepliesFollow /\ Inbox!Init
    OBVIOUS
  <2>1. RepliesFollow BY DEF Init, RepliesFollow
  <2>2. Inbox!Init BY DEF Init, Inbox!Init
  <2> QED BY <2>1, <2>2, InitHolds
<1>2. IngestInvariant /\ RepliesFollow /\ [Next]_vars
        => IngestInvariant' /\ RepliesFollow'
  BY NextHolds, RepliesFollowStep
<1>3. IngestInvariant /\ RepliesFollow /\ [Next]_vars => [Inbox!Next]_Inbox!vars
  BY NextMaps
<1> QED BY <1>1, <1>2, <1>3, PTL DEF Spec, KeepsInbox, Inbox!Spec
================================================================================
