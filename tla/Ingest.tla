--------------------------------- MODULE Ingest --------------------------------
(* Incoming webhooks: the hook handler, from looking up the source to the 202 *)
(* answer, with requests running side by side, an administrator editing what  *)
(* they read, and the retention that removes what they stored.                *)
(*                                                                            *)
(* A request reads its source, then the rules, then stores the event in one   *)
(* transaction, then may mask the payload: four steps, each of which sees the *)
(* database as the others have left it.  Conditions are abstracted to the set *)
(* of requests they match, and payloads to what has been done to them.        *)
EXTENDS Integers, FiniteSets

CONSTANTS
    Request,      \* webhook requests
    Source,       \* ids of webhook sources
    Rule,         \* ids of rules
    Group,        \* ids of target groups
    Binding,      \* ids of target bindings
    Key,          \* idempotency keys
    SourceOf,     \* the source whose token the request carries
    KeyOf,        \* its Idempotency-Key, NoKey without one
    Matches,      \* the requests that a rule's condition matches
    CreatedAt,    \* rules.created_at
    GroupOf,      \* target_bindings.group_id
    Window,       \* age up to which a key is remembered (24 hours)
    Retention,    \* age beyond which an event is removed (a day or more)
    MaxTime,      \* bound: the clock stops here
    Disturbances, \* the kinds of disturbance that may happen in a behaviour
    Quota,        \* bound: how many of them, of whatever kinds
    NoKey,
    None          \* no row, no event, no answer

Modes == {"first_match", "all_match"}
Policies == {"redacted", "metadata", "none"}

ASSUME IngestAssumption ==
    /\ SourceOf \in [Request -> Source]
    /\ KeyOf \in [Request -> Key \cup {NoKey}]
    /\ NoKey \notin Key
    /\ Matches \in [Rule -> SUBSET Request]
    /\ CreatedAt \in [Rule -> Nat]
    /\ GroupOf \in [Binding -> Group]
    /\ Disturbances \subseteq {"crash", "fail", "edit", "drop"}
    /\ Quota \in Nat

\* saveSettings admits no metadata retention below one day, which is the window.
ASSUME RetentionAssumption ==
    /\ Window \in Nat \ {0}
    /\ Retention \in Nat
    /\ Retention >= Window
    /\ MaxTime \in Nat

SourceRow == [on : BOOLEAN, mode : Modes, policy : Policies]
RuleRow == [src : Source, group : Group, prio : Nat, on : BOOLEAN]
EventRow == [src : Source \cup {None}, key : Key \cup {NoKey}, at : 0 .. MaxTime,
             policy : Policies, payload : {"raw", "redacted", "null"}]

ASSUME NoneAssumption ==
    None \notin SourceRow \cup RuleRow \cup EventRow \cup Source \cup Request
                \cup 0 .. MaxTime

VARIABLES
    now,          \* the clock
    source,       \* the table webhook_sources
    rule,         \* the table rules
    bindings,     \* the rows of target_bindings that are enabled
    event,        \* the table events, by the request that stored the row
    jobs,         \* delivery_jobs, as pairs of request and binding
    pc,           \* how far each request has come
    seen,         \* the source row it read
    groups,       \* the groups its matching rules send to
    reply,        \* the event id of its 202 answer
    kept,         \* history: the requests whose event was stored, and when
    missed,       \* history: requests whose payload was to be masked and was not
    deleted,      \* history: sources that have been deleted
    left          \* disturbances that may still happen

config == <<source, rule, bindings>>
tables == <<event, jobs>>
history == <<kept, missed, deleted>>
vars == <<now, config, tables, pc, seen, groups, reply, history, left>>

Places == {"new", "found", "routed", "mask", "answered", "refused"}
Final == {"answered", "refused"}

Disturb(kind) == /\ kind \in Disturbances
                 /\ left > 0
                 /\ left' = left - 1

--------------------------------------------------------------------------------

\* An administrator has set up enabled sources and one rule for each group.
Init ==
    /\ now = 0
    /\ source \in [Source -> [on : {TRUE}, mode : Modes, policy : Policies]]
    /\ rule \in [Rule -> [src : Source, group : Group, prio : {1}, on : {TRUE}]]
    /\ bindings \in SUBSET Binding
    /\ event = [r \in Request |-> None]
    /\ jobs = {}
    /\ pc = [r \in Request |-> "new"]
    /\ seen = [r \in Request |-> None]
    /\ groups = [r \in Request |-> {}]
    /\ reply = [r \in Request |-> None]
    /\ kept = [r \in Request |-> None]
    /\ missed = {}
    /\ deleted = {}
    /\ left = Quota

Tick ==
    /\ now < MaxTime
    /\ now' = now + 1
    /\ UNCHANGED <<config, tables, pc, seen, groups, reply, history, left>>

\* SourceByTokenHash finds an enabled source.
FindSource(r) ==
    LET row == source[SourceOf[r]]
    IN  /\ pc[r] = "new"
        /\ row # None
        /\ row.on
        /\ seen' = [seen EXCEPT ![r] = row]
        /\ pc' = [pc EXCEPT ![r] = "found"]
        /\ UNCHANGED <<now, config, tables, groups, reply, history, left>>

\* There is no such source or it is disabled; or the address, the size, the
\* signature or the content type of the request is not accepted.
Refuse(r) ==
    /\ \/ /\ pc[r] = "new"
          /\ source[SourceOf[r]] # None => ~source[SourceOf[r]].on
       \/ pc[r] = "found"
    /\ pc' = [pc EXCEPT ![r] = "refused"]
    /\ UNCHANGED <<now, config, tables, seen, groups, reply, history, left>>

Hits(r) ==
    {x \in Rule : /\ rule[x] # None
                  /\ rule[x].src = SourceOf[r]
                  /\ rule[x].on
                  /\ r \in Matches[x]}

\* ORDER BY priority, created_at; to the second, so two rules may be level.
Before(x, y) ==
    \/ rule[x].prio < rule[y].prio
    \/ rule[x].prio = rule[y].prio /\ CreatedAt[x] < CreatedAt[y]

\* A fault: the loop over the rules goes on after the first hit.
Routes_NoBreak(r) == {{rule[x].group : x \in Hits(r)}}

\* The groups the loop over the rules may come to.  first_match stops at the
\* first hit; of two that are level, either may be first.
Routes(r) ==
    IF seen[r].mode = "all_match" \/ Hits(r) = {}
    THEN {{rule[x].group : x \in Hits(r)}}
    ELSE {{rule[x].group} :
             x \in {y \in Hits(r) : \A z \in Hits(r) : ~Before(z, y)}}

\* The source row may have been edited or deleted since it was read.
ReadRules(r) ==
    /\ pc[r] = "found"
    /\ \E G \in Routes(r) : groups' = [groups EXCEPT ![r] = G]
    /\ pc' = [pc EXCEPT ![r] = "routed"]
    /\ UNCHANGED <<now, config, tables, seen, reply, history, left>>

\* Faults: the window is one unit short; an event counts however old it is.
Earlier_ShortWindow(r) ==
    {e \in Request : /\ event[e] # None
                     /\ event[e].src = SourceOf[r]
                     /\ event[e].key = KeyOf[r]
                     /\ event[e].at > now - Window + 1}
Earlier_NoWindow(r) ==
    {e \in Request : /\ event[e] # None
                     /\ event[e].src = SourceOf[r]
                     /\ event[e].key = KeyOf[r]}

\* The events a repetition of request r would be a duplicate of.
Earlier(r) ==
    {e \in Request : /\ event[e] # None
                     /\ event[e].src = SourceOf[r]
                     /\ event[e].key = KeyOf[r]
                     /\ event[e].at > now - Window}

\* AcceptEvent finds an event with this key and answers with its id.
AnswerDuplicate(r) ==
    /\ pc[r] = "routed"
    /\ KeyOf[r] # NoKey
    /\ \E e \in Earlier(r) : reply' = [reply EXCEPT ![r] = e]
    /\ pc' = [pc EXCEPT ![r] = "answered"]
    /\ UNCHANGED <<now, config, tables, seen, groups, history, left>>

\* AcceptEvent stores the event with a job for each enabled binding of the
\* groups; the bindings are read here, the groups were read before.
StoreEvent(r) ==
    /\ pc[r] = "routed"
    /\ KeyOf[r] = NoKey \/ Earlier(r) = {}
    /\ source[SourceOf[r]] # None
    /\ event' = [event EXCEPT ![r] =
                    [src |-> SourceOf[r], key |-> KeyOf[r], at |-> now,
                     policy |-> seen[r].policy, payload |-> "raw"]]
    /\ jobs' = jobs \cup
                  {<<r, b>> : b \in {c \in bindings : GroupOf[c] \in groups[r]}}
    /\ kept' = [kept EXCEPT ![r] = now]
    /\ reply' = [reply EXCEPT ![r] = r]
    /\ pc' = [pc EXCEPT ![r] = IF groups[r] = {} THEN "mask" ELSE "answered"]
    /\ UNCHANGED <<now, config, seen, groups, missed, deleted, left>>

\* The source has been deleted since it was read: the event would refer to it.
StoreFails(r) ==
    /\ pc[r] = "routed"
    /\ KeyOf[r] = NoKey \/ Earlier(r) = {}
    /\ source[SourceOf[r]] = None
    /\ pc' = [pc EXCEPT ![r] = "refused"]
    /\ UNCHANGED <<now, config, tables, seen, groups, reply, history, left>>

\* A fault: only the policies that drop the payload are looked at.
MaskedAs_DropOnly(policy) == IF policy = "redacted" THEN "raw" ELSE "null"

MaskedAs(policy) == IF policy = "redacted" THEN "redacted" ELSE "null"

\* No rule matched, so no worker will ever finalise this event: the handler
\* applies the policy itself, to the event if it is still there.
MaskPayload(r) ==
    /\ pc[r] = "mask"
    /\ event' = IF event[r] = None THEN event
                ELSE [event EXCEPT ![r].payload = MaskedAs(seen[r].policy)]
    /\ pc' = [pc EXCEPT ![r] = "answered"]
    /\ UNCHANGED <<now, config, jobs, seen, groups, reply, history, left>>

\* A statement fails, or the sender hangs up and the request's context ends.
\* The last statement's error is dropped: the request is answered all the same.
RequestFails(r) ==
    /\ pc[r] \notin Final
    /\ Disturb("fail")
    /\ pc' = [pc EXCEPT ![r] = IF @ = "mask" THEN "answered" ELSE "refused"]
    /\ missed' = IF pc[r] = "mask" THEN missed \cup {r} ELSE missed
    /\ UNCHANGED <<now, config, tables, seen, groups, reply, kept, deleted>>

\* The process stops; what the requests in flight have stored stays stored.
Crash ==
    /\ Disturb("crash")
    /\ pc' = [r \in Request |->
                 IF pc[r] \in Final \cup {"new"} THEN pc[r] ELSE "refused"]
    /\ reply' = [r \in Request |-> IF pc[r] = "mask" THEN None ELSE reply[r]]
    /\ missed' = missed \cup {r \in Request : pc[r] = "mask"}
    /\ UNCHANGED <<now, config, tables, seen, groups, kept, deleted>>

--------------------------------------------------------------------------------
(* The administrator and the maintenance task.                               *)

\* Saving a source writes the whole row, and inserts it again if it was deleted
\* after the request to save it had read it.
SaveSource(s, row) ==
    /\ Disturb("edit")
    /\ source' = [source EXCEPT ![s] = row]
    /\ UNCHANGED <<now, rule, bindings, tables, pc, seen, groups, reply, history>>

\* The rules of a deleted source go; its events stay and no longer refer to it.
DeleteSource(s) ==
    /\ source[s] # None
    /\ Disturb("drop")
    /\ source' = [source EXCEPT ![s] = None]
    /\ rule' = [x \in Rule |->
                   IF rule[x] # None /\ rule[x].src = s THEN None ELSE rule[x]]
    /\ event' = [r \in Request |->
                    IF event[r] # None /\ event[r].src = s
                    THEN [event[r] EXCEPT !.src = None] ELSE event[r]]
    /\ deleted' = deleted \cup {s}
    /\ UNCHANGED <<now, bindings, jobs, pc, seen, groups, reply, kept, missed>>

SaveRule(x, row) ==
    /\ Disturb("edit")
    /\ source[row.src] # None
    /\ rule' = [rule EXCEPT ![x] = row]
    /\ UNCHANGED <<now, source, bindings, tables, pc, seen, groups, reply,
                   history>>

DeleteRule(x) ==
    /\ rule[x] # None
    /\ Disturb("drop")
    /\ rule' = [rule EXCEPT ![x] = None]
    /\ UNCHANGED <<now, source, bindings, tables, pc, seen, groups, reply,
                   history>>

\* Saving a group replaces all its bindings, and the jobs of the old ones go.
SaveGroup(g, B) ==
    /\ Disturb("edit")
    /\ bindings' = {b \in bindings : GroupOf[b] # g} \cup B
    /\ jobs' = {j \in jobs : GroupOf[j[2]] # g}
    /\ UNCHANGED <<now, source, rule, event, pc, seen, groups, reply, history>>

\* Deleting a group takes its bindings, their jobs, and the rules that name it.
DeleteGroup(g) ==
    /\ Disturb("drop")
    /\ bindings' = {b \in bindings : GroupOf[b] # g}
    /\ jobs' = {j \in jobs : GroupOf[j[2]] # g}
    /\ rule' = [x \in Rule |->
                   IF rule[x] # None /\ rule[x].group = g THEN None ELSE rule[x]]
    /\ UNCHANGED <<now, source, event, pc, seen, groups, reply, history>>

\* Cleanup removes events beyond the metadata retention, with their jobs.
RemoveOldEvents ==
    LET old == {r \in Request : event[r] # None /\ now - event[r].at > Retention}
    IN  /\ old # {}
        /\ event' = [r \in Request |-> IF r \in old THEN None ELSE event[r]]
        /\ jobs' = {j \in jobs : j[1] \notin old}
        /\ UNCHANGED <<now, config, pc, seen, groups, reply, history, left>>

--------------------------------------------------------------------------------

RequestStep(r) ==
    \/ FindSource(r)
    \/ Refuse(r)
    \/ ReadRules(r)
    \/ AnswerDuplicate(r)
    \/ StoreEvent(r)
    \/ StoreFails(r)
    \/ MaskPayload(r)
    \/ RequestFails(r)

Prio == {1, 2}

Next ==
    \/ Tick
    \/ \E r \in Request : RequestStep(r)
    \/ Crash
    \/ \E s \in Source, row \in SourceRow : SaveSource(s, row)
    \/ \E s \in Source : DeleteSource(s)
    \/ \E x \in Rule,
          row \in [src : Source, group : Group, prio : Prio, on : BOOLEAN] :
             SaveRule(x, row)
    \/ \E x \in Rule : DeleteRule(x)
    \/ \E g \in Group : \E B \in SUBSET {b \in Binding : GroupOf[b] = g} :
          SaveGroup(g, B)
    \/ \E g \in Group : DeleteGroup(g)
    \/ RemoveOldEvents

Spec == Init /\ [][Next]_vars

--------------------------------------------------------------------------------

TypeOK ==
    /\ now \in 0 .. MaxTime
    /\ source \in [Source -> SourceRow \cup {None}]
    /\ rule \in [Rule -> RuleRow \cup {None}]
    /\ bindings \subseteq Binding
    /\ event \in [Request -> EventRow \cup {None}]
    /\ jobs \subseteq Request \X Binding
    /\ pc \in [Request -> Places]
    /\ seen \in [Request -> SourceRow \cup {None}]
    /\ groups \in [Request -> SUBSET Group]
    /\ reply \in [Request -> Request \cup {None}]
    /\ kept \in [Request -> 0 .. MaxTime \cup {None}]
    /\ missed \subseteq Request
    /\ deleted \subseteq Source
    /\ left \in Nat

\* Two events of a source with the same key are a whole window apart, whatever
\* requests run at once and whatever retention removes in between.  (Deleting a
\* source takes the keys of its events with it.)
KeyAcceptedOnce ==
    \A r, q \in Request :
        /\ r # q
        /\ kept[r] # None /\ kept[q] # None
        /\ KeyOf[r] = KeyOf[q] /\ KeyOf[r] # NoKey
        /\ SourceOf[r] = SourceOf[q] /\ SourceOf[r] \notin deleted
        => kept[r] - kept[q] >= Window \/ kept[q] - kept[r] >= Window

\* A request is answered with an event that was stored: its own, or one with
\* its key from its own source, never that of another sender.
AnswerNamesOwnEvent ==
    \A r \in Request :
        reply[r] # None =>
            /\ kept[reply[r]] # None
            /\ reply[r] # r =>
                  /\ KeyOf[r] # NoKey
                  /\ KeyOf[reply[r]] = KeyOf[r]
                  /\ SourceOf[reply[r]] = SourceOf[r]

\* An event that no rule matched is masked by the time the sender has its
\* answer, though no worker ever comes to finalise it.
UnmatchedIsMasked ==
    \A r \in Request \ missed :
        pc[r] \in Final /\ event[r] # None /\ groups[r] = {}
            => event[r].payload # "raw"

\* A first_match source sends an event to one group, though rules are edited and
\* reordered between and during requests.
FirstMatchIsOneGroup ==
    \A r \in Request :
        seen[r] # None /\ seen[r].mode = "first_match"
            => Cardinality({GroupOf[j[2]] : j \in {k \in jobs : k[1] = r}}) <= 1

\* Of the source dialog's policy "do not store the body": once the sender has
\* its answer and there is nothing to deliver, the body is not kept.
BodyNotKept ==
    \A r \in Request \ missed :
        /\ pc[r] = "answered"
        /\ event[r] # None
        /\ event[r].policy = "none"
        /\ ~ \E b \in Binding : <<r, b>> \in jobs
        => event[r].payload # "raw"

\* The inbox as its senders see it: an answer counts when it is sent.
Inbox == INSTANCE Inbox WITH
             accepted <- kept,
             answer <- [r \in Request |-> IF pc[r] = "answered" THEN reply[r]
                                                              ELSE None],
             forgotten <- deleted

\* Ingestion is an inbox: no interleaving of requests, failure, edit or
\* clean-up accepts a request twice or within the window of one it repeats,
\* answers before anything was stored, with an event that is older than the
\* window, or a second time.
KeepsInbox == Inbox!Spec

================================================================================
