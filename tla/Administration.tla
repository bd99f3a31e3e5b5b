----------------------------- MODULE Administration ----------------------------
(* The settings and the webhook sources, as their handlers change them: each  *)
(* reads the whole record, changes a part of it, and writes the whole back.   *)
(*                                                                            *)
(* The settings are kept three times: in their table, in a copy that the      *)
(* handlers and the maintenance read, and, as far as they allow private       *)
(* targets, in the channels.  A save writes the three one after the other.    *)
(* Tokens, secrets and the parts of a record that no property tells apart are *)
(* named by the request that made them.                                       *)
CONSTANTS
    Request,   \* requests that save settings, or save, rotate or delete sources
    Earlier,   \* stands for a request that ended before all others
    None

ASSUME AdministrationAssumption ==
    Earlier \notin Request /\ None \notin Request \cup {Earlier}

Name == Request \cup {Earlier}

Ops == {"settings", "create", "edit", "rotate", "delete"}

\* RuntimeSettings: Pocket ID's switch and client secret, and the rest.
Settings == [enabled : BOOLEAN, secret : Name \cup {None}, rest : Name]

\* A row of webhook_sources, which has the name of the request that created it.
SourceRow == [token : Name, hmac : Name \cup {None}, rest : Name]

ASSUME RecordAssumption == None \notin Settings \cup SourceRow

VARIABLES
    table,     \* the table settings
    cache,     \* Server.settings
    flag,      \* the save that the channels have their flag from
    source,    \* webhook_sources, None for those that are not there
    op,        \* what each request is for
    pc,        \* how far it has come
    target,    \* the source it is about
    seen,      \* the source it read
    draft,     \* what it is going to write
    shown,     \* history: tokens and secrets that an answer has shown
    cut,       \* history: requests whose answer did not arrive
    void,      \* history: tokens that were rotated or deleted
    stale,     \* history: writes of a source that had changed since it was read
    mixed      \* history: saves of settings overlapped since the start

stores == <<table, cache, flag, source>>
request == <<op, pc, target, seen, draft>>
history == <<shown, cut, void, stale, mixed>>
vars == <<stores, request, history>>

Places == {"new", "save", "cache", "flag", "write", "answer", "done"}

\* validatePocketIDIssuer and the other fields aside, this is what a save checks.
Valid(s) == s.enabled => s.secret # None

Init ==
    /\ table \in {s \in Settings : Valid(s) /\ s.secret \in {Earlier, None}
                                            /\ s.rest = Earlier}
    /\ cache = table
    /\ flag = Earlier
    /\ \E h \in {Earlier, None} :
           source = [n \in Name |-> IF n = Earlier
                                    THEN [token |-> n, hmac |-> h, rest |-> n]
                                    ELSE None]
    /\ op \in [Request -> Ops]
    /\ pc = [r \in Request |-> "new"]
    /\ target = [r \in Request |-> None]
    /\ seen = [r \in Request |-> None]
    /\ draft = [r \in Request |-> None]
    /\ shown = {Earlier}
    /\ cut = {}
    /\ void = {}
    /\ stale = {}
    /\ mixed = FALSE

Goes(r, place) == pc' = [pc EXCEPT ![r] = place]

--------------------------------------------------------------------------------
(* Settings.                                                                 *)

Requested(r) == {[enabled |-> e, secret |-> s, rest |-> r] :
                     e \in BOOLEAN, s \in {cache.secret, None, r}}

\* The secret in force is kept, cleared or replaced; the rest is as requested.
ReadSettings(r) ==
    /\ pc[r] = "new" /\ op[r] = "settings"
    /\ \E s \in Requested(r) : Valid(s) /\ draft' = [draft EXCEPT ![r] = s]
    /\ Goes(r, "save")
    /\ UNCHANGED <<stores, op, target, seen, history>>

\* A fault: the secret is written only by those who change it.
Saved_KeepsSecret(r) ==
    IF draft[r].secret \in {r, None} THEN draft[r]
                                     ELSE [draft[r] EXCEPT !.secret = table.secret]

\* SaveRuntimeSettings writes every key.
Saved(r) == draft[r]

Saving(r) == pc[r] \in {"cache", "flag"}

SaveTable(r) ==
    /\ pc[r] = "save"
    /\ table' = Saved(r)
    /\ mixed' = (mixed \/ \E q \in Request : Saving(q))
    /\ Goes(r, "cache")
    /\ UNCHANGED <<cache, flag, source, op, target, seen, draft, shown, cut,
                   void, stale>>

StoreCache(r) ==
    /\ pc[r] = "cache"
    /\ cache' = draft[r]
    /\ Goes(r, "flag")
    /\ UNCHANGED <<table, flag, source, op, target, seen, draft, history>>

SetFlag(r) ==
    /\ pc[r] = "flag"
    /\ flag' = draft[r].rest
    /\ Goes(r, "done")
    /\ UNCHANGED <<table, cache, source, op, target, seen, draft, history>>

--------------------------------------------------------------------------------
(* Sources.                                                                  *)

\* A fault: every save makes a signing secret, which no answer shows if there
\* has been one before.
Secrets_Fresh(r, s) == {None, r}

\* The signing secret after a save: none, the one there is, or else a fresh one.
Secrets(r, s) == {None, IF s.hmac = None THEN r ELSE s.hmac}

Edited(r, s) == {[s EXCEPT !.hmac = h, !.rest = r] : h \in Secrets(r, s)}

\* A fault: the token of before stays in the row.
Rotated_Same(r, s) == {s}

Rotated(r, s) == {[s EXCEPT !.token = r]}

CreateSource(r) ==
    /\ pc[r] = "new" /\ op[r] = "create"
    /\ target' = [target EXCEPT ![r] = r]
    /\ \E h \in {None, r} :
           draft' = [draft EXCEPT ![r] = [token |-> r, hmac |-> h, rest |-> r]]
    /\ Goes(r, "write")
    /\ UNCHANGED <<stores, op, seen, history>>

\* Edit and rotation look the source up in a listing of all.
ReadSource(r, n) ==
    /\ pc[r] = "new" /\ op[r] \in {"edit", "rotate"}
    /\ source[n] # None
    /\ target' = [target EXCEPT ![r] = n]
    /\ seen' = [seen EXCEPT ![r] = source[n]]
    /\ \E d \in IF op[r] = "edit" THEN Edited(r, source[n])
                                  ELSE Rotated(r, source[n]) :
           draft' = [draft EXCEPT ![r] = d]
    /\ Goes(r, "write")
    /\ UNCHANGED <<stores, op, history>>

\* SaveSource inserts or replaces, whatever has become of the row.
WriteSource(r) ==
    /\ pc[r] = "write"
    /\ source' = [source EXCEPT ![target[r]] = draft[r]]
    /\ void' = IF op[r] = "rotate" THEN void \cup {seen[r].token} ELSE void
    /\ stale' = IF source[target[r]] # seen[r] THEN stale \cup {r} ELSE stale
    /\ Goes(r, "answer")
    /\ UNCHANGED <<table, cache, flag, op, target, seen, draft, shown, cut, mixed>>

\* What was made for this request and is in its answer: the token of a create or
\* a rotation, the secret that a create or an edit found missing.
Shows(r) ==
    (IF op[r] \in {"create", "rotate"} THEN {draft[r].token} ELSE {})
        \cup (IF op[r] = "create" \/ (op[r] = "edit" /\ seen[r].hmac = None)
              THEN {draft[r].hmac} \ {None} ELSE {})

Answer(r) ==
    /\ pc[r] = "answer"
    /\ shown' = shown \cup Shows(r)
    /\ Goes(r, "done")
    /\ UNCHANGED <<stores, op, target, seen, draft, cut, void, stale, mixed>>

DeleteSource(r, n) ==
    /\ pc[r] = "new" /\ op[r] = "delete"
    /\ source[n] # None
    /\ source' = [source EXCEPT ![n] = None]
    /\ void' = void \cup {source[n].token}
    /\ Goes(r, "done")
    /\ UNCHANGED <<table, cache, flag, op, target, seen, draft, shown, cut, stale,
                   mixed>>

--------------------------------------------------------------------------------

\* Refused, or the database fails; a save of settings that is in the table goes on.
Refuse(r) ==
    /\ pc[r] \in {"new", "save", "write"}
    /\ Goes(r, "done")
    /\ UNCHANGED <<stores, op, target, seen, draft, history>>

\* The client has hung up.
LoseAnswer(r) ==
    /\ pc[r] = "answer"
    /\ cut' = cut \cup {r}
    /\ Goes(r, "done")
    /\ UNCHANGED <<stores, op, target, seen, draft, shown, void, stale, mixed>>

\* A fault: the channels keep to what they start with.
Reloaded_Default == Earlier

\* New gives the channels their flag from the settings it has read.
Reloaded == table.rest

Restart ==
    /\ cache' = table
    /\ flag' = Reloaded
    /\ pc' = [r \in Request |-> IF pc[r] = "new" THEN "new" ELSE "done"]
    /\ cut' = cut \cup {r \in Request : pc[r] = "answer"}
    /\ mixed' = FALSE
    /\ UNCHANGED <<table, source, op, target, seen, draft, shown, void, stale>>

RequestStep(r) ==
    \/ ReadSettings(r) \/ SaveTable(r) \/ StoreCache(r) \/ SetFlag(r)
    \/ CreateSource(r)
    \/ \E n \in Name : ReadSource(r, n) \/ DeleteSource(r, n)
    \/ WriteSource(r) \/ Answer(r) \/ LoseAnswer(r)
    \/ Refuse(r)

Next == Restart \/ \E r \in Request : RequestStep(r)

Spec == Init /\ [][Next]_vars

--------------------------------------------------------------------------------

TypeOK ==
    /\ table \in Settings
    /\ cache \in Settings
    /\ flag \in Name
    /\ source \in [Name -> SourceRow \cup {None}]
    /\ op \in [Request -> Ops]
    /\ pc \in [Request -> Places]
    /\ target \in [Request -> Name \cup {None}]
    /\ seen \in [Request -> SourceRow \cup {None}]
    /\ draft \in [Request -> SourceRow \cup Settings \cup {None}]
    /\ shown \subseteq Name
    /\ cut \subseteq Request
    /\ void \subseteq Name
    /\ stale \subseteq Request
    /\ mixed \in BOOLEAN

\* What is in force is what is stored, once no save is between its writes.  Only
\* saves whose writes overlapped may leave the three apart, until a restart.
SettingsAgree ==
    ~mixed /\ (\A r \in Request : ~Saving(r)) => cache = table /\ flag = table.rest

\* Pocket ID is on only with a client secret, though a save keeps the secret of a
\* copy that others may have changed since.
EnabledIsConfigured == Valid(table) /\ Valid(cache)

\* The administrator has seen every token and signing secret in force: they are
\* shown once and cannot be read again.  An answer may still be on its way, or
\* have been lost.
CredentialsWereShown ==
    \A n \in Name :
        source[n] # None =>
            \A c \in {source[n].token, source[n].hmac} \ {None} :
                c \in shown \cup cut \/ (c \in Request /\ pc[c] = "answer")

\* A token that was rotated away or deleted with its source is accepted no more,
\* as long as nobody writes a source back that has changed since it was read.
VoidTokensStayVoid ==
    stale = {} => \A n \in Name : source[n] # None => source[n].token \notin void

================================================================================
