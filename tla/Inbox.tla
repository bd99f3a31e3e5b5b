---------------------------------- MODULE Inbox --------------------------------
(* What ingestion promises the senders of webhooks, whatever rules, edits,    *)
(* crashes and retention are behind it: a request is accepted at most once,   *)
(* one that repeats a key of its source within the window is never accepted   *)
(* but answered with the event of the one it repeats, and an answer is given  *)
(* after what it names was accepted, once, and for good.  A source that is    *)
(* deleted takes the memory of its keys with it.                              *)
EXTENDS Integers

CONSTANTS
    Request,      \* webhook requests
    Source,       \* ids of webhook sources
    SourceOf,     \* the source each is sent to
    KeyOf,        \* its idempotency key, NoKey without one
    Window,       \* how long a key is remembered
    NoKey,
    None          \* not accepted, not answered

VARIABLES
    now,          \* the clock
    accepted,     \* when the event of a request was accepted
    answer,       \* the request whose event the answer names
    forgotten     \* the sources whose keys are forgotten

vars == <<now, accepted, answer, forgotten>>

Init ==
    /\ now = 0
    /\ accepted = [r \in Request |-> None]
    /\ answer = [r \in Request |-> None]
    /\ forgotten = {}

Tick == now' = now + 1 /\ UNCHANGED <<accepted, answer, forgotten>>

\* The accepted requests that r repeats.
Repeated(r) ==
    {q \in Request : /\ KeyOf[r] # NoKey
                     /\ KeyOf[q] = KeyOf[r] /\ SourceOf[q] = SourceOf[r]
                     /\ accepted[q] # None /\ now - accepted[q] < Window}

\* The event of a request is accepted, and answered with at once or later.
Accept(r) ==
    /\ accepted[r] = None /\ answer[r] = None
    /\ Repeated(r) = {} \/ SourceOf[r] \in forgotten
    /\ accepted' = [accepted EXCEPT ![r] = now]
    /\ answer' \in {answer, [answer EXCEPT ![r] = r]}
    /\ UNCHANGED <<now, forgotten>>

Confirm(r) ==
    /\ accepted[r] # None /\ answer[r] = None
    /\ answer' = [answer EXCEPT ![r] = r]
    /\ UNCHANGED <<now, accepted, forgotten>>

\* A repetition is answered with what it repeats.
AnswerRepetition(r) ==
    /\ accepted[r] = None /\ answer[r] = None
    /\ \E q \in Repeated(r) : answer' = [answer EXCEPT ![r] = q]
    /\ UNCHANGED <<now, accepted, forgotten>>

Forget(s) ==
    /\ forgotten' = forgotten \cup {s}
    /\ UNCHANGED <<now, accepted, answer>>

Next ==
    \/ Tick
    \/ \E r \in Request : Accept(r) \/ Confirm(r) \/ AnswerRepetition(r)
    \/ \E s \in Source : Forget(s)

Spec == Init /\ [][Next]_vars
================================================================================
