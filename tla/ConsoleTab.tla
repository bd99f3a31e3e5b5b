------------------------------ MODULE ConsoleTab ------------------------------
(***************************************************************************)
(* One browser tab of the administration console (src/web/src), as far as  *)
(* all its pages share it: the route on display, the copies React Query    *)
(* keeps of the server's answers, the calls under way, and the session.    *)
(*                                                                         *)
(* Between a click and its effect lie up to three moments that anything    *)
(* may come between: a call is sent with the token the tab holds then, the *)
(* server serves it, and its answer runs the handler of the page that sent *)
(* it - or of no page, when that one was left.  A copy has the same three  *)
(* moments: it is asked for, read, and landed.  The pages are modules that *)
(* extend this one; Console puts them together.                            *)
(***************************************************************************)
EXTENDS Naturals

CONSTANTS
  Tours,       \* the tours: one behaviour takes one of them
  MaxCalls,    \* bound: the calls a behaviour sends
  MaxSession,  \* bound: the sessions ever opened
  Blank        \* no value

VARIABLES
  tour,      \* the tour of this behaviour
  page,      \* the route on display
  view,      \* the local state (useState) of the page on display
  copy,      \* the client's copy of each query, with its fetch
  calls,     \* the mutations under way
  sent,      \* how many were sent
  csrf,      \* the token lib/api.ts sends, 0 for none
  cookie,    \* the session the cookie names, 0 for none
  alive,     \* the sessions the server accepts
  opened,    \* how many sessions were opened
  faults,    \* how many disturbances happened
  excused    \* ghost: the copies that may be behind for a named reason

sessionVars == <<csrf, cookie, alive, opened>>
tabVars == <<tour, page, view, copy, calls, sent, csrf, cookie, alive, opened,
             faults, excused>>

InTour(p) == p \in tour.pages
Disturb == faults < tour.faults /\ faults' = faults + 1

Outside == {"login", "setup"}
Lists == {"channels", "templates", "groups", "sources", "rules", "schedules"}
Pages == Outside \cup Lists \cup {"dashboard", "activity", "account", "settings"}
Query == Lists \cup {"setup-status", "me", "settings",
                     "deliveries", "events", "dashboard"}
Call == 1..MaxCalls

(* A tour is the pages a user moves between, whether the account has a     *)
(* second factor from the start, and three bounds: the calls sent, the     *)
(* events that arrive, and the disturbances - what other tabs, the         *)
(* network, reloads and the window's focus do.                             *)
ASSUME TabAssumption ==
  /\ MaxCalls \in Nat /\ MaxSession \in Nat \ {0}
  /\ \A t \in Tours : /\ t.pages \subseteq Pages /\ t.factor \in BOOLEAN
                      /\ t.calls \in 0..MaxCalls /\ t.faults \in Nat

(* The useQuery hooks of each page; "account" reads the gate's me.         *)
PageQueries(p) ==
  CASE p \in Outside       -> {}
    [] p = "account"       -> {"me"}
    [] p = "groups"        -> {"groups", "channels", "templates"}
    [] p = "rules"         -> {"rules", "sources", "groups"}
    [] p = "schedules"     -> {"schedules", "groups"}
    [] p = "activity"      -> {"deliveries", "events"}
    [] OTHER               -> {p}

(* The gate around every page but the two outside it has queries of its    *)
(* own; a tour that never comes to the login page leaves them alone.       *)
GateQueries == IF InTour("login") THEN {"setup-status", "me"} ELSE {}

(* AuthGate: /me waits for a set-up status that says no.                   *)
MeEnabled == copy["setup-status"].known /\ ~copy["setup-status"].value

(* The gate renders the page, the set-up status unknown for good included. *)
GateOpen ==
  /\ copy["setup-status"].known \/ copy["setup-status"].failed
  /\ MeEnabled => copy["me"].known \/ copy["me"].failed

Mounted ==
  IF page \in Outside THEN {}
  ELSE {q \in GateQueries : q = "me" => MeEnabled}
       \cup (IF GateOpen THEN PageQueries(page) ELSE {})

(***************************************************************************)
(* Copies                                                                  *)
(***************************************************************************)
Unknown == [known |-> FALSE, failed |-> FALSE, value |-> Blank,
            stage |-> "idle", got |-> Blank, bearer |-> 0, over |-> FALSE]
Known(v) == [Unknown EXCEPT !.known = TRUE, !.value = v]

(* setQueryData: writes the copy, and leaves a fetch under way alone.      *)
Written(c, v) ==
  [c EXCEPT !.known = TRUE, !.failed = FALSE, !.value = v,
            !.stage = IF @ = "stale" THEN "idle" ELSE @,
            !.over = c.stage \in {"sent", "read"}]

(* invalidateQueries: a mounted copy is fetched again and a fetch under    *)
(* way is dropped; one that is not mounted waits to be, or takes the       *)
(* answer already under way.                                               *)
Invalidated(cs, qs) ==
  [q \in Query |->
     IF q \notin qs THEN cs[q]
     ELSE IF q \in Mounted \/ cs[q].stage \notin {"sent", "read"}
          THEN [cs[q] EXCEPT !.stage = "stale", !.got = Blank, !.bearer = 0,
                             !.over = FALSE]
          ELSE [cs[q] EXCEPT !.over = TRUE]]

(* What another party changed: the copies and their fetches are behind.    *)
Behind(cs, qs) == [q \in Query |-> IF q \in qs /\ cs[q].stage = "read"
                                   THEN [cs[q] EXCEPT !.over = TRUE] ELSE cs[q]]

Polled == {"deliveries", "events", "dashboard"}

(* Fault: no query has an interval.                                        *)
Ask_NoInterval(q) ==
  /\ q \in Mounted
  /\ copy[q].stage \in {"idle", "stale"}
  /\ copy' = [copy EXCEPT ![q].stage = "sent", ![q].bearer = cookie,
                          ![q].over = FALSE, ![q].failed = @ /\ copy[q].known]
  /\ IF copy[q].known /\ copy[q].stage = "idle"
     THEN Disturb ELSE UNCHANGED faults
  /\ UNCHANGED <<tour, page, sent, sessionVars, excused>>

(* A mounted query is fetched when it has no data or was invalidated, by   *)
(* its interval if it has one, and, its data being older than 10 s, when   *)
(* it is mounted again or the window gains focus: a disturbance.           *)
Ask(q) ==
  /\ q \in Mounted
  /\ copy[q].stage \in {"idle", "stale"}
  /\ copy' = [copy EXCEPT ![q].stage = "sent", ![q].bearer = cookie,
                          ![q].over = FALSE, ![q].failed = @ /\ copy[q].known]
  /\ IF copy[q].known /\ copy[q].stage = "idle" /\ q \notin Polled
     THEN Disturb ELSE UNCHANGED faults
  /\ UNCHANGED <<tour, page, sent, sessionVars, excused>>

(* The server reads the value; only the set-up status is public.           *)
ReadAs(q, v) ==
  /\ copy[q].stage = "sent"
  /\ q = "setup-status" \/ copy[q].bearer \in alive
  /\ copy' = [copy EXCEPT ![q].stage = "read", ![q].got = v]
  /\ UNCHANGED <<tour, page, view, calls, sent, sessionVars, faults, excused>>

Landed(c) == [Known(c.got) EXCEPT !.stage = "idle"]
Missed(c) == [c EXCEPT !.failed = TRUE, !.stage = "idle", !.got = Blank,
                       !.bearer = 0, !.over = FALSE]

ExcusedBy(q) == IF copy[q].over THEN excused \cup {q} ELSE excused \ {q}

(***************************************************************************)
(* Calls                                                                   *)
(***************************************************************************)
NoCall == [do |-> <<"none", "none">>, arg |-> Blank, token |-> 0, bearer |-> 0,
           mine |-> FALSE, stage |-> "idle", answer |-> Blank]

(* api(): the token is the one held now, the cookie goes along.            *)
Request(do, arg) ==
  [do |-> do, arg |-> arg, token |-> csrf, bearer |-> cookie, mine |-> TRUE,
   stage |-> "sent", answer |-> Blank]

Dispatch(do, arg) ==
  /\ sent < tour.calls
  /\ sent' = sent + 1
  /\ calls' = [calls EXCEPT ![sent + 1] = Request(do, arg)]
  /\ UNCHANGED <<tour, page, copy, sessionVars, faults>>

Send(do, arg) == Dispatch(do, arg) /\ UNCHANGED excused

(* isPending of the hook of the page on display.                           *)
Pending(do) == \E i \in Call : /\ calls[i].stage # "idle"
                               /\ calls[i].do = do /\ calls[i].mine

(* requireAuth and requireCSRF.                                            *)
Accepted(i, do) == /\ calls[i].stage = "sent" /\ calls[i].do = do
                   /\ calls[i].bearer \in alive
                   /\ calls[i].token = calls[i].bearer

Served(i, answer) ==
  calls' = [calls EXCEPT ![i].stage = "served", ![i].answer = answer]

Answered(i, do) == calls[i].stage = "served" /\ calls[i].do = do

Done(i) == calls' = [calls EXCEPT ![i] = NoCall]

(* A refusal, or a request that never arrives: onError shows a message.    *)
Refuse(i) ==
  /\ calls[i].stage = "sent"
  /\ Done(i)
  /\ UNCHANGED <<tour, page, view, copy, sent, sessionVars, faults, excused>>

(* The server did what it was asked, and its answer does not arrive.       *)
Lost(i, do) ==
  /\ Answered(i, do)
  /\ Disturb
  /\ Done(i)
  /\ UNCHANGED <<tour, page, sent, sessionVars>>

(* A page that is left hears of its calls no more, but their onSuccess     *)
(* runs all the same.                                                      *)
Orphaned == [i \in Call |-> [calls[i] EXCEPT !.mine = FALSE]]

Quiet == \A i \in Call : calls[i].stage = "idle"

(***************************************************************************)
(* Types                                                                   *)
(***************************************************************************)
Token == 0..MaxSession
CopyType(c) ==
  /\ DOMAIN c = {"known", "failed", "value", "stage", "got", "bearer", "over"}
  /\ c.known \in BOOLEAN /\ c.failed \in BOOLEAN /\ c.over \in BOOLEAN
  /\ c.stage \in {"idle", "stale", "sent", "read"}
  /\ c.bearer \in Token
CallType(c) ==
  /\ DOMAIN c = {"do", "arg", "token", "bearer", "mine", "stage", "answer"}
  /\ c.stage \in {"idle", "sent", "served"}
  /\ c.mine \in BOOLEAN /\ c.token \in Token /\ c.bearer \in Token

TabTypeOK ==
  /\ tour \in Tours /\ page \in Pages
  /\ DOMAIN copy = Query /\ \A q \in Query : CopyType(copy[q])
  /\ DOMAIN calls = Call /\ \A i \in Call : CallType(calls[i])
  /\ sent \in 0..MaxCalls /\ faults \in 0..tour.faults
  /\ csrf \in Token /\ cookie \in Token /\ opened \in Token
  /\ alive \subseteq 1..opened
  /\ excused \subseteq Query \cup {"codes"}
===============================================================================
