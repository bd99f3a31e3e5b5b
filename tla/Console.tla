-------------------------------- MODULE Console -------------------------------
(***************************************************************************)
(* The administration console as a whole: the gate in front of its pages   *)
(* (AuthGate), the set-up and login pages, the shell with its navigation   *)
(* and logout, and the pages of the modules it extends, on one tab.        *)
(***************************************************************************)
EXTENDS ConsoleResources, ConsoleAccount, ConsoleActivity, ConsoleSettings

VARIABLE admin    \* the server has an administrator

vars == <<tabVars, resourceVars, accountVars, activityVars, settingsVars, admin>>
serverVars == <<resourceVars, activityVars, settingsVars, account>>

LoginForm == [filled |-> FALSE, factor |-> FALSE]
SetupForm == [filled |-> FALSE]

(* The local state each page starts with.                                  *)
Fresh(p) ==
  CASE p = "login"     -> LoginForm     [] p = "setup"     -> SetupForm
    [] p = "channels"  -> ChannelForm   [] p = "templates" -> TemplateForm
    [] p = "groups"    -> GroupForm     [] p = "sources"   -> SourceForm
    [] p = "rules"     -> RuleForm      [] p = "schedules" -> ScheduleForm
    [] p = "account"   -> AccountForm   [] p = "settings"  -> SettingsView
    [] p = "activity"  -> ActivityForm  [] OTHER           -> DashboardForm

(* What the server answers to the query now, in the session of the fetch.  *)
Truth(q, s) ==
  CASE q \in Lists         -> table[q]
    [] q = "me"            -> MeOf(s)
    [] q = "setup-status"  -> ~admin
    [] q = "settings"      -> settings
    [] q = "deliveries"    -> DeliveryList
    [] q = "events"        -> EventList
    [] q = "dashboard"     -> Metrics

(***************************************************************************)
(* The gate and the router                                                 *)
(***************************************************************************)
(* Where a route leads, given the copies: a set-up that is due or a session*)
(* that is refused turns every page but the two outside away.              *)
Route(p, cs) ==
  LET due     == cs["setup-status"].known /\ cs["setup-status"].value
      refused == /\ cs["me"].failed
                 /\ cs["setup-status"].known \/ cs["setup-status"].failed
  IN  IF p \in Outside THEN p
      ELSE IF due THEN "setup"
      ELSE IF refused THEN "login" ELSE p

(* Fault: only a tab without a token takes the one of me.                  *)
Effect_Once(p, cs) == csrf' = IF p \notin Outside /\ cs["me"].known /\ csrf = 0
                              THEN cs["me"].value.token ELSE csrf

(* The gate's effect: a known me hands its token to lib/api.ts.            *)
Effect(p, cs) == csrf' = IF p \notin Outside /\ cs["me"].known
                         THEN cs["me"].value.token ELSE csrf

(* Showing a page: another page than before starts afresh, and the calls   *)
(* of the one that is left are nobody's.                                   *)
Display(p) == /\ page' = p
              /\ view' = IF p = page THEN view ELSE Fresh(p)
Heirs(p) == IF p = page THEN calls ELSE Orphaned

(* A link, or the browser's back button.  A query in error without data    *)
(* starts over when it is mounted.                                         *)
Remounted == [copy EXCEPT !["me"].failed = @ /\ copy["me"].known]

Go ==
  \E p \in tour.pages \ {page} :
    LET cs == IF page \in Outside THEN Remounted ELSE copy IN
    /\ copy' = cs
    /\ Display(Route(p, cs))
    /\ calls' = Heirs(Route(p, cs))
    /\ Effect(p, cs)
    /\ UNCHANGED <<tour, sent, cookie, alive, opened, faults, excused,
                   serverVars, admin>>

(* Asking again for a set-up status that is in error closes the gate.      *)
AskQuery(q) ==
  /\ Ask(q)
  /\ view' = IF GateOpen' THEN view ELSE Fresh(page)
  /\ calls' = IF GateOpen' THEN calls ELSE Orphaned
  /\ UNCHANGED <<serverVars, admin>>

ReadQuery(q) == /\ ReadAs(q, Truth(q, copy[q].bearer))
                /\ UNCHANGED <<serverVars, admin>>

LandQuery(q) ==
  LET cs == [copy EXCEPT ![q] = Landed(@)] IN
  /\ copy[q].stage = "read"
  /\ copy' = cs
  /\ excused' = ExcusedBy(q)
  /\ Display(Route(page, cs))
  /\ calls' = Heirs(Route(page, cs))
  /\ Effect(page, cs)
  /\ UNCHANGED <<tour, sent, cookie, alive, opened, faults, serverVars, admin>>

(* A fetch that fails: refused for its session, or lost by the network.    *)
MissQuery(q) ==
  LET cs == [copy EXCEPT ![q] = Missed(@)] IN
  /\ copy' = cs
  /\ excused' = excused \cup {q}
  /\ Display(Route(page, cs))
  /\ calls' = Heirs(Route(page, cs))
  /\ UNCHANGED <<tour, sent, sessionVars, serverVars, admin>>

RefuseQuery(q) ==
  /\ copy[q].stage = "sent" /\ q # "setup-status"
  /\ copy[q].bearer \notin alive
  /\ MissQuery(q)
  /\ UNCHANGED faults

LoseQuery(q) == /\ copy[q].stage \in {"sent", "read"}
                /\ MissQuery(q)
                /\ Disturb

(***************************************************************************)
(* The pages outside the gate                                              *)
(***************************************************************************)
FillForm ==
  /\ page \in Outside /\ ~view.filled
  /\ view' = [view EXCEPT !.filled = TRUE]
  /\ UNCHANGED <<tour, page, copy, calls, sent, sessionVars, faults, excused,
                 serverVars, admin>>

SubmitSetup ==
  /\ page = "setup" /\ view.filled /\ ~Pending(<<"setup", "session">>)
  /\ Send(<<"setup", "session">>, Blank)
  /\ UNCHANGED <<view, serverVars, admin>>

ServeSetup(i) ==
  /\ calls[i].stage = "sent" /\ calls[i].do = <<"setup", "session">>
  /\ ~admin /\ admin' = TRUE
  /\ Served(i, Blank)
  /\ UNCHANGED <<tour, page, view, copy, sent, sessionVars, faults, excused,
                 serverVars>>

SetupAnswered(i) ==
  /\ Answered(i, <<"setup", "session">>)
  /\ calls' = [Heirs("login") EXCEPT ![i] = NoCall]
  /\ copy' = [copy EXCEPT !["setup-status"] = Written(@, FALSE),
                          !["me"] = Unknown]
  /\ Display("login")
  /\ UNCHANGED <<tour, sent, sessionVars, faults, excused, serverVars, admin>>

SubmitLogin ==
  /\ page = "login" /\ view.filled /\ ~Pending(<<"login", "session">>)
  /\ Send(<<"login", "session">>, view.factor)
  /\ UNCHANGED <<view, serverVars, admin>>

BackToPassword ==
  /\ page = "login" /\ view.factor
  /\ view' = [view EXCEPT !.factor = FALSE]
  /\ UNCHANGED <<tour, page, copy, calls, sent, sessionVars, faults, excused,
                 serverVars, admin>>

(* The right password opens a session, unless a factor is on and no code   *)
(* came with it.                                                           *)
ServeLogin(i) ==
  /\ calls[i].stage = "sent" /\ calls[i].do = <<"login", "session">> /\ admin
  /\ IF account.on /\ ~calls[i].arg
     THEN Served(i, Blank) /\ UNCHANGED <<alive, opened>>
     ELSE /\ opened < MaxSession
          /\ opened' = opened + 1 /\ alive' = alive \cup {opened'}
          /\ Served(i, LoginAnswer(opened'))
  /\ UNCHANGED <<tour, page, view, copy, sent, csrf, cookie, faults, excused,
                 serverVars, admin>>

AskForCode(i) ==
  /\ Answered(i, <<"login", "session">>) /\ calls[i].answer = Blank
  /\ Done(i)
  /\ view' = IF calls[i].mine THEN [view EXCEPT !.factor = TRUE, !.filled = FALSE]
             ELSE view
  /\ UNCHANGED <<tour, page, copy, sent, sessionVars, faults, excused,
                 serverVars, admin>>

(* The short answer of the login becomes the copy of /auth/me.             *)
LoggedIn(i) ==
  LET me == calls[i].answer IN
  /\ Answered(i, <<"login", "session">>) /\ me # Blank
  /\ calls' = [Heirs("dashboard") EXCEPT ![i] = NoCall]
  /\ cookie' = me.token /\ csrf' = me.token
  /\ copy' = [copy EXCEPT !["setup-status"] = Written(@, FALSE),
                          !["me"] = Written(@, me)]
  /\ excused' = IF me = LoginAnswer(me.token) THEN excused \ {"me"}
                ELSE excused \cup {"me"}
  /\ Display("dashboard")
  /\ UNCHANGED <<tour, sent, alive, opened, faults, serverVars, admin>>

(***************************************************************************)
(* Leaving, and what other tabs and the network do                         *)
(***************************************************************************)
(* The shell's button, on every page inside; nothing waits for it.         *)
Logout ==
  /\ page \notin Outside /\ GateOpen /\ InTour("login")
  /\ Send(<<"logout", "session">>, Blank)
  /\ UNCHANGED <<view, serverVars, admin>>

ServeLogout(i) ==
  /\ Accepted(i, <<"logout", "session">>)
  /\ alive' = alive \ {calls[i].bearer}
  /\ Served(i, Blank)
  /\ UNCHANGED <<tour, page, view, copy, sent, csrf, cookie, opened, faults,
                 excused, serverVars, admin>>

(* The answer clears the cookie, whichever session it names by now; the    *)
(* copies stay.                                                            *)
LoggedOut(i) ==
  /\ Answered(i, <<"logout", "session">>)
  /\ calls' = [Heirs("login") EXCEPT ![i] = NoCall]
  /\ csrf' = 0 /\ cookie' = 0
  /\ Display("login")
  /\ UNCHANGED <<tour, copy, sent, alive, opened, faults, excused, serverVars,
                 admin>>

(* A fetch of me that is under way belongs to the session before.          *)
OtherSession ==
  [copy EXCEPT !["me"].over = @ \/ copy["me"].stage \in {"sent", "read"}]

Fault == InTour("login") /\ Disturb

OtherTabLogsIn ==
  /\ Fault /\ admin /\ opened < MaxSession
  /\ opened' = opened + 1 /\ alive' = alive \cup {opened'} /\ cookie' = opened'
  /\ copy' = OtherSession
  /\ excused' = excused \cup {"me"}
  /\ UNCHANGED <<tour, page, view, calls, sent, csrf, serverVars, admin>>

OtherTabSetsUp ==
  /\ Fault /\ ~admin /\ admin' = TRUE
  /\ copy' = Behind(copy, {"setup-status"})
  /\ excused' = excused \cup {"setup-status"}
  /\ UNCHANGED <<tour, page, view, calls, sent, sessionVars, serverVars>>

(* It expires, or another tab logs out.                                    *)
SessionEnds ==
  /\ Fault /\ cookie \in alive
  /\ alive' = alive \ {cookie}
  /\ UNCHANGED <<tour, page, view, copy, calls, sent, csrf, cookie, opened,
                 excused, serverVars, admin>>

LoseSessionAnswer(i) ==
  /\ \E do \in {"login", "logout", "setup"} : Lost(i, <<do, "session">>)
  /\ copy' = Behind(copy, {"setup-status"})
  /\ excused' = excused \cup {"setup-status"}
  /\ UNCHANGED <<view, serverVars, admin>>

(* The page starts over: only sessionStorage, the cookie and the clipboard *)
(* survive.  The answers of rotations under way are lost.                  *)
StartOver(p) ==
  /\ page' = p /\ view' = Fresh(p)
  /\ copy' = [q \in Query |-> Unknown]
  /\ calls' = [i \in Call |-> NoCall]
  /\ excused' = excused \ Query
  /\ muddled' = muddled \cup {calls[i].arg : i \in Rotations}
  /\ UNCHANGED <<tour, sent, csrf, table, clipboard, activityVars,
                 settingsVars, account, admin>>

Reload == /\ Fault
          /\ StartOver(page)
          /\ UNCHANGED <<cookie, alive, opened>>

(* The Pocket ID button leaves the console, and comes back to its root.    *)
PocketIDLogin ==
  /\ page = "login" /\ ~view.factor /\ admin /\ opened < MaxSession
  /\ opened' = opened + 1 /\ alive' = alive \cup {opened'} /\ cookie' = opened'
  /\ StartOver("dashboard")
  /\ UNCHANGED faults

SessionNext ==
  \/ Go
  \/ \E q \in Query : \/ AskQuery(q) \/ ReadQuery(q)
                      \/ LandQuery(q) \/ RefuseQuery(q) \/ LoseQuery(q)
  \/ FillForm \/ SubmitSetup \/ SubmitLogin \/ BackToPassword
  \/ Logout \/ PocketIDLogin \/ Reload
  \/ \E i \in Call :
       \/ ServeSetup(i) \/ SetupAnswered(i)
       \/ ServeLogin(i) \/ AskForCode(i) \/ LoggedIn(i)
       \/ ServeLogout(i) \/ LoggedOut(i) \/ LoseSessionAnswer(i)
       \/ Refuse(i) /\ UNCHANGED <<serverVars, admin>>
  \/ OtherTabLogsIn \/ OtherTabSetsUp \/ SessionEnds

(***************************************************************************)
(* The composition                                                         *)
(***************************************************************************)
(* A tour that comes to the login page starts with a page not yet loaded,  *)
(* in a session or on a server nobody has set up; the others start in a    *)
(* session the gate has seen.                                              *)
FirstSettings == [payload |-> 0, metadata |-> 1, pocket |-> FALSE,
                  configured |-> FALSE]

Init ==
  /\ tour \in Tours
  /\ page \in tour.pages \ Outside
  /\ view = Fresh(page)
  /\ calls = [i \in Call |-> NoCall] /\ sent = 0 /\ faults = 0
  /\ admin \in (IF InTour("setup") THEN BOOLEAN ELSE {TRUE})
  /\ opened = (IF admin THEN 1 ELSE 0)
  /\ cookie = opened /\ alive = 1..opened
  /\ csrf \in (IF InTour("login") THEN {0, cookie} ELSE {cookie})
  /\ account = [name |-> 0, on |-> tour.factor,
                secret |-> IF tour.factor THEN FirstSecret ELSE 0,
                codes |-> IF tour.factor THEN FirstSecret ELSE 0]
  /\ copy = [q \in Query |->
               IF InTour("login") THEN Unknown
               ELSE CASE q = "setup-status" -> Known(FALSE)
                      [] q = "me" -> Known(MeOf(cookie))
                      [] q \in Lists -> Known(FirstTable[q])
                      [] OTHER -> Unknown]
  /\ excused = {}
  /\ table = FirstTable /\ clipboard = Blank /\ muddled = {}
  /\ jobs = [j \in Job |-> "none"]
  /\ settings = FirstSettings

Next ==
  \/ SessionNext
  \/ ResourceNext /\ UNCHANGED <<accountVars, activityVars, settingsVars, admin>>
  \/ AccountNext  /\ UNCHANGED <<resourceVars, activityVars, settingsVars, admin>>
  \/ ActivityNext /\ UNCHANGED <<resourceVars, accountVars, settingsVars, admin>>
  \/ SettingsNext /\ UNCHANGED <<resourceVars, accountVars, activityVars, admin>>

(* A mounted query with an interval is asked for again and again, and the  *)
(* server answers.                                                         *)
Fairness == \A q \in Polled : /\ WF_vars(AskQuery(q))
                              /\ WF_vars(ReadQuery(q))
                              /\ WF_vars(RefuseQuery(q))
                              /\ WF_vars(LandQuery(q))

Spec == Init /\ [][Next]_vars /\ Fairness

TypeOK ==
  /\ TabTypeOK /\ JobsTypeOK
  /\ admin \in BOOLEAN
  /\ DOMAIN table = Lists
  /\ DOMAIN account = {"name", "secret", "on", "codes"}
  /\ account.on \in BOOLEAN
  /\ settings.configured \in BOOLEAN /\ settings.pocket \in BOOLEAN

(***************************************************************************)
(* What the console promises                                               *)
(***************************************************************************)
(* On every page inside the gate the token the tab sends is the one of the *)
(* session its copy of /auth/me describes, through logins, logouts, other  *)
(* tabs, reloads and answers that arrive late (auth.tsx:40, api.ts:4).     *)
TokenIsPageSession ==
  (page \notin Outside /\ copy["me"].known) => csrf = copy["me"].value.token

(* A copy on display is what the server holds, once no call is under way   *)
(* and no fetch of it either: each handler of a write refreshes or writes  *)
(* what it changed.  Excused are what another tab or a cascade changed, a  *)
(* refetch or an answer that got lost, an answer that a write overtook, and *)
(* whether Pocket ID is bound, which the answer of a login does not say    *)
(* (auth.tsx:178, account.tsx:124, the invalidateQueries of every page).   *)
CopiesFollowWrites ==
  Quiet =>
    \A q \in Query \ Polled :
      (/\ q \in Mounted /\ q \notin excused
       /\ copy[q].known /\ copy[q].stage = "idle")
      => IF q = "me"
         THEN cookie \in alive =>
                [Me EXCEPT !.linked = TRUE] = MeOf(cookie)
         ELSE copy[q].value = Truth(q, cookie)

(* A page that polls and stays open ends up showing what the workers have  *)
(* come to, as long as its session lives, whatever was lost or dropped on  *)
(* the way (activity.tsx:17, dashboard.tsx:62).                            *)
PollsCatchUp ==
  \A p \in {"activity", "dashboard"} :
    <>[](page = p /\ GateOpen /\ cookie \in alive) =>
      <>[](\A q \in PageQueries(p) :
             copy[q].known /\ copy[q].value = Truth(q, cookie))
===============================================================================
