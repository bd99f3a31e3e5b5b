---------------------------- MODULE ConsoleProofs -----------------------------
(***************************************************************************)
(* Theorems about Console, for any tours and any bounds on calls, sessions *)
(* and events: the shape of the tab's state, the token it sends, the form  *)
(* of the settings page, the copies on display, and then what single pages *)
(* promise.                                                                *)
(***************************************************************************)
EXTENDS Console, TLAPS

\* The page whose call it is, or the session.
PageOf(c) == c.do[2]

\* The calls sent are the first ones; the others are idle, and an idle call is
\* no call.
CallsOK ==
    /\ sent \in 0..MaxCalls
    /\ DOMAIN calls = Call
    /\ \A i \in Call :
           /\ CallType(calls[i])
           /\ i > sent => calls[i].stage = "idle"
           /\ calls[i].stage = "idle" => calls[i].do = <<"none", "none">>

\* The new call is the one after the last; the others stay.
LEMMA CallSent ==
    ASSUME CallsOK, tour \in Tours, csrf \in Token, cookie \in Token,
           NEW do, NEW arg, Dispatch(do, arg)
    PROVE  /\ sent + 1 \in Call /\ calls[sent + 1].stage = "idle"
           /\ calls'[sent + 1] = Request(do, arg)
           /\ \A j \in Call \ {sent + 1} : calls'[j] = calls[j]
           /\ sent' = sent + 1
           /\ CallsOK'
<1>1. sent + 1 \in Call /\ sent' = sent + 1 /\ sent' \in 0..MaxCalls
  BY TabAssumption DEF CallsOK, Dispatch, Call
<1>2. calls[sent + 1].stage = "idle"
  BY <1>1 DEF CallsOK, Call
<1>3. /\ DOMAIN calls' = Call /\ calls'[sent + 1] = Request(do, arg)
      /\ \A j \in Call \ {sent + 1} : calls'[j] = calls[j]
  BY <1>1 DEF CallsOK, Dispatch
<1>4. CallType(Request(do, arg)) /\ Request(do, arg).stage # "idle"
  BY DEF CallType, Request
<1>5. CallsOK'
  BY <1>1, <1>3, <1>4 DEF CallsOK, Call
<1>. QED
  BY <1>1, <1>2, <1>3, <1>5

\* Serving a call changes its stage and its answer only.
LEMMA CallServed ==
    ASSUME CallsOK, NEW i \in Call, calls[i].stage = "sent", NEW v,
           Served(i, v), sent' = sent
    PROVE  /\ \A j \in Call \ {i} : calls'[j] = calls[j]
           /\ calls'[i].do = calls[i].do /\ calls'[i].arg = calls[i].arg
           /\ calls'[i].mine = calls[i].mine /\ calls'[i].stage = "served"
           /\ calls'[i].answer = v /\ calls'[i].bearer = calls[i].bearer
           /\ CallsOK'
<1>1. /\ DOMAIN calls' = Call /\ CallType(calls[i])
      /\ \A j \in Call \ {i} : calls'[j] = calls[j]
      /\ calls'[i] = [calls[i] EXCEPT !.stage = "served", !.answer = v]
  BY DEF CallsOK, Served
<1>2. /\ calls'[i].do = calls[i].do /\ calls'[i].arg = calls[i].arg
      /\ calls'[i].mine = calls[i].mine /\ calls'[i].stage = "served"
      /\ calls'[i].answer = v /\ calls'[i].bearer = calls[i].bearer
      /\ calls'[i].token = calls[i].token
      /\ DOMAIN calls'[i] = DOMAIN calls[i]
  BY <1>1 DEF CallType
<1>3. CallType(calls'[i])
  BY <1>1, <1>2 DEF CallType
<1>4. ~(i > sent) /\ calls'[i].stage # "idle"
  BY <1>2 DEF CallsOK
<1>5. CallsOK'
  BY <1>1, <1>3, <1>4 DEF CallsOK
<1>. QED
  BY <1>1, <1>2, <1>5

\* A call that is done leaves its place idle.
LEMMA CallDone ==
    ASSUME CallsOK, NEW i \in Call, Done(i), sent' = sent
    PROVE  /\ \A j \in Call \ {i} : calls'[j] = calls[j]
           /\ calls'[i] = NoCall
           /\ CallsOK'
<1>1. /\ DOMAIN calls' = Call /\ calls'[i] = NoCall
      /\ \A j \in Call \ {i} : calls'[j] = calls[j]
  BY DEF CallsOK, Done
<1>2. CallType(NoCall) /\ NoCall.stage = "idle"
         /\ NoCall.do = <<"none", "none">> /\ ~NoCall.mine
  BY TabAssumption DEF CallType, NoCall, Token
<1>3. CallsOK'
  BY <1>1, <1>2 DEF CallsOK, Call
<1>. QED
  BY <1>1, <1>3

\* Orphaning a call only takes its page away.
LEMMA CallsOrphaned ==
    ASSUME CallsOK, NEW i \in Call
    PROVE  /\ ~Orphaned[i].mine /\ Orphaned[i].do = calls[i].do
           /\ Orphaned[i].arg = calls[i].arg /\ Orphaned[i].stage = calls[i].stage
           /\ Orphaned[i].answer = calls[i].answer
           /\ Orphaned[i].bearer = calls[i].bearer
           /\ CallType(Orphaned[i])
<1>1. Orphaned[i] = [calls[i] EXCEPT !.mine = FALSE] /\ CallType(calls[i])
  BY DEF CallsOK, Orphaned
<1>. QED
  BY <1>1 DEF CallType

\* Every query has a copy of the right type.
CopiesOK == DOMAIN copy = Query /\ \A q \in Query : CopyType(copy[q])

\* What Unknown says of a copy.
LEMMA UnknownCopy ==
    /\ CopyType(Unknown) /\ ~Unknown.known /\ Unknown.stage = "idle"
    /\ ~Unknown.over
BY TabAssumption DEF Unknown, CopyType, Token

\* What Known says of a copy.
LEMMA KnownCopy ==
    ASSUME NEW v
    PROVE  /\ CopyType(Known(v)) /\ Known(v).known /\ Known(v).value = v
           /\ Known(v).stage = "idle" /\ ~Known(v).over
BY TabAssumption DEF Unknown, Known, CopyType, Token

\* setQueryData writes the value, and remembers a fetch it overtakes.
LEMMA WrittenCopy ==
    ASSUME NEW c, CopyType(c), NEW v
    PROVE  /\ CopyType(Written(c, v))
           /\ Written(c, v).known /\ Written(c, v).value = v
           /\ Written(c, v).stage = IF c.stage = "stale" THEN "idle" ELSE c.stage
           /\ Written(c, v).got = c.got /\ Written(c, v).bearer = c.bearer
           /\ Written(c, v).over <=> c.stage \in {"sent", "read"}
<1>1. CopyType(Written(c, v))
  BY DEF Written, CopyType
<1>2. /\ Written(c, v).known /\ Written(c, v).value = v
      /\ Written(c, v).stage = IF c.stage = "stale" THEN "idle" ELSE c.stage
  BY DEF Written, CopyType
<1>3. /\ Written(c, v).got = c.got /\ Written(c, v).bearer = c.bearer
      /\ Written(c, v).over <=> c.stage \in {"sent", "read"}
  BY DEF Written, CopyType
<1>. QED
  BY <1>1, <1>2, <1>3

\* A copy that is written with FALSE keeps its type.
LEMMA WrittenFalse ==
    ASSUME NEW c, CopyType(c) PROVE CopyType(Written(c, FALSE))
BY DEF Written, CopyType

\* A fetch that lands puts what it got on display.
LEMMA LandedCopy ==
    ASSUME NEW c, CopyType(c)
    PROVE  /\ CopyType(Landed(c)) /\ Landed(c).known /\ Landed(c).value = c.got
           /\ Landed(c).stage = "idle" /\ ~Landed(c).over
BY TabAssumption DEF Landed, Known, Unknown, CopyType, Token

\* A fetch that is missed leaves the value on display.
LEMMA MissedCopy ==
    ASSUME NEW c, CopyType(c)
    PROVE  /\ CopyType(Missed(c))
           /\ Missed(c).known = c.known /\ Missed(c).value = c.value
           /\ Missed(c).stage = "idle" /\ ~Missed(c).over
BY TabAssumption DEF Missed, CopyType, Token

\* Behind marks the fetches of the queries that are read, and no more.
LEMMA BehindCopies ==
    ASSUME CopiesOK, NEW qs
    PROVE  /\ DOMAIN Behind(copy, qs) = Query
           /\ \A q \in Query :
                LET b == Behind(copy, qs)[q] IN
                /\ CopyType(b)
                /\ b.known = copy[q].known /\ b.value = copy[q].value
                /\ b.stage = copy[q].stage /\ b.got = copy[q].got
                /\ b.bearer = copy[q].bearer
                /\ b.over <=> copy[q].over \/ (q \in qs /\ copy[q].stage = "read")
                /\ q \notin qs => b = copy[q]
<1>1. DOMAIN Behind(copy, qs) = Query
  BY DEF Behind
<1>2. ASSUME NEW q \in Query
      PROVE  LET b == Behind(copy, qs)[q] IN
                /\ CopyType(b)
                /\ b.known = copy[q].known /\ b.value = copy[q].value
                /\ b.stage = copy[q].stage /\ b.got = copy[q].got
                /\ b.bearer = copy[q].bearer
                /\ b.over <=> copy[q].over \/ (q \in qs /\ copy[q].stage = "read")
                /\ q \notin qs => b = copy[q]
  <2>1. CASE q \in qs /\ copy[q].stage = "read"
    <3>1. Behind(copy, qs)[q] = [copy[q] EXCEPT !.over = TRUE]
      BY <2>1 DEF Behind
    <3>. QED
      BY <2>1, <3>1 DEF CopiesOK, CopyType
  <2>2. CASE ~(q \in qs /\ copy[q].stage = "read")
    <3>1. Behind(copy, qs)[q] = copy[q]
      BY <2>2 DEF Behind
    <3>. QED
      BY <2>2, <3>1 DEF CopiesOK, CopyType
  <2>. QED
    BY <2>1, <2>2
<1>. QED
  BY <1>1, <1>2

\* invalidateQueries leaves values alone; a fetch of the queries starts over, or
\* goes on and is marked.
LEMMA InvalidatedCopies ==
    ASSUME CopiesOK, NEW qs
    PROVE  /\ DOMAIN Invalidated(copy, qs) = Query
           /\ \A q \in Query :
                LET b == Invalidated(copy, qs)[q] IN
                /\ CopyType(b)
                /\ b.known = copy[q].known /\ b.value = copy[q].value
                /\ \/ b.stage = "stale" /\ ~b.over
                   \/ /\ b.stage = copy[q].stage /\ b.stage \in {"sent", "read"}
                      /\ b.got = copy[q].got
                      /\ b.bearer = copy[q].bearer /\ b.over
                   \/ q \notin qs
                /\ q \notin qs => b = copy[q]
<1>1. DOMAIN Invalidated(copy, qs) = Query
  BY DEF Invalidated
<1>2. ASSUME NEW q \in Query
      PROVE  LET b == Invalidated(copy, qs)[q] IN
                /\ CopyType(b)
                /\ b.known = copy[q].known /\ b.value = copy[q].value
                /\ \/ b.stage = "stale" /\ ~b.over
                   \/ /\ b.stage = copy[q].stage /\ b.stage \in {"sent", "read"}
                      /\ b.got = copy[q].got
                      /\ b.bearer = copy[q].bearer /\ b.over
                   \/ q \notin qs
                /\ q \notin qs => b = copy[q]
  <2>1. CASE q \in qs /\ (q \in Mounted \/ copy[q].stage \notin {"sent", "read"})
    <3>1. Invalidated(copy, qs)[q] =
            [copy[q] EXCEPT !.stage = "stale", !.got = Blank, !.bearer = 0,
                            !.over = FALSE]
      BY <2>1 DEF Invalidated
    <3>. QED
      BY <2>1, <3>1, TabAssumption DEF CopiesOK, CopyType, Token
  <2>2. CASE q \in qs /\ ~(q \in Mounted \/ copy[q].stage \notin {"sent", "read"})
    <3>1. Invalidated(copy, qs)[q] = [copy[q] EXCEPT !.over = TRUE]
      BY <2>2 DEF Invalidated
    <3>. QED
      BY <2>2, <3>1 DEF CopiesOK, CopyType
  <2>3. CASE q \notin qs
    <3>1. Invalidated(copy, qs)[q] = copy[q]
      BY <2>3 DEF Invalidated
    <3>. QED
      BY <2>3, <3>1 DEF CopiesOK
  <2>. QED
    BY <2>1, <2>2, <2>3
<1>. QED
  BY <1>1, <1>2

\* A call is of the page on display only while this is the page that sent it;
\* one of the session may be of any page, and a login of the login page.
MineHere ==
    \A i \in Call :
        calls[i].mine =>
            \/ PageOf(calls[i]) \notin {"none", "session"} /\ page = PageOf(calls[i])
            \/ PageOf(calls[i]) = "session" /\ (calls[i].do[1] = "login" => page = "login")

\* Only calls of the page m, and places that are idle, change.
OnlyCallsOf(m) ==
    \A i \in Call : \/ calls'[i] = calls[i]
                    \/ PageOf(calls[i]) \in {"none", m} /\ PageOf(calls'[i]) \in {"none", m}

\* The calls after a step of the page m.
CallStep(m) == CallsOK' /\ MineHere' /\ OnlyCallsOf(m) /\ sent <= sent'

\* How many calls were sent is a number.
LEMMA SentIsNumber == CallsOK => sent \in Nat
BY TabAssumption DEF CallsOK

\* Sending a call is a step of the page that sends it.
LEMMA StepSends ==
    ASSUME TabTypeOK, CallsOK, MineHere, NEW act, NEW m, NEW arg,
           m \notin {"none", "session"}, page = m,
           Dispatch(<<act, m>>, arg)
    PROVE  CallStep(m)
<1>1. /\ sent + 1 \in Call /\ calls[sent + 1].stage = "idle"
      /\ calls'[sent + 1] = Request(<<act, m>>, arg)
      /\ \A j \in Call \ {sent + 1} : calls'[j] = calls[j]
      /\ CallsOK' /\ page' = page /\ sent' = sent + 1
  BY CallSent DEF Dispatch, TabTypeOK
<1>3. sent <= sent'
  BY <1>1, SentIsNumber
<1>2. PageOf(calls[sent + 1]) = "none" /\ PageOf(calls'[sent + 1]) = m
  <2>1. calls[sent + 1].do = <<"none", "none">>
    BY <1>1 DEF CallsOK
  <2>2. calls'[sent + 1].do = <<act, m>>
    BY <1>1 DEF Request
  <2>. QED
    BY <2>1, <2>2, <1>1 DEF PageOf
<1>. QED
  BY <1>1, <1>2, <1>3 DEF CallStep, OnlyCallsOf, MineHere, PageOf

\* Serving a call is a step of its page.
LEMMA StepServes ==
    ASSUME CallsOK, MineHere, NEW i \in Call, calls[i].stage = "sent", NEW v,
           Served(i, v), sent' = sent, page' = page
    PROVE  CallStep(PageOf(calls[i]))
<1>1. sent <= sent'
  BY SentIsNumber
<1>. QED
  BY <1>1, CallServed DEF CallStep, OnlyCallsOf, MineHere, PageOf

\* Ending a call is a step of its page.
LEMMA StepEnds ==
    ASSUME CallsOK, MineHere, NEW i \in Call, Done(i), sent' = sent, page' = page
    PROVE  CallStep(PageOf(calls[i]))
<1>1. NoCall.do[2] = "none" /\ ~NoCall.mine
  BY DEF NoCall
<1>. QED
  BY <1>1, CallDone, SentIsNumber DEF CallStep, OnlyCallsOf, MineHere, PageOf

\* Leaving the calls alone is a step of any page.
LEMMA StepStays ==
    ASSUME CallsOK, MineHere, UNCHANGED <<calls, sent, page>>, NEW m
    PROVE  CallStep(m)
BY SentIsNumber DEF CallStep, OnlyCallsOf, MineHere, CallsOK, PageOf

(***************************************************************************)
(* Shapes                                                                  *)
(***************************************************************************)
\* The records the shape of the state speaks of.
AccountFields == [name: Nat, secret: Nat, on: BOOLEAN, codes: Nat]
MeFields == [token: Token, name: Nat, factor: BOOLEAN, linked: BOOLEAN]
SettingsFields ==
    [payload: Nat, metadata: Nat, pocket: BOOLEAN, configured: BOOLEAN]

\* The copy of me, its fetch and the answers of logins are records of me.
MeShape ==
    /\ copy["me"].known => copy["me"].value \in MeFields
    /\ copy["me"].stage = "read" => copy["me"].got \in MeFields
    /\ \A i \in Call :
           calls[i].stage = "served" /\ calls[i].do = <<"login", "session">>
               => calls[i].answer \in {Blank} \cup MeFields

\* A user name, a secret and a set of codes are the number of their call.
Numbered == {"username", "begin", "enable"}

\* The account, the form of its page and the answers of its calls.
AccountShape ==
    /\ account \in AccountFields
    /\ page = "account" => DOMAIN view = {"card", "filled", "setup", "codes"}
    /\ \A i \in Call, act \in Numbered :
           calls[i].stage = "served" /\ calls[i].do = <<act, "account">>
               => calls[i].answer = i

\* The settings, their copy, the form of their page and its calls.
SettingsShape ==
    /\ settings \in SettingsFields
    /\ copy["settings"].known => copy["settings"].value \in SettingsFields
    /\ copy["settings"].stage = "read" => copy["settings"].got \in SettingsFields
    /\ page = "settings" =>
           /\ DOMAIN view = {"value", "secret", "touched", "behind"}
           /\ view.secret \in BOOLEAN
           /\ view.value # Blank => view.value \in SettingsFields
    /\ \A i \in Call :
           calls[i].do = <<"save", "settings">> =>
               /\ calls[i].arg.value \in SettingsFields
               /\ calls[i].arg.secret \in BOOLEAN
               /\ calls[i].stage = "served" => calls[i].answer \in SettingsFields

\* The shape of the state: the type invariant, and what TypeOK leaves open of
\* the calls, of the copies and of the forms. It is inductive, and every other
\* invariant rests on it.
Shape == /\ TypeOK /\ CallsOK /\ MineHere
         /\ MeShape /\ AccountShape /\ SettingsShape

\* What a step of the page m may change of the tab: the view while it is on
\* display, the copies of qs, and its own calls.
PageEffect(m, qs) ==
    /\ UNCHANGED <<tour, page, csrf, cookie, opened>>
    /\ alive' \subseteq alive
    /\ faults' \in 0..tour.faults
    /\ CallStep(m)
    /\ page # m => view' = view
    /\ CopiesOK'
    /\ \A q \in Query \ qs : copy'[q] = copy[q] /\ (q \in excused' <=> q \in excused)
    /\ excused' \subseteq Query \cup {"codes"}
    /\ m # "account" => ("codes" \in excused' <=> "codes" \in excused)

\* Disturbances stay within the bound of the tour.
LEMMA DisturbBound ==
    ASSUME TabTypeOK, Disturb PROVE faults' \in 0..tour.faults
BY TabAssumption DEF TabTypeOK, Disturb

\* The pages and the queries are named apart.
LEMMA PageNames ==
    /\ "account" \notin {"none", "session"} /\ "settings" \notin {"none", "session"}
    /\ "me" \in Query /\ "settings" \in Query /\ "deliveries" \in Query
    /\ Lists \subseteq Query /\ "codes" \notin Query
    /\ "none" \notin Lists /\ "session" \notin Lists
    /\ "account" \notin Lists /\ "settings" \notin Lists /\ "activity" \notin Lists
    /\ "me" \notin Lists /\ "setup-status" \notin Lists
BY DEF Query, Lists

\* A step of the account page changes, of the copies, that of me.
LEMMA AccountEffect ==
    ASSUME Shape, AccountNext PROVE PageEffect("account", {"me"})
<1>0. /\ TabTypeOK /\ CopiesOK /\ CallsOK /\ MineHere
      /\ alive \subseteq alive /\ "me" \in Query /\ "codes" \notin Query
      /\ "account" \notin {"none", "session"}
  BY PageNames DEF Shape, TypeOK, TabTypeOK, CopiesOK
<1>1. ASSUME NEW form, EditAccount(form) PROVE PageEffect("account", {"me"})
  <2>1. CallStep("account")
    BY <1>0, <1>1, StepStays DEF EditAccount
  <2>. QED
    BY <1>0, <1>1, <2>1
       DEF PageEffect, EditAccount, OnAccount, sessionVars, TabTypeOK, CopiesOK
<1>2. ASSUME NEW card, NEW do, NEW arg, Submit(card, do, arg)
      PROVE  PageEffect("account", {"me"})
  <2>1. CallStep("account")
    BY <1>0, <1>2, StepSends DEF Submit, Send, OnAccount
  <2>. QED
    BY <1>0, <1>2, <2>1
       DEF PageEffect, Submit, Send, Dispatch, sessionVars, TabTypeOK, CopiesOK
<1>3. ASSUME DisableFactor PROVE PageEffect("account", {"me"})
  <2>1. CallStep("account")
    BY <1>0, <1>3, StepSends DEF DisableFactor, OnAccount
  <2>. QED
    BY <1>0, <1>3, <2>1
       DEF PageEffect, DisableFactor, Dispatch, sessionVars, TabTypeOK, CopiesOK
<1>4. ASSUME NEW i \in Call, NEW do, NEW value, NEW answer, alive' \subseteq alive,
             ServeAccount(i, do, value, answer)
      PROVE  PageEffect("account", {"me"})
  <2>1. PageOf(calls[i]) = "account"
    BY <1>4 DEF ServeAccount, Accepted, PageOf
  <2>2. CallStep("account")
    BY <1>0, <1>4, <2>1, StepServes DEF ServeAccount, Accepted
  <2>. QED
    BY <1>0, <1>4, <2>2
       DEF PageEffect, ServeAccount, TabTypeOK, CopiesOK
<1>5. ASSUME NEW i \in Call, NEW do, NEW form, AnswerAccount(i, do, form),
             \/ UNCHANGED <<copy, excused>>
             \/ \E field, value, now : WriteMe(field, value, now)
      PROVE  PageEffect("account", {"me"})
  <2>1. PageOf(calls[i]) = "account"
    BY <1>5 DEF AnswerAccount, Answered, PageOf
  <2>2. CallStep("account")
    BY <1>0, <1>5, <2>1, StepEnds DEF AnswerAccount
  <2>3. page # "account" => view' = view
    BY <1>0, <1>5, <2>1 DEF AnswerAccount, MineHere
  <2>4. ASSUME NEW field, NEW value, NEW now, WriteMe(field, value, now)
        PROVE  /\ CopiesOK' /\ \A q \in Query \ {"me"} : copy'[q] = copy[q]
               /\ excused' \in {excused, excused \cup {"me"}}
    <3>1. CASE copy["me"].known
      BY <1>0, <2>4, <3>1, WrittenCopy DEF WriteMe, CopiesOK
    <3>2. CASE ~copy["me"].known
      BY <1>0, <2>4, <3>2, BehindCopies DEF WriteMe, CopiesOK
    <3>. QED
      BY <3>1, <3>2
  <2>5. /\ CopiesOK' /\ \A q \in Query \ {"me"} : copy'[q] = copy[q]
        /\ excused' \in {excused, excused \cup {"me"}}
    BY <1>0, <1>5, <2>4 DEF CopiesOK
  <2>. QED
    BY <1>0, <1>5, <2>2, <2>3, <2>5
       DEF PageEffect, AnswerAccount, sessionVars, TabTypeOK
<1>6. ASSUME NEW i \in Call, LoseAccountAnswer(i)
      PROVE  PageEffect("account", {"me"})
  <2>1. PageOf(calls[i]) = "account"
    BY <1>6 DEF LoseAccountAnswer, Lost, Answered, PageOf
  <2>2. CallStep("account")
    BY <1>0, <1>6, <2>1, StepEnds DEF LoseAccountAnswer, Lost
  <2>3. faults' \in 0..tour.faults
    BY <1>0, <1>6, DisturbBound DEF LoseAccountAnswer, Lost
  <2>4. CopiesOK' /\ \A q \in Query \ {"me"} : copy'[q] = copy[q]
    BY <1>0, <1>6, BehindCopies DEF LoseAccountAnswer, CopiesOK
  <2>. QED
    BY <1>0, <1>6, <2>2, <2>3, <2>4
       DEF PageEffect, LoseAccountAnswer, Lost, sessionVars, TabTypeOK
<1>7. ASSUME OtherTabDisables PROVE PageEffect("account", {"me"})
  <2>1. CallStep("account")
    BY <1>0, <1>7, StepStays DEF OtherTabDisables
  <2>2. faults' \in 0..tour.faults
    BY <1>0, <1>7, DisturbBound DEF OtherTabDisables
  <2>3. CopiesOK' /\ \A q \in Query \ {"me"} : copy'[q] = copy[q]
    BY <1>0, <1>7, BehindCopies DEF OtherTabDisables, CopiesOK
  <2>. QED
    BY <1>0, <1>7, <2>1, <2>2, <2>3
       DEF PageEffect, OtherTabDisables, sessionVars, TabTypeOK
<1>8. ASSUME NEW i \in Call, ServePassword(i) PROVE alive' \subseteq alive
  BY <1>8 DEF ServePassword, ServeAccount, Accepted
<1>. QED
  BY <1>0, <1>1, <1>2, <1>3, <1>4, <1>5, <1>6, <1>7, <1>8
     DEF AccountNext, OpenCard, FillCard, CloseCard, ChangeUsername,
         ChangePassword, BeginFactor, EnableFactor, ServeUsername, UsernameSaved,
         ServePassword, PasswordSaved, ServeBegin, FactorBegun, ServeEnable,
         FactorEnabled, ServeDisable, FactorDisabled

\* A step of the settings page changes, of the copies, that of the settings.
LEMMA SettingsEffect ==
    ASSUME Shape, SettingsNext PROVE PageEffect("settings", {"settings"})
<1>0. /\ TabTypeOK /\ CopiesOK /\ CallsOK /\ MineHere
      /\ alive \subseteq alive /\ "settings" \in Query
      /\ "settings" \notin {"none", "session"}
  BY PageNames DEF Shape, TypeOK, TabTypeOK, CopiesOK
<1>1. ASSUME NEW form, Show(form) PROVE PageEffect("settings", {"settings"})
  <2>1. CallStep("settings")
    BY <1>0, <1>1, StepStays DEF Show
  <2>. QED
    BY <1>0, <1>1, <2>1 DEF PageEffect, Show, sessionVars, TabTypeOK, CopiesOK
<1>2. ASSUME SaveSettings PROVE PageEffect("settings", {"settings"})
  <2>1. CallStep("settings")
    BY <1>0, <1>2, StepSends DEF SaveSettings, Send
  <2>. QED
    BY <1>0, <1>2, <2>1
       DEF PageEffect, SaveSettings, Send, Dispatch, sessionVars, TabTypeOK,
          CopiesOK
<1>3. ASSUME NEW i \in Call, ServeSettings(i)
      PROVE  PageEffect("settings", {"settings"})
  <2>1. PageOf(calls[i]) = "settings"
    BY <1>3 DEF ServeSettings, Accepted, PageOf
  <2>2. CallStep("settings")
    BY <1>0, <1>3, <2>1, StepServes DEF ServeSettings, Accepted
  <2>. QED
    BY <1>0, <1>3, <2>2
       DEF PageEffect, ServeSettings, sessionVars, TabTypeOK, CopiesOK
<1>4. ASSUME NEW i \in Call, SettingsSaved(i)
      PROVE  PageEffect("settings", {"settings"})
  <2>1. PageOf(calls[i]) = "settings"
    BY <1>4 DEF SettingsSaved, Answered, PageOf
  <2>2. CallStep("settings")
    BY <1>0, <1>4, <2>1, StepEnds DEF SettingsSaved
  <2>3. page # "settings" => view' = view
    BY <1>0, <1>4, <2>1 DEF SettingsSaved, MineHere
  <2>4. CopiesOK' /\ \A q \in Query \ {"settings"} : copy'[q] = copy[q]
    BY <1>0, <1>4, WrittenCopy DEF SettingsSaved, CopiesOK
  <2>. QED
    BY <1>0, <1>4, <2>2, <2>3, <2>4
       DEF PageEffect, SettingsSaved, sessionVars, TabTypeOK
<1>5. ASSUME NEW i \in Call, LoseSettingsAnswer(i)
      PROVE  PageEffect("settings", {"settings"})
  <2>1. PageOf(calls[i]) = "settings"
    BY <1>5 DEF LoseSettingsAnswer, Lost, Answered, PageOf
  <2>2. CallStep("settings")
    BY <1>0, <1>5, <2>1, StepEnds DEF LoseSettingsAnswer, Lost
  <2>3. faults' \in 0..tour.faults
    BY <1>0, <1>5, DisturbBound DEF LoseSettingsAnswer, Lost
  <2>4. CopiesOK' /\ \A q \in Query \ {"settings"} : copy'[q] = copy[q]
    BY <1>0, <1>5, BehindCopies DEF LoseSettingsAnswer, CopiesOK
  <2>. QED
    BY <1>0, <1>5, <2>2, <2>3, <2>4
       DEF PageEffect, LoseSettingsAnswer, Lost, sessionVars, TabTypeOK, FormBehind
<1>6. ASSUME OtherTabSaves PROVE PageEffect("settings", {"settings"})
  <2>1. CallStep("settings")
    BY <1>0, <1>6, StepStays DEF OtherTabSaves
  <2>2. faults' \in 0..tour.faults
    BY <1>0, <1>6, DisturbBound DEF OtherTabSaves
  <2>3. CopiesOK' /\ \A q \in Query \ {"settings"} : copy'[q] = copy[q]
    BY <1>0, <1>6, BehindCopies DEF OtherTabSaves, CopiesOK
  <2>. QED
    BY <1>0, <1>6, <2>1, <2>2, <2>3
       DEF PageEffect, OtherTabSaves, sessionVars, TabTypeOK, FormBehind
<1>. QED
  BY <1>1, <1>2, <1>3, <1>4, <1>5, <1>6
     DEF SettingsNext, MountForm, EditSettings, EditField, TypeSecret

\* A step of the activity page changes, of the copies, that of the deliveries.
LEMMA ActivityEffect ==
    ASSUME Shape, ActivityNext PROVE PageEffect("activity", {"deliveries"})
<1>0. /\ TabTypeOK /\ CopiesOK /\ CallsOK /\ MineHere
      /\ alive \subseteq alive /\ "deliveries" \in Query
      /\ "activity" \notin {"none", "session"}
  BY PageNames DEF Shape, TypeOK, TabTypeOK, CopiesOK
<1>1. ASSUME ChooseTab PROVE PageEffect("activity", {"deliveries"})
  <2>1. CallStep("activity")
    BY <1>0, <1>1, StepStays DEF ChooseTab
  <2>. QED
    BY <1>0, <1>1, <2>1 DEF PageEffect, ChooseTab, sessionVars, TabTypeOK, CopiesOK
<1>2. ASSUME Retry PROVE PageEffect("activity", {"deliveries"})
  <2>1. CallStep("activity")
    BY <1>0, <1>2, StepSends DEF Retry, Send
  <2>. QED
    BY <1>0, <1>2, <2>1
       DEF PageEffect, Retry, Send, Dispatch, sessionVars, TabTypeOK, CopiesOK
<1>3. ASSUME NEW i \in Call, ServeRetry(i)
      PROVE  PageEffect("activity", {"deliveries"})
  <2>1. PageOf(calls[i]) = "activity"
    BY <1>3 DEF ServeRetry, Accepted, PageOf
  <2>2. CallStep("activity")
    BY <1>0, <1>3, <2>1, StepServes DEF ServeRetry, Accepted
  <2>. QED
    BY <1>0, <1>3, <2>2
       DEF PageEffect, ServeRetry, sessionVars, TabTypeOK, CopiesOK
<1>4. ASSUME NEW i \in Call, RetryAnswered(i)
      PROVE  PageEffect("activity", {"deliveries"})
  <2>1. PageOf(calls[i]) = "activity"
    BY <1>4 DEF RetryAnswered, Answered, PageOf
  <2>2. CallStep("activity")
    BY <1>0, <1>4, <2>1, StepEnds DEF RetryAnswered
  <2>3. CopiesOK' /\ \A q \in Query \ {"deliveries"} : copy'[q] = copy[q]
    BY <1>0, <1>4, InvalidatedCopies DEF RetryAnswered, CopiesOK
  <2>. QED
    BY <1>0, <1>4, <2>2, <2>3
       DEF PageEffect, RetryAnswered, sessionVars, TabTypeOK
<1>5. ASSUME NEW i \in Call, LoseRetryAnswer(i)
      PROVE  PageEffect("activity", {"deliveries"})
  <2>1. PageOf(calls[i]) = "activity"
    BY <1>5 DEF LoseRetryAnswer, Lost, Answered, PageOf
  <2>2. CallStep("activity")
    BY <1>0, <1>5, <2>1, StepEnds DEF LoseRetryAnswer, Lost
  <2>3. faults' \in 0..tour.faults
    BY <1>0, <1>5, DisturbBound DEF LoseRetryAnswer, Lost
  <2>. QED
    BY <1>0, <1>5, <2>2, <2>3
       DEF PageEffect, LoseRetryAnswer, Lost, sessionVars, TabTypeOK, CopiesOK
<1>6. ASSUME Workers PROVE PageEffect("activity", {"deliveries"})
  <2>1. CallStep("activity")
    BY <1>0, <1>6, StepStays DEF Workers, tabVars
  <2>. QED
    BY <1>0, <1>6, <2>1 DEF PageEffect, Workers, tabVars, TabTypeOK, CopiesOK
<1>. QED
  BY <1>1, <1>2, <1>3, <1>4, <1>5, <1>6 DEF ActivityNext

\* A step of the resource pages is a step of one of them and changes copies of
\* lists only.
LEMMA ResourceEffect ==
    ASSUME Shape, ResourceNext PROVE \E k \in Lists : PageEffect(k, Lists)
<1>0. /\ TabTypeOK /\ CopiesOK /\ CallsOK /\ MineHere
      /\ alive \subseteq alive /\ Lists \subseteq Query /\ "codes" \notin Query
      /\ \A k \in Lists : k \notin {"none", "session", "account"}
  BY PageNames DEF Shape, TypeOK, TabTypeOK, CopiesOK
<1>1. /\ \A k \in Lists : Dependents(k) \subseteq Lists
      /\ \A i \in Call, k \in Lists : \A act : calls[i].do = <<act, k>> =>
             PageOf(calls[i]) = k
      /\ \A do \in Trials : do[2] \in Lists
      /\ {"channels", "templates", "groups", "sources", "rules", "schedules"}
             \subseteq Lists
  BY DEF Dependents, Lists, PageOf, Trials
<1>2. ASSUME NEW p \in Lists, NEW form, Edit(p, form) PROVE PageEffect(p, Lists)
  <2>1. CallStep(p)
    BY <1>0, <1>2, StepStays DEF Edit
  <2>. QED
    BY <1>0, <1>2, <2>1 DEF PageEffect, Edit, sessionVars, TabTypeOK, CopiesOK
<1>3. ASSUME NEW k \in Lists, NEW act, NEW arg, page = k,
             Send(<<act, k>>, arg), UNCHANGED view
      PROVE  PageEffect(k, Lists)
  <2>1. CallStep(k)
    BY <1>0, <1>3, StepSends DEF Send
  <2>. QED
    BY <1>0, <1>3, <2>1
       DEF PageEffect, Send, Dispatch, sessionVars, TabTypeOK, CopiesOK
<1>4. ASSUME CopyCredentials PROVE PageEffect("sources", Lists)
  <2>1. CallStep("sources")
    BY <1>0, <1>4, StepStays DEF CopyCredentials, tabVars
  <2>. QED
    BY <1>0, <1>4, <2>1
       DEF PageEffect, CopyCredentials, tabVars, TabTypeOK, CopiesOK
<1>5. ASSUME NEW i \in Call, NEW k \in Lists, PageOf(calls[i]) = k,
             calls[i].stage = "sent", NEW answer, Served(i, answer), Kept,
             NEW qs \in SUBSET Lists, copy' \in {copy, Behind(copy, qs)},
             excused' = excused \cup qs \/ excused' = excused
      PROVE  PageEffect(k, Lists)
  <2>1. CallStep(k)
    BY <1>0, <1>5, StepServes DEF Kept
  <2>2. CopiesOK' /\ \A q \in Query \ Lists : copy'[q] = copy[q]
    BY <1>0, <1>5, BehindCopies DEF CopiesOK
  <2>. QED
    BY <1>0, <1>5, <2>1, <2>2 DEF PageEffect, Kept, sessionVars, TabTypeOK
<1>6. ASSUME NEW i \in Call, NEW k \in Lists, PageOf(calls[i]) = k, Done(i),
             Settled, view' = view \/ calls[i].mine,
             copy' \in {copy, Invalidated(copy, {k})}
      PROVE  PageEffect(k, Lists)
  <2>1. CallStep(k)
    BY <1>0, <1>6, StepEnds DEF Settled
  <2>2. page # k => view' = view
    BY <1>0, <1>6 DEF MineHere
  <2>3. CopiesOK' /\ \A q \in Query \ Lists : copy'[q] = copy[q]
    BY <1>0, <1>6, InvalidatedCopies DEF CopiesOK
  <2>. QED
    BY <1>0, <1>6, <2>1, <2>2, <2>3 DEF PageEffect, Settled, sessionVars, TabTypeOK
<1>7. ASSUME NEW i \in Call, LoseResourceAnswer(i)
      PROVE  \E k \in Lists : PageEffect(k, Lists)
  <2>1. PICK k \in Lists, act \in {"save", "remove", "rotate"} :
            /\ Lost(i, <<act, k>>) /\ excused' = excused \cup {k}
            /\ copy' = Behind(copy, {k}) /\ view' = view
    BY <1>7 DEF LoseResourceAnswer
  <2>2. PageOf(calls[i]) = k
    BY <1>1, <2>1 DEF Lost, Answered
  <2>3. CallStep(k)
    BY <1>0, <2>1, <2>2, StepEnds DEF Lost
  <2>4. faults' \in 0..tour.faults
    BY <1>0, <2>1, DisturbBound DEF Lost
  <2>5. CopiesOK' /\ \A q \in Query \ Lists : copy'[q] = copy[q]
    BY <1>0, <2>1, BehindCopies DEF CopiesOK
  <2>. QED
    BY <1>0, <2>1, <2>3, <2>4, <2>5 DEF PageEffect, Lost, sessionVars, TabTypeOK
<1>8. ASSUME NEW k \in Lists, NEW qs \in SUBSET Lists, NEW t,
             OtherTabChanges(k, qs, t)
      PROVE  PageEffect(k, Lists)
  <2>1. CallStep(k)
    BY <1>0, <1>8, StepStays DEF OtherTabChanges
  <2>2. faults' \in 0..tour.faults
    BY <1>0, <1>8, DisturbBound DEF OtherTabChanges
  <2>3. CopiesOK' /\ \A q \in Query \ Lists : copy'[q] = copy[q]
    BY <1>0, <1>8, BehindCopies DEF OtherTabChanges, CopiesOK
  <2>. QED
    BY <1>0, <1>8, <2>1, <2>2, <2>3
       DEF PageEffect, OtherTabChanges, sessionVars, TabTypeOK
<1>9. ASSUME \/ ChannelDialog \/ TemplateDialog \/ GroupDialog \/ SourceDialog
             \/ RuleDialog \/ ScheduleDialog
      PROVE  \E k \in Lists : PageEffect(k, Lists)
  BY <1>1, <1>2, <1>9
     DEF ChannelDialog, TemplateDialog, GroupDialog, SourceDialog, RuleDialog,
         ScheduleDialog, OpenSourceDialog, OpenDialog, CloseDialog, TypeName
<1>10. ASSUME \/ SaveChannel \/ RemoveChannel \/ TestChannel
              \/ SaveTemplate \/ RemoveTemplate \/ PreviewTemplate
              \/ SaveGroup \/ RemoveGroup \/ SaveSource \/ RemoveSource
              \/ RotateToken \/ SaveRule \/ RemoveRule \/ SaveSchedule
              \/ RemoveSchedule
       PROVE  \E k \in Lists : PageEffect(k, Lists)
  BY <1>1, <1>3, <1>10
     DEF SaveChannel, RemoveChannel, TestChannel, SaveTemplate, RemoveTemplate,
         PreviewTemplate, SaveGroup, RemoveGroup, SaveSource, RemoveSource,
         RotateToken, SaveRule, RemoveRule, SaveSchedule, RemoveSchedule,
         Save, Press, RemoveRow
<1>11. ASSUME NEW i \in Call, NEW k \in Lists, ServeSave(i, k) \/ ServeRemove(i, k)
       PROVE  PageEffect(k, Lists)
  BY <1>1, <1>5, <1>11 DEF ServeSave, ServeRemove, Accepted
<1>12. ASSUME NEW i \in Call, ServeRotate(i) PROVE PageEffect("sources", Lists)
  BY <1>1, <1>5, <1>12 DEF ServeRotate, Accepted
<1>13. ASSUME NEW i \in Call, ServeTrial(i)
       PROVE  \E k \in Lists : PageEffect(k, Lists)
  BY <1>1, <1>5, <1>13 DEF ServeTrial, Accepted, PageOf
<1>14. ASSUME NEW i \in Call, NEW k \in Lists, AnswerSave(i, k) \/ AnswerRemove(i, k)
       PROVE  PageEffect(k, Lists)
  <2>1. CASE AnswerSave(i, k)
    BY <1>1, <1>6, <2>1 DEF AnswerSave, Answered
  <2>2. CASE AnswerRemove(i, k)
    BY <1>1, <1>6, <2>2 DEF AnswerRemove, Answered
  <2>. QED
    BY <1>14, <2>1, <2>2
<1>15. ASSUME NEW i \in Call, AnswerRotate(i) PROVE PageEffect("sources", Lists)
  BY <1>1, <1>6, <1>15 DEF AnswerRotate, Answered
<1>16. ASSUME NEW i \in Call, AnswerTrial(i)
       PROVE  \E k \in Lists : PageEffect(k, Lists)
  BY <1>1, <1>6, <1>16 DEF AnswerTrial, Answered, PageOf
<1>17. ASSUME OtherTabRemoves \/ OtherTabRotates
       PROVE  \E k \in Lists : PageEffect(k, Lists)
  BY <1>1, <1>8, <1>17 DEF OtherTabRemoves, OtherTabRotates
<1>. QED
  BY <1>1, <1>4, <1>7, <1>9, <1>10, <1>11, <1>12, <1>13, <1>14, <1>15, <1>16, <1>17
     DEF ResourceNext, ChannelSaved, ChannelRemoved, TemplateSaved,
         TemplateRemoved, GroupSaved, GroupRemoved, SourceSaved, SourceRemoved,
         RuleSaved, RuleRemoved, ScheduleSaved, ScheduleRemoved

(***************************************************************************)
(* The session's steps                                                     *)
(***************************************************************************)
\* The page on display was left, or started over, and its calls are nobody's.
Left == view' = Fresh(page') /\ \A i \in Call : ~calls'[i].mine

\* What a step of the session may make of a call.
SessionCall(i) ==
    \/ calls'[i] = calls[i]
    \/ calls'[i] = Orphaned[i] /\ Left
    \/ calls[i].stage = "sent" /\ calls'[i] = NoCall
    \/ /\ PageOf(calls[i]) \in {"none", "session"}
       /\ PageOf(calls'[i]) \in {"none", "session"}
       /\ calls'[i].stage = "served" => calls'[i].answer \in {Blank} \cup MeFields

\* What may become of calls: they stay, or lose their page.
CallsGoOn == /\ CallsOK' /\ MineHere'
             /\ \A i \in Call : SessionCall(i)
             /\ \/ page' = page /\ view' = view
                \/ Left
                \/ page' = page /\ page \in Outside

\* Sending a call of the session leaves the others.
LEMMA SessionSends ==
    ASSUME TabTypeOK, CallsOK, MineHere, NEW act, NEW arg,
           act = "login" => page = "login",
           Dispatch(<<act, "session">>, arg), UNCHANGED view
    PROVE  CallsGoOn
<1>1. /\ sent + 1 \in Call /\ calls[sent + 1].stage = "idle"
      /\ calls'[sent + 1] = Request(<<act, "session">>, arg)
      /\ \A j \in Call \ {sent + 1} : calls'[j] = calls[j]
      /\ CallsOK' /\ page' = page
  BY CallSent DEF Dispatch, TabTypeOK
<1>2. calls[sent + 1].do = <<"none", "none">>
  BY <1>1 DEF CallsOK
<1>3. calls'[sent + 1].do = <<act, "session">> /\ calls'[sent + 1].stage = "sent"
  BY <1>1 DEF Request
<1>. QED
  BY <1>1, <1>2, <1>3 DEF CallsGoOn, SessionCall, MineHere, PageOf

\* So does serving one.
LEMMA SessionServes ==
    ASSUME CallsOK, MineHere, NEW i \in Call, calls[i].stage = "sent", NEW v,
           PageOf(calls[i]) = "session", v \in {Blank} \cup MeFields,
           Served(i, v), UNCHANGED <<sent, page, view>>
    PROVE  CallsGoOn
BY CallServed DEF CallsGoOn, SessionCall, MineHere, PageOf

\* So does ending one, or a refusal.
LEMMA SessionCallEnds ==
    ASSUME CallsOK, MineHere, NEW i \in Call, Done(i), UNCHANGED <<sent, page>>,
           PageOf(calls[i]) = "session" \/ calls[i].stage = "sent",
           view' = view \/ page \in Outside
    PROVE  CallsGoOn
<1>1. NoCall.do[2] = "none" /\ ~NoCall.mine /\ NoCall.stage = "idle"
  BY DEF NoCall
<1>. QED
  BY <1>1, CallDone DEF CallsGoOn, SessionCall, MineHere, PageOf

\* The calls go on when nothing happens to them.
LEMMA SessionStays ==
    ASSUME CallsOK, MineHere, UNCHANGED <<calls, sent, page>>,
           view' = view \/ page \in Outside
    PROVE  CallsGoOn
BY DEF CallsGoOn, SessionCall, MineHere, CallsOK

\* The calls go on, without a page, when the page is left.
LEMMA SessionOrphans ==
    ASSUME CallsOK, calls' = Orphaned, sent' = sent, view' = Fresh(page')
    PROVE  CallsGoOn
<1>1. \A i \in Call : /\ calls'[i] = Orphaned[i] /\ ~calls'[i].mine
                      /\ CallType(calls'[i]) /\ calls'[i].stage = calls[i].stage
                      /\ calls'[i].do = calls[i].do
  BY CallsOrphaned
<1>2. DOMAIN calls' = Call
  BY DEF Orphaned
<1>3. CallsOK'
  BY <1>1, <1>2 DEF CallsOK
<1>. QED
  BY <1>1, <1>3 DEF CallsGoOn, SessionCall, MineHere, Left

\* They go on when a page is displayed that may be another one.
LEMMA SessionDisplays ==
    ASSUME CallsOK, MineHere, NEW p, Display(p), calls' = Heirs(p), sent' = sent
    PROVE  CallsGoOn
<1>1. CASE p = page
  BY <1>1, SessionStays DEF Display, Heirs
<1>2. CASE p # page
  BY <1>2, SessionOrphans DEF Display, Heirs
<1>. QED
  BY <1>1, <1>2

\* They go on when it is displayed on the answer of a call.
LEMMA SessionAnswers ==
    ASSUME CallsOK, MineHere, NEW p, Display(p), sent' = sent,
           NEW i \in Call, PageOf(calls[i]) = "session",
           calls' = [Heirs(p) EXCEPT ![i] = NoCall]
    PROVE  CallsGoOn
<1>1. CASE p = page
  <2>1. Done(i)
    BY <1>1 DEF Done, Heirs
  <2>. QED
    BY <1>1, <2>1, SessionCallEnds DEF Display
<1>2. CASE p # page
  <2>1. /\ DOMAIN calls' = Call /\ calls'[i] = NoCall
        /\ \A j \in Call \ {i} : calls'[j] = Orphaned[j]
    BY <1>2 DEF Heirs, Orphaned
  <2>2. /\ CallType(NoCall) /\ ~NoCall.mine /\ NoCall.stage = "idle"
        /\ NoCall.do = <<"none", "none">> /\ PageOf(NoCall) = "none"
    BY TabAssumption DEF CallType, NoCall, Token, PageOf
  <2>3. \A j \in Call \ {i} :
            /\ calls'[j] = Orphaned[j] /\ ~calls'[j].mine
            /\ CallType(calls'[j]) /\ calls'[j].stage = calls[j].stage
            /\ calls'[j].do = calls[j].do
    BY <2>1, CallsOrphaned
  <2>4. \A j \in Call :
            /\ ~calls'[j].mine /\ CallType(calls'[j])
            /\ j > sent => calls'[j].stage = "idle"
            /\ calls'[j].stage = "idle" => calls'[j].do = <<"none", "none">>
    BY <2>1, <2>2, <2>3 DEF CallsOK
  <2>5. CallsOK' /\ MineHere'
    BY <2>1, <2>4 DEF CallsOK, MineHere
  <2>6. Left
    BY <1>2, <2>4 DEF Left, Display
  <2>. QED
    BY <2>1, <2>2, <2>3, <2>5, <2>6 DEF CallsGoOn, SessionCall
<1>. QED
  BY <1>1, <1>2

\* The life of a copy the session does not write: it stays, is asked for, read,
\* landed or missed.
Stays(q) ==
    /\ copy'[q].known = copy[q].known /\ copy'[q].value = copy[q].value
    /\ copy'[q].stage = copy[q].stage /\ copy'[q].got = copy[q].got
    /\ copy'[q].bearer = copy[q].bearer
    /\ copy[q].over => copy'[q].over
    /\ q \in excused => q \in excused'

Asked(q) ==
    /\ copy[q].stage \in {"idle", "stale"} /\ copy'[q].stage = "sent"
    /\ copy'[q].known = copy[q].known /\ copy'[q].value = copy[q].value
    /\ copy'[q].bearer = cookie
    /\ q \in excused <=> q \in excused'

HasRead(q) ==
    /\ copy[q].stage = "sent" /\ copy'[q].stage = "read"
    /\ copy'[q].got = Truth(q, copy[q].bearer)
    /\ copy'[q].known = copy[q].known /\ copy'[q].value = copy[q].value
    /\ copy'[q].bearer = copy[q].bearer /\ copy'[q].over = copy[q].over
    /\ q \in excused <=> q \in excused'

HasLanded(q) ==
    /\ copy[q].stage = "read" /\ copy'[q].stage = "idle"
    /\ copy'[q].known /\ copy'[q].value = copy[q].got
    /\ q \in excused' <=> copy[q].over

HasMissed(q) ==
    /\ copy[q].stage \in {"sent", "read"} /\ copy'[q].stage = "idle"
    /\ copy'[q].known = copy[q].known /\ copy'[q].value = copy[q].value
    /\ q \in excused'

QueryStep(q) == Stays(q) \/ Asked(q) \/ HasRead(q) \/ HasLanded(q) \/ HasMissed(q)

\* What the session writes itself.
SessionWrites(q) ==
    \/ q = "me" /\ copy'[q] = Unknown /\ page' = "login"
    \/ q = "me" /\ \E i \in Call : LoggedIn(i)
    \/ /\ q = "setup-status" /\ copy'[q] = Written(copy[q], FALSE)
       /\ \E i \in Call : SetupAnswered(i) \/ LoggedIn(i)

\* Every copy lives on, or is written by the session.
CopiesGoOn == /\ CopiesOK'
              /\ \A q \in Query : QueryStep(q) \/ SessionWrites(q)

\* Copies that nobody touches go on.
LEMMA CopiesStay ==
    ASSUME CopiesOK, copy' = copy, excused \subseteq excused'
    PROVE  CopiesGoOn
BY DEF CopiesGoOn, CopiesOK, QueryStep, Stays

\* A copy that is asked for goes on, and the others do.
LEMMA CopyAsked ==
    ASSUME CopiesOK, cookie \in Token, NEW q \in Query, Ask(q)
    PROVE  CopiesGoOn
<1>1. /\ DOMAIN copy' = Query /\ \A p \in Query \ {q} : copy'[p] = copy[p]
      /\ CopyType(copy[q]) /\ excused' = excused
      /\ copy'[q] = [copy[q] EXCEPT !.stage = "sent", !.bearer = cookie,
                                    !.over = FALSE, !.failed = @ /\ copy[q].known]
  BY DEF Ask, CopiesOK
<1>2. CopyType(copy'[q]) /\ Asked(q)
  BY <1>1 DEF Asked, Ask, CopyType
<1>. QED
  BY <1>1, <1>2 DEF CopiesGoOn, CopiesOK, QueryStep, Stays

\* So does one that is read, with what the server says.
LEMMA CopyRead ==
    ASSUME CopiesOK, NEW q \in Query, ReadAs(q, Truth(q, copy[q].bearer))
    PROVE  CopiesGoOn /\ HasRead(q) /\ \A p \in Query \ {q} : copy'[p] = copy[p]
<1> DEFINE v == Truth(q, copy[q].bearer)
<1>1. /\ DOMAIN copy' = Query /\ \A p \in Query \ {q} : copy'[p] = copy[p]
      /\ CopyType(copy[q]) /\ excused' = excused /\ copy[q].stage = "sent"
      /\ copy'[q] = [copy[q] EXCEPT !.stage = "read", !.got = v]
  BY DEF ReadAs, CopiesOK
<1>2. HasRead(q)
  BY <1>1 DEF HasRead, CopyType
<1>3. CopyType(copy'[q])
  <2>. HIDE DEF v
  <2>. QED
    BY <1>1 DEF CopyType
<1>. QED
  BY <1>1, <1>2, <1>3 DEF CopiesGoOn, CopiesOK, QueryStep, Stays

\* So does one that lands, excused just if its fetch was overtaken.
LEMMA CopyLanded ==
    ASSUME CopiesOK, NEW q \in Query, copy[q].stage = "read",
           copy' = [copy EXCEPT ![q] = Landed(@)], excused' = ExcusedBy(q)
    PROVE  CopiesGoOn /\ HasLanded(q) /\ \A p \in Query \ {q} : copy'[p] = copy[p]
<1>1. /\ DOMAIN copy' = Query /\ \A p \in Query \ {q} : copy'[p] = copy[p]
      /\ copy'[q] = Landed(copy[q])
  BY DEF CopiesOK
<1>2. CopyType(copy'[q]) /\ HasLanded(q)
  BY <1>1, LandedCopy DEF HasLanded, CopiesOK, ExcusedBy
<1>3. \A p \in Query \ {q} : p \in excused <=> p \in excused'
  BY DEF ExcusedBy
<1>. QED
  BY <1>1, <1>2, <1>3 DEF CopiesGoOn, CopiesOK, QueryStep, Stays

\* So does one that is missed, excused.
LEMMA CopyMissed ==
    ASSUME CopiesOK, NEW q \in Query, copy[q].stage \in {"sent", "read"},
           copy' = [copy EXCEPT ![q] = Missed(@)], excused' = excused \cup {q}
    PROVE  CopiesGoOn /\ HasMissed(q) /\ \A p \in Query \ {q} : copy'[p] = copy[p]
<1>1. /\ DOMAIN copy' = Query /\ \A p \in Query \ {q} : copy'[p] = copy[p]
      /\ copy'[q] = Missed(copy[q])
  BY DEF CopiesOK
<1>2. CopyType(copy'[q]) /\ HasMissed(q)
  BY <1>1, MissedCopy DEF HasMissed, CopiesOK
<1>. QED
  BY <1>1, <1>2 DEF CopiesGoOn, CopiesOK, QueryStep, Stays

\* The tab started over: no calls, no copies, nothing excused.
Restarted == /\ view' = Fresh(page') /\ sent' = sent
             /\ CallsOK' /\ CopiesOK'
             /\ \A i \in Call : calls'[i] = NoCall
             /\ \A q \in Query : copy'[q] = Unknown /\ q \notin excused'
             /\ muddled' = muddled \cup {calls[i].arg : i \in Rotations}

\* What a step of the session leaves, and what becomes of calls and copies.
SessionEffect ==
    /\ UNCHANGED <<tour, table, clipboard, jobs, settings, account>>
    /\ TabTypeOK' /\ admin' \in BOOLEAN
    /\ sent <= sent'
    /\ "codes" \in excused' <=> "codes" \in excused
    /\ Restarted \/ (CallsGoOn /\ CopiesGoOn /\ muddled' = muddled)

\* The variables besides the calls and copies keep their types.
RestOK ==
    /\ page' \in Pages /\ sent <= sent' /\ faults' \in 0..tour.faults
    /\ csrf' \in Token /\ cookie' \in Token /\ opened' \in Token
    /\ alive' \subseteq 1..opened'
    /\ excused' \subseteq Query \cup {"codes"}
    /\ "codes" \in excused' <=> "codes" \in excused
    /\ admin' \in BOOLEAN

\* The parts of the effect of a step of the session that does not start over.
LEMMA EffectOf ==
    ASSUME Shape, UNCHANGED <<tour, table, clipboard, jobs, settings, account>>,
           muddled' = muddled, RestOK, CallsGoOn, CopiesGoOn
    PROVE  SessionEffect
BY DEF SessionEffect, RestOK, TabTypeOK, CallsGoOn, CopiesGoOn, CopiesOK, CallsOK,
       Shape, TypeOK

\* A new session is another number.
LEMMA NewSession ==
    ASSUME TabTypeOK, opened < MaxSession, opened' = opened + 1,
           alive' = alive \cup {opened'}
    PROVE  opened' \in Token /\ alive' \subseteq 1..opened'
BY TabAssumption DEF TabTypeOK, Token

\* A route leads to a page, and to another than the one asked for only outside
\* the gate.
LEMMA Routes ==
    ASSUME NEW p \in Pages, NEW cs
    PROVE  /\ Route(p, cs) \in Pages
           /\ Route(p, cs) \notin Outside => Route(p, cs) = p
           /\ p \in Outside => Route(p, cs) = p
BY DEF Route, Pages, Outside

\* The token the gate hands over is a token.
LEMMA EffectTypes ==
    ASSUME csrf \in Token, NEW p, NEW cs, Effect(p, cs),
           cs["me"].known => cs["me"].value \in MeFields
    PROVE  csrf' \in Token
BY DEF Effect, MeFields

\* Every step of the session has the effect named above.
LEMMA SessionEffects ==
    ASSUME Shape, SessionNext PROVE SessionEffect
<1>0. /\ TabTypeOK /\ CopiesOK /\ CallsOK /\ MineHere /\ MeShape
      /\ admin \in BOOLEAN /\ account \in AccountFields
      /\ "me" \in Query /\ "setup-status" \in Query /\ "codes" \notin Query
      /\ sent <= sent /\ sent \in Nat
      /\ csrf \in Token /\ cookie \in Token /\ page \in Pages
      /\ {"login", "setup", "dashboard"} \subseteq Pages
      /\ "login" \in Outside /\ "setup" \in Outside
  BY PageNames
     DEF Shape, TypeOK, TabTypeOK, CopiesOK, CallsOK, AccountShape, Query, Pages,
         Outside
<1>1. ASSUME Go PROVE SessionEffect
  <2>1. PICK p \in tour.pages \ {page} :
           LET cs == IF page \in Outside THEN Remounted ELSE copy IN
             /\ copy' = cs
             /\ Display(Route(p, cs))
             /\ calls' = Heirs(Route(p, cs))
             /\ Effect(p, cs)
    BY <1>1 DEF Go
  <2> DEFINE cs == IF page \in Outside THEN Remounted ELSE copy
  <2>2. /\ DOMAIN cs = Query /\ \A q \in Query \ {"me"} : cs[q] = copy[q]
        /\ cs["me"].known = copy["me"].known /\ cs["me"].value = copy["me"].value
        /\ cs["me"].stage = copy["me"].stage /\ cs["me"].got = copy["me"].got
        /\ cs["me"].bearer = copy["me"].bearer /\ cs["me"].over = copy["me"].over
        /\ CopyType(cs["me"])
    BY <1>0 DEF CopiesOK, CopyType, Remounted
  <2>. /\ copy' = cs /\ Display(Route(p, cs)) /\ calls' = Heirs(Route(p, cs))
       /\ Effect(p, cs)
    BY <2>1
  <2>. HIDE DEF cs
  <2>3. p \in Pages
    BY <1>0, TabAssumption DEF TabTypeOK
  <2>4. CallsGoOn
    BY <1>0, <1>1, SessionDisplays DEF Go
  <2>5. CopiesGoOn
    BY <1>0, <1>1, <2>2 DEF Go, CopiesGoOn, CopiesOK, QueryStep, Stays
  <2>6. csrf' \in Token
    BY <1>0, <2>2, EffectTypes DEF MeShape
  <2>7. page' \in Pages
    BY <2>3, Routes DEF Display
  <2>8. RestOK
    BY <1>0, <1>1, <2>6, <2>7 DEF RestOK, Go, TabTypeOK
  <2>. QED
    BY <1>1, <2>4, <2>5, <2>8, EffectOf
       DEF Go, serverVars, resourceVars, activityVars, settingsVars
<1>2. ASSUME NEW q \in Query, AskQuery(q) PROVE SessionEffect
  <2>1. CallsGoOn
    BY <1>0, <1>2, SessionStays, SessionOrphans DEF AskQuery, Ask
  <2>2. CopiesGoOn
    BY <1>0, <1>2, CopyAsked DEF AskQuery
  <2>3. RestOK
    BY <1>0, <1>2, DisturbBound DEF RestOK, AskQuery, Ask, sessionVars, TabTypeOK
  <2>. QED
    BY <1>2, <2>1, <2>2, <2>3, EffectOf
       DEF AskQuery, Ask, serverVars, resourceVars, activityVars, settingsVars
<1>3. ASSUME NEW q \in Query, ReadQuery(q) PROVE SessionEffect
  <2>1. CallsGoOn
    BY <1>0, <1>3, SessionStays DEF ReadQuery, ReadAs
  <2>2. CopiesGoOn
    BY <1>0, <1>3, CopyRead DEF ReadQuery
  <2>3. RestOK
    BY <1>0, <1>3 DEF RestOK, ReadQuery, ReadAs, sessionVars, TabTypeOK
  <2>. QED
    BY <1>3, <2>1, <2>2, <2>3, EffectOf
       DEF ReadQuery, ReadAs, serverVars, resourceVars, activityVars, settingsVars
<1>4. ASSUME NEW q \in Query, LandQuery(q) PROVE SessionEffect
  <2> DEFINE cs == [copy EXCEPT ![q] = Landed(@)]
  <2>1. /\ copy[q].stage = "read" /\ copy' = cs /\ excused' = ExcusedBy(q)
        /\ Display(Route(page, cs)) /\ calls' = Heirs(Route(page, cs))
        /\ Effect(page, cs)
        /\ UNCHANGED <<tour, sent, cookie, alive, opened, faults, serverVars, admin>>
    BY <1>4 DEF LandQuery
  <2>2. CallsGoOn
    BY <1>0, <2>1, SessionDisplays
  <2>3. CopiesGoOn
    BY <1>0, <2>1, CopyLanded
  <2>4. cs["me"].known => cs["me"].value \in MeFields
    BY <1>0, <2>1, LandedCopy DEF MeShape, CopiesOK
  <2>5. csrf' \in Token
    BY <1>0, <2>1, <2>4, EffectTypes
  <2>6. page' \in Pages
    BY <1>0, <2>1, Routes DEF Display
  <2>7. RestOK
    BY <1>0, <2>1, <2>5, <2>6 DEF RestOK, TabTypeOK, ExcusedBy
  <2>. QED
    BY <2>1, <2>2, <2>3, <2>7, EffectOf
       DEF serverVars, resourceVars, activityVars, settingsVars
<1>5. ASSUME NEW q \in Query, MissQuery(q), copy[q].stage \in {"sent", "read"},
             faults' = faults \/ Disturb
      PROVE  SessionEffect
  <2> DEFINE cs == [copy EXCEPT ![q] = Missed(@)]
  <2>1. /\ copy' = cs /\ excused' = excused \cup {q}
        /\ Display(Route(page, cs)) /\ calls' = Heirs(Route(page, cs))
        /\ UNCHANGED <<tour, sent, sessionVars, serverVars, admin>>
    BY <1>5 DEF MissQuery
  <2>2. CallsGoOn
    BY <1>0, <2>1, SessionDisplays
  <2>3. CopiesGoOn
    BY <1>0, <1>5, <2>1, CopyMissed
  <2>4. page' \in Pages
    BY <1>0, <2>1, Routes DEF Display
  <2>5. faults' \in 0..tour.faults
    BY <1>0, <1>5, DisturbBound DEF TabTypeOK
  <2>6. RestOK
    BY <1>0, <2>1, <2>4, <2>5 DEF RestOK, TabTypeOK, sessionVars
  <2>. QED
    BY <2>1, <2>2, <2>3, <2>6, EffectOf
       DEF serverVars, resourceVars, activityVars, settingsVars
<1>6. ASSUME FillForm \/ BackToPassword PROVE SessionEffect
  <2>1. CallsGoOn
    BY <1>0, <1>6, SessionStays DEF FillForm, BackToPassword
  <2>2. CopiesGoOn
    BY <1>0, <1>6, CopiesStay DEF FillForm, BackToPassword
  <2>3. RestOK
    BY <1>0, <1>6 DEF RestOK, FillForm, BackToPassword, sessionVars, TabTypeOK
  <2>. QED
    BY <1>6, <2>1, <2>2, <2>3, EffectOf
       DEF FillForm, BackToPassword, serverVars, resourceVars, activityVars,
           settingsVars
<1>7. ASSUME NEW act, NEW arg, act = "login" => page = "login",
             Send(<<act, "session">>, arg), UNCHANGED <<view, serverVars, admin>>
      PROVE  SessionEffect
  <2>1. CallsGoOn
    BY <1>0, <1>7, SessionSends DEF Send
  <2>2. CopiesGoOn
    BY <1>0, <1>7, CopiesStay DEF Send, Dispatch
  <2>3. RestOK
    BY <1>0, <1>7 DEF RestOK, Send, Dispatch, sessionVars, TabTypeOK
  <2>. QED
    BY <1>7, <2>1, <2>2, <2>3, EffectOf
       DEF Send, Dispatch, serverVars, resourceVars, activityVars, settingsVars
<1>8. ASSUME NEW p \in Pages, StartOver(p), faults' \in 0..tour.faults,
             cookie' \in Token, opened' \in Token, alive' \subseteq 1..opened',
             admin' \in BOOLEAN
      PROVE  SessionEffect
  <2>1. CallsOK' /\ \A i \in Call : calls'[i] = NoCall
    <3>1. /\ CallType(NoCall) /\ ~NoCall.mine /\ NoCall.stage = "idle"
          /\ NoCall.do = <<"none", "none">>
      BY TabAssumption DEF CallType, NoCall, Token
    <3>2. calls' = [i \in Call |-> NoCall] /\ sent' = sent
      BY <1>8 DEF StartOver
    <3>. QED
      BY <1>0, <3>1, <3>2 DEF CallsOK
  <2>2. CopiesOK' /\ \A q \in Query : copy'[q] = Unknown
    BY <1>8, UnknownCopy DEF StartOver, CopiesOK
  <2>3. Restarted
    BY <1>8, <2>1, <2>2 DEF Restarted, StartOver
  <2>4. TabTypeOK'
    BY <1>0, <1>8, <2>1, <2>2 DEF TabTypeOK, StartOver, CallsOK, CopiesOK
  <2>. QED
    BY <1>0, <1>8, <2>3, <2>4
       DEF SessionEffect, StartOver, activityVars, settingsVars
<1>9. ASSUME Reload PROVE SessionEffect
  BY <1>0, <1>8, <1>9, DisturbBound DEF Reload, StartOver, Fault, TabTypeOK
<1>10. ASSUME PocketIDLogin PROVE SessionEffect
  <2>1. /\ opened' \in Token /\ alive' \subseteq 1..opened'
    BY <1>0, <1>10, NewSession DEF PocketIDLogin
  <2>. QED
    BY <1>0, <1>8, <1>10, <2>1 DEF PocketIDLogin, StartOver, TabTypeOK
<1>11. ASSUME NEW i \in Call, calls[i].stage = "sent",
              PageOf(calls[i]) = "session",
              NEW v \in {Blank} \cup MeFields, Served(i, v),
              UNCHANGED <<tour, page, view, copy, sent, csrf, cookie, faults,
                          excused, serverVars>>,
              opened' \in Token, alive' \subseteq 1..opened', admin' \in BOOLEAN
       PROVE  SessionEffect
  <2>1. CallsGoOn
    BY <1>0, <1>11, SessionServes
  <2>2. CopiesGoOn
    BY <1>0, <1>11, CopiesStay
  <2>3. RestOK
    BY <1>0, <1>11 DEF RestOK, TabTypeOK
  <2>. QED
    BY <1>11, <2>1, <2>2, <2>3, EffectOf
       DEF serverVars, resourceVars, activityVars, settingsVars
<1>12. ASSUME NEW i \in Call, ServeSetup(i) PROVE SessionEffect
  BY <1>0, <1>11, <1>12 DEF ServeSetup, PageOf, sessionVars, TabTypeOK
<1>13. ASSUME NEW i \in Call, ServeLogin(i) PROVE SessionEffect
  <2>1. opened' \in Token /\ alive' \subseteq 1..opened'
    BY <1>0, <1>13, NewSession DEF ServeLogin, TabTypeOK
  <2>2. \E v \in {Blank} \cup MeFields : Served(i, v)
    BY <1>0, <1>13, <2>1 DEF ServeLogin, LoginAnswer, MeOf, MeFields, AccountFields
  <2>. QED
    BY <1>0, <1>11, <1>13, <2>1, <2>2 DEF ServeLogin, PageOf
<1>14. ASSUME NEW i \in Call, ServeLogout(i) PROVE SessionEffect
  <2>1. opened' \in Token /\ alive' \subseteq 1..opened'
    BY <1>0, <1>14 DEF ServeLogout, TabTypeOK
  <2>. QED
    BY <1>0, <1>11, <1>14, <2>1 DEF ServeLogout, Accepted, PageOf
<1>15. ASSUME NEW i \in Call, SetupAnswered(i) PROVE SessionEffect
  <2>1. PageOf(calls[i]) = "session"
    BY <1>15 DEF SetupAnswered, Answered, PageOf
  <2>2. CallsGoOn
    BY <1>0, <1>15, <2>1, SessionAnswers DEF SetupAnswered
  <2>3. /\ DOMAIN copy' = Query /\ copy'["me"] = Unknown
        /\ copy'["setup-status"] = Written(copy["setup-status"], FALSE)
        /\ \A q \in Query \ {"me", "setup-status"} : copy'[q] = copy[q]
        /\ page' = "login" /\ excused' = excused
    BY <1>0, <1>15 DEF SetupAnswered, CopiesOK, Display
  <2>6. CopyType(copy'["me"]) /\ CopyType(copy'["setup-status"])
    BY <1>0, <2>3, UnknownCopy, WrittenFalse DEF CopiesOK
  <2>7. SessionWrites("me") /\ SessionWrites("setup-status")
    BY <1>15, <2>3 DEF SessionWrites
  <2>4. CopiesGoOn
    BY <1>0, <2>3, <2>6, <2>7 DEF CopiesGoOn, CopiesOK, QueryStep, Stays
  <2>5. RestOK
    BY <1>0, <1>15, <2>3 DEF RestOK, SetupAnswered, sessionVars, TabTypeOK
  <2>. QED
    BY <1>15, <2>2, <2>4, <2>5, EffectOf
       DEF SetupAnswered, serverVars, resourceVars, activityVars, settingsVars
<1>16. ASSUME NEW i \in Call, AskForCode(i) PROVE SessionEffect
  <2>1. PageOf(calls[i]) = "session" /\ (calls[i].mine => page \in Outside)
    BY <1>0, <1>16 DEF AskForCode, Answered, PageOf, MineHere
  <2>2. CallsGoOn
    BY <1>0, <1>16, <2>1, SessionCallEnds DEF AskForCode
  <2>3. CopiesGoOn
    BY <1>0, <1>16, CopiesStay DEF AskForCode
  <2>4. RestOK
    BY <1>0, <1>16 DEF RestOK, AskForCode, sessionVars, TabTypeOK
  <2>. QED
    BY <1>16, <2>2, <2>3, <2>4, EffectOf
       DEF AskForCode, serverVars, resourceVars, activityVars, settingsVars
<1>17. ASSUME NEW i \in Call, LoggedIn(i) PROVE SessionEffect
  <2> DEFINE me == calls[i].answer
  <2>1. PageOf(calls[i]) = "session" /\ me \in MeFields
    BY <1>0, <1>17 DEF LoggedIn, Answered, PageOf, MeShape
  <2>2. CallsGoOn
    BY <1>0, <1>17, <2>1, SessionAnswers DEF LoggedIn
  <2>3. /\ DOMAIN copy' = Query /\ copy'["me"] = Written(copy["me"], me)
        /\ copy'["setup-status"] = Written(copy["setup-status"], FALSE)
        /\ \A q \in Query \ {"me", "setup-status"} : copy'[q] = copy[q]
        /\ page' = "dashboard"
        /\ excused' = excused \ {"me"} \/ excused' = excused \cup {"me"}
    BY <1>0, <1>17 DEF LoggedIn, CopiesOK, Display
  <2>6. CopyType(copy'["me"])
    BY <1>0, <2>3, WrittenCopy DEF CopiesOK
  <2>8. CopyType(copy'["setup-status"])
    BY <1>0, <2>3, WrittenFalse DEF CopiesOK
  <2>7. SessionWrites("me") /\ SessionWrites("setup-status")
    BY <1>17, <2>3 DEF SessionWrites
  <2>4. CopiesGoOn
    BY <1>0, <2>3, <2>6, <2>8, <2>7 DEF CopiesGoOn, CopiesOK, QueryStep, Stays
  <2>5. RestOK
    BY <1>0, <1>17, <2>1, <2>3 DEF RestOK, LoggedIn, TabTypeOK, MeFields
  <2>. QED
    BY <1>17, <2>2, <2>4, <2>5, EffectOf
       DEF LoggedIn, serverVars, resourceVars, activityVars, settingsVars
<1>18. ASSUME NEW i \in Call, LoggedOut(i) PROVE SessionEffect
  <2>1. PageOf(calls[i]) = "session"
    BY <1>18 DEF LoggedOut, Answered, PageOf
  <2>2. CallsGoOn
    BY <1>0, <1>18, <2>1, SessionAnswers DEF LoggedOut
  <2>3. CopiesGoOn
    BY <1>0, <1>18, CopiesStay DEF LoggedOut
  <2>4. RestOK
    BY <1>0, <1>18, TabAssumption
       DEF RestOK, LoggedOut, Display, TabTypeOK, Token
  <2>. QED
    BY <1>18, <2>2, <2>3, <2>4, EffectOf
       DEF LoggedOut, serverVars, resourceVars, activityVars, settingsVars
<1>19. ASSUME NEW i \in Call, LoseSessionAnswer(i) PROVE SessionEffect
  <2>1. PageOf(calls[i]) = "session" /\ Done(i) /\ Disturb
        /\ UNCHANGED <<tour, page, sent, sessionVars>>
    BY <1>19 DEF LoseSessionAnswer, Lost, Answered, PageOf
  <2>2. CallsGoOn
    BY <1>0, <1>19, <2>1, SessionCallEnds DEF LoseSessionAnswer
  <2>3. CopiesGoOn
    BY <1>0, <1>19, BehindCopies
       DEF LoseSessionAnswer, CopiesGoOn, CopiesOK, QueryStep, Stays
  <2>4. RestOK
    BY <1>0, <1>19, <2>1, DisturbBound
       DEF RestOK, LoseSessionAnswer, sessionVars, TabTypeOK
  <2>. QED
    BY <1>19, <2>1, <2>2, <2>3, <2>4, EffectOf
       DEF LoseSessionAnswer, serverVars, resourceVars, activityVars, settingsVars
<1>20. ASSUME NEW i \in Call, Refuse(i), UNCHANGED <<serverVars, admin>>
       PROVE  SessionEffect
  <2>1. CallsGoOn
    BY <1>0, <1>20, SessionCallEnds DEF Refuse
  <2>2. CopiesGoOn
    BY <1>0, <1>20, CopiesStay DEF Refuse
  <2>3. RestOK
    BY <1>0, <1>20 DEF RestOK, Refuse, sessionVars, TabTypeOK
  <2>. QED
    BY <1>20, <2>1, <2>2, <2>3, EffectOf
       DEF Refuse, serverVars, resourceVars, activityVars, settingsVars
<1>21. ASSUME OtherTabLogsIn PROVE SessionEffect
  <2>1. opened' \in Token /\ alive' \subseteq 1..opened' /\ faults' \in 0..tour.faults
    BY <1>0, <1>21, NewSession, DisturbBound DEF OtherTabLogsIn, Fault
  <2>2. CallsGoOn
    BY <1>0, <1>21, SessionStays DEF OtherTabLogsIn
  <2>3. /\ DOMAIN copy' = Query /\ \A q \in Query \ {"me"} : copy'[q] = copy[q]
        /\ copy'["me"] = [copy["me"] EXCEPT !.over =
                              @ \/ copy["me"].stage \in {"sent", "read"}]
        /\ CopyType(copy["me"]) /\ excused' = excused \cup {"me"}
    BY <1>0, <1>21 DEF OtherTabLogsIn, OtherSession, CopiesOK
  <2>4. CopyType(copy'["me"]) /\ Stays("me")
    BY <2>3 DEF CopyType, Stays
  <2>5. CopiesGoOn
    BY <1>0, <2>3, <2>4 DEF CopiesGoOn, CopiesOK, QueryStep, Stays
  <2>6. RestOK
    BY <1>0, <1>21, <2>1 DEF RestOK, OtherTabLogsIn, TabTypeOK
  <2>. QED
    BY <1>21, <2>2, <2>5, <2>6, EffectOf
       DEF OtherTabLogsIn, serverVars, resourceVars, activityVars, settingsVars
<1>22. ASSUME OtherTabSetsUp PROVE SessionEffect
  <2>1. CallsGoOn
    BY <1>0, <1>22, SessionStays DEF OtherTabSetsUp
  <2>2. CopiesGoOn
    BY <1>0, <1>22, BehindCopies
       DEF OtherTabSetsUp, CopiesGoOn, CopiesOK, QueryStep, Stays
  <2>3. RestOK
    BY <1>0, <1>22, DisturbBound
       DEF RestOK, OtherTabSetsUp, Fault, sessionVars, TabTypeOK
  <2>. QED
    BY <1>22, <2>1, <2>2, <2>3, EffectOf
       DEF OtherTabSetsUp, serverVars, resourceVars, activityVars, settingsVars
<1>23. ASSUME SessionEnds PROVE SessionEffect
  <2>1. CallsGoOn
    BY <1>0, <1>23, SessionStays DEF SessionEnds
  <2>2. CopiesGoOn
    BY <1>0, <1>23, CopiesStay DEF SessionEnds
  <2>3. RestOK
    BY <1>0, <1>23, DisturbBound DEF RestOK, SessionEnds, Fault, TabTypeOK
  <2>. QED
    BY <1>23, <2>1, <2>2, <2>3, EffectOf
       DEF SessionEnds, serverVars, resourceVars, activityVars, settingsVars
<1>24. ASSUME SubmitSetup \/ SubmitLogin \/ Logout PROVE SessionEffect
  BY <1>7, <1>24 DEF SubmitSetup, SubmitLogin, Logout
<1>25. ASSUME NEW q \in Query, RefuseQuery(q) \/ LoseQuery(q) PROVE SessionEffect
  BY <1>5, <1>25 DEF RefuseQuery, LoseQuery
<1>. QED
  BY <1>1, <1>2, <1>3, <1>4, <1>6, <1>9, <1>10, <1>12, <1>13, <1>14, <1>15, <1>16,
     <1>17, <1>18, <1>19, <1>20, <1>21, <1>22, <1>23, <1>24, <1>25
     DEF SessionNext

\* A call of a page, through a step of the session: it stays, is orphaned with
\* its page, or is refused.
LEMMA PageCalls ==
    ASSUME CallsOK, CallsGoOn, NEW i \in Call,
           \/ PageOf(calls'[i]) \notin {"none", "session"}
           \/ calls[i].stage = "served" /\ PageOf(calls[i]) \notin {"none", "session"}
    PROVE  /\ calls'[i].do = calls[i].do /\ calls'[i].arg = calls[i].arg
           /\ calls'[i].stage = calls[i].stage /\ calls'[i].answer = calls[i].answer
           /\ calls'[i].mine = calls[i].mine \/ (Left /\ ~calls'[i].mine)
<1>1. PageOf(NoCall) = "none"
  BY DEF NoCall, PageOf
<1>. QED
  BY <1>1, CallsOrphaned DEF CallsGoOn, SessionCall

\* The calls of a page are left alone by the steps of another.
LEMMA OthersCalls ==
    ASSUME NEW m, OnlyCallsOf(m), NEW i \in Call, NEW n,
           n \notin {"none", m}, PageOf(calls[i]) = n \/ PageOf(calls'[i]) = n
    PROVE  calls'[i] = calls[i]
BY DEF OnlyCallsOf

\* The forms the pages start with.
LEMMA FreshForms ==
    /\ Fresh("account") = AccountForm
    /\ Fresh("settings") = SettingsView
    /\ Fresh("sources") = SourceForm
    /\ Fresh("groups") = GroupForm
    /\ Fresh("channels") = ChannelForm
BY DEF Fresh

\* What the server answers to the queries the invariants speak of.
LEMMA Truths ==
    /\ \A q \in Lists : \A s : Truth(q, s) = table[q]
    /\ \A s : Truth("me", s) = MeOf(s)
    /\ \A s : Truth("setup-status", s) = ~admin
    /\ \A s : Truth("settings", s) = settings
BY DEF Truth, Lists

(***************************************************************************)
(* The shapes are invariant                                                *)
(***************************************************************************)
\* The shape of me survives a step of another page.
LEMMA MeShapeByOthers ==
    ASSUME Shape, NEW m, NEW qs, PageEffect(m, qs),
           m \notin {"account", "session", "none"}, "me" \notin qs
    PROVE  MeShape'
<1>1. copy'["me"] = copy["me"] /\ OnlyCallsOf(m)
  BY PageNames DEF PageEffect, CallStep
<1>2. \A i \in Call : calls'[i].do = <<"login", "session">> => calls'[i] = calls[i]
  BY <1>1 DEF OnlyCallsOf, PageOf
<1>. QED
  BY <1>1, <1>2 DEF MeShape, Shape

\* It survives a step of the account page, which writes the copy.
LEMMA MeShapeByAccount ==
    ASSUME Shape, AccountNext PROVE MeShape'
<1>0. /\ MeShape /\ CallsOK /\ CopiesOK /\ "me" \in Query /\ account \in AccountFields
      /\ CopyType(copy["me"])
  BY PageNames DEF Shape, TypeOK, TabTypeOK, CopiesOK, AccountShape
<1>1. OnlyCallsOf("account")
  BY AccountEffect DEF PageEffect, CallStep
<1>2. \A i \in Call : calls'[i].do = <<"login", "session">> => calls'[i] = calls[i]
  BY <1>1 DEF OnlyCallsOf, PageOf
<1>3. ASSUME copy' = copy \/ copy' = Behind(copy, {"me"}) PROVE MeShape'
  <2>1. /\ copy'["me"].known = copy["me"].known /\ copy'["me"].value = copy["me"].value
        /\ copy'["me"].stage = copy["me"].stage /\ copy'["me"].got = copy["me"].got
    BY <1>0, <1>3, BehindCopies
  <2>. QED
    BY <1>0, <1>2, <2>1 DEF MeShape
<1>4. ASSUME NEW field \in {"name", "factor"}, NEW value, NEW now,
             WriteMe(field, value, now),
             field = "name" => value \in Nat,
             field = "factor" => value \in BOOLEAN
      PROVE  MeShape'
  <2>1. CASE copy["me"].known
    <3>1. [Me EXCEPT ![field] = value] \in MeFields
      BY <1>0, <1>4, <2>1 DEF Me, MeShape, MeFields
    <3>2. copy'["me"] = Written(copy["me"], [Me EXCEPT ![field] = value])
      BY <1>0, <1>4, <2>1 DEF WriteMe, CopiesOK
    <3>3. /\ copy'["me"].value \in MeFields
          /\ copy'["me"].stage = "read" => copy["me"].stage = "read"
          /\ copy'["me"].got = copy["me"].got
      BY <1>0, <3>1, <3>2, WrittenCopy
    <3>. QED
      BY <1>0, <1>2, <3>3 DEF MeShape
  <2>2. CASE ~copy["me"].known
    BY <1>3, <1>4, <2>2 DEF WriteMe
  <2>. QED
    BY <2>1, <2>2
<1>5. ASSUME NEW i \in Call, UsernameSaved(i) PROVE MeShape'
  <2>1. calls[i].answer \in Nat
    BY <1>5, TabAssumption
       DEF UsernameSaved, AnswerAccount, Answered, Shape, AccountShape,
          Numbered, Call
  <2>. QED
    BY <1>4, <1>5, <2>1 DEF UsernameSaved
<1>6. ASSUME NEW i \in Call, FactorEnabled(i) \/ FactorDisabled(i) PROVE MeShape'
  BY <1>4, <1>6 DEF FactorEnabled, FactorDisabled
<1>. QED
  BY <1>3, <1>5, <1>6
     DEF AccountNext, OpenCard, FillCard, CloseCard, EditAccount, ChangeUsername,
         ChangePassword, BeginFactor, EnableFactor, DisableFactor, Submit, Send,
         Dispatch, ServeUsername, ServePassword, ServeBegin, ServeEnable,
         ServeDisable, ServeAccount, PasswordSaved, FactorBegun, LoseAccountAnswer,
         OtherTabDisables

\* It survives a step of the session, which reads it anew.
LEMMA MeShapeBySession ==
    ASSUME Shape, SessionNext PROVE MeShape'
<1>0. /\ MeShape /\ CallsOK /\ CopiesOK /\ "me" \in Query /\ account \in AccountFields
      /\ CopyType(copy["me"]) /\ copy["me"].bearer \in Token
  BY PageNames DEF Shape, TypeOK, TabTypeOK, CopiesOK, AccountShape, CopyType
<1>1. CASE Restarted
  BY <1>0, <1>1, UnknownCopy DEF Restarted, MeShape, NoCall
<1>2. CASE CallsGoOn /\ CopiesGoOn
  <2>1. ASSUME NEW i \in Call, calls'[i].stage = "served",
               calls'[i].do = <<"login", "session">>
        PROVE  calls'[i].answer \in {Blank} \cup MeFields
    <3>1. PageOf(calls'[i]) = "session" /\ PageOf(NoCall) = "none"
      BY <2>1 DEF PageOf, NoCall
    <3>. QED
      BY <1>0, <1>2, <2>1, <3>1, CallsOrphaned DEF CallsGoOn, SessionCall, MeShape
  <2>2. /\ copy'["me"].known => copy'["me"].value \in MeFields
        /\ copy'["me"].stage = "read" => copy'["me"].got \in MeFields
    <3>1. CASE HasRead("me")
      <4>1. Truth("me", copy["me"].bearer) \in MeFields
        <5>1. Truth("me", copy["me"].bearer) = MeOf(copy["me"].bearer)
          BY Truths
        <5>2. MeOf(copy["me"].bearer) \in MeFields
          BY <1>0 DEF MeOf, MeFields, AccountFields
        <5>. QED
          BY <5>1, <5>2
      <4>. QED
        BY <1>0, <3>1, <4>1 DEF HasRead, MeShape
    <3>2. CASE Stays("me") \/ Asked("me") \/ HasLanded("me") \/ HasMissed("me")
      BY <1>0, <3>2 DEF Stays, Asked, HasLanded, HasMissed, MeShape
    <3>3. CASE copy'["me"] = Unknown
      BY <3>3, UnknownCopy
    <3>4. CASE \E i \in Call : LoggedIn(i)
      <4>1. PICK i \in Call : LoggedIn(i)
        BY <3>4
      <4>2. calls[i].answer \in MeFields
        BY <1>0, <4>1 DEF LoggedIn, Answered, MeShape
      <4>3. copy'["me"] = Written(copy["me"], calls[i].answer)
        BY <1>0, <4>1 DEF LoggedIn, CopiesOK
      <4>4. /\ copy'["me"].value \in MeFields
            /\ copy'["me"].stage = "read" => copy["me"].stage = "read"
            /\ copy'["me"].got = copy["me"].got
        BY <1>0, <4>2, <4>3, WrittenCopy
      <4>. QED
        BY <1>0, <4>4 DEF MeShape
    <3>. QED
      BY <1>0, <1>2, <3>1, <3>2, <3>3, <3>4 DEF CopiesGoOn, QueryStep, SessionWrites
  <2>. QED
    BY <2>1, <2>2 DEF MeShape
<1>. QED
  BY <1>1, <1>2, SessionEffects DEF SessionEffect

\* The shape of the settings survives a step of another page.
LEMMA SettingsShapeByOthers ==
    ASSUME Shape, NEW m, NEW qs, PageEffect(m, qs), m # "settings",
           "settings" \notin qs, settings' = settings
    PROVE  SettingsShape'
<1>1. /\ copy'["settings"] = copy["settings"] /\ OnlyCallsOf(m)
      /\ page' = page /\ (page = "settings" => view' = view)
  BY PageNames DEF PageEffect, CallStep
<1>2. \A i \in Call : calls'[i].do = <<"save", "settings">> => calls'[i] = calls[i]
  BY <1>1 DEF OnlyCallsOf, PageOf
<1>. QED
  BY <1>1, <1>2 DEF SettingsShape, Shape

\* It survives a step of the settings page.
LEMMA SettingsShapeBySettings ==
    ASSUME Shape, SettingsNext PROVE SettingsShape'
<1>0. /\ SettingsShape /\ CallsOK /\ CopiesOK /\ MineHere /\ TabTypeOK
      /\ "settings" \in Query /\ CopyType(copy["settings"])
  BY PageNames DEF Shape, TypeOK, TabTypeOK, CopiesOK
<1> DEFINE Form(f) == /\ DOMAIN f = {"value", "secret", "touched", "behind"}
                      /\ f.secret \in BOOLEAN
                      /\ f.value # Blank => f.value \in SettingsFields
           Args(i) == calls'[i].do = <<"save", "settings">> =>
                          /\ calls'[i].arg.value \in SettingsFields
                          /\ calls'[i].arg.secret \in BOOLEAN
           Answers(i) == calls'[i].do = <<"save", "settings">>
                             /\ calls'[i].stage = "served"
                                 => calls'[i].answer \in SettingsFields
           Copies == /\ copy'["settings"].known =>
                            copy'["settings"].value \in SettingsFields
                     /\ copy'["settings"].stage = "read" =>
                            copy'["settings"].got \in SettingsFields
<1>1. ASSUME NEW form, Show(form), Form(form) PROVE SettingsShape'
  BY <1>0, <1>1 DEF SettingsShape, Show
<1>2. ASSUME MountForm PROVE SettingsShape'
  <2> DEFINE b == \/ "settings" \in excused \/ SavesUnderWay({})
                  \/ copy["settings"].stage # "idle"
             f == [SettingsView EXCEPT !.value = copy["settings"].value, !.behind = b]
  <2>1. Show(f) /\ copy["settings"].known
    BY <1>2 DEF MountForm
  <2>. HIDE DEF b
  <2>2. Form(f)
    BY <1>0, <2>1 DEF SettingsView, SettingsShape
  <2>. QED
    BY <1>1, <2>1, <2>2
<1>3. ASSUME EditSettings \/ TypeSecret PROVE SettingsShape'
  <2>1. ASSUME NEW v \in SettingsFields, NEW secret \in BOOLEAN,
               EditField(v, secret)
        PROVE  SettingsShape'
    <3> DEFINE f == [view EXCEPT !.value = v, !.secret = secret, !.touched = TRUE]
    <3>1. Form(f)
      BY <1>0, <2>1 DEF EditField, SettingsShape
    <3>. QED
      BY <1>1, <2>1, <3>1 DEF EditField
  <2>2. page = "settings" /\ view.value \in SettingsFields /\ view.secret \in BOOLEAN
    BY <1>0, <1>3 DEF EditSettings, TypeSecret, SettingsShape
  <2>3. /\ \A d \in Days : /\ [view.value EXCEPT !.payload = d] \in SettingsFields
                           /\ [view.value EXCEPT !.metadata = d] \in SettingsFields
        /\ [view.value EXCEPT !.pocket = ~@] \in SettingsFields
    BY <2>2, DaysAssumption DEF SettingsFields
  <2>. QED
    BY <1>3, <2>1, <2>2, <2>3 DEF EditSettings, TypeSecret
<1>4. ASSUME SaveSettings PROVE SettingsShape'
  <2> DEFINE arg == [value |-> view.value, secret |-> view.secret]
  <2>1. /\ Dispatch(<<"save", "settings">>, arg) /\ view' = view /\ page' = page
        /\ settings' = settings /\ copy' = copy
        /\ arg.value \in SettingsFields /\ arg.secret \in BOOLEAN
    BY <1>0, <1>4 DEF SaveSettings, Send, Dispatch, SettingsShape
  <2>2. /\ sent + 1 \in Call
        /\ calls'[sent + 1] = Request(<<"save", "settings">>, arg)
        /\ \A j \in Call \ {sent + 1} : calls'[j] = calls[j]
    <3>. HIDE DEF arg
    <3>. QED
      BY <1>0, <2>1, CallSent DEF TabTypeOK
  <2>3. calls'[sent + 1].arg = arg /\ calls'[sent + 1].stage = "sent"
    BY <2>2 DEF Request
  <2>. HIDE DEF arg
  <2>. QED
    BY <1>0, <2>1, <2>2, <2>3 DEF SettingsShape
<1>5. ASSUME NEW i \in Call, ServeSettings(i) PROVE SettingsShape'
  <2>1. /\ calls[i].stage = "sent" /\ calls[i].do = <<"save", "settings">>
        /\ settings' = Stored(calls[i].arg) /\ Served(i, settings')
        /\ UNCHANGED <<page, view, copy, sent>>
    BY <1>5 DEF ServeSettings, Accepted
  <2>2. Stored(calls[i].arg) \in SettingsFields
    BY <1>0, <2>1 DEF Stored, SettingsShape, SettingsFields
  <2>3. /\ \A j \in Call \ {i} : calls'[j] = calls[j]
        /\ calls'[i].do = calls[i].do /\ calls'[i].arg = calls[i].arg
        /\ calls'[i].stage = "served" /\ calls'[i].answer = settings'
    BY <1>0, <2>1, CallServed
  <2>. QED
    BY <1>0, <2>1, <2>2, <2>3 DEF SettingsShape
<1>6. ASSUME NEW i \in Call, SettingsSaved(i) PROVE SettingsShape'
  <2>1. /\ calls[i].stage = "served" /\ calls[i].do = <<"save", "settings">>
        /\ Done(i) /\ UNCHANGED <<page, sent, settings>>
        /\ copy' = [copy EXCEPT !["settings"] = Written(@, calls[i].answer)]
    BY <1>6 DEF SettingsSaved, Answered
  <2>2. calls[i].answer \in SettingsFields
    BY <1>0, <2>1 DEF SettingsShape
  <2>3. /\ \A j \in Call \ {i} : calls'[j] = calls[j]
        /\ calls'[i].do = <<"none", "none">>
    BY <1>0, <2>1, CallDone DEF NoCall
  <2>4. copy'["settings"] = Written(copy["settings"], calls[i].answer)
    BY <1>0, <2>1 DEF CopiesOK
  <2>5. Copies
    BY <1>0, <2>2, <2>4, WrittenCopy DEF SettingsShape
  <2>6. page = "settings" => Form(view')
    <3> DEFINE b == calls[i].answer # settings \/ SavesUnderWay({i})
    <3>1. view' = IF calls[i].mine
                  THEN [SettingsView EXCEPT !.value = calls[i].answer, !.behind = b]
                  ELSE view
      BY <1>6 DEF SettingsSaved
    <3>. HIDE DEF b
    <3>. QED
      BY <1>0, <2>2, <3>1 DEF SettingsView, SettingsShape
  <2>. QED
    BY <1>0, <2>1, <2>3, <2>5, <2>6 DEF SettingsShape
<1>7. FormBehind.value = view.value /\ FormBehind.secret = view.secret
      /\ (DOMAIN FormBehind = DOMAIN view \/ page # "settings")
  BY <1>0 DEF FormBehind, SettingsShape
<1>8. ASSUME view' = FormBehind, copy' = Behind(copy, {"settings"}), page' = page,
             settings' \in SettingsFields,
             \A j \in Call : calls'[j].do = <<"save", "settings">> =>
                                 calls'[j] = calls[j]
      PROVE  SettingsShape'
  <2>1. Copies
    BY <1>0, <1>8, BehindCopies DEF SettingsShape
  <2>2. page = "settings" => Form(view')
    BY <1>0, <1>8 DEF FormBehind, SettingsShape
  <2>. QED
    BY <1>0, <1>8, <2>1, <2>2 DEF SettingsShape
<1>9. ASSUME NEW i \in Call, LoseSettingsAnswer(i) PROVE SettingsShape'
  <2>1. /\ \A j \in Call \ {i} : calls'[j] = calls[j]
        /\ calls'[i].do = <<"none", "none">>
    BY <1>0, <1>9, CallDone DEF LoseSettingsAnswer, Lost, NoCall
  <2>. QED
    BY <1>0, <1>8, <1>9, <2>1 DEF LoseSettingsAnswer, Lost, SettingsShape
<1>10. ASSUME OtherTabSaves PROVE SettingsShape'
  <2>1. settings' \in SettingsFields
    BY <1>0, <1>10, DaysAssumption DEF OtherTabSaves, SettingsShape, SettingsFields
  <2>. QED
    BY <1>8, <1>10, <2>1 DEF OtherTabSaves
<1>. QED
  BY <1>2, <1>3, <1>4, <1>5, <1>6, <1>9, <1>10 DEF SettingsNext

\* It survives a step of the session.
LEMMA SettingsShapeBySession ==
    ASSUME Shape, SessionNext PROVE SettingsShape'
<1>0. /\ SettingsShape /\ CallsOK /\ CopiesOK /\ "settings" \in Query
      /\ SessionEffect
  BY PageNames, SessionEffects DEF Shape, TypeOK, TabTypeOK, CopiesOK
<1>1. /\ DOMAIN SettingsView = {"value", "secret", "touched", "behind"}
      /\ SettingsView.secret \in BOOLEAN /\ SettingsView.value = Blank
      /\ "settings" \notin Outside
  BY DEF SettingsView, Outside
<1>2. CASE Restarted
  BY <1>0, <1>1, <1>2, UnknownCopy, FreshForms
     DEF Restarted, SettingsShape, NoCall, SessionEffect
<1>3. CASE CallsGoOn /\ CopiesGoOn
  <2>1. ASSUME NEW i \in Call, calls'[i].do = <<"save", "settings">>
        PROVE  /\ calls'[i].do = calls[i].do /\ calls'[i].arg = calls[i].arg
               /\ calls'[i].stage = calls[i].stage
               /\ calls'[i].answer = calls[i].answer
    BY <1>0, <1>3, <2>1, PageCalls DEF PageOf
  <2>2. QueryStep("settings")
    BY <1>0, <1>3 DEF CopiesGoOn, SessionWrites
  <2>3. /\ copy'["settings"].known => copy'["settings"].value \in SettingsFields
        /\ copy'["settings"].stage = "read" =>
               copy'["settings"].got \in SettingsFields
    BY <1>0, <2>2, Truths
       DEF QueryStep, Stays, Asked, HasRead, HasLanded, HasMissed, SettingsShape
  <2>. QED
    BY <1>0, <1>1, <1>3, <2>1, <2>3, FreshForms
       DEF SettingsShape, SessionEffect, CallsGoOn, Left
<1>. QED
  BY <1>0, <1>2, <1>3 DEF SessionEffect

\* The shape of the account survives a step of another page.
LEMMA AccountShapeByOthers ==
    ASSUME Shape, NEW m, NEW qs, PageEffect(m, qs),
           m \notin {"account", "none"}, account' = account
    PROVE  AccountShape'
<1>1. /\ OnlyCallsOf(m) /\ page' = page /\ (page = "account" => view' = view)
  BY DEF PageEffect, CallStep
<1>2. \A i \in Call : \A act : calls'[i].do = <<act, "account">> => calls'[i] = calls[i]
  BY <1>1 DEF OnlyCallsOf, PageOf
<1>. QED
  BY <1>1, <1>2 DEF AccountShape, Shape

\* Closing a card keeps the form of the account page in shape.
LEMMA ClosedForms ==
    ASSUME NEW card, DOMAIN view = {"card", "filled", "setup", "codes"}
    PROVE  DOMAIN Closed(card) = {"card", "filled", "setup", "codes"}
BY DEF Closed, AccountForm

\* The shape of the account survives a step of its page.
LEMMA AccountShapeByAccount ==
    ASSUME Shape, AccountNext PROVE AccountShape'
<1> DEFINE Form(f) == DOMAIN f = {"card", "filled", "setup", "codes"}
           Numbers == \A i \in Call, act \in Numbered :
                        calls'[i].stage = "served" /\ calls'[i].do = <<act, "account">>
                            => calls'[i].answer = i
<1>0. /\ AccountShape /\ CallsOK /\ MineHere /\ TabTypeOK
      /\ account \in AccountFields /\ Call \subseteq Nat
  BY DEF Shape, TypeOK, AccountShape, Call
<1>1. ASSUME NEW form, EditAccount(form), page = "account" => Form(form)
      PROVE  AccountShape'
  BY <1>0, <1>1 DEF EditAccount, AccountShape
<1>2. ASSUME OpenCard \/ FillCard \/ CloseCard PROVE AccountShape'
  <2>1. page = "account" => Form(view) /\ \A card : Form(Closed(card))
    BY <1>0, ClosedForms DEF AccountShape
  <2>2. \A c : /\ page = "account" => Form([view EXCEPT !.card = c])
               /\ page = "account" => Form([view EXCEPT !.filled = TRUE])
    BY <2>1
  <2>. QED
    BY <1>1, <1>2, <2>1, <2>2 DEF OpenCard, FillCard, CloseCard
<1>3. ASSUME NEW do, NEW arg, Dispatch(do, arg), UNCHANGED <<view, account>>
      PROVE  AccountShape'
  <2>1. /\ calls'[sent + 1] = Request(do, arg) /\ page' = page
        /\ \A j \in Call \ {sent + 1} : calls'[j] = calls[j]
    BY <1>0, <1>3, CallSent DEF Dispatch, TabTypeOK
  <2>2. calls'[sent + 1].stage # "served"
    BY <2>1 DEF Request
  <2>. QED
    BY <1>0, <1>3, <2>1, <2>2 DEF AccountShape
<1>4. ASSUME NEW i \in Call, NEW act, NEW value, NEW answer,
             ServeAccount(i, act, value, answer), value \in AccountFields,
             act \in Numbered => answer = i
      PROVE  AccountShape'
  <2>1. /\ calls[i].do = <<act, "account">>
        /\ \A j \in Call \ {i} : calls'[j] = calls[j]
        /\ calls'[i].do = calls[i].do /\ calls'[i].answer = answer
        /\ page' = page /\ view' = view /\ account' = value
    BY <1>0, <1>4, CallServed DEF ServeAccount, Accepted
  <2>2. Numbers
    BY <1>0, <1>4, <2>1 DEF AccountShape
  <2>. QED
    BY <1>0, <1>4, <2>1, <2>2 DEF AccountShape
<1>5. ASSUME NEW i \in Call, ServeUsername(i) \/ ServePassword(i) \/ ServeBegin(i)
                             \/ ServeEnable(i) \/ ServeDisable(i)
      PROVE  AccountShape'
  <2>1. i \in Nat
    BY DEF Call
  <2>2. /\ [account EXCEPT !.name = i] \in AccountFields
        /\ [account EXCEPT !.secret = i] \in AccountFields
        /\ [account EXCEPT !.on = TRUE, !.codes = i] \in AccountFields
        /\ [account EXCEPT !.on = FALSE, !.secret = 0, !.codes = 0] \in AccountFields
    BY <1>0, <2>1 DEF AccountFields
  <2>3. "password" \notin Numbered /\ "disable" \notin Numbered
    BY DEF Numbered
  <2>. QED
    BY <1>0, <1>4, <1>5, <2>2, <2>3
       DEF ServeUsername, ServePassword, ServeBegin, ServeEnable, ServeDisable
<1>6. ASSUME NEW i \in Call, NEW act, NEW form, AnswerAccount(i, act, form),
             page = "account" => Form(form)
      PROVE  AccountShape'
  <2>1. /\ \A j \in Call \ {i} : calls'[j] = calls[j]
        /\ calls'[i].stage = "idle" /\ page' = page /\ account' = account
    BY <1>0, <1>6, CallDone DEF AnswerAccount, NoCall
  <2>2. page = "account" => Form(view')
    BY <1>0, <1>6 DEF AnswerAccount, AccountShape
  <2>. QED
    BY <1>0, <2>1, <2>2 DEF AccountShape
<1>7. ASSUME NEW i \in Call, UsernameSaved(i) \/ PasswordSaved(i) \/ FactorBegun(i)
                             \/ FactorEnabled(i) \/ FactorDisabled(i)
      PROVE  AccountShape'
  <2>1. page = "account" => Form(view) /\ \A card : Form(Closed(card))
    BY <1>0, ClosedForms DEF AccountShape
  <2>2. ASSUME page = "account"
        PROVE  /\ Form([view EXCEPT !.setup = calls[i].answer,
                                    !.filled = @ /\ view.card # "factor"])
               /\ Form([view EXCEPT !.setup = 0, !.codes = calls[i].answer,
                                    !.filled = @ /\ view.card # "factor"])
               /\ Form([Closed("factor") EXCEPT !.setup = 0, !.codes = 0])
    <3> DEFINE a == calls[i].answer
               f == view.filled /\ view.card # "factor"
    <3>1. Form(view) /\ Form(Closed("factor"))
      BY <2>1, <2>2
    <3>. HIDE DEF a, f
    <3>2. /\ Form([view EXCEPT !.setup = a, !.filled = f])
          /\ Form([view EXCEPT !.setup = 0, !.codes = a, !.filled = f])
          /\ Form([Closed("factor") EXCEPT !.setup = 0, !.codes = 0])
      BY <3>1
    <3>. QED
      BY <3>2 DEF a, f
  <2>. QED
    BY <1>6, <1>7, <2>1, <2>2
       DEF UsernameSaved, PasswordSaved, FactorBegun, FactorEnabled, FactorDisabled
<1>8. ASSUME NEW i \in Call, LoseAccountAnswer(i) PROVE AccountShape'
  <2>1. /\ \A j \in Call \ {i} : calls'[j] = calls[j]
        /\ calls'[i].stage = "idle" /\ page' = page
    BY <1>0, <1>8, CallDone DEF LoseAccountAnswer, Lost, NoCall
  <2>. QED
    BY <1>0, <1>8, <2>1 DEF LoseAccountAnswer, AccountShape
<1>9. ASSUME OtherTabDisables PROVE AccountShape'
  <2>1. account' \in AccountFields
    BY <1>0, <1>9 DEF OtherTabDisables, AccountFields
  <2>. QED
    BY <1>0, <1>9, <2>1 DEF OtherTabDisables, AccountShape
<1>. QED
  BY <1>2, <1>3, <1>5, <1>7, <1>8, <1>9
     DEF AccountNext, ChangeUsername, ChangePassword, BeginFactor, EnableFactor,
         DisableFactor, Submit, Send

\* It survives a step of the session.
LEMMA AccountShapeBySession ==
    ASSUME Shape, SessionNext PROVE AccountShape'
<1>0. AccountShape /\ CallsOK /\ SessionEffect
  BY SessionEffects DEF Shape
<1>1. /\ DOMAIN AccountForm = {"card", "filled", "setup", "codes"}
      /\ "account" \notin Outside
  BY DEF AccountForm, Outside
<1>2. CASE Restarted
  <2>1. \A i \in Call : calls'[i].stage = "idle"
    BY <1>2 DEF Restarted, NoCall
  <2>. QED
    BY <1>0, <1>1, <1>2, <2>1, FreshForms DEF Restarted, AccountShape, SessionEffect
<1>3. CASE CallsGoOn /\ CopiesGoOn
  <2>1. ASSUME NEW i \in Call, NEW act, calls'[i].do = <<act, "account">>
        PROVE  /\ calls'[i].do = calls[i].do /\ calls'[i].stage = calls[i].stage
               /\ calls'[i].answer = calls[i].answer
    BY <1>0, <1>3, <2>1, PageCalls DEF PageOf
  <2>. QED
    BY <1>0, <1>1, <1>3, <2>1, FreshForms
       DEF AccountShape, SessionEffect, CallsGoOn, Left
<1>. QED
  BY <1>0, <1>2, <1>3 DEF SessionEffect

(***************************************************************************)
(* Types                                                                   *)
(***************************************************************************)
\* A step of a page keeps the types of the tab.
LEMMA TabTypes ==
    ASSUME Shape, NEW m, NEW qs, PageEffect(m, qs) PROVE TabTypeOK'
BY DEF Shape, TypeOK, PageEffect, CallStep, TabTypeOK, CopiesOK, CallsOK

\* A step of the resource pages keeps the lists of the table.
LEMMA TableTypes ==
    ASSUME DOMAIN table = Lists, ResourceNext PROVE DOMAIN table' = Lists
<1>1. ASSUME NEW k, NEW v PROVE DOMAIN [table EXCEPT ![k] = v] = Lists
  OBVIOUS
<1>2. \A k, id : DOMAIN Remaining(k, id) = Lists /\ DOMAIN Tokened(k, id) = Lists
  BY DEF Remaining, Tokened
<1>3. CASE table' = table
  BY <1>3
<1>4. ASSUME NEW i \in Call, NEW k \in Lists, ServeSave(i, k) \/ ServeRemove(i, k)
      PROVE  DOMAIN table' = Lists
  BY <1>1, <1>2, <1>4 DEF ServeSave, ServeRemove
<1>5. ASSUME NEW i \in Call, ServeRotate(i) PROVE DOMAIN table' = Lists
  BY <1>2, <1>5 DEF ServeRotate
<1>6. CASE OtherTabRemoves \/ OtherTabRotates
  BY <1>2, <1>6 DEF OtherTabRemoves, OtherTabRotates, OtherTabChanges
<1>7. ASSUME NEW p, NEW form, Edit(p, form) PROVE table' = table
  BY <1>7 DEF Edit, resourceVars
<1>8. CASE \/ ChannelDialog \/ TemplateDialog \/ GroupDialog \/ SourceDialog
           \/ RuleDialog \/ ScheduleDialog
  BY <1>3, <1>7, <1>8
     DEF ChannelDialog, TemplateDialog, GroupDialog, SourceDialog, RuleDialog,
         ScheduleDialog, OpenSourceDialog, OpenDialog, CloseDialog, TypeName
<1>9. ASSUME NEW p, NEW do, NEW arg, Press(p, do, arg) PROVE table' = table
  BY <1>9 DEF Press, resourceVars
<1>10. CASE \/ SaveChannel \/ TestChannel \/ SaveTemplate \/ PreviewTemplate
            \/ SaveGroup \/ SaveSource \/ SaveRule \/ SaveSchedule
  BY <1>3, <1>9, <1>10
     DEF SaveChannel, TestChannel, SaveTemplate, PreviewTemplate, SaveGroup,
         SaveSource, SaveRule, SaveSchedule, Save
<1>11. CASE \/ RemoveChannel \/ RemoveTemplate \/ RemoveGroup \/ RemoveSource
            \/ RemoveRule \/ RemoveSchedule \/ RotateToken \/ CopyCredentials
  BY <1>3, <1>11
     DEF RemoveChannel, RemoveTemplate, RemoveGroup, RemoveSource, RemoveRule,
         RemoveSchedule, RotateToken, RemoveRow, CopyCredentials
<1>12. ASSUME NEW i \in Call, NEW k \in Lists, AnswerSave(i, k) \/ AnswerRemove(i, k)
       PROVE  table' = table
  BY <1>12 DEF AnswerSave, AnswerRemove, Settled
<1>13. ASSUME NEW i \in Call, AnswerRotate(i) \/ ServeTrial(i) \/ AnswerTrial(i)
                              \/ LoseResourceAnswer(i)
       PROVE  table' = table
  BY <1>13 DEF AnswerRotate, ServeTrial, AnswerTrial, LoseResourceAnswer, Settled
<1>14. {"channels", "templates", "groups", "sources", "rules", "schedules"}
           \subseteq Lists
  BY DEF Lists
<1>. QED
  BY <1>3, <1>4, <1>5, <1>6, <1>8, <1>10, <1>11, <1>12, <1>13, <1>14
     DEF ResourceNext, ChannelSaved, ChannelRemoved, TemplateSaved,
         TemplateRemoved, GroupSaved, GroupRemoved, SourceSaved, SourceRemoved,
         RuleSaved, RuleRemoved, ScheduleSaved, ScheduleRemoved

\* A step of the activity page keeps the types of the jobs.
LEMMA JobTypes ==
    ASSUME JobsTypeOK, ActivityNext PROVE JobsTypeOK'
<1>1. CASE jobs' = jobs
  BY <1>1 DEF JobsTypeOK
<1>2. ASSUME NEW i \in Call, ServeRetry(i) PROVE JobsTypeOK'
  BY <1>2 DEF JobsTypeOK, ServeRetry, Arrived
<1>3. CASE Workers
  BY <1>3 DEF JobsTypeOK, Workers, With
<1>. QED
  BY <1>1, <1>2, <1>3
     DEF ActivityNext, ChooseTab, Retry, RetryAnswered, LoseRetryAnswer

\* The type invariant follows from its parts.
LEMMA TypesFollow ==
    ASSUME TabTypeOK, JobsTypeOK, admin \in BOOLEAN, DOMAIN table = Lists,
           account \in AccountFields, settings \in SettingsFields
    PROVE  TypeOK
BY DEF TypeOK, AccountFields, SettingsFields

\* The first states are in shape.
LEMMA ShapeInit == Init => Shape
<1> SUFFICES ASSUME Init PROVE Shape
  OBVIOUS
<1>1. /\ tour \in Tours /\ page \in tour.pages /\ page \in Pages /\ page \notin Outside
      /\ MaxCalls \in Nat /\ MaxSession \in Nat \ {0} /\ tour.faults \in Nat
      /\ tour.factor \in BOOLEAN /\ tour.calls \in Nat
  BY TabAssumption DEF Init
<1>2. /\ sent = 0 /\ faults = 0 /\ DOMAIN calls = Call
      /\ \A i \in Call : calls[i] = NoCall
  BY DEF Init
<1>3. /\ CallType(NoCall) /\ ~NoCall.mine /\ NoCall.stage = "idle"
      /\ NoCall.do = <<"none", "none">>
  BY TabAssumption DEF CallType, NoCall, Token
<1>4. CallsOK /\ MineHere
  BY <1>1, <1>2, <1>3 DEF CallsOK, MineHere
<1>5. /\ admin \in BOOLEAN /\ opened \in Token /\ cookie \in Token
      /\ alive \subseteq 1..opened /\ csrf \in Token
  <2>1. admin \in BOOLEAN /\ opened \in {0, 1} /\ cookie = opened /\ alive = 1..opened
        /\ csrf \in {0, cookie}
    BY DEF Init
  <2>2. {0, 1} \subseteq Token
    BY <1>1 DEF Token
  <2>. QED
    BY <2>1, <2>2
<1>6. account \in AccountFields
  <2>1. \E n \in Nat : account = [name |-> 0, on |-> tour.factor, secret |-> n,
                                  codes |-> n]
    <3>1. FirstSecret \in Nat
      BY <1>1 DEF FirstSecret
    <3>2. tour.factor => account = [name |-> 0, on |-> tour.factor,
                                    secret |-> FirstSecret, codes |-> FirstSecret]
      BY DEF Init
    <3>3. ~tour.factor => account = [name |-> 0, on |-> tour.factor,
                                     secret |-> 0, codes |-> 0]
      BY DEF Init
    <3>. QED
      BY <3>1, <3>2, <3>3
  <2>. QED
    BY <1>1, <2>1 DEF AccountFields
<1>7. /\ DOMAIN copy = Query
      /\ \A q \in Query : \/ copy[q] = Unknown
                          \/ q = "setup-status" /\ copy[q] = Known(FALSE)
                          \/ q = "me" /\ copy[q] = Known(MeOf(cookie))
                          \/ q \in Lists /\ copy[q] = Known(FirstTable[q])
  <2> DEFINE first(q) == CASE q = "setup-status" -> Known(FALSE)
                           [] q = "me" -> Known(MeOf(cookie))
                           [] q \in Lists -> Known(FirstTable[q])
                           [] OTHER -> Unknown
  <2>1. copy = [q \in Query |-> IF InTour("login") THEN Unknown ELSE first(q)]
    BY DEF Init
  <2>2. ASSUME NEW q \in Query
        PROVE  \/ first(q) = Unknown
               \/ q = "setup-status" /\ first(q) = Known(FALSE)
               \/ q = "me" /\ first(q) = Known(MeOf(cookie))
               \/ q \in Lists /\ first(q) = Known(FirstTable[q])
    <3>1. CASE q = "setup-status"
      BY <3>1, PageNames
    <3>2. CASE q = "me"
      BY <3>2, PageNames
    <3>3. CASE q \in Lists
      BY <3>3, PageNames
    <3>4. CASE q # "setup-status" /\ q # "me" /\ q \notin Lists
      BY <3>4
    <3>. QED
      BY <3>1, <3>2, <3>3, <3>4
  <2>. HIDE DEF first
  <2>. QED
    BY <2>1, <2>2
<1>8. CopyType(Known(FALSE))
  BY TabAssumption DEF Unknown, Known, CopyType, Token
<1>9. CopiesOK
  BY <1>7, <1>8, UnknownCopy, KnownCopy DEF CopiesOK
<1>10. MeOf(cookie) \in MeFields
  BY <1>5, <1>6 DEF MeOf, MeFields, AccountFields
<1>11. MeShape
  <2>1. copy["me"] \in {Unknown, Known(MeOf(cookie))}
    BY <1>7, PageNames
  <2>. QED
    BY <1>2, <1>3, <1>10, <2>1, UnknownCopy, KnownCopy DEF MeShape
<1>12. settings \in SettingsFields
  <2>1. settings = FirstSettings
    BY DEF Init
  <2>. QED
    BY <2>1 DEF FirstSettings, SettingsFields
<1>13. SettingsShape
  <2>1. /\ ~copy["settings"].known /\ copy["settings"].stage = "idle"
    BY <1>7, UnknownCopy, PageNames
  <2>2. page = "settings" => view = SettingsView
    <3>1. view = Fresh(page)
      BY DEF Init
    <3>. QED
      BY <3>1, FreshForms
  <2>3. /\ DOMAIN SettingsView = {"value", "secret", "touched", "behind"}
        /\ SettingsView.secret \in BOOLEAN /\ SettingsView.value = Blank
    BY DEF SettingsView
  <2>4. \A i \in Call : calls[i].do # <<"save", "settings">>
    BY <1>2, <1>3
  <2>. QED
    BY <1>12, <2>1, <2>2, <2>3, <2>4 DEF SettingsShape
<1>14. AccountShape
  <2>1. page = "account" => view = AccountForm
    <3>1. view = Fresh(page)
      BY DEF Init
    <3>. QED
      BY <3>1, FreshForms
  <2>. QED
    BY <1>2, <1>3, <1>6, <2>1 DEF AccountShape, AccountForm
<1>15. TabTypeOK
  <2>1. excused = {} /\ faults \in 0..tour.faults
    BY <1>1 DEF Init
  <2>. QED
    BY <1>1, <1>2, <1>4, <1>5, <1>9, <2>1 DEF TabTypeOK, CallsOK, CopiesOK
<1>16. DOMAIN table = Lists
  BY RowsAssumption DEF Init
<1>17. JobsTypeOK
  BY DEF Init, JobsTypeOK
<1>18. TypeOK
  BY <1>5, <1>6, <1>12, <1>15, <1>16, <1>17, TypesFollow
<1>. QED
  BY <1>4, <1>11, <1>13, <1>14, <1>18 DEF Shape

\* Every step keeps the shape.
LEMMA ShapeStep == Shape /\ [Next]_vars => Shape'
<1> SUFFICES ASSUME Shape, [Next]_vars PROVE Shape'
  OBVIOUS
<1>0. /\ TypeOK /\ TabTypeOK /\ JobsTypeOK /\ DOMAIN table = Lists
      /\ admin \in BOOLEAN /\ AccountShape /\ SettingsShape
      /\ account \in AccountFields /\ settings \in SettingsFields
  BY DEF Shape, TypeOK, AccountShape, SettingsShape
<1>1. ASSUME TabTypeOK', JobsTypeOK', admin' \in BOOLEAN, DOMAIN table' = Lists,
             CallsOK', MineHere', MeShape', AccountShape', SettingsShape'
      PROVE  Shape'
  <2>1. account' \in AccountFields /\ settings' \in SettingsFields
    BY <1>1 DEF AccountShape, SettingsShape
  <2>2. TypeOK'
    BY <1>1, <2>1 DEF TypeOK, AccountFields, SettingsFields
  <2>. QED
    BY <1>1, <2>2 DEF Shape
<1>2. CASE SessionNext
  <2>1. SessionEffect
    BY <1>2, SessionEffects
  <2>2. CallsOK' /\ MineHere'
    <3>1. Restarted => MineHere'
      BY DEF Restarted, MineHere, NoCall
    <3>. QED
      BY <2>1, <3>1 DEF SessionEffect, Restarted, CallsGoOn
  <2>3. JobsTypeOK'
    BY <1>0, <2>1 DEF SessionEffect, JobsTypeOK
  <2>. QED
    BY <1>0, <1>1, <1>2, <2>1, <2>2, <2>3, MeShapeBySession, AccountShapeBySession,
       SettingsShapeBySession DEF SessionEffect
<1>3. CASE AccountNext /\ UNCHANGED <<resourceVars, activityVars, settingsVars, admin>>
  <2>1. PageEffect("account", {"me"})
    BY <1>3, AccountEffect
  <2>2. CallsOK' /\ MineHere' /\ TabTypeOK'
    BY <2>1, TabTypes DEF PageEffect, CallStep
  <2>3. SettingsShape'
    BY <1>3, <2>1, SettingsShapeByOthers DEF settingsVars
  <2>4. JobsTypeOK'
    BY <1>0, <1>3 DEF activityVars, JobsTypeOK
  <2>. QED
    BY <1>0, <1>1, <1>3, <2>2, <2>3, <2>4, MeShapeByAccount, AccountShapeByAccount
       DEF resourceVars
<1>4. CASE SettingsNext /\ UNCHANGED <<resourceVars, accountVars, activityVars, admin>>
  <2>1. PageEffect("settings", {"settings"})
    BY <1>4, SettingsEffect
  <2>2. CallsOK' /\ MineHere' /\ TabTypeOK'
    BY <2>1, TabTypes DEF PageEffect, CallStep
  <2>3. MeShape' /\ AccountShape'
    BY <1>4, <2>1, MeShapeByOthers, AccountShapeByOthers DEF accountVars
  <2>4. JobsTypeOK'
    BY <1>0, <1>4 DEF activityVars, JobsTypeOK
  <2>. QED
    BY <1>0, <1>1, <1>4, <2>2, <2>3, <2>4, SettingsShapeBySettings
       DEF resourceVars
<1>5. CASE ActivityNext /\ UNCHANGED <<resourceVars, accountVars, settingsVars, admin>>
  <2>1. PageEffect("activity", {"deliveries"})
    BY <1>5, ActivityEffect
  <2>2. CallsOK' /\ MineHere' /\ TabTypeOK'
    BY <2>1, TabTypes DEF PageEffect, CallStep
  <2>3. MeShape' /\ AccountShape' /\ SettingsShape'
    BY <1>5, <2>1, MeShapeByOthers, AccountShapeByOthers, SettingsShapeByOthers
       DEF accountVars, settingsVars
  <2>. QED
    BY <1>0, <1>1, <1>5, <2>2, <2>3, JobTypes DEF resourceVars
<1>6. CASE ResourceNext /\ UNCHANGED <<accountVars, activityVars, settingsVars, admin>>
  <2>1. PICK k \in Lists : PageEffect(k, Lists)
    BY <1>6, ResourceEffect
  <2>2. CallsOK' /\ MineHere' /\ TabTypeOK'
    BY <2>1, TabTypes DEF PageEffect, CallStep
  <2>3. k \notin {"account", "settings", "session", "none"} /\ "me" \notin Lists
        /\ "settings" \notin Lists
    BY PageNames
  <2>4. MeShape' /\ AccountShape' /\ SettingsShape'
    BY <1>6, <2>1, <2>3, MeShapeByOthers, AccountShapeByOthers,
       SettingsShapeByOthers
       DEF accountVars, settingsVars
  <2>5. JobsTypeOK' /\ DOMAIN table' = Lists
    BY <1>0, <1>6, TableTypes DEF activityVars, JobsTypeOK
  <2>. QED
    BY <1>0, <1>1, <1>6, <2>2, <2>4, <2>5
<1>7. CASE UNCHANGED vars
  <2>1. CallsOK' /\ MineHere' /\ MeShape' /\ AccountShape' /\ SettingsShape'
    BY <1>7
       DEF vars, tabVars, sessionVars, accountVars, settingsVars, Shape,
       CallsOK,
                MineHere, MeShape, AccountShape, SettingsShape
  <2>2. TabTypeOK' /\ JobsTypeOK'
    BY <1>0, <1>7
       DEF vars, tabVars, sessionVars, activityVars, TabTypeOK, JobsTypeOK
  <2>. QED
    BY <1>0, <1>1, <1>7, <2>1, <2>2 DEF vars, resourceVars
<1>. QED
  BY <1>2, <1>3, <1>4, <1>5, <1>6, <1>7 DEF Next

\* The state of the tab, of its calls and copies and of the server is in shape
\* in every reachable state, whatever tours there are.
THEOREM ShapeHolds == Spec => []Shape
<1>. QED
  BY ShapeInit, ShapeStep, PTL DEF Spec

\* Every variable of the console keeps to its type (TypeOK).
THEOREM TypesHold == Spec => []TypeOK
<1>1. Shape => TypeOK
  BY DEF Shape
<1>. QED
  BY <1>1, ShapeHolds, PTL

(***************************************************************************)
(* The token of the page                                                   *)
(***************************************************************************)
\* The first token is that of the first session.
LEMMA TokenInit == Init => TokenIsPageSession
<1> SUFFICES ASSUME Init, copy["me"].known PROVE csrf = copy["me"].value.token
  BY DEF TokenIsPageSession
<1>1. /\ csrf \in (IF InTour("login") THEN {0, cookie} ELSE {cookie})
      /\ "me" \in Query
      /\ copy["me"] = IF InTour("login") THEN Unknown ELSE Known(MeOf(cookie))
  BY PageNames DEF Init
<1>. QED
  BY <1>1, UnknownCopy, KnownCopy DEF MeOf

\* The calls of the account page write me without touching its token.
LEMMA TokenByAccount ==
    ASSUME Shape, TokenIsPageSession, AccountNext PROVE TokenIsPageSession'
<1>0. /\ CopiesOK /\ "me" \in Query /\ CopyType(copy["me"])
      /\ csrf' = csrf /\ page' = page
      /\ copy["me"].known => copy["me"].value \in MeFields
  BY PageNames, AccountEffect
     DEF Shape, TypeOK, TabTypeOK, CopiesOK, MeShape, PageEffect
<1>1. ASSUME copy' = copy \/ copy' = Behind(copy, {"me"}) PROVE TokenIsPageSession'
  <2>1. /\ copy'["me"].known = copy["me"].known /\ copy'["me"].value = copy["me"].value
    BY <1>0, <1>1, BehindCopies
  <2>. QED
    BY <1>0, <2>1 DEF TokenIsPageSession
<1>2. ASSUME NEW field \in {"name", "factor"}, NEW value, NEW now,
             WriteMe(field, value, now)
      PROVE  TokenIsPageSession'
  <2>1. CASE copy["me"].known
    <3>1. [Me EXCEPT ![field] = value].token = Me.token
      BY <1>0, <1>2, <2>1 DEF Me, MeFields
    <3>2. copy'["me"] = Written(copy["me"], [Me EXCEPT ![field] = value])
      BY <1>0, <1>2, <2>1 DEF WriteMe, CopiesOK
    <3>3. copy'["me"].value = [Me EXCEPT ![field] = value]
      BY <1>0, <3>2, WrittenCopy
    <3>. QED
      BY <1>0, <2>1, <3>1, <3>3 DEF TokenIsPageSession, Me
  <2>2. CASE ~copy["me"].known
    BY <1>1, <1>2, <2>2 DEF WriteMe
  <2>. QED
    BY <2>1, <2>2
<1>3. ASSUME NEW i \in Call, UsernameSaved(i) \/ FactorEnabled(i) \/ FactorDisabled(i)
      PROVE  TokenIsPageSession'
  BY <1>2, <1>3 DEF UsernameSaved, FactorEnabled, FactorDisabled
<1>. QED
  BY <1>1, <1>3
     DEF AccountNext, OpenCard, FillCard, CloseCard, EditAccount, ChangeUsername,
         ChangePassword, BeginFactor, EnableFactor, DisableFactor, Submit, Send,
         Dispatch, ServeUsername, ServePassword, ServeBegin, ServeEnable,
         ServeDisable, ServeAccount, PasswordSaved, FactorBegun, LoseAccountAnswer,
         OtherTabDisables

\* The gate hands over the token whenever me changes on a page inside: on a
\* login, on an answer that lands, on the way from outside.
LEMMA TokenBySession ==
    ASSUME Shape, TokenIsPageSession, SessionNext PROVE TokenIsPageSession'
<1>0. /\ CopiesOK /\ "me" \in Query /\ CopyType(copy["me"]) /\ page \in Pages
      /\ tour.pages \subseteq Pages
      /\ "login" \in Outside /\ "setup" \in Outside /\ MeShape
  BY PageNames, TabAssumption
     DEF Shape, TypeOK, TabTypeOK, CopiesOK, Outside
<1>1. CASE Restarted
  BY <1>0, <1>1, UnknownCopy DEF Restarted, TokenIsPageSession
<1>2. ASSUME csrf' = csrf, page' \notin Outside => page' = page,
             copy'["me"].known = copy["me"].known,
             copy'["me"].value = copy["me"].value
      PROVE  TokenIsPageSession'
  BY <1>2 DEF TokenIsPageSession
<1>3. ASSUME NEW p \in Pages, Effect(p, copy'), page' = Route(p, copy')
      PROVE  TokenIsPageSession'
  <2>1. page' \notin Outside => p \notin Outside
    BY <1>3, Routes
  <2>. QED
    BY <1>3, <2>1 DEF Effect, TokenIsPageSession
<1>4. ASSUME Go PROVE TokenIsPageSession'
  BY <1>0, <1>3, <1>4 DEF Go, Display
<1>5. ASSUME NEW q \in Query, LandQuery(q) PROVE TokenIsPageSession'
  BY <1>0, <1>3, <1>5 DEF LandQuery, Display
<1>6. ASSUME NEW q \in Query, AskQuery(q) PROVE TokenIsPageSession'
  <2>1. CASE q = "me"
    <3>1. copy'[q] = [copy[q] EXCEPT !.stage = "sent", !.bearer = cookie,
                          !.over = FALSE, !.failed = @ /\ copy[q].known]
      BY <1>0, <1>6 DEF AskQuery, Ask, CopiesOK
    <3>2. copy'[q].known = copy[q].known /\ copy'[q].value = copy[q].value
      BY <1>0, <2>1, <3>1 DEF CopyType
    <3>. QED
      BY <1>2, <1>6, <2>1, <3>2 DEF AskQuery, Ask, sessionVars
  <2>2. CASE q # "me"
    BY <1>0, <1>2, <1>6, <2>2 DEF AskQuery, Ask, sessionVars, CopiesOK
  <2>. QED
    BY <2>1, <2>2
<1>7. ASSUME NEW q \in Query, ReadQuery(q) PROVE TokenIsPageSession'
  BY <1>0, <1>2, <1>7, CopyRead DEF ReadQuery, ReadAs, sessionVars, HasRead
<1>8. ASSUME NEW q \in Query, RefuseQuery(q) \/ LoseQuery(q) PROVE TokenIsPageSession'
  <2>1. copy'[q] = Missed(copy[q]) /\ \A p \in Query \ {q} : copy'[p] = copy[p]
    BY <1>0, <1>8 DEF RefuseQuery, LoseQuery, MissQuery, CopiesOK
  <2>2. copy'["me"].known = copy["me"].known /\ copy'["me"].value = copy["me"].value
    BY <1>0, <2>1, MissedCopy
  <2>3. page' \notin Outside => page' = page
    BY <1>0, <1>8, Routes DEF RefuseQuery, LoseQuery, MissQuery, Display
  <2>. QED
    BY <1>2, <1>8, <2>2, <2>3 DEF RefuseQuery, LoseQuery, MissQuery, sessionVars
<1>9. ASSUME \/ FillForm \/ BackToPassword \/ SubmitSetup \/ SubmitLogin \/ Logout
             \/ SessionEnds
             \/ \E i \in Call : \/ ServeSetup(i) \/ ServeLogin(i) \/ ServeLogout(i)
                                \/ AskForCode(i) \/ Refuse(i)
      PROVE  TokenIsPageSession'
  BY <1>2, <1>9
     DEF FillForm, BackToPassword, SubmitSetup, SubmitLogin, Logout, Send, Dispatch,
         SessionEnds, ServeSetup, ServeLogin, ServeLogout, AskForCode, Refuse,
         sessionVars
<1>10. ASSUME NEW i \in Call, SetupAnswered(i) \/ LoggedOut(i)
       PROVE  TokenIsPageSession'
  BY <1>0, <1>10 DEF SetupAnswered, LoggedOut, Display, TokenIsPageSession
<1>11. ASSUME NEW i \in Call, LoggedIn(i) PROVE TokenIsPageSession'
  <2> DEFINE me == calls[i].answer
  <2>1. copy'["me"] = Written(copy["me"], me) /\ csrf' = me.token
    BY <1>0, <1>11 DEF LoggedIn, CopiesOK
  <2>2. copy'["me"].value = me
    BY <1>0, <2>1, WrittenCopy
  <2>. QED
    BY <2>1, <2>2 DEF TokenIsPageSession
<1>12. ASSUME OtherTabSetsUp \/ \E i \in Call : LoseSessionAnswer(i)
       PROVE  TokenIsPageSession'
  <2>1. copy' = Behind(copy, {"setup-status"}) /\ csrf' = csrf /\ page' = page
    BY <1>12 DEF OtherTabSetsUp, LoseSessionAnswer, Lost, sessionVars
  <2>. QED
    BY <1>0, <1>2, <2>1, BehindCopies
<1>13. ASSUME OtherTabLogsIn PROVE TokenIsPageSession'
  <2>1. copy'["me"] = [copy["me"] EXCEPT !.over =
                           @ \/ copy["me"].stage \in {"sent", "read"}]
    BY <1>0, <1>13 DEF OtherTabLogsIn, OtherSession, CopiesOK
  <2>2. copy'["me"].known = copy["me"].known /\ copy'["me"].value = copy["me"].value
    BY <1>0, <2>1 DEF CopyType
  <2>. QED
    BY <1>2, <1>13, <2>2 DEF OtherTabLogsIn
<1>14. ASSUME Reload \/ PocketIDLogin PROVE TokenIsPageSession'
  <2>1. copy'["me"] = Unknown
    BY <1>0, <1>14 DEF Reload, PocketIDLogin, StartOver
  <2>. QED
    BY <2>1, UnknownCopy DEF TokenIsPageSession
<1>. QED
  BY <1>4, <1>5, <1>6, <1>7, <1>8, <1>9, <1>10, <1>11, <1>12, <1>13, <1>14
     DEF SessionNext

\* Every step keeps the token that of me.
LEMMA TokenStep ==
    ASSUME Shape, TokenIsPageSession, [Next]_vars PROVE TokenIsPageSession'
<1>1. ASSUME NEW m, NEW qs, PageEffect(m, qs), "me" \notin qs
      PROVE  TokenIsPageSession'
  BY <1>1, PageNames DEF PageEffect, TokenIsPageSession
<1>2. CASE UNCHANGED vars
  BY <1>2 DEF vars, tabVars, sessionVars, TokenIsPageSession
<1>. QED
  BY <1>1, <1>2, TokenBySession, TokenByAccount, ActivityEffect, ResourceEffect,
     SettingsEffect, PageNames
     DEF Next

\* On every page inside the gate the token the tab sends is that of the session
\* its copy of me describes (auth.tsx, lib/api.ts), through logins, logouts,
\* reloads and late answers.
THEOREM TokenHolds == Spec => []TokenIsPageSession
<1>1. Shape /\ TokenIsPageSession /\ [Next]_vars => TokenIsPageSession'
  BY TokenStep
<1>. QED
  BY <1>1, TokenInit, ShapeHolds, PTL DEF Spec

(***************************************************************************)
(* The calls of a page                                                     *)
(***************************************************************************)
\* The calls of a kind that are under way.
Live(do) == {i \in Call : calls[i].do = do}
\* Those of them the server has served, and whose answer has not come.
Applied(do) == {i \in Live(do) : calls[i].stage = "served"}
\* The call that saves the settings.
SettingsSave == <<"save", "settings">>

\* The copy of the settings, and a fetch of it that nobody overtook, are what is
\* in force, unless a save has been served and not answered.
SettingsCopy ==
    Applied(SettingsSave) = {} =>
        /\ copy["settings"].known /\ "settings" \notin excused
               => copy["settings"].value = settings
        /\ copy["settings"].stage = "read" /\ ~copy["settings"].over
               => copy["settings"].got = settings

\* A form that is not behind stands for what is in force: nothing is under way
\* but its own save, at most one, and it answers with what is in force.
SettingsForm ==
    (page = "settings" /\ view.value # Blank /\ ~view.behind) =>
        /\ \A i \in Live(SettingsSave) : calls[i].mine
        /\ \A i, j \in Live(SettingsSave) : i = j
        /\ \A i \in Applied(SettingsSave) : calls[i].answer = settings
        /\ Applied(SettingsSave) = {} /\ ~view.touched => view.value = settings

\* What is inductive about the settings, given Shape.
SettingsInv == SettingsCopy /\ SettingsForm

\* The calls of a page, through a step of another page.
LEMMA OthersLive ==
    ASSUME NEW m, OnlyCallsOf(m), NEW act, NEW n, n \notin {"none", m}
    PROVE  /\ Live(<<act, n>>)' = Live(<<act, n>>)
           /\ Applied(<<act, n>>)' = Applied(<<act, n>>)
           /\ \A i \in Live(<<act, n>>) : calls'[i] = calls[i]
BY OthersCalls DEF Live, Applied, PageOf

\* The calls of a page, through a step of the session: some are refused, or lose
\* their page.
LEMMA SessionLive ==
    ASSUME CallsOK, CallsGoOn, NEW act, NEW n, n \notin {"none", "session"}
    PROVE  /\ Live(<<act, n>>)' \subseteq Live(<<act, n>>)
           /\ Applied(<<act, n>>)' = Applied(<<act, n>>)
           /\ \A i \in Live(<<act, n>>)' :
                  /\ calls'[i].arg = calls[i].arg
                  /\ calls'[i].stage = calls[i].stage
                  /\ calls'[i].answer = calls[i].answer
                  /\ calls'[i].mine = calls[i].mine \/ (Left /\ ~calls'[i].mine)
<1> DEFINE do == <<act, n>>
<1>1. ASSUME NEW i \in Live(do)'
      PROVE  /\ i \in Live(do)
             /\ calls'[i].arg = calls[i].arg /\ calls'[i].stage = calls[i].stage
             /\ calls'[i].answer = calls[i].answer
             /\ calls'[i].mine = calls[i].mine \/ (Left /\ ~calls'[i].mine)
  <2>1. i \in Call /\ PageOf(calls'[i]) = n /\ calls'[i].do = do
    BY <1>1 DEF Live, PageOf
  <2>. HIDE DEF do
  <2>. QED
    BY <2>1, PageCalls DEF Live
<1>2. ASSUME NEW i \in Applied(do) PROVE i \in Applied(do)'
  <2>1. i \in Call /\ PageOf(calls[i]) = n /\ calls[i].do = do
        /\ calls[i].stage = "served"
    BY <1>2 DEF Live, Applied, PageOf
  <2>. HIDE DEF do
  <2>. QED
    BY <2>1, PageCalls DEF Live, Applied
<1>3. Applied(do)' \subseteq Applied(do)
  BY <1>1 DEF Applied
<1>. QED
  BY <1>1, <1>2, <1>3

\* The calls of a kind when a call is sent.
LEMMA SentLive ==
    ASSUME CallsOK, tour \in Tours, csrf \in Token, cookie \in Token,
           NEW do, NEW arg, Dispatch(do, arg), NEW kind, kind[1] # "none"
    PROVE  /\ Live(kind)' = IF do = kind THEN Live(kind) \cup {sent + 1} ELSE Live(kind)
           /\ sent + 1 \in Call /\ sent + 1 \notin Live(kind)
           /\ Applied(kind)' = Applied(kind)
           /\ \A i \in Live(kind) : calls'[i] = calls[i]
           /\ do = kind => calls'[sent + 1] = Request(do, arg)
<1>1. /\ sent + 1 \in Call /\ calls[sent + 1].stage = "idle"
      /\ calls'[sent + 1] = Request(do, arg)
      /\ \A j \in Call \ {sent + 1} : calls'[j] = calls[j]
  BY CallSent
<1>2. calls[sent + 1].do # kind
  BY <1>1 DEF CallsOK
<1>3. calls'[sent + 1].do = do /\ calls'[sent + 1].stage = "sent"
  BY <1>1 DEF Request
<1>. QED
  BY <1>1, <1>2, <1>3 DEF Live, Applied

\* The calls of a kind when a call is served.
LEMMA ServedLive ==
    ASSUME CallsOK, NEW i \in Call, calls[i].stage = "sent", NEW v,
           Served(i, v), sent' = sent, NEW kind
    PROVE  /\ Live(kind)' = Live(kind)
           /\ calls[i].do # kind => Applied(kind)' = Applied(kind)
           /\ calls[i].do = kind => Applied(kind)' = Applied(kind) \cup {i}
           /\ i \notin Applied(kind)
           /\ \A j \in Call : /\ calls'[j].arg = calls[j].arg
                              /\ calls'[j].mine = calls[j].mine
                              /\ calls'[j].do = calls[j].do
           /\ \A j \in Call \ {i} : calls'[j] = calls[j]
           /\ calls'[i].answer = v /\ calls'[i].stage = "served"
BY CallServed DEF Live, Applied

\* The calls of a kind when a call is done.
LEMMA DoneLive ==
    ASSUME CallsOK, NEW i \in Call, Done(i), sent' = sent, NEW kind, kind[1] # "none"
    PROVE  /\ Live(kind)' = Live(kind) \ {i}
           /\ Applied(kind)' = Applied(kind) \ {i}
           /\ \A j \in Call \ {i} : calls'[j] = calls[j]
<1>1. NoCall.do[1] = "none"
  BY DEF NoCall
<1>. QED
  BY <1>1, CallDone DEF Live, Applied

\* Nothing is under way when the tab has started over.
LEMMA NoneLive ==
    ASSUME Restarted, NEW act, NEW n, n # "none"
    PROVE  Live(<<act, n>>)' = {} /\ Applied(<<act, n>>)' = {}
BY DEF Restarted, Live, Applied, NoCall

(***************************************************************************)
(* The settings page                                                       *)
(***************************************************************************)
\* The invariant holds at first: the form is not there yet.
LEMMA SettingsInvInit == Init => SettingsInv
<1> SUFFICES ASSUME Init PROVE SettingsInv
  OBVIOUS
<1>1. Shape /\ view = Fresh(page) /\ \A i \in Call : calls[i] = NoCall
  BY ShapeInit DEF Init
<1>2. page = "settings" => view.value = Blank
  BY <1>1, FreshForms DEF SettingsView
<1>3. ~copy["settings"].known /\ copy["settings"].stage = "idle"
  <2>1. copy["settings"] = Unknown
    BY PageNames DEF Init
  <2>. QED
    BY <2>1, UnknownCopy
<1>. QED
  BY <1>2, <1>3 DEF SettingsInv, SettingsCopy, SettingsForm

\* It survives a step of another page.
LEMMA SettingsInvByOthers ==
    ASSUME SettingsInv, NEW m, NEW qs, PageEffect(m, qs), m # "settings",
           "settings" \notin qs, settings' = settings
    PROVE  SettingsInv'
<1>1. /\ copy'["settings"] = copy["settings"] /\ OnlyCallsOf(m) /\ page' = page
      /\ page = "settings" => view' = view
      /\ "settings" \in excused' <=> "settings" \in excused
  BY PageNames DEF PageEffect, CallStep
<1>2. /\ Live(SettingsSave)' = Live(SettingsSave)
      /\ Applied(SettingsSave)' = Applied(SettingsSave)
      /\ \A i \in Live(SettingsSave) : calls'[i] = calls[i]
  BY <1>1, OthersLive DEF SettingsSave
<1>. QED
  BY <1>1, <1>2 DEF SettingsInv, SettingsCopy, SettingsForm, Applied

\* It survives a step of the session, which takes the form away or leaves it.
LEMMA SettingsInvBySession ==
    ASSUME Shape, SettingsInv, SessionNext PROVE SettingsInv'
<1>0. CallsOK /\ SessionEffect /\ settings' = settings
  BY SessionEffects DEF Shape, SessionEffect
<1>1. page' = "settings" /\ view' = Fresh(page') => view'.value = Blank
  BY FreshForms DEF SettingsView
<1>2. CASE Restarted
  <2>1. ~copy'["settings"].known /\ copy'["settings"].stage = "idle"
    BY <1>2, PageNames, UnknownCopy DEF Restarted
  <2>. QED
    BY <1>1, <1>2, <2>1 DEF Restarted, SettingsInv, SettingsCopy, SettingsForm
<1>3. CASE CallsGoOn /\ CopiesGoOn
  <2>1. /\ Live(SettingsSave)' \subseteq Live(SettingsSave)
        /\ Applied(SettingsSave)' = Applied(SettingsSave)
        /\ \A i \in Live(SettingsSave)' :
               /\ calls'[i].answer = calls[i].answer
               /\ calls'[i].mine = calls[i].mine \/ Left
    BY <1>0, <1>3, SessionLive DEF SettingsSave
  <2>2. QueryStep("settings")
    BY <1>3, PageNames DEF CopiesGoOn, SessionWrites
  <2>3. SettingsCopy'
    BY <1>0, <2>1, <2>2, Truths
       DEF QueryStep, Stays, Asked, HasRead, HasLanded, HasMissed, SettingsInv,
           SettingsCopy
  <2>4. SettingsForm'
    <3>1. CASE Left
      BY <1>1, <3>1 DEF Left, SettingsForm
    <3>2. CASE page' = page /\ view' = view /\ ~Left
      <4>1. Applied(SettingsSave)' \subseteq Live(SettingsSave)'
        BY DEF Applied
      <4>. QED
        BY <1>0, <2>1, <3>2, <4>1 DEF SettingsForm, SettingsInv
    <3>3. CASE page' \in Outside
      BY <3>3 DEF Outside, SettingsForm
    <3>. QED
      BY <1>3, <3>1, <3>2, <3>3 DEF CallsGoOn
  <2>. QED
    BY <2>3, <2>4 DEF SettingsInv
<1>. QED
  BY <1>0, <1>2, <1>3 DEF SessionEffect

\* It survives a step of the settings page.
LEMMA SettingsInvBySettings ==
    ASSUME Shape, SettingsInv, SettingsNext PROVE SettingsInv'
<1>0. /\ SettingsShape /\ CallsOK /\ CopiesOK /\ MineHere /\ TabTypeOK
      /\ SettingsCopy /\ SettingsForm /\ SettingsSave[1] # "none"
      /\ "settings" \in Query /\ CopyType(copy["settings"])
      /\ csrf \in Token /\ cookie \in Token /\ tour \in Tours
  BY PageNames
     DEF Shape, TypeOK, TabTypeOK, CopiesOK, SettingsInv, SettingsSave
<1>1. ASSUME UNCHANGED <<copy, calls, excused, settings>> PROVE SettingsCopy'
  BY <1>0, <1>1 DEF SettingsCopy, Live, Applied
<1>2. ASSUME MountForm PROVE SettingsInv'
  <2> DEFINE b == \/ "settings" \in excused \/ SavesUnderWay({})
                  \/ copy["settings"].stage # "idle"
  <2>1. /\ copy["settings"].known
        /\ view' = [SettingsView EXCEPT !.value = copy["settings"].value,
                                        !.behind = b]
        /\ UNCHANGED <<copy, calls, excused, settings>>
    BY <1>2 DEF MountForm, Show
  <2>2. /\ view'.value = copy["settings"].value
        /\ view'.behind = b
    <3>. HIDE DEF b
    <3>. QED
      BY <2>1 DEF SettingsView
  <2>3. ~b => Live(SettingsSave) = {} /\ "settings" \notin excused
    <3>1. \A i \in Live(SettingsSave) : calls[i].stage # "idle"
      BY <1>0 DEF Live, CallsOK, SettingsSave
    <3>. QED
      BY <3>1 DEF SavesUnderWay, Live, SettingsSave
  <2>. HIDE DEF b
  <2>4. SettingsForm'
    BY <1>0, <2>1, <2>2, <2>3 DEF SettingsForm, SettingsCopy, Live, Applied
  <2>. QED
    BY <1>1, <2>1, <2>4 DEF SettingsInv
<1>3. ASSUME EditSettings \/ TypeSecret PROVE SettingsInv'
  <2>1. PICK v, s : EditField(v, s)
    BY <1>3 DEF EditSettings, TypeSecret
  <2>2. /\ page = "settings" /\ view.value # Blank /\ view'.touched
        /\ view'.behind = view.behind
        /\ UNCHANGED <<copy, calls, excused, settings>>
    BY <1>0, <2>1 DEF EditField, Show, SettingsShape
  <2>3. SettingsForm'
    BY <1>0, <2>2 DEF SettingsForm, Live, Applied
  <2>. QED
    BY <1>1, <2>2, <2>3 DEF SettingsInv
<1>4. ASSUME SaveSettings PROVE SettingsInv'
  <2> DEFINE arg == [value |-> view.value, secret |-> view.secret]
  <2>1. /\ Dispatch(SettingsSave, arg)
        /\ UNCHANGED <<page, view, copy, excused, settings>>
        /\ ~Pending(SettingsSave)
    BY <1>4 DEF SaveSettings, Send, Dispatch, SettingsSave
  <2>. HIDE DEF arg
  <2>2. /\ Live(SettingsSave)' = Live(SettingsSave) \cup {sent + 1}
        /\ Applied(SettingsSave)' = Applied(SettingsSave)
        /\ \A i \in Live(SettingsSave) : calls'[i] = calls[i]
        /\ calls'[sent + 1] = Request(SettingsSave, arg)
    BY <1>0, <2>1, SentLive
  <2>3. calls'[sent + 1].mine
    BY <2>2 DEF Request
  <2>4. (\A i \in Live(SettingsSave) : calls[i].mine) => Live(SettingsSave) = {}
    BY <1>0, <2>1 DEF Pending, Live, CallsOK, SettingsSave
  <2>5. SettingsCopy'
    BY <1>0, <2>1, <2>2 DEF SettingsCopy
  <2>6. SettingsForm'
    BY <1>0, <2>1, <2>2, <2>3, <2>4 DEF SettingsForm, Applied
  <2>. QED
    BY <2>5, <2>6 DEF SettingsInv
<1>5. ASSUME NEW i \in Call, ServeSettings(i) PROVE SettingsInv'
  <2>1. /\ calls[i].stage = "sent" /\ calls[i].do = SettingsSave
        /\ Served(i, settings') /\ sent' = sent
        /\ UNCHANGED <<page, view, copy, excused>>
    BY <1>5 DEF ServeSettings, Accepted, SettingsSave
  <2>2. /\ Live(SettingsSave)' = Live(SettingsSave)
        /\ Applied(SettingsSave)' = Applied(SettingsSave) \cup {i}
        /\ i \in Live(SettingsSave)
        /\ \A j \in Call : calls'[j].mine = calls[j].mine
        /\ calls'[i].answer = settings'
    <3>1. PICK w : w = settings'
      OBVIOUS
    <3>2. Served(i, w)
      BY <2>1, <3>1
    <3>3. /\ CallsOK /\ calls[i].stage = "sent" /\ sent' = sent
          /\ calls[i].do = SettingsSave
      BY <1>0, <2>1
    <3>4. /\ Live(SettingsSave)' = Live(SettingsSave)
          /\ Applied(SettingsSave)' = Applied(SettingsSave) \cup {i}
          /\ \A j \in Call : calls'[j].mine = calls[j].mine
          /\ calls'[i].answer = w
      BY <3>2, <3>3, ServedLive
    <3>. QED
      BY <3>1, <3>3, <3>4 DEF Live
  <2>3. Applied(SettingsSave) \subseteq Live(SettingsSave)
        /\ Live(SettingsSave) \subseteq Call
    BY DEF Applied, Live
  <2>4. SettingsForm'
    BY <1>0, <2>1, <2>2, <2>3 DEF SettingsForm
  <2>5. SettingsCopy'
    BY <2>2 DEF SettingsCopy
  <2>. QED
    BY <2>4, <2>5 DEF SettingsInv
<1>7. ASSUME NEW i \in Call, SettingsSaved(i) PROVE SettingsInv'
  <2> DEFINE value == calls[i].answer
             b == value # settings \/ SavesUnderWay({i})
  <2>1. /\ calls[i].stage = "served" /\ calls[i].do = SettingsSave
        /\ Done(i) /\ sent' = sent /\ page' = page /\ settings' = settings
        /\ copy' = [copy EXCEPT !["settings"] = Written(@, value)]
        /\ excused' = IF value # settings THEN excused \cup {"settings"} ELSE excused
        /\ view' = IF calls[i].mine
                   THEN [SettingsView EXCEPT !.value = value, !.behind = b]
                   ELSE view
    BY <1>7 DEF SettingsSaved, Answered, SettingsSave
  <2>2. /\ Live(SettingsSave)' = Live(SettingsSave) \ {i}
        /\ Applied(SettingsSave)' = Applied(SettingsSave) \ {i}
        /\ i \in Live(SettingsSave)
        /\ \A j \in Call \ {i} : calls'[j] = calls[j]
    BY <1>0, <2>1, DoneLive DEF Live
  <2>3. copy'["settings"] = Written(copy["settings"], value)
    BY <1>0, <2>1 DEF CopiesOK
  <2>4. /\ copy'["settings"].value = value
        /\ copy'["settings"].stage = "read" => copy'["settings"].over
    BY <1>0, <2>3, WrittenCopy
  <2>5. SettingsCopy'
    BY <2>1, <2>4 DEF SettingsCopy
  <2>6. ~b => Live(SettingsSave) = {i}
    <3>1. \A j \in Live(SettingsSave) : calls[j].stage # "idle"
      BY <1>0 DEF Live, CallsOK, SettingsSave
    <3>. QED
      BY <2>2, <3>1 DEF SavesUnderWay, Live, SettingsSave
  <2>7. CASE calls[i].mine
    <3>1. view'.value = value /\ view'.behind = b
      <4>. HIDE DEF b, value
      <4>. QED
        BY <2>1, <2>7 DEF SettingsView
    <3>2. ~b => value = settings
      OBVIOUS
    <3>. HIDE DEF b, value
    <3>3. SettingsForm'
      BY <2>1, <2>2, <2>6, <3>1, <3>2 DEF SettingsForm, Applied
    <3>. QED
      BY <2>5, <3>3 DEF SettingsInv
  <2>8. CASE ~calls[i].mine
    <3>1. SettingsForm'
      BY <1>0, <2>1, <2>2, <2>8 DEF SettingsForm
    <3>. QED
      BY <2>5, <3>1 DEF SettingsInv
  <2>. QED
    BY <2>7, <2>8
<1>8. ASSUME view' = FormBehind, copy' = Behind(copy, {"settings"}), page' = page,
             excused' = excused \cup {"settings"}
      PROVE  SettingsInv'
  <2>1. page = "settings" => view'.behind
    BY <1>0, <1>8 DEF FormBehind, SettingsShape
  <2>2. copy'["settings"].stage = "read" => copy'["settings"].over
    BY <1>0, <1>8, BehindCopies
  <2>. QED
    BY <1>8, <2>1, <2>2 DEF SettingsInv, SettingsCopy, SettingsForm
<1>9. ASSUME NEW i \in Call, LoseSettingsAnswer(i) PROVE SettingsInv'
  BY <1>8, <1>9 DEF LoseSettingsAnswer, Lost
<1>10. ASSUME OtherTabSaves PROVE SettingsInv'
  BY <1>8, <1>10 DEF OtherTabSaves
<1>. QED
  BY <1>2, <1>3, <1>4, <1>5, <1>7, <1>9, <1>10 DEF SettingsNext

\* It survives every step.
LEMMA SettingsInvStep ==
    ASSUME Shape, SettingsInv, [Next]_vars PROVE SettingsInv'
<1>1. CASE UNCHANGED vars
  BY <1>1 DEF vars, tabVars, settingsVars, SettingsInv, SettingsCopy, SettingsForm,
              Live, Applied
<1>2. CASE AccountNext /\ UNCHANGED <<resourceVars, activityVars, settingsVars, admin>>
  BY <1>2, AccountEffect, SettingsInvByOthers DEF settingsVars
<1>3. CASE ActivityNext /\ UNCHANGED <<resourceVars, accountVars, settingsVars, admin>>
  BY <1>3, ActivityEffect, SettingsInvByOthers DEF settingsVars
<1>4. CASE ResourceNext /\ UNCHANGED <<accountVars, activityVars, settingsVars, admin>>
  BY <1>4, ResourceEffect, SettingsInvByOthers, PageNames DEF settingsVars
<1>. QED
  BY <1>1, <1>2, <1>3, <1>4, SettingsInvBySession, SettingsInvBySettings DEF Next

\* It holds in every reachable state.
LEMMA SettingsInvHolds == Spec => []SettingsInv
<1>1. Shape /\ SettingsInv /\ [Next]_vars => SettingsInv'
  BY SettingsInvStep
<1>. QED
  BY <1>1, SettingsInvInit, ShapeHolds, PTL DEF Spec

\* Once nothing is under way, a form of the settings page nobody has typed in
\* shows what is in force, unless it knows better (settings.tsx: the form takes
\* the answer of its own save).
THEOREM FormHolds == Spec => []UntouchedFormIsCurrent
<1>1. Shape /\ SettingsInv => UntouchedFormIsCurrent
  <2> SUFFICES ASSUME Shape, SettingsInv PROVE UntouchedFormIsCurrent
    OBVIOUS
  <2>1. Quiet => Applied(SettingsSave) = {}
    BY DEF Quiet, Applied, Live
  <2>. QED
    BY <2>1 DEF SettingsInv, SettingsForm, UntouchedFormIsCurrent
<1>. QED
  BY <1>1, ShapeHolds, SettingsInvHolds, PTL

(***************************************************************************)
(* What a write on the server leaves of the rows                           *)
(***************************************************************************)
\* A deletion: it only takes rows away, but for groups, and leaves lists that do
\* not depend on the row alone.
LEMMA RemainingRows ==
    ASSUME DOMAIN table = Lists, NEW k \in Lists, NEW id, NEW l \in Lists
    PROVE  /\ l # "groups" => Remaining(k, id)[l] \subseteq table[l]
           /\ l \notin {k} \cup Dependents(k) => Remaining(k, id)[l] = table[l]
           /\ DOMAIN Remaining(k, id) = Lists
<1> DEFINE gone(m) == IF m = k THEN {id} ELSE {}
           bound == {IF g.channel \in gone("channels")
                        \/ g.template \in gone("templates")
                     THEN [g EXCEPT !.channel = 0, !.template = 0] ELSE g
                     : g \in {h \in (IF k = "groups" THEN {r \in table["groups"] : r.id # id}
                                     ELSE table["groups"]) : h.id \notin gone("groups")}}
<1>1. /\ "groups" \in Lists /\ "rules" \in Lists /\ "schedules" \in Lists
      /\ {"channels", "templates", "sources"} \subseteq Lists
      /\ l \in {"channels", "templates", "groups", "sources", "rules", "schedules"}
  BY DEF Lists
<1>2. Remaining(k, id)["groups"] = bound
  BY <1>1 DEF Remaining
<1>3. Remaining(k, id)["rules"] =
        {r \in (IF k = "rules" THEN {s \in table["rules"] : s.id # id} ELSE table["rules"]) :
             /\ r.id \notin gone("rules") /\ r.source \notin gone("sources")
             /\ r.group \notin gone("groups")}
  BY <1>1 DEF Remaining
<1>4. Remaining(k, id)["schedules"] =
        {r \in (IF k = "schedules" THEN {s \in table["schedules"] : s.id # id}
                ELSE table["schedules"]) :
             /\ r.id \notin gone("schedules") /\ r.group \notin gone("groups")}
  BY <1>1 DEF Remaining
<1>5. \A m \in {"channels", "templates", "sources"} :
        Remaining(k, id)[m] = IF m = k THEN {r \in table[m] : r.id # id} ELSE table[m]
  BY <1>1 DEF Remaining
<1>6. DOMAIN Remaining(k, id) = Lists
  BY DEF Remaining
<1>7. l # "groups" => Remaining(k, id)[l] \subseteq table[l]
  BY <1>1, <1>3, <1>4, <1>5
<1>8. ASSUME l \notin {k} \cup Dependents(k) PROVE Remaining(k, id)[l] = table[l]
  <2>1. CASE l = "groups"
    <3>1. k \notin {"channels", "templates", "groups"}
      BY <1>8, <2>1 DEF Dependents
    <3>2. bound = {g : g \in {h \in table["groups"] : TRUE}}
      BY <3>1
    <3>. QED
      BY <1>2, <2>1, <3>2
  <2>2. CASE l = "rules"
    <3>1. k \notin {"rules", "sources", "groups"}
      BY <1>8, <2>2 DEF Dependents
    <3>. QED
      BY <1>3, <2>2, <3>1
  <2>3. CASE l = "schedules"
    <3>1. k \notin {"schedules", "groups"}
      BY <1>8, <2>3 DEF Dependents
    <3>. QED
      BY <1>4, <2>3, <3>1
  <2>. QED
    BY <1>1, <1>5, <1>8, <2>1, <2>2, <2>3
<1>. QED
  BY <1>6, <1>7, <1>8



\* A rotation changes the token of one source and no other list.
LEMMA TokenedRows ==
    ASSUME DOMAIN table = Lists, NEW id, NEW token
    PROVE  /\ DOMAIN Tokened(id, token) = Lists
           /\ \A l \in Lists \ {"sources"} : Tokened(id, token)[l] = table[l]
           /\ Tokened(id, token)["sources"] =
                {IF r.id = id THEN [r EXCEPT !.token = token] ELSE r : r \in table["sources"]}
<1>1. "sources" \in Lists
  BY DEF Lists
<1>. QED
  BY <1>1 DEF Tokened



(***************************************************************************)
(* The copies                                                              *)
(***************************************************************************)
\* The writes of a list that the server has served and nobody has answered.
Writes(k) == Applied(<<"save", k>>) \cup Applied(<<"remove", k>>)

\* The copy of a list at rest, and a fetch of it that nobody overtook, are what
\* the server holds, unless a write of it has been served and not answered.
ListCopy(k) ==
    Writes(k) = {} =>
        /\ copy[k].known /\ copy[k].stage = "idle" /\ k \notin excused
               => copy[k].value = table[k]
        /\ copy[k].stage = "read" /\ ~copy[k].over => copy[k].got = table[k]

\* Nothing happens to the list k.
ListStays(k) ==
    /\ table'[k] = table[k] /\ copy'[k] = copy[k] /\ (k \in excused => k \in excused')
    /\ Writes(k)' = {} => Writes(k) = {}

\* The copy of k is behind, and known to be.
ListBehind(k) ==
    /\ k \in excused' \/ copy'[k].stage # "idle"
    /\ copy'[k].stage = "read" => copy'[k].over

ListStep(k) == ListStays(k) \/ ListBehind(k) \/ Writes(k)' # {}

\* The invariant survives these steps.
LEMMA ListKept ==
    ASSUME NEW k, ListCopy(k), ListStep(k) PROVE ListCopy(k)'
BY DEF ListCopy, ListStep, ListStays, ListBehind

\* It survives a step of another page.
LEMMA ListByOthers ==
    ASSUME NEW m, NEW qs, PageEffect(m, qs), NEW k \in Lists, k # m, k \notin qs,
           ListCopy(k), table' = table
    PROVE  ListCopy(k)'
<1>1. copy'[k] = copy[k] /\ OnlyCallsOf(m) /\ (k \in excused' <=> k \in excused)
  BY PageNames DEF PageEffect, CallStep
<1>2. Writes(k)' = Writes(k)
  BY <1>1, OthersLive, PageNames DEF Writes
<1>. QED
  BY <1>1, <1>2, ListKept DEF ListStep, ListStays

\* It survives a step of the session, which fetches the copy.
LEMMA ListBySession ==
    ASSUME Shape, SessionNext, NEW k \in Lists, ListCopy(k) PROVE ListCopy(k)'
<1>0. /\ CallsOK /\ SessionEffect /\ k \in Query /\ k \notin {"me", "setup-status"}
      /\ k \notin {"none", "session"} /\ table' = table
  BY SessionEffects, PageNames DEF Shape, SessionEffect
<1>1. CASE Restarted
  BY <1>0, <1>1, UnknownCopy DEF Restarted, ListCopy
<1>2. CASE CallsGoOn /\ CopiesGoOn
  <2>1. QueryStep(k) /\ Truth(k, copy[k].bearer) = table[k]
    BY <1>0, <1>2, Truths DEF CopiesGoOn, SessionWrites
  <2>2. Writes(k)' = Writes(k)
    BY <1>0, <1>2, SessionLive DEF Writes
  <2>. QED
    BY <1>0, <2>1, <2>2
       DEF ListCopy, QueryStep, Stays, Asked, HasRead, HasLanded, HasMissed
<1>. QED
  BY <1>0, <1>1, <1>2 DEF SessionEffect

\* It survives a step of the resource pages: a write served awaits its answer,
\* the answer invalidates the list, and a deletion excuses the lists that depend
\* on it.
LEMMA ListByResource ==
    ASSUME Shape, ResourceNext, NEW k \in Lists, ListCopy(k) PROVE ListCopy(k)'
<1> SUFFICES ListStep(k)
  BY ListKept
<1>0. /\ CallsOK /\ CopiesOK /\ k \in Query /\ DOMAIN table = Lists
      /\ tour \in Tours /\ csrf \in Token /\ cookie \in Token
      /\ <<"save", k>>[1] # "none" /\ <<"remove", k>>[1] # "none"
  BY PageNames DEF Shape, TypeOK, TabTypeOK, CopiesOK
<1>1. ASSUME UNCHANGED <<table, copy, calls, excused>> PROVE ListStep(k)
  BY <1>1 DEF ListStep, ListStays, Writes, Live, Applied
<1>2. ASSUME NEW do, NEW arg, Send(do, arg), UNCHANGED table PROVE ListStep(k)
  <2>1. Writes(k)' = Writes(k)
    BY <1>0, <1>2, SentLive DEF Send, Writes
  <2>. QED
    BY <1>2, <2>1 DEF Send, Dispatch, ListStep, ListStays
<1>3. ASSUME NEW p, NEW form, Edit(p, form) PROVE ListStep(k)
  BY <1>1, <1>3 DEF Edit, resourceVars
<1>4. CASE \/ ChannelDialog \/ TemplateDialog \/ GroupDialog \/ SourceDialog
           \/ RuleDialog \/ ScheduleDialog
  BY <1>3, <1>4
     DEF ChannelDialog, TemplateDialog, GroupDialog, SourceDialog, RuleDialog,
         ScheduleDialog, OpenSourceDialog, OpenDialog, CloseDialog, TypeName
<1>5. CASE \/ SaveChannel \/ TestChannel \/ SaveTemplate \/ PreviewTemplate
           \/ SaveGroup \/ SaveSource \/ SaveRule \/ SaveSchedule
  BY <1>2, <1>5
     DEF SaveChannel, TestChannel, SaveTemplate, PreviewTemplate, SaveGroup,
         SaveSource, SaveRule, SaveSchedule, Save, Press, resourceVars
<1>6. CASE \/ RemoveChannel \/ RemoveTemplate \/ RemoveGroup \/ RemoveSource
           \/ RemoveRule \/ RemoveSchedule \/ RotateToken
  BY <1>2, <1>6
     DEF RemoveChannel, RemoveTemplate, RemoveGroup, RemoveSource, RemoveRule,
         RemoveSchedule, RotateToken, RemoveRow
<1>7. CASE CopyCredentials
  <2>1. UNCHANGED <<table, copy, calls, excused>>
    BY <1>7 DEF CopyCredentials, tabVars
  <2>. QED
    BY <1>1, <2>1
<1>8. ASSUME NEW i \in Call, calls[i].stage = "sent", NEW v, Served(i, v), sent' = sent
      PROVE  /\ Writes(k) \subseteq Writes(k)'
             /\ calls[i].do \in {<<"save", k>>, <<"remove", k>>} => i \in Writes(k)'
  <2>1. \A do : Applied(do)' = IF calls[i].do = do THEN Applied(do) \cup {i} ELSE Applied(do)
    BY <1>0, <1>8, ServedLive
  <2>. QED
    BY <2>1 DEF Writes
<1>9. ASSUME NEW i \in Call, NEW l \in Lists, ServeSave(i, l) PROVE ListStep(k)
  <2>1. /\ Writes(k) \subseteq Writes(k)' /\ (l = k => Writes(k)' # {})
        /\ UNCHANGED <<copy, excused>>
    BY <1>8, <1>9 DEF ServeSave, Accepted, Kept
  <2>2. l # k => table'[k] = table[k]
    BY <1>0, <1>9 DEF ServeSave
  <2>. QED
    BY <2>1, <2>2 DEF ListStep, ListStays
<1>10. ASSUME NEW qs, k \notin qs, copy' = Behind(copy, qs), excused' = excused \cup qs,
              table'[k] = table[k], Writes(k)' = {} => Writes(k) = {}
       PROVE  ListStep(k)
  BY <1>0, <1>10, BehindCopies DEF ListStep, ListStays
<1>11. ASSUME NEW qs, k \in qs, copy' = Behind(copy, qs), excused' = excused \cup qs
       PROVE  ListStep(k)
  BY <1>0, <1>11, BehindCopies DEF ListStep, ListBehind
<1>12. ASSUME NEW i \in Call, NEW l \in Lists, ServeRemove(i, l) PROVE ListStep(k)
  <2>1. /\ Writes(k) \subseteq Writes(k)' /\ (l = k => Writes(k)' # {})
        /\ copy' = Behind(copy, Dependents(l)) /\ excused' = excused \cup Dependents(l)
    BY <1>8, <1>12 DEF ServeRemove, Accepted, Kept
  <2>2. k \notin {l} \cup Dependents(l) => table'[k] = table[k]
    BY <1>0, <1>12, RemainingRows DEF ServeRemove
  <2>3. CASE l = k
    BY <2>1, <2>3 DEF ListStep
  <2>. QED
    BY <1>10, <1>11, <2>1, <2>2, <2>3
<1>13. ASSUME NEW i \in Call, ServeRotate(i) PROVE ListStep(k)
  <2>1. /\ Writes(k) \subseteq Writes(k)'
        /\ copy' = Behind(copy, {"sources"}) /\ excused' = excused \cup {"sources"}
    BY <1>8, <1>13 DEF ServeRotate, Accepted, Kept
  <2>2. k # "sources" => table'[k] = table[k]
    BY <1>0, <1>13, TokenedRows DEF ServeRotate
  <2>. QED
    BY <1>10, <1>11, <2>1, <2>2
<1>14. ASSUME NEW i \in Call, ServeTrial(i) PROVE ListStep(k)
  <2>1. Writes(k) \subseteq Writes(k)'
    BY <1>8, <1>14 DEF ServeTrial, Accepted, Kept
  <2>. QED
    BY <1>14, <2>1 DEF ServeTrial, ListStep, ListStays
<1>15. ASSUME NEW i \in Call, Done(i), sent' = sent,
              calls[i].do \notin {<<"save", k>>, <<"remove", k>>}
       PROVE  Writes(k)' = Writes(k)
  <2>1. \A do : do[1] # "none" => Applied(do)' = Applied(do) \ {i}
    BY <1>0, <1>15, DoneLive
  <2>2. i \notin Writes(k)
    BY <1>15 DEF Writes, Applied, Live
  <2>. QED
    BY <1>0, <2>1, <2>2 DEF Writes
<1>16. ASSUME NEW i \in Call, NEW l \in Lists, AnswerSave(i, l) \/ AnswerRemove(i, l)
       PROVE  ListStep(k)
  <2>0. /\ copy' = Invalidated(copy, {l}) /\ UNCHANGED <<excused, table>>
        /\ Done(i) /\ sent' = sent
        /\ calls[i].do = <<"save", l>> \/ calls[i].do = <<"remove", l>>
    BY <1>16 DEF AnswerSave, AnswerRemove, Settled, Answered
  <2>1. CASE l = k
    BY <1>0, <2>0, <2>1, InvalidatedCopies DEF ListStep, ListBehind
  <2>2. CASE l # k
    <3>1. copy'[k] = copy[k]
      BY <1>0, <2>0, <2>2, InvalidatedCopies
    <3>. QED
      BY <1>15, <2>0, <2>2, <3>1 DEF ListStep, ListStays
  <2>. QED
    BY <2>1, <2>2
<1>17. ASSUME NEW i \in Call, AnswerRotate(i) \/ AnswerTrial(i) PROVE ListStep(k)
  <2>1. calls[i].do \notin {<<"save", k>>, <<"remove", k>>}
    BY <1>17 DEF AnswerRotate, AnswerTrial, Answered, Trials
  <2>. QED
    BY <1>15, <1>17, <2>1
       DEF AnswerRotate, AnswerTrial, Settled, ListStep, ListStays
<1>18. ASSUME NEW i \in Call, LoseResourceAnswer(i) PROVE ListStep(k)
  <2>1. PICK l \in Lists, act \in {"save", "remove", "rotate"} :
           /\ Lost(i, <<act, l>>)
           /\ excused' = excused \cup {l} /\ copy' = Behind(copy, {l})
    BY <1>18 DEF LoseResourceAnswer
  <2>2. l # k => Writes(k)' = Writes(k)
    BY <1>15, <2>1 DEF Lost, Answered
  <2>. QED
    BY <1>10, <1>11, <1>18, <2>1, <2>2 DEF LoseResourceAnswer
<1>19. ASSUME NEW qs, NEW l, NEW t, OtherTabChanges(l, qs, t), k \notin qs => t[k] = table[k]
       PROVE  ListStep(k)
  <2>1. Writes(k)' = Writes(k)
    BY <1>19 DEF OtherTabChanges, Writes, Applied, Live
  <2>. QED
    BY <1>10, <1>11, <1>19, <2>1 DEF OtherTabChanges
<1>20. CASE OtherTabRemoves
  <2>1. PICK l \in Lists : \E id \in Ids(table[l]) :
           OtherTabChanges(l, {l} \cup Dependents(l), Remaining(l, id))
    BY <1>20 DEF OtherTabRemoves
  <2>2. PICK id \in Ids(table[l]) :
           OtherTabChanges(l, {l} \cup Dependents(l), Remaining(l, id))
    BY <2>1
  <2>. QED
    BY <1>0, <1>19, <2>2, RemainingRows
<1>21. CASE OtherTabRotates
  <2>1. PICK id, token : OtherTabChanges("sources", {"sources"}, Tokened(id, token))
    BY <1>21 DEF OtherTabRotates
  <2>. QED
    BY <1>0, <1>19, <2>1, TokenedRows
<1>22. {"channels", "templates", "groups", "sources", "rules", "schedules"}
           \subseteq Lists
  BY DEF Lists
<1>. QED
  BY <1>4, <1>5, <1>6, <1>7, <1>9, <1>12, <1>13, <1>14, <1>16, <1>17, <1>18, <1>20,
     <1>21, <1>22
     DEF ResourceNext, ChannelSaved, ChannelRemoved, TemplateSaved,
         TemplateRemoved, GroupSaved, GroupRemoved, SourceSaved, SourceRemoved,
         RuleSaved, RuleRemoved, ScheduleSaved, ScheduleRemoved

(***************************************************************************)
(* The set-up status                                                       *)
(***************************************************************************)
\* The calls the set-up status depends on, and its copy.
SetupCall == <<"setup", "session">>
LoginCall == <<"login", "session">>
Status == copy["setup-status"]

\* A set-up or a login is served by a server that has an administrator.
AdminThere == \A i \in Applied(SetupCall) \cup Applied(LoginCall) : admin

\* The copy of the set-up status says whether there is an administrator, unless
\* a set-up has been served and not answered. Only a tour with a login page
\* looks at it.
SetupCopy ==
    InTour("login") /\ Applied(SetupCall) = {} =>
        /\ Status.known /\ "setup-status" \notin excused => Status.value = ~admin
        /\ Status.stage = "read" /\ ~Status.over => Status.got = ~admin

\* What is inductive about the set-up status, given Shape.
SetupInv == AdminThere /\ SetupCopy

\* What becomes of the set-up status on the server and of the calls about it.
SetupStep ==
    \/ admin' = admin /\ (Applied(SetupCall)' = {} => Applied(SetupCall) = {})
    \/ Applied(SetupCall)' # {}
    \/ "setup-status" \in excused' /\ (Status'.stage = "read" => Status'.over)
    \/ Status' = Unknown
    \/ \E i \in Call : SetupAnswered(i)

\* The calls of a kind when a page is displayed.
LEMMA OrphanLive ==
    ASSUME CallsOK, NEW p, NEW cs, cs \in {Heirs(p), calls, Orphaned}, calls' = cs, NEW kind
    PROVE  Applied(kind)' = Applied(kind)
BY CallsOrphaned DEF Heirs, Applied, Live

\* The calls of a kind when it is displayed on the answer of a call.
LEMMA HeirLive ==
    ASSUME CallsOK, NEW p, NEW i \in Call, calls' = [Heirs(p) EXCEPT ![i] = NoCall],
           NEW kind, kind[1] # "none"
    PROVE  Applied(kind)' = Applied(kind) \ {i}
<1>1. NoCall.do[1] = "none"
  BY DEF NoCall
<1>2. DOMAIN Heirs(p) = Call /\ \A j \in Call : Heirs(p)[j].do = calls[j].do
                             /\ Heirs(p)[j].stage = calls[j].stage
  BY CallsOrphaned DEF Heirs, CallsOK, Orphaned
<1>3. calls'[i] = NoCall /\ \A j \in Call \ {i} : calls'[j] = Heirs(p)[j]
  BY <1>2
<1>. QED
  BY <1>1, <1>2, <1>3 DEF Applied, Live

\* Every step of the session does one of these things, and keeps the
\* administrator.
LEMMA SetupSteps ==
    ASSUME Shape, AdminThere, SessionNext PROVE AdminThere' /\ SetupStep
<1> DEFINE Goal == AdminThere' /\ SetupStep
<1>0. /\ CallsOK /\ CopiesOK /\ tour \in Tours /\ csrf \in Token /\ cookie \in Token
      /\ "setup-status" \in Query /\ admin \in BOOLEAN
      /\ SetupCall[1] # "none" /\ LoginCall[1] # "none" /\ SetupCall # LoginCall
  BY PageNames
     DEF Shape, TypeOK, TabTypeOK, CopiesOK, SetupCall, LoginCall, Query
<1>1. ASSUME admin' = admin, \A do \in {SetupCall, LoginCall} : Applied(do)' = Applied(do)
      PROVE  Goal
  BY <1>1 DEF AdminThere, SetupStep
<1>. HIDE DEF Goal
<1>2. ASSUME admin' = admin, NEW p, calls' \in {calls, Heirs(p), Orphaned} PROVE Goal
  BY <1>0, <1>1, <1>2, OrphanLive
<1>3. ASSUME Go PROVE Goal
  BY <1>2, <1>3 DEF Go
<1>4. ASSUME NEW q \in Query, \/ AskQuery(q) \/ ReadQuery(q) \/ LandQuery(q)
                              \/ RefuseQuery(q) \/ LoseQuery(q)
      PROVE  Goal
  BY <1>2, <1>4
     DEF AskQuery, ReadQuery, ReadAs, LandQuery, RefuseQuery, LoseQuery, MissQuery
<1>5. ASSUME FillForm \/ BackToPassword \/ OtherTabLogsIn \/ SessionEnds PROVE Goal
  BY <1>2, <1>5 DEF FillForm, BackToPassword, OtherTabLogsIn, SessionEnds
<1>6. ASSUME NEW do, NEW arg, Send(do, arg), admin' = admin PROVE Goal
  BY <1>0, <1>1, <1>6, SentLive DEF Send
<1>7. ASSUME SubmitSetup \/ SubmitLogin \/ Logout PROVE Goal
  BY <1>6, <1>7 DEF SubmitSetup, SubmitLogin, Logout
<1>8. ASSUME StartOver(page) \/ StartOver("dashboard") PROVE Goal
  <2>1. Status' = Unknown /\ \A i \in Call : calls'[i] = NoCall
    BY <1>0, <1>8 DEF StartOver, Status
  <2>2. Applied(SetupCall)' = {} /\ Applied(LoginCall)' = {}
    BY <2>1 DEF Applied, Live, SetupCall, LoginCall, NoCall
  <2>. QED
    BY <2>1, <2>2 DEF Goal, AdminThere, SetupStep
<1>9. ASSUME NEW i \in Call, ServeSetup(i) PROVE Goal
  <2>1. Served(i, Blank) /\ calls[i].stage = "sent" /\ sent' = sent
        /\ calls[i].do = SetupCall /\ admin'
    BY <1>9 DEF ServeSetup, SetupCall
  <2>2. Applied(SetupCall)' = Applied(SetupCall) \cup {i}
    BY <1>0, <2>1, ServedLive
  <2>. QED
    BY <2>1, <2>2 DEF Goal, AdminThere, SetupStep
<1>10. ASSUME NEW i \in Call, ServeLogin(i) PROVE Goal
  <2>1. /\ calls[i].stage = "sent" /\ sent' = sent /\ calls[i].do = LoginCall
        /\ admin /\ admin' = admin
        /\ \E v : Served(i, v)
    BY <1>10 DEF ServeLogin, LoginCall
  <2>2. Applied(SetupCall)' = Applied(SetupCall)
    BY <1>0, <2>1, ServedLive
  <2>. QED
    BY <2>1, <2>2 DEF Goal, AdminThere, SetupStep
<1>11. ASSUME NEW i \in Call, ServeLogout(i) PROVE Goal
  <2>1. /\ calls[i].stage = "sent" /\ sent' = sent /\ admin' = admin
        /\ calls[i].do \notin {SetupCall, LoginCall} /\ Served(i, Blank)
    BY <1>11 DEF ServeLogout, Accepted, SetupCall, LoginCall
  <2>. QED
    BY <1>0, <1>1, <2>1, ServedLive
<1>12. ASSUME NEW i \in Call, Done(i), sent' = sent, admin' = admin,
              calls[i].do # SetupCall \/ calls[i].stage = "sent"
       PROVE  Goal
  <2>1. /\ Applied(SetupCall)' = Applied(SetupCall) \ {i}
        /\ Applied(LoginCall)' = Applied(LoginCall) \ {i}
    BY <1>0, <1>12, DoneLive
  <2>2. i \notin Applied(SetupCall)
    BY <1>12 DEF Applied, Live
  <2>. QED
    BY <1>12, <2>1, <2>2 DEF Goal, AdminThere, SetupStep
<1>13. ASSUME NEW i \in Call, AskForCode(i) \/ (Refuse(i) /\ UNCHANGED <<serverVars, admin>>)
       PROVE  Goal
  BY <1>12, <1>13 DEF AskForCode, Answered, Refuse, SetupCall
<1>14. ASSUME NEW i \in Call, NEW p, calls' = [Heirs(p) EXCEPT ![i] = NoCall],
              admin' = admin, calls[i].do # SetupCall \/ SetupAnswered(i)
       PROVE  Goal
  <2>1. /\ Applied(SetupCall)' = Applied(SetupCall) \ {i}
        /\ Applied(LoginCall)' = Applied(LoginCall) \ {i}
    BY <1>0, <1>14, HeirLive
  <2>2. calls[i].do # SetupCall => i \notin Applied(SetupCall)
    BY DEF Applied, Live
  <2>. QED
    BY <1>14, <2>1, <2>2 DEF Goal, AdminThere, SetupStep
<1>15. ASSUME NEW i \in Call, SetupAnswered(i) \/ LoggedIn(i) \/ LoggedOut(i) PROVE Goal
  <2>0. ASSUME NEW cs, calls' = [cs EXCEPT ![i] = NoCall], NEW p, cs = Heirs(p)
        PROVE  \E r : calls' = [Heirs(r) EXCEPT ![i] = NoCall]
    BY <2>0
  <2>1. PICK p : calls' = [Heirs(p) EXCEPT ![i] = NoCall]
    BY <1>15, <2>0, Zenon DEF SetupAnswered, LoggedIn, LoggedOut
  <2>2. ~SetupAnswered(i) => calls[i].do # SetupCall
    <3>1. LoggedIn(i) => Answered(i, <<"login", "session">>)
      BY DEF LoggedIn
    <3>2. LoggedOut(i) => Answered(i, <<"logout", "session">>)
      BY DEF LoggedOut
    <3>. QED
      BY <1>15, <3>1, <3>2 DEF Answered, SetupCall
  <2>3. admin' = admin
    BY <1>15 DEF SetupAnswered, LoggedIn, LoggedOut
  <2>. QED
    BY <1>14, <2>1, <2>2, <2>3
<1>16. ASSUME NEW i \in Call, LoseSessionAnswer(i) PROVE Goal
  <2>1. Done(i) /\ sent' = sent /\ admin' = admin
        /\ copy' = Behind(copy, {"setup-status"}) /\ "setup-status" \in excused'
    BY <1>16 DEF LoseSessionAnswer, Lost
  <2>2. /\ Applied(SetupCall)' = Applied(SetupCall) \ {i}
        /\ Applied(LoginCall)' = Applied(LoginCall) \ {i}
    BY <1>0, <2>1, DoneLive
  <2>3. Status'.stage = "read" => Status'.over
    BY <1>0, <2>1, BehindCopies DEF Status
  <2>. QED
    BY <2>1, <2>2, <2>3 DEF Goal, AdminThere, SetupStep
<1>17. ASSUME OtherTabSetsUp PROVE Goal
  <2>1. admin' /\ copy' = Behind(copy, {"setup-status"}) /\ "setup-status" \in excused'
    BY <1>17 DEF OtherTabSetsUp
  <2>2. Status'.stage = "read" => Status'.over
    BY <1>0, <2>1, BehindCopies DEF Status
  <2>. QED
    BY <2>1, <2>2 DEF Goal, AdminThere, SetupStep
<1>18. ASSUME Reload \/ PocketIDLogin PROVE Goal
  BY <1>8, <1>18 DEF Reload, PocketIDLogin
<1>19. ASSUME NEW i \in Call, ServeSetup(i) \/ ServeLogin(i) \/ ServeLogout(i)
       PROVE  Goal
  BY <1>9, <1>10, <1>11, <1>19
<1>20. Goal
  BY <1>3, <1>4, <1>5, <1>7, <1>13, <1>15, <1>16, <1>17, <1>18, <1>19
     DEF SessionNext
<1>. QED
  BY <1>20 DEF Goal

\* The invariant survives a step of the session.
LEMMA SetupBySession ==
    ASSUME Shape, SetupInv, SessionNext PROVE SetupInv'
<1>0. /\ AdminThere /\ SetupCopy /\ AdminThere' /\ SetupStep /\ SessionEffect
      /\ CopyType(Status) /\ "setup-status" \in Query /\ Truth("setup-status", Status.bearer) = ~admin
      /\ admin \in BOOLEAN /\ admin' \in BOOLEAN
  BY SetupSteps, SessionEffects, Truths
     DEF SetupInv, Shape, TypeOK, TabTypeOK, Query, Status, SessionEffect
<1>1. SetupCopy'
  <2>1. CASE Applied(SetupCall)' # {}
    BY <2>1 DEF SetupCopy
  <2>2. CASE "setup-status" \in excused' /\ (Status'.stage = "read" => Status'.over)
    BY <2>2 DEF SetupCopy
  <2>3. CASE Status' = Unknown
    BY <2>3, UnknownCopy DEF SetupCopy
  <2>4. ASSUME NEW i \in Call, SetupAnswered(i) \/ LoggedIn(i) PROVE SetupCopy'
    <3>1. Status' = Written(Status, FALSE)
      BY <1>0, <2>4 DEF SetupAnswered, LoggedIn, Status, Shape, TypeOK, TabTypeOK
    <3>2. admin' = admin /\ admin
      BY <1>0, <2>4
         DEF SetupAnswered, LoggedIn, Answered, AdminThere, Applied, Live,
            SetupCall,
             LoginCall
    <3>3. /\ Status'.value = FALSE
          /\ Status'.stage = "read" => Status'.over
      <4>1. CopyType(Status)
        BY <1>0
      <4>. QED
        BY <3>1, <4>1, WrittenCopy
    <3>. QED
      BY <3>2, <3>3 DEF SetupCopy
  <2>5. CASE /\ admin' = admin /\ (Applied(SetupCall)' = {} => Applied(SetupCall) = {})
             /\ QueryStep("setup-status")
    <3>1. InTour("login")' <=> InTour("login")
      BY <1>0 DEF SessionEffect, InTour
    <3>. QED
      BY <1>0, <2>5, <3>1
         DEF SetupCopy, QueryStep, Stays, Asked, HasRead, HasLanded,
            HasMissed, Status
  <2>6. Restarted => Status' = Unknown
    BY <1>0 DEF Restarted, Status
  <2>7. CopiesGoOn => \/ QueryStep("setup-status")
                      \/ \E i \in Call : SetupAnswered(i) \/ LoggedIn(i)
    BY <1>0 DEF CopiesGoOn, SessionWrites
  <2>. QED
    BY <1>0, <2>1, <2>2, <2>3, <2>4, <2>5, <2>6, <2>7 DEF SetupStep, SessionEffect
<1>. QED
  BY <1>0, <1>1 DEF SetupInv

\* It survives a step of another page.
LEMMA SetupByOthers ==
    ASSUME SetupInv, NEW m, NEW qs, PageEffect(m, qs), m # "session",
           "setup-status" \notin qs, admin' = admin
    PROVE  SetupInv'
<1>1. /\ copy'["setup-status"] = copy["setup-status"] /\ OnlyCallsOf(m)
      /\ "setup-status" \in excused' <=> "setup-status" \in excused
      /\ tour' = tour
  BY DEF PageEffect, CallStep, Query
<1>2. /\ Applied(SetupCall)' = Applied(SetupCall)
      /\ Applied(LoginCall)' = Applied(LoginCall)
  BY <1>1, OthersLive DEF SetupCall, LoginCall
<1>. QED
  BY <1>1, <1>2 DEF SetupInv, AdminThere, SetupCopy, Status, InTour

(***************************************************************************)
(* The copy of me                                                          *)
(***************************************************************************)
\* The calls the copy of me depends on, and the copy.
Rename == <<"username", "account">>
SwitchOn == <<"enable", "account">>
SwitchOff == <<"disable", "account">>
MeNow == copy["me"]

\* The server's account is what a copy of me says, in the session of the tab.
SameSession(v) == cookie # 0 => v.token = cookie
SameName(v) == Applied(Rename) = {} => v.name = account.name
SameFactor(v) ==
    Applied(SwitchOn) = {} /\ Applied(SwitchOff) = {} => v.factor = account.on
MeFits(v) == SameSession(v) /\ SameName(v) /\ SameFactor(v)

\* The copy of me, and a fetch of it that nobody overtook, are of the session of
\* the cookie and say what the account is: its name unless a renaming has been
\* served and not answered, its factor unless a switching has.
MeCopy ==
    /\ MeNow.known /\ "me" \notin excused => MeFits(MeNow.value)
    /\ MeNow.stage = "sent" /\ ~MeNow.over /\ cookie # 0 => MeNow.bearer = cookie
    /\ MeNow.stage = "read" /\ ~MeNow.over => MeFits(MeNow.got)

\* What fitted before a step fits after it.
MeServer ==
    /\ cookie' = cookie \/ cookie' = 0
    /\ Applied(Rename)' = {} =>
           Applied(Rename) = {} /\ account'.name = account.name
    /\ Applied(SwitchOn)' = {} /\ Applied(SwitchOff)' = {} =>
           /\ Applied(SwitchOn) = {} /\ Applied(SwitchOff) = {}
           /\ account'.on = account.on

\* What fitted goes on fitting.
LEMMA MeFitting ==
    ASSUME MeServer, NEW v, MeFits(v) PROVE MeFits(v)'
BY DEF MeServer, MeFits, SameSession, SameName, SameFactor

\* What the server answers fits, in the session of the cookie.
LEMMA MeOfFits ==
    /\ MeFits(MeOf(cookie))
    /\ \A s : s = cookie \/ cookie = 0 => MeFits(MeOf(s))
    /\ MeFits(LoginAnswer(cookie))
BY DEF MeFits, SameSession, SameName, SameFactor, MeOf, LoginAnswer

\* The invariant survives a step that fetches the copy, or does nothing to it.
LEMMA MeKept ==
    ASSUME MeCopy, MeServer, QueryStep("me") PROVE MeCopy'
<1>1. ASSUME NEW v, v = Truth("me", MeNow.bearer), MeNow.stage = "sent", ~MeNow.over
      PROVE  MeFits(v)'
  <2>1. MeFits(v)
    BY <1>1, MeOfFits, Truths DEF MeCopy
  <2>. QED
    BY <2>1, MeFitting
<1>2. CASE Stays("me")
  BY <1>2, MeFitting DEF MeCopy, MeServer, Stays, MeNow
<1>3. CASE Asked("me")
  BY <1>3, MeFitting DEF MeCopy, MeServer, Asked, MeNow
<1>4. CASE HasRead("me")
  <2>1. PICK v : v = Truth("me", MeNow.bearer)
    OBVIOUS
  <2>2. MeNow.stage = "sent" /\ (~MeNow.over => MeFits(v)')
    BY <1>1, <1>4, <2>1 DEF HasRead, MeNow
  <2>3. ASSUME NEW u, MeFits(u) PROVE MeFits(u)'
    BY <2>3, MeFitting
  <2>4. MeNow.known' /\ "me" \notin excused' => MeFits(MeNow.value)'
    BY <1>4, <2>3 DEF MeCopy, HasRead, MeNow
  <2>5. MeNow.stage' = "read" /\ MeNow.got' = v /\ MeNow.over' = MeNow.over
    BY <1>4, <2>1 DEF HasRead, MeNow
  <2>. QED
    BY <2>2, <2>4, <2>5 DEF MeCopy
<1>5. CASE HasLanded("me")
  BY <1>5, MeFitting DEF MeCopy, HasLanded, MeNow
<1>6. CASE HasMissed("me")
  BY <1>6 DEF MeCopy, HasMissed, MeNow
<1>. QED
  BY <1>2, <1>3, <1>4, <1>5, <1>6 DEF QueryStep

\* It survives a step of another page.
LEMMA MeByOthers ==
    ASSUME MeCopy, NEW m, NEW qs, PageEffect(m, qs), m # "account", "me" \notin qs,
           account' = account
    PROVE  MeCopy'
<1>1. /\ copy'["me"] = copy["me"] /\ OnlyCallsOf(m) /\ cookie' = cookie
      /\ "me" \in excused' <=> "me" \in excused
  BY PageNames DEF PageEffect, CallStep
<1>2. /\ Applied(Rename)' = Applied(Rename)
      /\ Applied(SwitchOn)' = Applied(SwitchOn)
      /\ Applied(SwitchOff)' = Applied(SwitchOff)
  BY <1>1, OthersLive DEF Rename, SwitchOn, SwitchOff
<1>3. MeServer /\ QueryStep("me")
  BY <1>1, <1>2 DEF MeServer, QueryStep, Stays
<1>. QED
  BY <1>3, MeKept

\* The calls about the copy of me are named for what they do.
LEMMA MeCallNames ==
    /\ Rename # SwitchOn /\ Rename # SwitchOff /\ SwitchOn # SwitchOff
    /\ Rename[1] # "none" /\ SwitchOn[1] # "none" /\ SwitchOff[1] # "none"
    /\ \A do : <<do, "account">> = Rename <=> do = "username"
    /\ \A do : <<do, "account">> = SwitchOn <=> do = "enable"
    /\ \A do : <<do, "account">> = SwitchOff <=> do = "disable"
BY DEF Rename, SwitchOn, SwitchOff

\* It survives a step of the account page: a change served awaits its answer,
\* and the answer writes the copy, or finds it overtaken and excuses it.
LEMMA MeByAccount ==
    ASSUME Shape, MeCopy, AccountNext PROVE MeCopy'
<1>0. /\ CallsOK /\ CopiesOK /\ "me" \in Query /\ CopyType(MeNow)
      /\ tour \in Tours /\ csrf \in Token /\ cookie \in Token
      /\ account \in AccountFields /\ MeShape /\ cookie' = cookie
  BY PageNames, AccountEffect
     DEF Shape, TypeOK, TabTypeOK, CopiesOK, AccountShape, MeNow, PageEffect
<1>1. ASSUME copy' = copy, "me" \in excused => "me" \in excused', MeServer
      PROVE  MeCopy'
  BY <1>1, MeKept DEF QueryStep, Stays
<1>2. ASSUME UNCHANGED <<copy, calls, excused, account>> PROVE MeCopy'
  BY <1>0, <1>1, <1>2 DEF MeServer, Applied, Live
<1>3. ASSUME NEW do, NEW arg, Dispatch(do, arg), account' = account,
             "me" \in excused => "me" \in excused'
      PROVE  MeCopy'
  <2>1. \A kind : kind[1] # "none" => Applied(kind)' = Applied(kind)
    BY <1>0, <1>3, SentLive
  <2>2. MeServer
    BY <1>0, <1>3, <2>1, MeCallNames DEF MeServer
  <2>. QED
    BY <1>1, <1>3, <2>2 DEF Dispatch
<1>4. ASSUME NEW do, NEW i \in Call, NEW value, NEW answer,
             ServeAccount(i, do, value, answer),
             do # "username" => value.name = account.name,
             do \notin {"enable", "disable"} => value.on = account.on
      PROVE  MeCopy'
  <2>1. /\ calls[i].stage = "sent" /\ calls[i].do = <<do, "account">>
        /\ account' = value /\ Served(i, answer)
        /\ sent' = sent /\ copy' = copy /\ excused' = excused
    BY <1>4 DEF ServeAccount, Accepted
  <2>2. \A kind : Applied(kind)' = IF calls[i].do = kind THEN Applied(kind) \cup {i}
                                   ELSE Applied(kind)
    BY <1>0, <2>1, ServedLive
  <2>3. MeServer
    BY <1>0, <1>4, <2>1, <2>2, MeCallNames DEF MeServer
  <2>. QED
    BY <1>1, <2>1, <2>3
<1>5. ASSUME NEW i \in Call, ServeUsername(i) PROVE MeCopy'
  <2>1. PICK v : v = [account EXCEPT !.name = i]
    OBVIOUS
  <2>2. v.on = account.on
    BY <1>0, <2>1 DEF AccountFields
  <2>. QED
    BY <1>4, <1>5, <2>1, <2>2 DEF ServeUsername
<1>6. ASSUME NEW i \in Call, ServePassword(i) PROVE MeCopy'
  BY <1>4, <1>6 DEF ServePassword
<1>7. ASSUME NEW i \in Call, ServeBegin(i) PROVE MeCopy'
  <2>1. PICK v : v = [account EXCEPT !.secret = i]
    OBVIOUS
  <2>2. v.on = account.on /\ v.name = account.name
    BY <1>0, <2>1 DEF AccountFields
  <2>. QED
    BY <1>4, <1>7, <2>1, <2>2 DEF ServeBegin
<1>8. ASSUME NEW i \in Call, ServeEnable(i) PROVE MeCopy'
  <2>1. PICK v : v = [account EXCEPT !.on = TRUE, !.codes = i]
    OBVIOUS
  <2>2. v.name = account.name
    BY <1>0, <2>1 DEF AccountFields
  <2>. QED
    BY <1>4, <1>8, <2>1, <2>2 DEF ServeEnable
<1>9. ASSUME NEW i \in Call, ServeDisable(i) PROVE MeCopy'
  <2>1. PICK v : v = [account EXCEPT !.on = FALSE, !.secret = 0, !.codes = 0]
    OBVIOUS
  <2>2. v.name = account.name
    BY <1>0, <2>1 DEF AccountFields
  <2>. QED
    BY <1>4, <1>9, <2>1, <2>2 DEF ServeDisable
<1>10. ASSUME NEW i \in Call, NEW do, Answered(i, <<do, "account">>), Done(i), sent' = sent
       PROVE  /\ do # "username" => Applied(Rename)' = Applied(Rename)
              /\ do # "enable" => Applied(SwitchOn)' = Applied(SwitchOn)
              /\ do # "disable" => Applied(SwitchOff)' = Applied(SwitchOff)
  <2>1. \A kind : kind[1] # "none" => Applied(kind)' = Applied(kind) \ {i}
    BY <1>0, <1>10, DoneLive
  <2>2. \A kind : calls[i].do # kind => i \notin Applied(kind)
    BY DEF Applied, Live
  <2>3. calls[i].do = <<do, "account">>
    BY <1>10 DEF Answered
  <2>4. ASSUME NEW kind, kind[1] # "none", kind # <<do, "account">>
        PROVE  Applied(kind)' = Applied(kind)
    <3>1. i \notin Applied(kind)
      BY <2>2, <2>3, <2>4
    <3>2. Applied(kind)' = Applied(kind) \ {i}
      BY <2>1, <2>4
    <3>. QED
      BY <3>1, <3>2
  <2>5. do # "username" => Applied(Rename)' = Applied(Rename)
    BY <2>4, MeCallNames
  <2>6. do # "enable" => Applied(SwitchOn)' = Applied(SwitchOn)
    BY <2>4, MeCallNames
  <2>7. do # "disable" => Applied(SwitchOff)' = Applied(SwitchOff)
    BY <2>4, MeCallNames
  <2>. QED
    BY <2>5, <2>6, <2>7
<1>11. ASSUME NEW i \in Call, PasswordSaved(i) \/ FactorBegun(i) PROVE MeCopy'
  <2>1. /\ \E do \in {"password", "begin"} : Answered(i, <<do, "account">>)
        /\ Done(i) /\ sent' = sent /\ UNCHANGED <<copy, excused, account>>
    BY <1>11 DEF PasswordSaved, FactorBegun, AnswerAccount
  <2>2. MeServer
    BY <1>0, <1>10, <2>1 DEF MeServer
  <2>. QED
    BY <1>1, <2>1, <2>2
<1>12. ASSUME copy' = Behind(copy, {"me"}), "me" \in excused' \/ ~MeNow.known
       PROVE  MeCopy'
  <2>1. /\ MeNow'.known = MeNow.known /\ MeNow'.stage = MeNow.stage
        /\ MeNow'.bearer = MeNow.bearer
        /\ MeNow'.over <=> MeNow.over \/ MeNow.stage = "read"
    BY <1>0, <1>12, BehindCopies DEF MeNow
  <2>. QED
    BY <1>0, <1>12, <2>1 DEF MeCopy
<1>13. ASSUME NEW i \in Call, LoseAccountAnswer(i) PROVE MeCopy'
  BY <1>12, <1>13 DEF LoseAccountAnswer
<1>14. CASE OtherTabDisables
  BY <1>12, <1>14 DEF OtherTabDisables
<1>15. ASSUME NEW field \in {"name", "factor"}, NEW value, NEW now,
              WriteMe(field, value, now),
              NEW v, v = [Me EXCEPT ![field] = value],
              MeNow.known /\ "me" \notin excused /\ value = now => MeFits(v)'
       PROVE  MeCopy'
  <2>1. CASE ~MeNow.known
    BY <1>12, <1>15, <2>1 DEF WriteMe, MeNow
  <2>2. CASE MeNow.known
    <3>1. MeNow' = Written(MeNow, v)
      BY <1>0, <1>15, <2>2 DEF WriteMe, MeNow, CopiesOK
    <3>2. /\ MeNow'.value = v
          /\ MeNow'.stage \in {"sent", "read"} => MeNow'.over
      BY <1>0, <3>1, WrittenCopy
    <3>3. "me" \notin excused' => "me" \notin excused /\ value = now
      BY <1>15 DEF WriteMe
    <3>. QED
      BY <1>15, <2>2, <3>2, <3>3 DEF MeCopy
  <2>. QED
    BY <2>1, <2>2
<1>16. ASSUME NEW i \in Call, UsernameSaved(i) PROVE MeCopy'
  <2>1. /\ Answered(i, <<"username", "account">>) /\ Done(i) /\ sent' = sent
        /\ account' = account
        /\ WriteMe("name", calls[i].answer, account.name)
    BY <1>16 DEF UsernameSaved, AnswerAccount
  <2>2. /\ Applied(SwitchOn)' = Applied(SwitchOn)
        /\ Applied(SwitchOff)' = Applied(SwitchOff)
    BY <1>10, <2>1
  <2>3. PICK v : v = [Me EXCEPT !.name = calls[i].answer]
    OBVIOUS
  <2>4. ASSUME MeNow.known, "me" \notin excused, calls[i].answer = account.name
        PROVE  MeFits(v)'
    <3>1. v.token = Me.token /\ v.name = account.name /\ v.factor = Me.factor
      BY <1>0, <2>3, <2>4 DEF Me, MeNow, MeShape, MeFields
    <3>. QED
      BY <1>0, <2>1, <2>2, <2>4, <3>1
         DEF MeCopy, MeFits, SameSession, SameName, SameFactor, Me, MeNow
  <2>. QED
    BY <1>15, <2>1, <2>3, <2>4
<1>17. ASSUME NEW i \in Call, NEW on \in BOOLEAN, NEW do \in {"enable", "disable"},
              Answered(i, <<do, "account">>), Done(i), sent' = sent,
              account' = account, WriteMe("factor", on, account.on)
       PROVE  MeCopy'
  <2>2. Applied(Rename)' = Applied(Rename)
    BY <1>10, <1>17
  <2>3. PICK v : v = [Me EXCEPT !.factor = on]
    OBVIOUS
  <2>4. ASSUME MeNow.known, "me" \notin excused, on = account.on
        PROVE  MeFits(v)'
    <3>1. v.token = Me.token /\ v.name = Me.name /\ v.factor = account.on
      BY <1>0, <2>3, <2>4 DEF Me, MeNow, MeShape, MeFields
    <3>. QED
      BY <1>0, <1>17, <2>2, <2>4, <3>1
         DEF MeCopy, MeFits, SameSession, SameName, SameFactor, Me, MeNow
  <2>. QED
    BY <1>15, <1>17, <2>3, <2>4
<1>18. ASSUME NEW i \in Call, FactorEnabled(i) \/ FactorDisabled(i) PROVE MeCopy'
  BY <1>17, <1>18 DEF FactorEnabled, FactorDisabled, AnswerAccount
<1>19. CASE OpenCard \/ FillCard \/ CloseCard
  BY <1>2, <1>19 DEF OpenCard, FillCard, CloseCard, EditAccount
<1>20. CASE ChangeUsername \/ ChangePassword \/ BeginFactor \/ EnableFactor
  BY <1>3, <1>20
     DEF ChangeUsername, ChangePassword, BeginFactor, EnableFactor, Submit, Send
<1>21. CASE DisableFactor
  BY <1>3, <1>21 DEF DisableFactor
<1>. QED
  BY <1>5, <1>6, <1>7, <1>8, <1>9, <1>11, <1>13, <1>14, <1>16, <1>18, <1>19, <1>20,
     <1>21 DEF AccountNext

\* What a step of the session does to the cookie.
LEMMA CookieSteps ==
    ASSUME Shape, SessionNext
    PROVE  \/ cookie' = cookie \/ cookie' = 0
           \/ OtherTabLogsIn
           \/ \E i \in Call : LoggedIn(i)
           \/ copy'["me"] = Unknown
<1>1. ASSUME NEW p, StartOver(p) PROVE copy'["me"] = Unknown
  BY <1>1, PageNames DEF StartOver
<1>2. ASSUME NEW q \in Query, \/ AskQuery(q) \/ ReadQuery(q) \/ LandQuery(q)
                              \/ RefuseQuery(q) \/ LoseQuery(q)
      PROVE  cookie' = cookie
  BY <1>2
     DEF AskQuery, Ask, ReadQuery, ReadAs, LandQuery, RefuseQuery, LoseQuery,
         MissQuery, sessionVars
<1>3. ASSUME NEW i \in Call,
              \/ ServeSetup(i) \/ SetupAnswered(i) \/ ServeLogin(i) \/ AskForCode(i)
              \/ ServeLogout(i) \/ LoseSessionAnswer(i) \/ Refuse(i)
      PROVE  cookie' = cookie
  BY <1>3
     DEF ServeSetup, SetupAnswered, ServeLogin, AskForCode, ServeLogout,
         LoseSessionAnswer, Lost, Refuse, sessionVars
<1>4. ASSUME NEW i \in Call, LoggedOut(i) PROVE cookie' = 0
  BY <1>4 DEF LoggedOut
<1>5. CASE FillForm \/ SubmitSetup \/ SubmitLogin \/ BackToPassword \/ Logout
           \/ OtherTabSetsUp \/ SessionEnds
  BY <1>5
     DEF FillForm, SubmitSetup, SubmitLogin, BackToPassword, Logout, Send, Dispatch,
         OtherTabSetsUp, SessionEnds, sessionVars
<1>6. CASE Go
  BY <1>6 DEF Go
<1>7. CASE PocketIDLogin \/ Reload
  BY <1>1, <1>7 DEF PocketIDLogin, Reload
<1>. QED
  BY <1>2, <1>3, <1>4, <1>5, <1>6, <1>7 DEF SessionNext

\* It survives a step of the session: a login writes the copy with the session
\* it opened, and another tab that opens one excuses it.
LEMMA MeBySession ==
    ASSUME Shape, MeCopy, SessionNext PROVE MeCopy'
<1>0. /\ CallsOK /\ CopiesOK /\ "me" \in Query /\ CopyType(MeNow)
      /\ account \in AccountFields /\ MeShape /\ account' = account /\ SessionEffect
  BY PageNames, SessionEffects
     DEF Shape, TypeOK, TabTypeOK, CopiesOK, AccountShape, MeNow, SessionEffect
<1>1. CASE copy'["me"] = Unknown
  BY <1>1, UnknownCopy DEF MeCopy, MeNow
<1>2. CASE OtherTabLogsIn
  <2>1. /\ "me" \in excused'
        /\ MeNow' = [MeNow EXCEPT !.over = @ \/ MeNow.stage \in {"sent", "read"}]
    BY <1>0, <1>2 DEF OtherTabLogsIn, OtherSession, CopiesOK, MeNow
  <2>2. MeNow'.stage \in {"sent", "read"} => MeNow'.over
    BY <1>0, <2>1 DEF CopyType
  <2>. QED
    BY <2>1, <2>2 DEF MeCopy
<1>3. CASE \E i \in Call : LoggedIn(i)
  <2>1. PICK i \in Call : LoggedIn(i)
    BY <1>3
  <2>2. PICK me : me = calls[i].answer
    OBVIOUS
  <2>3. /\ MeNow' = Written(MeNow, me) /\ cookie' = me.token
        /\ "me" \notin excused' => me = LoginAnswer(me.token)
    BY <1>0, <2>1, <2>2 DEF LoggedIn, MeNow, CopiesOK
  <2>4. MeNow'.value = me /\ (MeNow'.stage \in {"sent", "read"} => MeNow'.over)
    BY <1>0, <2>3, WrittenCopy
  <2>5. ASSUME me = LoginAnswer(me.token) PROVE MeFits(me)'
    <3>1. me.name = account.name /\ me.factor = account.on
      BY <2>5 DEF LoginAnswer, MeOf
    <3>. QED
      BY <1>0, <2>3, <3>1 DEF MeFits, SameSession, SameName, SameFactor
  <2>. QED
    BY <2>3, <2>4, <2>5 DEF MeCopy
<1>4. CASE Restarted
  BY <1>0, <1>1, <1>4 DEF Restarted
<1>5. CASE CallsGoOn /\ CopiesGoOn
  <2>1. /\ Applied(Rename)' = Applied(Rename)
        /\ Applied(SwitchOn)' = Applied(SwitchOn)
        /\ Applied(SwitchOff)' = Applied(SwitchOff)
    BY <1>0, <1>5, SessionLive DEF Rename, SwitchOn, SwitchOff
  <2>2. cookie' = cookie \/ cookie' = 0 => MeServer
    BY <1>0, <2>1 DEF MeServer
  <2>3. \/ QueryStep("me") \/ copy'["me"] = Unknown
        \/ \E i \in Call : LoggedIn(i)
    BY <1>0, <1>5 DEF CopiesGoOn, SessionWrites
  <2>. QED
    BY <1>1, <1>2, <1>3, <2>2, <2>3, CookieSteps, MeKept
<1>. QED
  BY <1>0, <1>4, <1>5 DEF SessionEffect

(***************************************************************************)
(* All the copies                                                          *)
(***************************************************************************)
\* What is inductive about the copies, given Shape; that of the settings is
\* above.
CopiesInv == (\A k \in Lists : ListCopy(k)) /\ SetupInv /\ MeCopy

\* The first copies are unknown, or what the server holds.
LEMMA CopiesInit == Init => CopiesInv
<1> SUFFICES ASSUME Init PROVE CopiesInv
  OBVIOUS
<1>1. \A do : do[1] # "none" => Applied(do) = {}
  BY DEF Init, Applied, Live, NoCall
<1>2. ASSUME NEW q \in Query
      PROVE  /\ copy[q] = Unknown \/ \E v : copy[q] = Known(v)
             /\ q \in Lists => copy[q] \in {Unknown, Known(FirstTable[q])}
             /\ q = "me" => copy[q] \in {Unknown, Known(MeOf(cookie))}
             /\ q = "setup-status" /\ InTour("login") => copy[q] = Unknown
  <2>1. copy[q] = IF InTour("login") THEN Unknown
                  ELSE CASE q = "setup-status" -> Known(FALSE)
                         [] q = "me" -> Known(MeOf(cookie))
                         [] q \in Lists -> Known(FirstTable[q])
                         [] OTHER -> Unknown
    BY DEF Init
  <2>. QED
    BY <2>1, PageNames
<1>3. \A q \in Query : copy[q].stage = "idle"
  BY <1>2, UnknownCopy, KnownCopy
<1>4. ASSUME NEW k \in Lists PROVE ListCopy(k)
  <2>1. k \in Query /\ k \notin {"me", "setup-status"}
    BY PageNames
  <2>2. copy[k] = Unknown \/ copy[k] = Known(FirstTable[k])
    BY <1>2, <2>1
  <2>3. copy[k].known => copy[k].value = table[k]
    BY <2>2, UnknownCopy, KnownCopy DEF Init
  <2>. QED
    BY <1>3, <2>1, <2>3 DEF ListCopy
<1>5. SetupInv
  <2>1. "setup-status" \in Query /\ SetupCall[1] # "none" /\ LoginCall[1] # "none"
    BY DEF Query, SetupCall, LoginCall
  <2>. QED
    BY <1>1, <1>2, <1>3, <2>1, UnknownCopy
       DEF SetupInv, AdminThere, SetupCopy, Status
<1>6. MeCopy
  <2>1. copy["me"] = Unknown \/ copy["me"] = Known(MeOf(cookie))
    BY <1>2, PageNames
  <2>2. MeNow.known => MeNow.value = MeOf(cookie)
    BY <2>1, UnknownCopy, KnownCopy DEF MeNow
  <2>. QED
    BY <1>3, <2>2, PageNames, MeOfFits DEF MeCopy, MeNow
<1>. QED
  BY <1>4, <1>5, <1>6 DEF CopiesInv

\* The invariant survives a step of a page that writes none of these copies.
LEMMA CopiesByOthers ==
    ASSUME CopiesInv, NEW m, m \notin Lists \cup {"session", "account"},
           NEW qs, PageEffect(m, qs), qs \cap (Lists \cup {"me", "setup-status"}) = {},
           UNCHANGED <<table, admin, account>>
    PROVE  CopiesInv'
BY ListByOthers, SetupByOthers, MeByOthers DEF CopiesInv

\* It survives every step.
LEMMA CopiesStep == Shape /\ CopiesInv /\ [Next]_vars => CopiesInv'
<1> SUFFICES ASSUME Shape, CopiesInv, [Next]_vars PROVE CopiesInv'
  OBVIOUS
<1>1. CASE UNCHANGED vars
  <2>1. /\ UNCHANGED <<table, admin, account, calls, sent, copy, excused, tour>>
        /\ \A kind : Applied(kind)' = Applied(kind)
    BY <1>1 DEF vars, tabVars, resourceVars, accountVars, Applied, Live
  <2>2. UNCHANGED <<cookie, csrf, page, view, alive>>
    BY <1>1 DEF vars, tabVars
  <2>3. \A k \in Lists : ListCopy(k)'
    BY <2>1 DEF CopiesInv, ListCopy, Writes
  <2>4. SetupInv'
    BY <2>1, <2>2 DEF CopiesInv, SetupInv, AdminThere, SetupCopy, Status, InTour
  <2>5. MeCopy'
    BY <2>1, <2>2
       DEF CopiesInv, MeCopy, MeNow, MeFits, SameSession, SameName, SameFactor
  <2>. QED
    BY <2>3, <2>4, <2>5 DEF CopiesInv
<1>2. CASE SessionNext
  BY <1>2, ListBySession, SetupBySession, MeBySession DEF CopiesInv
<1>3. CASE ResourceNext /\ UNCHANGED <<accountVars, activityVars, settingsVars, admin>>
  <2>1. PICK k \in Lists : PageEffect(k, Lists)
    BY <1>3, ResourceEffect
  <2>2. account' = account /\ admin' = admin /\ k \notin {"account", "session"}
    BY <1>3, PageNames DEF accountVars
  <2>. QED
    BY <1>3, <2>1, <2>2, ListByResource, SetupByOthers, MeByOthers, PageNames
       DEF CopiesInv
<1>4. CASE AccountNext /\ UNCHANGED <<resourceVars, activityVars, settingsVars, admin>>
  <2>1. PageEffect("account", {"me"}) /\ table' = table /\ admin' = admin
    BY <1>4, AccountEffect DEF resourceVars
  <2>. QED
    BY <1>4, <2>1, ListByOthers, SetupByOthers, MeByAccount, PageNames DEF CopiesInv
<1>5. CASE ActivityNext /\ UNCHANGED <<resourceVars, accountVars, settingsVars, admin>>
  <2>1. /\ PageEffect("activity", {"deliveries"})
        /\ UNCHANGED <<table, admin, account>>
    BY <1>5, ActivityEffect DEF resourceVars, accountVars
  <2>2. "deliveries" \notin Lists
    BY DEF Lists
  <2>. QED
    BY <2>1, <2>2, CopiesByOthers, PageNames
<1>6. CASE SettingsNext /\ UNCHANGED <<resourceVars, accountVars, activityVars, admin>>
  <2>1. PageEffect("settings", {"settings"}) /\ UNCHANGED <<table, admin, account>>
    BY <1>6, SettingsEffect DEF resourceVars, accountVars
  <2>. QED
    BY <2>1, CopiesByOthers, PageNames
<1>. QED
  BY <1>1, <1>2, <1>3, <1>4, <1>5, <1>6 DEF Next

\* It holds in every reachable state.
LEMMA CopiesInvHolds == Spec => []CopiesInv
<1>1. Shape /\ CopiesInv /\ [Next]_vars => CopiesInv'
  BY CopiesStep
<1>. QED
  BY <1>1, CopiesInit, ShapeHolds, PTL DEF Spec

\* A record of me whose binding to Pocket ID is put right.
LEMMA LinkedMe ==
    ASSUME NEW me \in MeFields
    PROVE  [me EXCEPT !.linked = TRUE] =
             [token |-> me.token, name |-> me.name, factor |-> me.factor,
              linked |-> TRUE]
<1>1. PICK a : a = [me EXCEPT !.linked = TRUE]
  OBVIOUS
<1>2. /\ a \in MeFields /\ a.token = me.token /\ a.name = me.name
      /\ a.factor = me.factor /\ a.linked = TRUE
  BY <1>1 DEF MeFields
<1>3. PICK t, n, f, l : a = [token |-> t, name |-> n, factor |-> f, linked |-> l]
  BY <1>2, Zenon DEF MeFields
<1>4. t = me.token /\ n = me.name /\ f = me.factor /\ l = TRUE
  BY <1>2, <1>3
<1>. QED
  BY <1>1, <1>3, <1>4, Zenon

\* Once no call is under way, nothing is excused but by name.
LEMMA QuietCopies ==
    ASSUME Shape, CopiesInv, SettingsInv PROVE CopiesFollowWrites
<1> SUFFICES ASSUME Quiet, NEW q \in Query \ Polled, q \notin excused,
                    q \in Mounted, copy[q].known, copy[q].stage = "idle"
             PROVE  IF q = "me"
                    THEN cookie \in alive =>
                           [Me EXCEPT !.linked = TRUE] = MeOf(cookie)
                    ELSE copy[q].value = Truth(q, cookie)
  BY DEF CopiesFollowWrites
<1>1. \A do : Applied(do) = {}
  BY DEF Quiet, Applied, Live
<1>2. CASE q \in Lists
  <2>1. q # "me"
    BY <1>2, PageNames
  <2>. QED
    BY <1>1, <1>2, <2>1, Truths DEF CopiesInv, ListCopy, Writes
<1>3. CASE q = "setup-status"
  <2>1. "setup-status" \notin PageQueries(page)
    BY DEF PageQueries, Shape, TypeOK, TabTypeOK, Pages, Outside, Lists
  <2>2. InTour("login")
    BY <1>3, <2>1 DEF Mounted, GateQueries
  <2>. QED
    BY <1>1, <1>3, <2>2, Truths DEF CopiesInv, SetupInv, SetupCopy, Status
<1>4. CASE q = "settings"
  BY <1>1, <1>4, Truths DEF SettingsInv, SettingsCopy
<1>5. CASE q = "me"
  <2>1. ASSUME cookie \in alive PROVE [Me EXCEPT !.linked = TRUE] = MeOf(cookie)
    <3>1. cookie # 0
      BY <2>1 DEF Shape, TypeOK, TabTypeOK
    <3>2. Me.token = cookie /\ Me.name = account.name /\ Me.factor = account.on
      BY <1>1, <1>5, <3>1
         DEF CopiesInv, MeCopy, MeFits, SameSession, SameName, SameFactor, MeNow, Me
    <3>3. Me \in MeFields
      BY <1>5 DEF Shape, MeShape, Me
    <3>4. PICK me : me = Me
      OBVIOUS
    <3>5. me \in MeFields /\ me.token = cookie /\ me.name = account.name
          /\ me.factor = account.on
      BY <3>2, <3>3, <3>4
    <3>. QED
      BY <3>4, <3>5, LinkedMe, Zenon DEF MeOf
  <2>. QED
    BY <1>5, <2>1
<1>. QED
  BY <1>2, <1>3, <1>4, <1>5 DEF Query, Polled

\* Once no call is under way, a copy on display at rest is what the server
\* holds, unless it is excused by name: every handler of a write refreshes or
\* writes all it changed (the invalidateQueries and setQueryData of every page,
\* auth.tsx, account.tsx).
THEOREM CopiesHold == Spec => []CopiesFollowWrites
<1>1. Shape /\ CopiesInv /\ SettingsInv => CopiesFollowWrites
  BY QuietCopies
<1>. QED
  BY <1>1, ShapeHolds, CopiesInvHolds, SettingsInvHolds, PTL

-------------------------------------------------------------------------------
(***************************************************************************)
(* What single pages promise: the recovery codes on the account page, the  *)
(* pairs of rows the resource pages choose, and the addresses shown and    *)
(* copied.                                                                 *)
(***************************************************************************)

(***************************************************************************)
(* The second factor                                                       *)
(***************************************************************************)
\* The calls of the second factor, and the secrets there can be.
Begins == Live(<<"begin", "account">>)
Enables == Live(<<"enable", "account">>)
Disables == Live(<<"disable", "account">>)
OnSetup == page = "account" /\ view.setup # 0
Secret == 0..sent \cup {FirstSecret}

\* Secrets and codes are numbers of calls that were sent.
Numbers ==
    /\ account.secret \in Secret
    /\ page = "account" => view.setup \in 0..sent
    /\ \A e \in Enables : calls[e].arg \in 1..sent
    /\ \A d \in Disables : calls[d].arg \in Secret

\* A secret is switched on by one call at most, of the page that shows it; that
\* of a set-up under way is not known yet.
OneEnable ==
    /\ \A e, f \in Enables : calls[e].arg = calls[f].arg => e = f
    /\ OnSetup => \A e \in Enables : calls[e].arg = view.setup => calls[e].mine
    /\ \A b \in Begins : /\ \A e \in Enables : calls[e].arg # b
                         /\ page = "account" => view.setup # b

\* Nothing under way can take back a second factor that is being switched on,
\* nor the codes on display: no call is about its secret.
CodesKept ==
    "codes" \notin excused =>
        /\ \A e \in Enables : calls[e].mine =>
               /\ \A d \in Disables : calls[d].arg # calls[e].arg
               /\ calls[e].stage = "served" =>
                      /\ account.on /\ account.codes = e
                      /\ account.secret = calls[e].arg
        /\ \A b \in Begins : calls[b].mine => \A d \in Disables : calls[d].arg # b
        /\ OnSetup => \A d \in Disables : calls[d].arg # view.setup
        /\ page = "account" /\ view.codes # 0 =>
               /\ account.on /\ account.secret # 0 /\ account.codes = view.codes
               /\ \A c \in Enables \cup Disables : calls[c].arg # account.secret

\* What is inductive about the second factor, given Shape.
FactorInv == Numbers /\ OneEnable /\ CodesKept

\* A step that only forgets: calls, their page, the set-up, the codes.
Forgets ==
    /\ account'.secret = account.secret /\ account'.on = account.on
    /\ account'.codes = account.codes
    /\ "codes" \in excused => "codes" \in excused'
    /\ sent' \in Nat /\ sent <= sent'
    /\ Begins' \subseteq Begins /\ Enables' \subseteq Enables
    /\ Disables' \subseteq Disables
    /\ \A i \in Begins' \cup Enables' \cup Disables' :
           /\ calls'[i].arg = calls[i].arg
           /\ calls'[i].stage = calls[i].stage
           /\ calls'[i].mine => calls[i].mine
           /\ OnSetup' /\ calls[i].mine => calls'[i].mine
    /\ page' = "account" =>
           /\ view'.setup = 0 \/ (page = "account" /\ view'.setup = view.setup)
           /\ view'.codes = 0 \/ (page = "account" /\ view'.codes = view.codes)

\* The invariant survives a step that only forgets.
LEMMA FactorForgets ==
    ASSUME sent \in 0..MaxCalls, FactorInv, Forgets PROVE FactorInv'
<1>1. Secret \subseteq Secret' /\ 0..sent \subseteq 0..sent' /\ 0 \in 0..sent'
      /\ 1..sent \subseteq 1..sent' /\ Begins' \subseteq Call
  BY TabAssumption DEF Forgets, Secret, Begins, Live
<1>2. Numbers'
  BY <1>1 DEF FactorInv, Forgets, Numbers
<1>3. OnSetup' => OnSetup /\ view'.setup = view.setup
  BY DEF Forgets, OnSetup
<1>4. OneEnable'
  <2>1. \A e, f \in Enables' : calls'[e].arg = calls'[f].arg => e = f
    BY DEF FactorInv, Forgets, OneEnable
  <2>2. OnSetup' => \A e \in Enables' : calls'[e].arg = view'.setup => calls'[e].mine
    BY <1>3 DEF FactorInv, Forgets, OneEnable
  <2>3. \A b \in Begins' : b # 0
    BY <1>1 DEF Call
  <2>4. \A b \in Begins' : /\ \A e \in Enables' : calls'[e].arg # b
                           /\ page' = "account" => view'.setup # b
    BY <2>3 DEF FactorInv, Forgets, OneEnable
  <2>. QED
    BY <2>1, <2>2, <2>4 DEF OneEnable
<1>5. ASSUME "codes" \notin excused'
      PROVE  /\ \A e \in Enables' : calls'[e].mine =>
                    /\ \A d \in Disables' : calls'[d].arg # calls'[e].arg
                    /\ calls'[e].stage = "served" =>
                           /\ account'.on /\ account'.codes = e
                           /\ account'.secret = calls'[e].arg
             /\ \A b \in Begins' : calls'[b].mine =>
                    \A d \in Disables' : calls'[d].arg # b
             /\ OnSetup' => \A d \in Disables' : calls'[d].arg # view'.setup
             /\ page' = "account" /\ view'.codes # 0 =>
                    /\ account'.on /\ account'.secret # 0
                    /\ account'.codes = view'.codes
                    /\ \A c \in Enables' \cup Disables' :
                           calls'[c].arg # account'.secret
  BY <1>3, <1>5 DEF FactorInv, Forgets, CodesKept
<1>6. CodesKept'
  BY <1>5 DEF CodesKept
<1>. QED
  BY <1>2, <1>4, <1>6 DEF FactorInv

\* It holds at first: no call, no codes on display.
LEMMA FactorInit == Init => FactorInv
<1> SUFFICES ASSUME Init PROVE FactorInv
  OBVIOUS
<1>1. Shape /\ view = Fresh(page) /\ \A i \in Call : calls[i] = NoCall
  BY ShapeInit DEF Init
<1>2. page = "account" => view.setup = 0 /\ view.codes = 0
  BY <1>1, FreshForms DEF AccountForm
<1>3. Begins = {} /\ Enables = {} /\ Disables = {}
  BY <1>1 DEF Begins, Enables, Disables, Live, NoCall
<1>4. account.secret \in {0, FirstSecret} /\ sent = 0
  <2>1. account = [name |-> 0, on |-> tour.factor,
                   secret |-> IF tour.factor THEN FirstSecret ELSE 0,
                   codes |-> IF tour.factor THEN FirstSecret ELSE 0] /\ sent = 0
    BY DEF Init
  <2>. QED
    BY <2>1
<1>. QED
  BY <1>2, <1>3, <1>4 DEF FactorInv, Numbers, OneEnable, CodesKept, OnSetup, Secret

\* It survives a step of another page.
LEMMA FactorByOthers ==
    ASSUME Shape, FactorInv, NEW m, NEW qs, PageEffect(m, qs),
           m \notin {"account", "none"}, account' = account
    PROVE  FactorInv'
<1>1. /\ OnlyCallsOf(m) /\ page' = page /\ (page = "account" => view' = view)
      /\ "codes" \in excused' <=> "codes" \in excused
      /\ sent \in 0..MaxCalls /\ sent' \in Nat /\ sent <= sent'
  BY TabAssumption DEF PageEffect, CallStep, Shape, CallsOK
<1>2. /\ Begins' = Begins /\ Enables' = Enables /\ Disables' = Disables
      /\ \A i \in Begins \cup Enables \cup Disables : calls'[i] = calls[i]
  BY <1>1, OthersLive DEF Begins, Enables, Disables
<1>3. Forgets
  BY <1>1, <1>2 DEF Forgets
<1>. QED
  BY <1>1, <1>3, FactorForgets

\* It survives a step of the session, which forgets at most.
LEMMA FactorBySession ==
    ASSUME Shape, FactorInv, SessionNext PROVE FactorInv'
<1>0. /\ CallsOK /\ SessionEffect /\ account' = account
      /\ sent \in 0..MaxCalls /\ sent <= sent' /\ sent' \in Nat
      /\ "codes" \in excused' <=> "codes" \in excused
  BY SessionEffects, TabAssumption DEF Shape, SessionEffect, CallsOK, TabTypeOK
<1>1. page' = "account" /\ view' = Fresh(page') => view'.setup = 0 /\ view'.codes = 0
  BY FreshForms DEF AccountForm
<1>2. CASE Restarted
  <2>1. Begins' = {} /\ Enables' = {} /\ Disables' = {}
    BY <1>2, NoneLive DEF Begins, Enables, Disables
  <2>2. Forgets
    BY <1>0, <1>1, <1>2, <2>1 DEF Forgets, Restarted
  <2>. QED
    BY <1>0, <2>2, FactorForgets
<1>3. CASE CallsGoOn /\ CopiesGoOn
  <2>1. ASSUME NEW act
        PROVE  /\ Live(<<act, "account">>)' \subseteq Live(<<act, "account">>)
               /\ \A i \in Live(<<act, "account">>)' :
                      /\ calls'[i].arg = calls[i].arg
                      /\ calls'[i].stage = calls[i].stage
                      /\ calls'[i].mine = calls[i].mine \/ (Left /\ ~calls'[i].mine)
    BY <1>0, <1>3, SessionLive
  <2>2. OnSetup' => ~Left
    BY <1>1 DEF OnSetup, Left
  <2>3. page' = "account" =>
           /\ view'.setup = 0 \/ (page = "account" /\ view'.setup = view.setup)
           /\ view'.codes = 0 \/ (page = "account" /\ view'.codes = view.codes)
    BY <1>1, <1>3 DEF CallsGoOn, Left, Outside
  <2>4. Forgets
    BY <1>0, <2>1, <2>2, <2>3 DEF Forgets, Begins, Enables, Disables
  <2>. QED
    BY <1>0, <2>4, FactorForgets
<1>. QED
  BY <1>0, <1>2, <1>3 DEF SessionEffect

\* Closing a card keeps the set-up and the codes, or forgets both.
LEMMA ClosedKeeps ==
    ASSUME NEW card, DOMAIN view = {"card", "filled", "setup", "codes"}
    PROVE  \/ Closed(card).setup = 0 /\ Closed(card).codes = 0
           \/ Closed(card).setup = view.setup /\ Closed(card).codes = view.codes
BY DEF Closed, AccountForm

\* It survives a step of the account page.
LEMMA FactorByAccount ==
    ASSUME Shape, FactorInv, AccountNext PROVE FactorInv'
<1> DEFINE Facts(i, act, value) ==
             /\ calls[i].do = <<act, "account">> /\ i \in Live(<<act, "account">>)
             /\ Begins' = Begins /\ Enables' = Enables /\ Disables' = Disables
             /\ \A j \in Call : /\ calls'[j].arg = calls[j].arg
                                /\ calls'[j].mine = calls[j].mine
             /\ \A j \in Call \ {i} : calls'[j] = calls[j]
             /\ account' = value /\ UNCHANGED <<page, view, sent, excused>>
             /\ i \in 1..sent
<1>0. /\ CallsOK /\ MineHere /\ TabTypeOK /\ AccountShape /\ account \in AccountFields
      /\ csrf \in Token /\ cookie \in Token /\ tour \in Tours
      /\ sent \in 0..MaxCalls /\ sent \in Nat /\ sent <= sent
      /\ page = "account" => DOMAIN view = {"card", "filled", "setup", "codes"}
  BY TabAssumption DEF Shape, TypeOK, TabTypeOK, CallsOK, AccountShape
<1>a. /\ Begins \subseteq Call /\ Enables \subseteq Call /\ Disables \subseteq Call
  BY DEF Begins, Enables, Disables, Live
<1>b. \A act : <<act, "account">>[1] # "none" <=> act # "none"
  OBVIOUS
<1>1. ASSUME UNCHANGED <<page, calls, sent, excused, account>>,
             page = "account" =>
               \/ view'.setup = 0 /\ view'.codes = 0
               \/ view'.setup = view.setup /\ view'.codes = view.codes
      PROVE  FactorInv'
  <2>1. Forgets
    BY <1>0, <1>1 DEF Forgets, Begins, Enables, Disables, Live
  <2>. QED
    BY <1>0, <2>1, FactorForgets
<1>2. ASSUME OpenCard \/ FillCard \/ CloseCard PROVE FactorInv'
  <2>1. page = "account" => /\ \A c : /\ [view EXCEPT !.card = c].setup = view.setup
                                      /\ [view EXCEPT !.card = c].codes = view.codes
                            /\ [view EXCEPT !.filled = TRUE].setup = view.setup
                            /\ [view EXCEPT !.filled = TRUE].codes = view.codes
    BY <1>0
  <2>. QED
    BY <1>0, <1>1, <1>2, <2>1, ClosedKeeps
       DEF OpenCard, FillCard, CloseCard, EditAccount
<1>3. ASSUME NEW act, NEW arg, act \notin {"begin", "enable", "disable"},
             Send(<<act, "account">>, arg), UNCHANGED <<view, account>>
      PROVE  FactorInv'
  <2>1. /\ Begins' = Begins /\ Enables' = Enables /\ Disables' = Disables
        /\ \A i \in Begins \cup Enables \cup Disables : calls'[i] = calls[i]
    BY <1>0, <1>3, SentLive DEF Send, Begins, Enables, Disables
  <2>2. Forgets
    BY <1>0, <1>3, <2>1 DEF Forgets, Send, Dispatch
  <2>. QED
    BY <1>0, <2>2, FactorForgets
<1>4. ASSUME EnableFactor PROVE FactorInv'
  <2>1. /\ Dispatch(<<"enable", "account">>, view.setup)
        /\ UNCHANGED <<page, view, account, excused>>
        /\ ~Pending(<<"enable", "account">>) /\ view.setup # 0 /\ view.codes = 0
        /\ page = "account" /\ sent' = sent + 1
    BY <1>4 DEF EnableFactor, Submit, Send, Dispatch, OnAccount
  <2>2. /\ Begins' = Begins /\ Enables' = Enables \cup {sent + 1}
        /\ Disables' = Disables /\ sent + 1 \in Call
        /\ \A i \in Begins \cup Enables \cup Disables : calls'[i] = calls[i]
        /\ calls'[sent + 1] = Request(<<"enable", "account">>, view.setup)
    BY <1>0, <2>1, SentLive DEF Begins, Enables, Disables
  <2>3. /\ calls'[sent + 1].arg = view.setup /\ calls'[sent + 1].mine
        /\ calls'[sent + 1].stage = "sent"
    BY <2>2 DEF Request
  <2>4. \A e \in Enables : calls[e].arg # view.setup
    <3>1. \A e \in Enables : ~calls[e].mine
      BY <1>0, <1>a, <2>1 DEF Pending, Enables, Live, CallsOK
    <3>. QED
      BY <2>1, <3>1 DEF FactorInv, OneEnable, OnSetup
  <2>5. Numbers'
    BY <1>0, <2>1, <2>2, <2>3 DEF FactorInv, Numbers, Secret
  <2>6. OneEnable'
    BY <2>1, <2>2, <2>3, <2>4 DEF FactorInv, OneEnable, OnSetup
  <2>7. CodesKept'
    BY <2>1, <2>2, <2>3 DEF FactorInv, CodesKept, OnSetup
  <2>. QED
    BY <2>5, <2>6, <2>7 DEF FactorInv
<1>5. ASSUME DisableFactor PROVE FactorInv'
  <2>1. /\ Dispatch(<<"disable", "account">>, account.secret)
        /\ UNCHANGED <<page, view, account>>
        /\ view.setup = 0 /\ view.codes = 0 /\ page = "account" /\ sent' = sent + 1
        /\ excused' = IF \E do \in {"begin", "enable"} : Pending(<<do, "account">>)
                      THEN excused \cup {"codes"} ELSE excused
    BY <1>5 DEF DisableFactor, Dispatch, OnAccount
  <2>2. /\ Begins' = Begins /\ Enables' = Enables
        /\ Disables' = Disables \cup {sent + 1}
        /\ \A i \in Begins \cup Enables \cup Disables : calls'[i] = calls[i]
        /\ calls'[sent + 1] = Request(<<"disable", "account">>, account.secret)
    BY <1>0, <2>1, SentLive DEF Begins, Enables, Disables
  <2>3. calls'[sent + 1].arg = account.secret
    BY <2>2 DEF Request
  <2>4. "codes" \notin excused' =>
            /\ "codes" \notin excused
            /\ \A c \in Begins \cup Enables : ~calls[c].mine
    BY <1>0, <1>a, <2>1 DEF Pending, Begins, Enables, Live, CallsOK
  <2>5. Numbers'
    BY <1>0, <2>1, <2>2, <2>3 DEF FactorInv, Numbers, Secret
  <2>6. OneEnable'
    BY <2>1, <2>2 DEF FactorInv, OneEnable, OnSetup
  <2>7. CodesKept'
    BY <2>1, <2>2, <2>4 DEF CodesKept, OnSetup
  <2>. QED
    BY <2>5, <2>6, <2>7 DEF FactorInv
<1>6. ASSUME BeginFactor PROVE FactorInv'
  <2>1. /\ Dispatch(<<"begin", "account">>, Blank)
        /\ UNCHANGED <<page, view, account, excused>>
        /\ view.setup = 0 /\ view.codes = 0 /\ page = "account" /\ sent' = sent + 1
    BY <1>6 DEF BeginFactor, Submit, Send, Dispatch, OnAccount
  <2>2. /\ Begins' = Begins \cup {sent + 1} /\ Enables' = Enables
        /\ Disables' = Disables /\ sent + 1 \in Call
        /\ \A i \in Begins \cup Enables \cup Disables : calls'[i] = calls[i]
    BY <1>0, <2>1, SentLive DEF Begins, Enables, Disables
  <2>3. /\ sent + 1 \notin Secret /\ sent + 1 \notin 1..sent /\ sent + 1 # 0
    BY <1>0, <2>2, TabAssumption DEF Secret, FirstSecret, Call
  <2>4. Numbers'
    BY <1>0, <2>1, <2>2 DEF FactorInv, Numbers, Secret
  <2>5. OneEnable'
    BY <2>1, <2>2, <2>3 DEF FactorInv, OneEnable, OnSetup, Numbers
  <2>6. CodesKept'
    BY <2>1, <2>2, <2>3 DEF FactorInv, CodesKept, OnSetup, Numbers
  <2>. QED
    BY <2>4, <2>5, <2>6 DEF FactorInv
<1>7. ASSUME NEW i \in Call, NEW act, NEW value, NEW answer,
             ServeAccount(i, act, value, answer)
      PROVE  Facts(i, act, value)
  <2>1. /\ calls[i].do = <<act, "account">> /\ calls[i].stage = "sent"
        /\ Served(i, answer) /\ account' = value
        /\ UNCHANGED <<page, view, sent, excused>>
    BY <1>7 DEF ServeAccount, Accepted
  <2>2. i \in 1..sent
    BY <1>0, <2>1 DEF CallsOK, Call
  <2>3. \A kind : Live(kind)' = Live(kind)
    BY <1>0, <2>1, ServedLive
  <2>4. /\ \A j \in Call : calls'[j].arg = calls[j].arg /\ calls'[j].mine = calls[j].mine
        /\ \A j \in Call \ {i} : calls'[j] = calls[j]
    BY <1>0, <2>1, ServedLive
  <2>5. i \in Live(<<act, "account">>)
    BY <2>1 DEF Live
  <2>. QED
    BY <2>1, <2>2, <2>3, <2>4, <2>5 DEF Begins, Enables, Disables
<1>8. ASSUME NEW i \in Call, ServeUsername(i) \/ ServePassword(i) PROVE FactorInv'
  <2>1. PICK act \in {"username", "password"},
             value \in {[account EXCEPT !.name = i], account}, answer \in {i, Blank} :
            ServeAccount(i, act, value, answer)
    BY <1>8 DEF ServeUsername, ServePassword
  <2>2. /\ account'.secret = account.secret /\ account'.on = account.on
        /\ account'.codes = account.codes
    BY <1>0, <1>7, <2>1 DEF AccountFields
  <2>3. i \notin Begins \cup Enables \cup Disables
    BY <1>7, <2>1 DEF Begins, Enables, Disables, Live
  <2>4. Forgets
    <3>1. \A j \in Begins' \cup Enables' \cup Disables' : calls'[j] = calls[j]
      BY <1>7, <1>a, <2>1, <2>3
    <3>. QED
      BY <1>0, <1>7, <2>1, <2>2, <3>1 DEF Forgets
  <2>. QED
    BY <1>0, <2>4, FactorForgets
<1>9. ASSUME NEW i \in Call, ServeBegin(i) PROVE FactorInv'
  <2>1. PICK v, a : /\ ServeAccount(i, "begin", v, a) /\ ~account.on
                    /\ v = [account EXCEPT !.secret = i]
    BY <1>9 DEF ServeBegin
  <2>s. Facts(i, "begin", v)
    BY <1>7, <2>1
  <2>2. account'.secret = i /\ ~account'.on
    BY <1>0, <2>s, <2>1 DEF AccountFields
  <2>3. i \notin Enables
    BY <2>s DEF Enables, Live
  <2>4. Numbers' /\ OneEnable'
    BY <1>a, <2>s, <2>1, <2>2 DEF FactorInv, Numbers, OneEnable, OnSetup, Secret
  <2>5. CodesKept'
    BY <1>a, <2>s, <2>1, <2>2, <2>3 DEF FactorInv, CodesKept, OnSetup
  <2>. QED
    BY <2>4, <2>5 DEF FactorInv
<1>10. ASSUME NEW i \in Call, ServeEnable(i) PROVE FactorInv'
  <2>1. PICK v, a : /\ ServeAccount(i, "enable", v, a)
                    /\ v = [account EXCEPT !.on = TRUE, !.codes = i]
                    /\ account.secret # 0 /\ calls[i].arg = account.secret
    BY <1>10 DEF ServeEnable
  <2>s. Facts(i, "enable", v)
    BY <1>7, <2>1
  <2>2. account'.secret = account.secret /\ account'.on /\ account'.codes = i
    BY <1>0, <2>s, <2>1 DEF AccountFields
  <2>3. i \in Enables
    BY <2>s DEF Enables
  <2>4. Numbers' /\ OneEnable'
    BY <1>a, <2>s, <2>1, <2>2 DEF FactorInv, Numbers, OneEnable, OnSetup, Secret
  <2>5. \A e \in Enables \ {i} : calls[e].arg # account.secret
    BY <2>1, <2>3 DEF FactorInv, OneEnable
  <2>6. CodesKept'
    BY <1>a, <2>s, <2>1, <2>2, <2>3, <2>5 DEF FactorInv, CodesKept, OnSetup
  <2>. QED
    BY <2>4, <2>6 DEF FactorInv
<1>11. ASSUME NEW i \in Call, ServeDisable(i) PROVE FactorInv'
  <2>1. PICK v, a :
           /\ ServeAccount(i, "disable", v, a)
           /\ v = [account EXCEPT !.on = FALSE, !.secret = 0, !.codes = 0]
           /\ calls[i].arg = account.secret
    BY <1>11 DEF ServeDisable
  <2>s. Facts(i, "disable", v)
    BY <1>7, <2>1
  <2>2. account'.secret = 0
    BY <1>0, <2>s, <2>1 DEF AccountFields
  <2>3. i \in Disables /\ i \notin Enables
    BY <2>s DEF Disables, Enables, Live
  <2>4. Numbers' /\ OneEnable'
    BY <1>0, <1>a, <2>s, <2>1, <2>2
       DEF FactorInv, Numbers, OneEnable, OnSetup, Secret
  <2>5. CodesKept'
    BY <1>a, <2>s, <2>1, <2>3 DEF FactorInv, CodesKept, OnSetup
  <2>. QED
    BY <2>4, <2>5 DEF FactorInv
<1>12. ASSUME NEW i \in Call, NEW act, act # "none",
              calls[i].do = <<act, "account">>, Done(i), UNCHANGED <<page, sent, account>>,
              "codes" \in excused => "codes" \in excused',
              page = "account" =>
                \/ view'.setup = 0 /\ view'.codes = 0
                \/ view'.setup = view.setup /\ view'.codes = view.codes
       PROVE  FactorInv'
  <2>1. /\ Begins' = Begins \ {i} /\ Enables' = Enables \ {i}
        /\ Disables' = Disables \ {i}
        /\ \A j \in Call \ {i} : calls'[j] = calls[j]
    BY <1>0, <1>12, DoneLive DEF Begins, Enables, Disables
  <2>2. Forgets
    BY <1>0, <1>a, <1>12, <2>1 DEF Forgets
  <2>. QED
    BY <1>0, <2>2, FactorForgets
<1>13. ASSUME NEW field, NEW value, NEW now, WriteMe(field, value, now)
       PROVE  "codes" \in excused <=> "codes" \in excused'
  BY <1>13 DEF WriteMe
<1>14. ASSUME NEW i \in Call, UsernameSaved(i) \/ PasswordSaved(i) \/ FactorDisabled(i)
                              \/ LoseAccountAnswer(i)
       PROVE  FactorInv'
  <2>1. page = "account" =>
             /\ [Closed("factor") EXCEPT !.setup = 0, !.codes = 0].setup = 0
             /\ [Closed("factor") EXCEPT !.setup = 0, !.codes = 0].codes = 0
    BY <1>0, ClosedForms
  <2>2. CASE UsernameSaved(i)
    BY <1>0, <1>12, <1>13, <2>2, ClosedKeeps
       DEF UsernameSaved, AnswerAccount, Answered
  <2>3. CASE PasswordSaved(i)
    BY <1>0, <1>12, <2>3, ClosedKeeps DEF PasswordSaved, AnswerAccount, Answered
  <2>4. CASE FactorDisabled(i)
    BY <1>0, <1>12, <1>13, <2>1, <2>4 DEF FactorDisabled, AnswerAccount, Answered
  <2>5. CASE LoseAccountAnswer(i)
    BY <1>0, <1>12, <2>5 DEF LoseAccountAnswer, Lost, Answered
  <2>. QED
    BY <1>14, <2>2, <2>3, <2>4, <2>5
<1>15. ASSUME NEW i \in Call, FactorBegun(i) PROVE FactorInv'
  <2> DEFINE filled == view.filled /\ view.card # "factor"
  <2>1. /\ calls[i].do = <<"begin", "account">> /\ Done(i)
        /\ calls[i].stage = "served"
        /\ UNCHANGED <<page, sent, account, excused>>
        /\ view' = IF calls[i].mine
                   THEN [view EXCEPT !.setup = calls[i].answer, !.filled = filled]
                   ELSE view
    BY <1>15 DEF FactorBegun, AnswerAccount, Answered
  <2>2. /\ calls[i].answer = i /\ i \in Begins /\ i \in 1..sent
    BY <1>0, <2>1 DEF AccountShape, Numbered, Begins, Live, CallsOK, Call
  <2>3. CASE ~calls[i].mine
    BY <1>12, <2>1, <2>3
  <2>4. CASE calls[i].mine
    <3>1. page = "account"
      BY <1>0, <2>1, <2>4 DEF MineHere, PageOf
    <3>2. view'.setup = i /\ view'.codes = view.codes
      <4>. HIDE DEF filled
      <4>. QED
        BY <1>0, <2>1, <2>2, <2>4, <3>1
    <3>3. /\ Begins' = Begins \ {i} /\ Enables' = Enables \ {i}
          /\ Disables' = Disables \ {i}
          /\ \A j \in Call \ {i} : calls'[j] = calls[j]
      BY <1>0, <2>1, DoneLive DEF Begins, Enables, Disables
    <3>4. Numbers'
      BY <1>0, <1>a, <2>1, <2>2, <3>2, <3>3 DEF FactorInv, Numbers, Secret
    <3>5. OneEnable'
      BY <1>a, <2>1, <2>2, <3>2, <3>3 DEF FactorInv, OneEnable, OnSetup
    <3>6. CodesKept'
      BY <1>a, <2>1, <2>2, <2>4, <3>2, <3>3 DEF FactorInv, CodesKept, OnSetup
    <3>. QED
      BY <3>4, <3>5, <3>6 DEF FactorInv
  <2>. QED
    BY <2>3, <2>4
<1>16. ASSUME NEW i \in Call, FactorEnabled(i) PROVE FactorInv'
  <2> DEFINE filled == view.filled /\ view.card # "factor"
  <2>1. /\ calls[i].do = <<"enable", "account">> /\ Done(i)
        /\ calls[i].stage = "served"
        /\ UNCHANGED <<page, sent, account>>
        /\ "codes" \in excused' <=> "codes" \in excused
        /\ view' = IF calls[i].mine
                   THEN [view EXCEPT !.setup = 0, !.codes = calls[i].answer,
                                     !.filled = filled]
                   ELSE view
    BY <1>13, <1>16 DEF FactorEnabled, AnswerAccount, Answered
  <2>2. /\ calls[i].answer = i /\ i \in Enables /\ i \in 1..sent
    BY <1>0, <2>1 DEF AccountShape, Numbered, Enables, Live, CallsOK, Call
  <2>3. CASE ~calls[i].mine
    BY <1>12, <2>1, <2>3
  <2>4. CASE calls[i].mine
    <3>1. page = "account"
      BY <1>0, <2>1, <2>4 DEF MineHere, PageOf
    <3>2. view'.setup = 0 /\ view'.codes = i
      <4>. HIDE DEF filled
      <4>. QED
        BY <1>0, <2>1, <2>2, <2>4, <3>1
    <3>3. /\ Begins' = Begins \ {i} /\ Enables' = Enables \ {i}
          /\ Disables' = Disables \ {i}
          /\ \A j \in Call \ {i} : calls'[j] = calls[j]
          /\ i \notin Disables
      BY <1>0, <2>1, DoneLive DEF Begins, Enables, Disables, Live
    <3>4. Numbers'
      BY <1>0, <1>a, <2>1, <2>2, <3>2, <3>3 DEF FactorInv, Numbers, Secret
    <3>5. OneEnable'
      <4>1. \A b \in Begins : b # 0
        BY <1>a DEF Call
      <4>. QED
        BY <1>a, <2>1, <2>2, <3>2, <3>3, <4>1 DEF FactorInv, OneEnable, OnSetup
    <3>6. CodesKept'
      <4>1. ASSUME "codes" \notin excused
            PROVE  /\ account.on /\ account.codes = i /\ account.secret # 0
                   /\ account.secret = calls[i].arg
                   /\ \A c \in (Enables \ {i}) \cup Disables : calls[c].arg # calls[i].arg
        BY <2>1, <2>2, <2>4, <4>1 DEF FactorInv, CodesKept, OneEnable, Numbers
      <4>. QED
        BY <1>a, <2>1, <2>2, <2>4, <3>2, <3>3, <4>1
           DEF FactorInv, CodesKept, OnSetup
    <3>. QED
      BY <3>4, <3>5, <3>6 DEF FactorInv
  <2>. QED
    BY <2>3, <2>4
<1>17. ASSUME OtherTabDisables PROVE FactorInv'
  <2>1. /\ account' = [account EXCEPT !.on = FALSE, !.secret = 0, !.codes = 0]
        /\ "codes" \in excused' /\ UNCHANGED <<page, view, calls, sent>>
    BY <1>17 DEF OtherTabDisables
  <2>2. account'.secret = 0
    BY <1>0, <2>1 DEF AccountFields
  <2>. QED
    BY <1>0, <2>1, <2>2
       DEF FactorInv, Numbers, OneEnable, CodesKept, OnSetup, Secret, Begins,
          Enables,
           Disables, Live
<1>. QED
  BY <1>2, <1>3, <1>4, <1>5, <1>6, <1>8, <1>9, <1>10, <1>11, <1>14, <1>15,
     <1>16, <1>17
     DEF AccountNext, ChangeUsername, ChangePassword, Submit

\* It survives every step.
LEMMA FactorStep ==
    ASSUME Shape, FactorInv, [Next]_vars PROVE FactorInv'
<1>1. CASE UNCHANGED vars
  BY <1>1 DEF vars, tabVars, accountVars, FactorInv, Numbers, OneEnable, CodesKept,
              OnSetup, Secret, Begins, Enables, Disables, Live
<1>2. CASE SettingsNext /\ UNCHANGED <<resourceVars, accountVars, activityVars, admin>>
  BY <1>2, SettingsEffect, FactorByOthers DEF accountVars
<1>3. CASE ActivityNext /\ UNCHANGED <<resourceVars, accountVars, settingsVars, admin>>
  BY <1>3, ActivityEffect, FactorByOthers DEF accountVars
<1>4. CASE ResourceNext /\ UNCHANGED <<accountVars, activityVars, settingsVars, admin>>
  BY <1>4, ResourceEffect, FactorByOthers, PageNames DEF accountVars
<1>. QED
  BY <1>1, <1>2, <1>3, <1>4, FactorBySession, FactorByAccount DEF Next

\* It holds in every reachable state.
LEMMA FactorHolds == Spec => []FactorInv
<1>1. Shape /\ FactorInv /\ [Next]_vars => FactorInv'
  BY FactorStep
<1>. QED
  BY <1>1, FactorInit, ShapeHolds, PTL DEF Spec

\* The recovery codes on display are those the server accepts, unless another
\* tab, or a disabling sent while the set-up was under way, took them back
\* (account.tsx).
THEOREM CodesHold == Spec => []ShownCodesInForce
<1>1. FactorInv => ShownCodesInForce
  BY DEF FactorInv, CodesKept, ShownCodesInForce
<1>. QED
  BY <1>1, FactorHolds, PTL

(***************************************************************************)
(* The rows in view                                                        *)
(***************************************************************************)
\* The rows the tab or the server knows of, now or when a save is served.
Seen(k) ==
    table[k] \cup Rows(k)
    \cup (IF copy[k].stage = "read" THEN copy[k].got ELSE {})
    \cup {calls[i].arg : i \in Live(<<"save", k>>)}

\* The pages learn of rows from the server only.
CopyRows(k) ==
    /\ copy'[k].known => \/ copy[k].known /\ copy'[k].value = copy[k].value
                         \/ copy[k].stage = "read" /\ copy'[k].value = copy[k].got
    /\ copy'[k].stage = "read" => \/ copy[k].stage = "read" /\ copy'[k].got = copy[k].got
                                  \/ copy'[k].got = table[k]

\* No save sends a row that was not sent before.
SaveArgs(k) ==
    \A i \in Live(<<"save", k>>)' : i \in Live(<<"save", k>>)
                                    /\ calls'[i].arg = calls[i].arg

\* A row is known by the server, by a copy, by a fetch or by a save.
LEMMA SeenRow ==
    ASSUME NEW k, NEW r
    PROVE  r \in Seen(k) <=>
              \/ r \in table[k]
              \/ copy[k].known /\ r \in copy[k].value
              \/ copy[k].stage = "read" /\ r \in copy[k].got
              \/ \E i \in Live(<<"save", k>>) : r = calls[i].arg
BY DEF Seen, Rows

\* No row becomes known when the server learns of none and no save is sent.
LEMMA SeenShrinks ==
    ASSUME NEW k, CopyRows(k), SaveArgs(k), table'[k] \subseteq Seen(k)
    PROVE  Seen(k)' \subseteq Seen(k)
<1> SUFFICES ASSUME NEW r \in Seen(k)' PROVE r \in Seen(k)
  OBVIOUS
<1>1. \/ r \in table'[k]
      \/ copy'[k].known /\ r \in copy'[k].value
      \/ copy'[k].stage = "read" /\ r \in copy'[k].got
      \/ \E i \in Live(<<"save", k>>)' : r = calls'[i].arg
  BY DEF Seen, Rows
<1>. QED
  BY <1>1, SeenRow DEF CopyRows, SaveArgs

\* The session makes no row known.
LEMMA SessionRows ==
    ASSUME Shape, SessionNext, NEW k \in Lists
    PROVE  CopyRows(k) /\ SaveArgs(k)
<1>0. /\ CallsOK /\ SessionEffect /\ k \in Query /\ k \notin {"me", "setup-status"}
      /\ k \notin {"none", "session"}
  BY SessionEffects, PageNames DEF Shape
<1>1. CASE Restarted
  BY <1>0, <1>1, NoneLive, UnknownCopy DEF Restarted, CopyRows, SaveArgs
<1>2. CASE CallsGoOn /\ CopiesGoOn
  <2>1. QueryStep(k) /\ Truth(k, copy[k].bearer) = table[k]
    BY <1>0, <1>2, Truths DEF CopiesGoOn, SessionWrites
  <2>2. CopyRows(k)
    BY <2>1 DEF CopyRows, QueryStep, Stays, Asked, HasRead, HasLanded, HasMissed
  <2>3. SaveArgs(k)
    BY <1>0, <1>2, SessionLive DEF SaveArgs
  <2>. QED
    BY <2>2, <2>3
<1>. QED
  BY <1>0, <1>1, <1>2 DEF SessionEffect

\* Nor does a step of another page.
LEMMA OthersRows ==
    ASSUME NEW m, NEW qs, PageEffect(m, qs), NEW k \in Lists, k # m, k \notin qs
    PROVE  CopyRows(k) /\ SaveArgs(k)
<1>1. copy'[k] = copy[k] /\ OnlyCallsOf(m)
  BY PageNames DEF PageEffect, CallStep
<1>2. SaveArgs(k)
  BY <1>1, OthersLive, PageNames DEF SaveArgs
<1>. QED
  BY <1>1, <1>2 DEF CopyRows

\* The resource pages leave the copies to the server.
LEMMA ResourceRows ==
    ASSUME Shape, ResourceNext, NEW k \in Lists
    PROVE  CopyRows(k)
<1>0. CopiesOK /\ k \in Query
  BY PageNames DEF Shape, TypeOK, TabTypeOK, CopiesOK
<1>1. ASSUME \E qs : copy' \in {copy, Behind(copy, qs), Invalidated(copy, qs)}
      PROVE  CopyRows(k)
  <2>1. PICK qs : copy' \in {copy, Behind(copy, qs), Invalidated(copy, qs)}
    BY <1>1
  <2>2. CASE copy' = copy
    BY <2>2 DEF CopyRows
  <2>3. CASE copy' = Behind(copy, qs)
    BY <1>0, <2>3, BehindCopies DEF CopyRows
  <2>4. CASE copy' = Invalidated(copy, qs)
    <3>1. /\ copy'[k].known = copy[k].known /\ copy'[k].value = copy[k].value
          /\ copy'[k].stage = "read" => /\ copy[k].stage = "read"
                                        /\ copy'[k].got = copy[k].got
      BY <1>0, <2>4, InvalidatedCopies
    <3>. QED
      BY <3>1 DEF CopyRows
  <2>. QED
    BY <2>1, <2>2, <2>3, <2>4
<1>2. ASSUME copy' = copy PROVE CopyRows(k)
  BY <1>2 DEF CopyRows
<1>3. ASSUME NEW p, NEW form, Edit(p, form) PROVE CopyRows(k)
  BY <1>2, <1>3 DEF Edit
<1>4. ASSUME NEW do, NEW arg, Send(do, arg) PROVE CopyRows(k)
  BY <1>2, <1>4 DEF Send, Dispatch
<1>5. CASE \/ ChannelDialog \/ TemplateDialog \/ GroupDialog \/ SourceDialog
           \/ RuleDialog \/ ScheduleDialog
  BY <1>3, <1>5
     DEF ChannelDialog, TemplateDialog, GroupDialog, SourceDialog, RuleDialog,
         ScheduleDialog, OpenSourceDialog, OpenDialog, CloseDialog, TypeName
<1>6. CASE \/ SaveChannel \/ TestChannel \/ SaveTemplate \/ PreviewTemplate
           \/ SaveGroup \/ SaveSource \/ SaveRule \/ SaveSchedule
  BY <1>4, <1>6
     DEF SaveChannel, TestChannel, SaveTemplate, PreviewTemplate, SaveGroup,
         SaveSource, SaveRule, SaveSchedule, Save, Press
<1>7. CASE \/ RemoveChannel \/ RemoveTemplate \/ RemoveGroup \/ RemoveSource
           \/ RemoveRule \/ RemoveSchedule \/ RotateToken
  BY <1>4, <1>7
     DEF RemoveChannel, RemoveTemplate, RemoveGroup, RemoveSource, RemoveRule,
         RemoveSchedule, RotateToken, RemoveRow
<1>8. CASE CopyCredentials
  BY <1>2, <1>8 DEF CopyCredentials, tabVars
<1>9. ASSUME NEW i \in Call, NEW l \in Lists,
             ServeSave(i, l) \/ ServeRemove(i, l) \/ AnswerSave(i, l) \/ AnswerRemove(i, l)
      PROVE  CopyRows(k)
  BY <1>1, <1>9 DEF ServeSave, ServeRemove, AnswerSave, AnswerRemove
<1>10. ASSUME NEW i \in Call, ServeRotate(i) \/ AnswerRotate(i) \/ ServeTrial(i)
                              \/ AnswerTrial(i) \/ LoseResourceAnswer(i)
       PROVE  CopyRows(k)
  BY <1>1, <1>10
     DEF ServeRotate, AnswerRotate, ServeTrial, AnswerTrial, LoseResourceAnswer
<1>11. CASE OtherTabRemoves \/ OtherTabRotates
  BY <1>1, <1>11 DEF OtherTabRemoves, OtherTabRotates, OtherTabChanges
<1>12. {"channels", "templates", "groups", "sources", "rules", "schedules"}
           \subseteq Lists
  BY DEF Lists
<1>. QED
  BY <1>5, <1>6, <1>7, <1>8, <1>9, <1>10, <1>11, <1>12
     DEF ResourceNext, ChannelSaved, ChannelRemoved, TemplateSaved,
         TemplateRemoved, GroupSaved, GroupRemoved, SourceSaved, SourceRemoved,
         RuleSaved, RuleRemoved, ScheduleSaved, ScheduleRemoved

\* A deletion leaves the groups as they were, or without their pair.
LEMMA RemainingGroups ==
    ASSUME DOMAIN table = Lists, NEW k \in Lists, NEW id,
           NEW h \in Remaining(k, id)["groups"]
    PROVE  \E g \in table["groups"] :
               h = g \/ h = [g EXCEPT !.channel = 0, !.template = 0]
<1> DEFINE gone(m) == IF m = k THEN {id} ELSE {}
           kept == {g \in (IF k = "groups" THEN {r \in table["groups"] : r.id # id}
                           ELSE table["groups"]) : g.id \notin gone("groups")}
           bound == {IF g.channel \in gone("channels")
                        \/ g.template \in gone("templates")
                     THEN [g EXCEPT !.channel = 0, !.template = 0] ELSE g
                     : g \in kept}
<1>1. "groups" \in Lists
  BY DEF Lists
<1>2. Remaining(k, id)["groups"] = bound
  BY <1>1 DEF Remaining, Lists
<1>3. PICK g \in kept :
         h = IF g.channel \in gone("channels") \/ g.template \in gone("templates")
             THEN [g EXCEPT !.channel = 0, !.template = 0] ELSE g
  BY <1>2
<1>4. g \in table["groups"]
  OBVIOUS
<1>. QED
  BY <1>3, <1>4

(***************************************************************************)
(* The rows the pages choose among                                         *)
(***************************************************************************)
\* The lists whose rows have a type.
Kinds == {"channels", "templates"}

\* Of a list whose rows never change a row is new only when a save sends it.
NewRow(k, row) ==
    /\ sent' = sent + 1 /\ row.id = NewId(sent')
    /\ k = "channels" => /\ page = "channels"
                         /\ row.type = view.type /\ row.config = view.config

\* Of such a list at most a row becomes known that a save has just sent.
Grows(k) == \/ Seen(k)' \subseteq Seen(k)
            \/ \E row : NewRow(k, row) /\ Seen(k)' \subseteq Seen(k) \cup {row}

\* The rows known are old, or those of saves that were sent.
SeenIds(k) == \A r \in Seen(k) : r.id \in 1..NewId(sent)
\* A row has one type, wherever it is known.
SeenTypes(k) == \A r, s \in Seen(k) : r.id = s.id => r.type = s.type
\* The configuration of a channel is of its type.
SeenConfigs == \A c \in Seen("channels") : c.config \subseteq {c.type}

\* A pair of a channel and a template that fits, whatever copy it is taken from.
Fit(g) ==
    /\ g.channel \in 0..NewId(sent) /\ g.template \in 0..NewId(sent)
    /\ \A c \in Seen("channels"), t \in Seen("templates") :
           g.channel = c.id /\ g.template = t.id => c.type = t.type

GroupFields == {"id", "channel", "template"}
SaveGroups == <<"save", "groups">>

\* The groups the server holds, and those it is sent, are pairs that fit.
GroupsFit ==
    /\ \A g \in table["groups"] : DOMAIN g = GroupFields /\ Fit(g)
    /\ \A i \in Live(SaveGroups) :
           DOMAIN calls[i].arg = GroupFields /\ Fit(calls[i].arg)

\* So are the choices in the forms of channels and groups.
FormsFit ==
    /\ page = "channels" => /\ DOMAIN view = {"open", "named", "type", "config"}
                            /\ view.config \subseteq {view.type}
    /\ page = "groups" => /\ DOMAIN view = {"open", "named", "channel", "template"}
                          /\ Fit(view)

\* What is inductive about the rows, given Shape.
RowsInv ==
    /\ \A k \in Kinds : SeenIds(k) /\ SeenTypes(k)
    /\ SeenConfigs
    /\ GroupsFit
    /\ FormsFit

\* A list grows by the row a save sends.
LEMMA SeenGrows ==
    ASSUME NEW k, CopyRows(k), table'[k] \subseteq Seen(k), NEW row, NewRow(k, row),
           \A i \in Live(<<"save", k>>)' :
               \/ i \in Live(<<"save", k>>) /\ calls'[i].arg = calls[i].arg
               \/ calls'[i].arg = row
    PROVE  Grows(k)
<1> SUFFICES ASSUME NEW r \in Seen(k)' PROVE r \in Seen(k) \cup {row}
  BY DEF Grows
<1>1. \/ r \in table'[k]
      \/ copy'[k].known /\ r \in copy'[k].value
      \/ copy'[k].stage = "read" /\ r \in copy'[k].got
      \/ \E i \in Live(<<"save", k>>)' : r = calls'[i].arg
  BY DEF Seen, Rows
<1>. QED
  BY <1>1, SeenRow DEF CopyRows

\* What the known rows are, they stay.
LEMMA SeenKeeps ==
    ASSUME Shape, sent <= sent', sent' \in Nat, NEW k, SeenIds(k), SeenTypes(k), Grows(k)
    PROVE  SeenIds(k)' /\ SeenTypes(k)'
<1>1. sent \in Nat
  BY SentIsNumber DEF Shape
<1>2. CASE Seen(k)' \subseteq Seen(k)
  <2>1. SeenTypes(k)'
    BY <1>2 DEF SeenTypes
  <2>2. SeenIds(k)'
    BY <1>1, <1>2 DEF SeenIds, NewId, FirstNew
  <2>. QED
    BY <2>1, <2>2
<1>3. ASSUME NEW row, NewRow(k, row), Seen(k)' \subseteq Seen(k) \cup {row}
      PROVE  SeenIds(k)' /\ SeenTypes(k)'
  <2>1. row.id \in 1..NewId(sent') /\ \A r \in Seen(k) : r.id # row.id
    BY <1>1, <1>3 DEF NewRow, SeenIds, NewId, FirstNew
  <2>2. SeenIds(k)'
    BY <1>1, <1>3, <2>1 DEF SeenIds, NewId, FirstNew
  <2>3. SeenTypes(k)'
    BY <1>3, <2>1 DEF SeenTypes
  <2>. QED
    BY <2>2, <2>3
<1>. QED
  BY <1>2, <1>3 DEF Grows

\* A channel is sent with a configuration of the type in its form.
LEMMA ConfigsKeep ==
    ASSUME SeenConfigs, FormsFit, Grows("channels") PROVE SeenConfigs'
BY DEF Grows, SeenConfigs, FormsFit, NewRow

\* A pair that fits goes on fitting: a row that becomes known is another one.
LEMMA FitKeeps ==
    ASSUME Shape, sent <= sent', sent' \in Nat, \A k \in Kinds : SeenIds(k) /\ Grows(k),
           NEW g, Fit(g)
    PROVE  Fit(g)'
<1>1. sent \in Nat
  BY SentIsNumber DEF Shape
<1>2. g.channel \in 0..NewId(sent') /\ g.template \in 0..NewId(sent')
  BY <1>1 DEF Fit, NewId, FirstNew
<1>3. ASSUME NEW k \in Kinds, NEW r \in Seen(k)', r.id \in 0..NewId(sent)
      PROVE  r \in Seen(k)
  BY <1>1, <1>3 DEF Grows, NewRow, NewId, FirstNew
<1>4. ASSUME NEW c \in Seen("channels")', NEW t \in Seen("templates")',
             g.channel = c.id, g.template = t.id
      PROVE  c.type = t.type
  <2>1. c \in Seen("channels") /\ t \in Seen("templates")
    BY <1>3, <1>4 DEF Kinds, Fit
  <2>. QED
    BY <1>4, <2>1 DEF Fit
<1>. QED
  BY <1>2, <1>4 DEF Fit

\* What a save sends, and when.
SaveSent(k, i) ==
    /\ i = sent + 1 /\ sent' = sent + 1 /\ page = k
    /\ calls'[i].arg.id = NewId(sent')
    /\ k = "channels" => /\ calls'[i].arg.type = view.type
                         /\ calls'[i].arg.config = view.config
    /\ k = "groups" => /\ DOMAIN calls'[i].arg = GroupFields
                       /\ calls'[i].arg.channel = view.channel
                       /\ calls'[i].arg.template = view.template
    /\ k = "sources" => /\ calls'[i].arg = [id |-> NewId(i), token |-> NewId(i)]
                        /\ view.created = Blank

\* Every save under way was so before, or has just been sent.
LEMMA ResourceSaves ==
    ASSUME Shape, ResourceNext, NEW k \in Lists, NEW i \in Live(<<"save", k>>)'
    PROVE  \/ i \in Live(<<"save", k>>) /\ calls'[i].arg = calls[i].arg
           \/ SaveSent(k, i)
<1>0. /\ CallsOK /\ tour \in Tours /\ csrf \in Token /\ cookie \in Token
      /\ sent \in Nat /\ i \in Call /\ calls'[i].do = <<"save", k>>
  BY SentIsNumber DEF Shape, TypeOK, TabTypeOK, Live
<1> DEFINE Goal == \/ i \in Live(<<"save", k>>) /\ calls'[i].arg = calls[i].arg
                   \/ SaveSent(k, i)
<1>1. ASSUME calls' = calls PROVE Goal
  BY <1>1 DEF Live
<1>2. ASSUME NEW p, NEW form, Edit(p, form) PROVE Goal
  BY <1>1, <1>2 DEF Edit
<1>3. CASE \/ ChannelDialog \/ TemplateDialog \/ GroupDialog \/ SourceDialog
           \/ RuleDialog \/ ScheduleDialog
  BY <1>2, <1>3
     DEF ChannelDialog, TemplateDialog, GroupDialog, SourceDialog, RuleDialog,
         ScheduleDialog, OpenSourceDialog, OpenDialog, CloseDialog, TypeName
<1>4. ASSUME NEW do, NEW arg, Send(do, arg), do # <<"save", k>> PROVE Goal
  <2>1. Dispatch(do, arg)
    BY <1>4 DEF Send
  <2>2. /\ Live(<<"save", k>>)' = Live(<<"save", k>>)
        /\ \A j \in Live(<<"save", k>>) : calls'[j] = calls[j]
    BY <1>0, <1>4, <2>1, SentLive
  <2>. QED
    BY <2>2
<1>5. ASSUME NEW l, NEW act, act # "save", NEW arg, Send(<<act, l>>, arg) PROVE Goal
  BY <1>4, <1>5
<1>6. CASE \/ RemoveChannel \/ RemoveTemplate \/ RemoveGroup \/ RemoveSource
           \/ RemoveRule \/ RemoveSchedule \/ RotateToken \/ TestChannel
           \/ PreviewTemplate
  BY <1>5, <1>6
     DEF RemoveChannel, RemoveTemplate, RemoveGroup, RemoveSource, RemoveRule,
         RemoveSchedule, RotateToken, RemoveRow, TestChannel, PreviewTemplate, Press
<1>7. ASSUME NEW l, NEW row, Save(l, row), page = l, row.id = NewId(sent + 1),
             l = "channels" => row.type = view.type /\ row.config = view.config,
             l = "groups" => /\ DOMAIN row = GroupFields
                             /\ row.channel = view.channel
                             /\ row.template = view.template,
             l = "sources" => /\ row = [id |-> NewId(sent + 1), token |-> NewId(sent + 1)]
                              /\ view.created = Blank
      PROVE  Goal
  <2>1. Dispatch(<<"save", l>>, row) /\ sent' = sent + 1
    BY <1>7 DEF Save, Press, Send, Dispatch
  <2>2. CASE l # k
    <3>1. <<"save", l>> # <<"save", k>>
      BY <2>2
    <3>. QED
      BY <1>4, <1>7, <3>1 DEF Save, Press
  <2>3. CASE l = k /\ i # sent + 1
    <3>1. calls'[i] = calls[i]
      BY <1>0, <2>1, <2>3, CallSent
    <3>. QED
      BY <1>0, <3>1 DEF Live
  <2>4. CASE l = k /\ i = sent + 1
    <3>0. calls'[sent + 1] = Request(<<"save", l>>, row)
      BY <1>0, <2>1, CallSent
    <3>1. calls'[i].arg = row
      BY <2>4, <3>0 DEF Request
    <3>2. /\ row.id = NewId(sent') /\ page = k
          /\ k = "channels" => row.type = view.type /\ row.config = view.config
          /\ k = "groups" => /\ DOMAIN row = GroupFields
                             /\ row.channel = view.channel
                             /\ row.template = view.template
      BY <1>7, <2>1, <2>4
    <3>3. k = "sources" => /\ row = [id |-> NewId(i), token |-> NewId(i)]
                           /\ view.created = Blank
      BY <1>7, <2>1, <2>4
    <3>. HIDE DEF GroupFields
    <3>. QED
      BY <2>1, <2>4, <3>1, <3>2, <3>3, Zenon DEF SaveSent
  <2>. QED
    BY <2>2, <2>3, <2>4
<1>8. CASE SaveChannel \/ SaveTemplate \/ SaveGroup
  BY <1>7, <1>8 DEF SaveChannel, SaveTemplate, SaveGroup, NextId, GroupFields
<1>9. CASE SaveSource \/ SaveRule \/ SaveSchedule
  BY <1>7, <1>9 DEF SaveSource, SaveRule, SaveSchedule, NextId
<1>10. CASE CopyCredentials \/ OtherTabRemoves \/ OtherTabRotates
  BY <1>1, <1>10
     DEF CopyCredentials, tabVars, OtherTabRemoves, OtherTabRotates, OtherTabChanges
<1>11. ASSUME NEW j \in Call, calls[j].stage = "sent", NEW v, Served(j, v), sent' = sent
       PROVE  Goal
  BY <1>0, <1>11, ServedLive
<1>12. ASSUME NEW j \in Call, Done(j), sent' = sent PROVE Goal
  BY <1>0, <1>12, DoneLive
<1>13. ASSUME NEW j \in Call, NEW l \in Lists, ServeSave(j, l) \/ ServeRemove(j, l)
       PROVE  Goal
  BY <1>11, <1>13 DEF ServeSave, ServeRemove, Accepted, Kept
<1>14. ASSUME NEW j \in Call, ServeRotate(j) PROVE Goal
  <2>1. \E v : Served(j, v)
    BY <1>14 DEF ServeRotate
  <2>. QED
    BY <1>11, <1>14, <2>1 DEF ServeRotate, Accepted, Kept
<1>15. ASSUME NEW j \in Call, ServeTrial(j) PROVE Goal
  BY <1>11, <1>15 DEF ServeTrial, Accepted, Kept
<1>16. ASSUME NEW j \in Call, NEW l, AnswerSave(j, l) \/ AnswerRemove(j, l) PROVE Goal
  BY <1>12, <1>16 DEF AnswerSave, AnswerRemove, Settled
<1>17. ASSUME NEW j \in Call, AnswerRotate(j) \/ AnswerTrial(j) \/ LoseResourceAnswer(j)
       PROVE  Goal
  BY <1>12, <1>17 DEF AnswerRotate, AnswerTrial, LoseResourceAnswer, Lost, Settled
<1>18. {"channels", "templates", "groups", "sources", "rules", "schedules"}
           \subseteq Lists
  BY DEF Lists
<1>. QED
  BY <1>3, <1>6, <1>8, <1>9, <1>10, <1>13, <1>14, <1>15, <1>16, <1>17
     DEF ResourceNext, ChannelSaved, ChannelRemoved, TemplateSaved,
         TemplateRemoved, GroupSaved, GroupRemoved, SourceSaved, SourceRemoved,
         RuleSaved, RuleRemoved, ScheduleSaved, ScheduleRemoved

\* What becomes of the server's rows.
LEMMA ResourceTable ==
    ASSUME Shape, ResourceNext
    PROVE  \/ table' = table
           \/ \E l \in Lists, i \in Call :
                  /\ i \in Live(<<"save", l>>)
                  /\ table' = [table EXCEPT ![l] = @ \cup {calls[i].arg}]
           \/ \E l \in Lists : \E id : table' = Remaining(l, id)
           \/ \E id, token : table' = Tokened(id, token)
<1> DEFINE Goal ==
           \/ table' = table
           \/ \E l \in Lists, i \in Call :
                  /\ i \in Live(<<"save", l>>)
                  /\ table' = [table EXCEPT ![l] = @ \cup {calls[i].arg}]
           \/ \E l \in Lists : \E id : table' = Remaining(l, id)
           \/ \E id, token : table' = Tokened(id, token)
<1>1. ASSUME NEW p, NEW form, Edit(p, form) PROVE Goal
  BY <1>1 DEF Edit, resourceVars
<1>2. CASE \/ ChannelDialog \/ TemplateDialog \/ GroupDialog \/ SourceDialog
           \/ RuleDialog \/ ScheduleDialog
  BY <1>1, <1>2
     DEF ChannelDialog, TemplateDialog, GroupDialog, SourceDialog, RuleDialog,
         ScheduleDialog, OpenSourceDialog, OpenDialog, CloseDialog, TypeName
<1>3. CASE \/ SaveChannel \/ SaveTemplate \/ SaveGroup \/ SaveSource \/ SaveRule
           \/ SaveSchedule \/ TestChannel \/ PreviewTemplate
  BY <1>3 DEF SaveChannel, SaveTemplate, SaveGroup, SaveSource, SaveRule,
              SaveSchedule, TestChannel, PreviewTemplate, Save, Press, resourceVars
<1>4. CASE \/ RemoveChannel \/ RemoveTemplate \/ RemoveGroup \/ RemoveSource
           \/ RemoveRule \/ RemoveSchedule \/ RotateToken \/ CopyCredentials
  BY <1>4
     DEF RemoveChannel, RemoveTemplate, RemoveGroup, RemoveSource, RemoveRule,
         RemoveSchedule, RotateToken, RemoveRow, CopyCredentials
<1>5. ASSUME NEW j \in Call, NEW l \in Lists, ServeSave(j, l) \/ ServeRemove(j, l)
      PROVE  Goal
  BY <1>5 DEF ServeSave, ServeRemove, Accepted, Live
<1>6. ASSUME NEW j \in Call, ServeRotate(j) \/ ServeTrial(j) \/ AnswerRotate(j)
                             \/ AnswerTrial(j) \/ LoseResourceAnswer(j)
      PROVE  Goal
  BY <1>6
     DEF ServeRotate, ServeTrial, AnswerRotate, AnswerTrial, LoseResourceAnswer,
              Settled
<1>7. ASSUME NEW j \in Call, NEW l, AnswerSave(j, l) \/ AnswerRemove(j, l) PROVE Goal
  BY <1>7 DEF AnswerSave, AnswerRemove, Settled
<1>8. CASE OtherTabRemoves \/ OtherTabRotates
  BY <1>8 DEF OtherTabRemoves, OtherTabRotates, OtherTabChanges
<1>. QED
  BY <1>2, <1>3, <1>4, <1>5, <1>6, <1>7, <1>8
     DEF ResourceNext, ChannelSaved, ChannelRemoved, TemplateSaved,
         TemplateRemoved, GroupSaved, GroupRemoved, SourceSaved, SourceRemoved,
         RuleSaved, RuleRemoved, ScheduleSaved, ScheduleRemoved

\* Nothing was chosen yet, or what fits was chosen.
LEMMA NothingFits ==
    ASSUME Shape, \A k \in Kinds : SeenIds(k), NEW g, g.channel \in 0..NewId(sent),
           g.template = 0
    PROVE  Fit(g)
<1>1. sent \in Nat
  BY SentIsNumber DEF Shape
<1>2. \A t \in Seen("templates") : t.id # 0
  BY <1>1 DEF SeenIds, Kinds
<1>. QED
  BY <1>1, <1>2 DEF Fit, NewId, FirstNew

\* The invariant survives a step whose lists, saves and forms are such.
LEMMA RowsKeep ==
    ASSUME Shape, RowsInv, sent <= sent', sent' \in Nat, \A k \in Kinds : Grows(k),
           \A g \in table'["groups"] :
               \/ g \in table["groups"]
               \/ DOMAIN g = GroupFields /\ g.channel = 0 /\ g.template = 0
               \/ \E i \in Live(SaveGroups) : g = calls[i].arg,
           \A i \in Live(SaveGroups)' :
               \/ i \in Live(SaveGroups) /\ calls'[i].arg = calls[i].arg
               \/ SaveSent("groups", i),
           page' = "channels" =>
               /\ DOMAIN view' = {"open", "named", "type", "config"}
               /\ view'.config \subseteq {view'.type},
           page' = "groups" =>
               /\ DOMAIN view' = {"open", "named", "channel", "template"}
               /\ \E w : Fit(w) /\ w = view'
    PROVE  RowsInv'
<1>0. sent \in Nat
  BY SentIsNumber DEF Shape
<1>1. \A k \in Kinds : SeenIds(k)' /\ SeenTypes(k)'
  BY SeenKeeps DEF RowsInv
<1>2. SeenConfigs'
  BY ConfigsKeep DEF RowsInv, Kinds
<1>3. \A g : Fit(g) => Fit(g)'
  BY FitKeeps DEF RowsInv
<1>4. \A g : g.channel = 0 /\ g.template = 0 => Fit(g)
  BY <1>0, NothingFits DEF RowsInv, NewId, FirstNew
<1>5. \A g \in table'["groups"] : DOMAIN g = GroupFields /\ Fit(g)'
  BY <1>3, <1>4 DEF RowsInv, GroupsFit
<1>6. ASSUME NEW i \in Live(SaveGroups)', NEW g, g = calls'[i].arg
      PROVE  DOMAIN g = GroupFields /\ Fit(g)
  <2>1. CASE i \in Live(SaveGroups) /\ calls'[i].arg = calls[i].arg
    BY <1>6, <2>1 DEF RowsInv, GroupsFit
  <2>2. CASE SaveSent("groups", i)
    <3>1. PICK w : w = view
      OBVIOUS
    <3>2. Fit(w) /\ g.channel = w.channel /\ g.template = w.template
          /\ DOMAIN g = GroupFields
      BY <1>6, <2>2, <3>1 DEF SaveSent, RowsInv, FormsFit
    <3>. QED
      BY <3>2 DEF Fit
  <2>. QED
    BY <2>1, <2>2
<1>7. \A i \in Live(SaveGroups)' :
          DOMAIN calls'[i].arg = GroupFields /\ Fit(calls[i].arg)'
  <2> SUFFICES ASSUME NEW i \in Live(SaveGroups)'
               PROVE  DOMAIN calls'[i].arg = GroupFields /\ Fit(calls[i].arg)'
    OBVIOUS
  <2>1. PICK g : g = calls'[i].arg
    OBVIOUS
  <2>2. DOMAIN g = GroupFields /\ Fit(g)'
    BY <1>3, <1>6, <2>1
  <2>. QED
    BY <2>1, <2>2
<1>8. GroupsFit'
  BY <1>5, <1>7 DEF GroupsFit
<1>9. FormsFit'
  BY <1>3 DEF FormsFit
<1>. QED
  BY <1>1, <1>2, <1>8, <1>9 DEF RowsInv

\* It survives a step of another page.
LEMMA RowsByOthers ==
    ASSUME Shape, RowsInv, NEW m, NEW qs, PageEffect(m, qs), m \notin Lists,
           Lists \cap qs = {}, table' = table
    PROVE  RowsInv'
<1>0. /\ {"channels", "templates", "groups"} \subseteq Lists
      /\ UNCHANGED page /\ sent <= sent' /\ sent' \in Nat
      /\ page # m => view' = view
  BY TabAssumption DEF Lists, PageEffect, CallStep, CallsOK
<1>1. ASSUME NEW k \in Lists PROVE CopyRows(k) /\ SaveArgs(k)
  BY <1>1, OthersRows
<1>2. \A k \in Kinds : Grows(k)
  <2> SUFFICES ASSUME NEW k \in Kinds PROVE Grows(k)
    OBVIOUS
  <2>1. k \in Lists /\ table'[k] \subseteq Seen(k)
    BY <1>0 DEF Kinds, Seen
  <2>. QED
    BY <1>1, <2>1, SeenShrinks DEF Grows
<1>3. \A i \in Live(SaveGroups)' :
          i \in Live(SaveGroups) /\ calls'[i].arg = calls[i].arg
  BY <1>0, <1>1 DEF SaveArgs, SaveGroups
<1>4. page \in {"channels", "groups"} => view' = view
  BY <1>0
<1>. QED
  BY <1>0, <1>2, <1>3, <1>4, RowsKeep DEF RowsInv, FormsFit

\* It survives a step of the session.
LEMMA RowsBySession ==
    ASSUME Shape, RowsInv, SessionNext PROVE RowsInv'
<1>0. /\ {"channels", "templates", "groups"} \subseteq Lists
      /\ SessionEffect /\ table' = table /\ sent <= sent' /\ sent' \in Nat
  BY SessionEffects, TabAssumption DEF Lists, SessionEffect, TabTypeOK
<1>1. ASSUME NEW k \in Lists PROVE CopyRows(k) /\ SaveArgs(k)
  BY <1>1, SessionRows
<1>2. \A k \in Kinds : Grows(k)
  <2> SUFFICES ASSUME NEW k \in Kinds PROVE Grows(k)
    OBVIOUS
  <2>1. k \in Lists /\ table'[k] \subseteq Seen(k)
    BY <1>0 DEF Kinds, Seen
  <2>. QED
    BY <1>1, <2>1, SeenShrinks DEF Grows
<1>3. \A i \in Live(SaveGroups)' :
          i \in Live(SaveGroups) /\ calls'[i].arg = calls[i].arg
  BY <1>0, <1>1 DEF SaveArgs, SaveGroups
<1>4. \/ page' = page /\ view' = view
      \/ view' = Fresh(page') \/ page' \in Outside
  BY <1>0 DEF SessionEffect, Restarted, CallsGoOn, Left
<1>5. page' = "channels" => /\ DOMAIN view' = {"open", "named", "type", "config"}
                            /\ view'.config \subseteq {view'.type}
  BY <1>4, FreshForms DEF RowsInv, FormsFit, ChannelForm, Outside
<1>6. Fit(GroupForm) /\ DOMAIN GroupForm = {"open", "named", "channel", "template"}
  <2>1. sent \in Nat
    BY SentIsNumber DEF Shape
  <2>2. GroupForm.channel = 0 /\ GroupForm.template = 0
    BY DEF GroupForm
  <2>3. Fit(GroupForm)
    BY <2>1, <2>2, NothingFits DEF RowsInv, NewId, FirstNew
  <2>. QED
    BY <2>3 DEF GroupForm
<1>7. page' = "groups" => /\ DOMAIN view' = {"open", "named", "channel", "template"}
                          /\ \E w : Fit(w) /\ w = view'
  BY <1>4, <1>6, FreshForms DEF RowsInv, FormsFit, Outside
<1>. QED
  BY <1>0, <1>2, <1>3, <1>5, <1>7, RowsKeep

\* The forms of channels and groups, as their dialogs change them.
ChannelForms == {"open", "named", "type", "config"}
GroupForms == {"open", "named", "channel", "template"}

\* The dialogs of channels and groups keep their choices fit: a choice empties
\* one that no longer fits.
LEMMA RowsInEdits ==
    ASSUME Shape, RowsInv
    PROVE  /\ page = "channels" /\ ChannelDialog =>
                  DOMAIN view' = ChannelForms /\ view'.config \subseteq {view'.type}
           /\ page = "groups" /\ GroupDialog =>
                  DOMAIN view' = GroupForms /\ \E w : Fit(w) /\ w = view'
<1>1. ASSUME page = "channels", ChannelDialog
      PROVE  DOMAIN view' = ChannelForms /\ view'.config \subseteq {view'.type}
  <2>1. DOMAIN view = ChannelForms /\ view.config \subseteq {view.type}
    BY <1>1 DEF RowsInv, FormsFit, ChannelForms
  <2>. QED
    BY <1>1, <2>1
       DEF ChannelDialog, OpenDialog, CloseDialog, TypeName, Edit, ChannelForms
<1>2. ASSUME page = "groups", GroupDialog
      PROVE  DOMAIN view' = GroupForms /\ \E w : Fit(w) /\ w = view'
  <2>0. /\ DOMAIN view = GroupForms /\ Fit(view)
        /\ \A k \in Kinds : SeenIds(k) /\ SeenTypes(k)
        /\ Rows("channels") \subseteq Seen("channels")
        /\ Rows("templates") \subseteq Seen("templates")
        /\ sent \in Nat
    BY <1>2, SentIsNumber DEF RowsInv, FormsFit, GroupForms, Seen, Shape
  <2> DEFINE Fits(form) == DOMAIN form = GroupForms /\ Fit(form)
  <2>1. ASSUME NEW form, Edit("groups", form), Fits(form)
        PROVE  DOMAIN view' = GroupForms /\ \E w : Fit(w) /\ w = view'
    BY <2>1 DEF Edit
  <2>2. Fits([view EXCEPT !.open = TRUE]) /\ Fits([view EXCEPT !.open = FALSE])
        /\ Fits([view EXCEPT !.named = TRUE])
    BY <2>0 DEF Fit, GroupForms
  <2>3. ASSUME NEW c \in Ids(Rows("channels"))
        PROVE  Fits([view EXCEPT !.channel = c, !.template = 0])
    <3>1. c \in 0..NewId(sent)
      BY <2>0 DEF Ids, SeenIds, Kinds, NewId, FirstNew
    <3>2. PICK form : form = [view EXCEPT !.channel = c, !.template = 0]
      OBVIOUS
    <3>3. DOMAIN form = GroupForms /\ form.channel = c /\ form.template = 0
      BY <2>0, <3>2 DEF GroupForms
    <3>4. Fit(form)
      BY <2>0, <3>1, <3>3, NothingFits
    <3>. QED
      BY <3>2, <3>3, <3>4
  <2>4. ASSUME NEW t \in Ids(Compatible) PROVE Fits([view EXCEPT !.template = t])
    <3>1. PICK r \in Compatible : r.id = t
      BY DEF Ids
    <3>2. r \in Seen("templates") /\ t \in 0..NewId(sent)
      BY <2>0, <3>1 DEF Compatible, SeenIds, Kinds, NewId, FirstNew
    <3>3. PICK form : form = [view EXCEPT !.template = t]
      OBVIOUS
    <3>4. DOMAIN form = GroupForms /\ form.channel = view.channel /\ form.template = t
      BY <2>0, <3>3 DEF GroupForms
    <3>5. ASSUME NEW c \in Seen("channels"), NEW s \in Seen("templates"),
                 form.channel = c.id, form.template = s.id
          PROVE  c.type = s.type
      <4>1. view.channel # 0
        BY <2>0, <3>4, <3>5 DEF SeenIds, Kinds
      <4>2. PICK d \in Rows("channels") : d.id = view.channel /\ d.type = r.type
        BY <3>1, <4>1 DEF Compatible
      <4>. QED
        BY <2>0, <3>1, <3>2, <3>4, <3>5, <4>2 DEF SeenTypes, Kinds
    <3>6. form.channel \in 0..NewId(sent)
      BY <2>0, <3>4 DEF Fit
    <3>. QED
      BY <3>2, <3>3, <3>4, <3>5, <3>6 DEF Fit
  <2>. QED
    BY <1>2, <2>1, <2>2, <2>3, <2>4
       DEF GroupDialog, OpenDialog, CloseDialog, TypeName
<1>. QED
  BY <1>1, <1>2

\* Every step of the resource pages keeps the choices fit.
LEMMA RowsInForms ==
    ASSUME Shape, RowsInv, ResourceNext
    PROVE  /\ page = "channels" =>
                  DOMAIN view' = ChannelForms /\ view'.config \subseteq {view'.type}
           /\ page = "groups" =>
                  DOMAIN view' = GroupForms /\ \E w : Fit(w) /\ w = view'
<1> DEFINE Goal == /\ page = "channels" =>
                          DOMAIN view' = ChannelForms /\ view'.config \subseteq {view'.type}
                   /\ page = "groups" =>
                          DOMAIN view' = GroupForms /\ \E w : Fit(w) /\ w = view'
<1>0. /\ page = "channels" =>
             DOMAIN view = ChannelForms /\ view.config \subseteq {view.type}
      /\ page = "groups" => DOMAIN view = GroupForms /\ Fit(view)
  BY DEF RowsInv, FormsFit, ChannelForms, GroupForms
<1>1. ASSUME view' = view PROVE Goal
  BY <1>0, <1>1
<1>2. CASE ChannelDialog \/ GroupDialog
  BY <1>2, RowsInEdits DEF ChannelDialog, GroupDialog
<1>3. CASE TemplateDialog \/ SourceDialog \/ RuleDialog \/ ScheduleDialog
  BY <1>3 DEF TemplateDialog, SourceDialog, RuleDialog, ScheduleDialog
<1>4. CASE \/ SaveChannel \/ SaveTemplate \/ SaveGroup \/ SaveSource \/ SaveRule
           \/ SaveSchedule \/ TestChannel \/ PreviewTemplate
  BY <1>1, <1>4
     DEF SaveChannel, SaveTemplate, SaveGroup, SaveSource, SaveRule, SaveSchedule,
         TestChannel, PreviewTemplate, Save, Press
<1>5. CASE \/ RemoveChannel \/ RemoveTemplate \/ RemoveGroup \/ RemoveSource
           \/ RemoveRule \/ RemoveSchedule \/ RotateToken \/ CopyCredentials
  BY <1>1, <1>5
     DEF RemoveChannel, RemoveTemplate, RemoveGroup, RemoveSource, RemoveRule,
         RemoveSchedule, RotateToken, RemoveRow, CopyCredentials, tabVars
<1>6. ASSUME NEW j \in Call, NEW l \in Lists, ServeSave(j, l) \/ ServeRemove(j, l)
      PROVE  Goal
  BY <1>1, <1>6 DEF ServeSave, ServeRemove, Kept
<1>7. ASSUME NEW j \in Call, ServeRotate(j) \/ ServeTrial(j) \/ AnswerRotate(j)
                             \/ AnswerTrial(j) \/ LoseResourceAnswer(j)
      PROVE  Goal
  BY <1>1, <1>7
     DEF ServeRotate, ServeTrial, AnswerRotate, AnswerTrial,
        LoseResourceAnswer, Kept
<1>8. ASSUME NEW j \in Call, NEW l, AnswerRemove(j, l) PROVE Goal
  BY <1>1, <1>8 DEF AnswerRemove
<1>9. ASSUME NEW j \in Call, NEW l \in Lists, AnswerSave(j, l) PROVE Goal
  <2>1. CASE ~calls[j].mine
    BY <1>1, <1>9, <2>1 DEF AnswerSave
  <2>2. CASE calls[j].mine
    <3>1. page = l
      BY <1>9, <2>2, PageNames DEF AnswerSave, Answered, Shape, MineHere, PageOf
    <3>2. CASE l = "sources"
      BY <3>1, <3>2
    <3>3. CASE l # "sources"
      <4>1. view' = [view EXCEPT !.open = FALSE]
        BY <1>9, <2>2, <3>3 DEF AnswerSave, Shown
      <4>2. page = "channels" =>
              DOMAIN view' = ChannelForms /\ view'.config \subseteq {view'.type}
        BY <1>0, <4>1 DEF ChannelForms
      <4>3. ASSUME page = "groups"
            PROVE  DOMAIN view' = GroupForms /\ \E w : Fit(w) /\ w = view'
        <5>1. PICK w : w = view'
          OBVIOUS
        <5>2. DOMAIN w = GroupForms /\ w.channel = view.channel /\ w.template = view.template
          BY <1>0, <4>1, <4>3, <5>1 DEF GroupForms
        <5>. QED
          BY <1>0, <4>3, <5>1, <5>2 DEF Fit
      <4>. QED
        BY <4>2, <4>3
    <3>. QED
      BY <3>2, <3>3
  <2>. QED
    BY <2>1, <2>2
<1>10. CASE OtherTabRemoves \/ OtherTabRotates
  BY <1>1, <1>10 DEF OtherTabRemoves, OtherTabRotates, OtherTabChanges
<1>11. {"channels", "templates", "groups", "sources", "rules", "schedules"}
           \subseteq Lists
  BY DEF Lists
<1>. QED
  BY <1>2, <1>3, <1>4, <1>5, <1>6, <1>7, <1>8, <1>9, <1>10, <1>11
     DEF ResourceNext, ChannelSaved, ChannelRemoved, TemplateSaved,
         TemplateRemoved, GroupSaved, GroupRemoved, SourceSaved, SourceRemoved,
         RuleSaved, RuleRemoved, ScheduleSaved, ScheduleRemoved

\* The invariant survives a step of the resource pages.
LEMMA RowsByResource ==
    ASSUME Shape, RowsInv, ResourceNext PROVE RowsInv'
<1>0. /\ {"channels", "templates", "groups"} \subseteq Lists /\ DOMAIN table = Lists
      /\ sent \in Nat
  BY SentIsNumber DEF Lists, Shape, TypeOK
<1>1. page' = page /\ sent <= sent' /\ sent' \in Nat
  <2>1. PICK m \in Lists : PageEffect(m, Lists)
    BY ResourceEffect
  <2>. QED
    BY <2>1, TabAssumption DEF PageEffect, CallStep, CallsOK
<1>2. ASSUME NEW k \in Kinds PROVE table'[k] \subseteq Seen(k)
  <2>0. k \in Lists \ {"groups", "sources"} /\ table[k] \subseteq Seen(k)
    BY <1>0, <1>2 DEF Kinds, Seen
  <2>1. CASE table' = table
    BY <2>0, <2>1
  <2>2. ASSUME NEW l \in Lists, NEW i \in Live(<<"save", l>>),
               table' = [table EXCEPT ![l] = @ \cup {calls[i].arg}]
        PROVE  table'[k] \subseteq Seen(k)
    <3>1. CASE l = k
      <4>1. calls[i].arg \in Seen(k)
        BY <2>2, <3>1, SeenRow
      <4>. QED
        BY <1>0, <2>0, <2>2, <3>1, <4>1
    <3>2. CASE l # k
      BY <1>0, <2>0, <2>2, <3>2
    <3>. QED
      BY <3>1, <3>2
  <2>3. ASSUME NEW l \in Lists, NEW id, table' = Remaining(l, id)
        PROVE  table'[k] \subseteq Seen(k)
    BY <1>0, <2>0, <2>3, RemainingRows
  <2>4. ASSUME NEW id, NEW token, table' = Tokened(id, token)
        PROVE  table'[k] \subseteq Seen(k)
    BY <1>0, <2>0, <2>4, TokenedRows
  <2>. QED
    BY <2>1, <2>2, <2>3, <2>4, ResourceTable
<1>3. ASSUME NEW k \in Kinds PROVE Grows(k)
  <2>0. k \in Lists /\ CopyRows(k) /\ table'[k] \subseteq Seen(k)
    BY <1>0, <1>2, <1>3, ResourceRows DEF Kinds
  <2>1. CASE \A i \in Live(<<"save", k>>)' : ~SaveSent(k, i)
    <3>1. SaveArgs(k)
      BY <2>0, <2>1, ResourceSaves DEF SaveArgs
    <3>. QED
      BY <2>0, <3>1, SeenShrinks DEF Grows
  <2>2. CASE \E i \in Live(<<"save", k>>)' : SaveSent(k, i)
    <3>1. PICK n \in Live(<<"save", k>>)' : SaveSent(k, n)
      BY <2>2
    <3>2. PICK row : row = calls'[n].arg
      OBVIOUS
    <3>3. NewRow(k, row)
      BY <3>1, <3>2 DEF SaveSent, NewRow
    <3>4. ASSUME NEW i \in Live(<<"save", k>>)'
          PROVE  \/ i \in Live(<<"save", k>>) /\ calls'[i].arg = calls[i].arg
                 \/ calls'[i].arg = row
      BY <2>0, <3>1, <3>2, <3>4, ResourceSaves DEF SaveSent
    <3>. QED
      BY <2>0, <3>3, <3>4, SeenGrows
  <2>. QED
    BY <2>1, <2>2
<1>4. ASSUME NEW g \in table'["groups"]
      PROVE  \/ g \in table["groups"]
             \/ DOMAIN g = GroupFields /\ g.channel = 0 /\ g.template = 0
             \/ \E i \in Live(SaveGroups) : g = calls[i].arg
  <2>1. CASE table' = table
    BY <1>4, <2>1
  <2>2. ASSUME NEW l \in Lists, NEW i \in Live(<<"save", l>>),
               table' = [table EXCEPT ![l] = @ \cup {calls[i].arg}]
        PROVE  g \in table["groups"] \/ \E j \in Live(SaveGroups) : g = calls[j].arg
    BY <1>0, <1>4, <2>2 DEF SaveGroups
  <2>3. ASSUME NEW l \in Lists, NEW id, table' = Remaining(l, id)
        PROVE  \/ g \in table["groups"]
               \/ DOMAIN g = GroupFields /\ g.channel = 0 /\ g.template = 0
    <3>1. PICK h \in table["groups"] :
             g = h \/ g = [h EXCEPT !.channel = 0, !.template = 0]
      BY <1>0, <1>4, <2>3, RemainingGroups
    <3>2. DOMAIN h = GroupFields
      BY DEF RowsInv, GroupsFit
    <3>. QED
      BY <3>1, <3>2 DEF GroupFields
  <2>4. ASSUME NEW id, NEW token, table' = Tokened(id, token)
        PROVE  g \in table["groups"]
    BY <1>0, <1>4, <2>4, TokenedRows
  <2>. QED
    BY <2>1, <2>2, <2>3, <2>4, ResourceTable
<1>5. \A i \in Live(SaveGroups)' :
          \/ i \in Live(SaveGroups) /\ calls'[i].arg = calls[i].arg
          \/ SaveSent("groups", i)
  BY <1>0, ResourceSaves DEF SaveGroups
<1>6. /\ page' = "channels" =>
             /\ DOMAIN view' = {"open", "named", "type", "config"}
             /\ view'.config \subseteq {view'.type}
      /\ page' = "groups" =>
             /\ DOMAIN view' = {"open", "named", "channel", "template"}
             /\ \E w : Fit(w) /\ w = view'
  BY <1>1, RowsInForms DEF ChannelForms, GroupForms
<1>. QED
  BY <1>1, <1>3, <1>4, <1>5, <1>6, RowsKeep

\* It holds at first.
LEMMA RowsInit == Init => RowsInv
<1> SUFFICES ASSUME Init PROVE RowsInv
  OBVIOUS
<1>1. Shape /\ view = Fresh(page) /\ \A i \in Call : calls[i] = NoCall
  BY ShapeInit DEF Init
<1>2. table = FirstTable /\ sent = 0 /\ NewId(sent) = 10 /\ FirstNew = 10
  BY DEF Init, NewId, FirstNew
<1>3. \A act, k : k \in Lists => Live(<<act, k>>) = {}
  BY <1>1, PageNames DEF Live, NoCall
<1>4. ASSUME NEW k \in Lists PROVE Seen(k) \subseteq FirstTable[k]
  <2>1. copy[k].stage = "idle" /\ (copy[k].known => copy[k].value = FirstTable[k])
    <3>1. copy[k] \in {Unknown, Known(FirstTable[k])}
      BY PageNames DEF Init
    <3>. QED
      BY <3>1, UnknownCopy, KnownCopy
  <2>. QED
    BY <1>2, <1>3, <2>1 DEF Seen, Rows
<1>5. {"channels", "templates", "groups"} \subseteq Lists /\ Kinds \subseteq Lists
  BY DEF Lists, Kinds
<1>6. \A k \in Kinds : SeenIds(k) /\ SeenTypes(k)
  BY <1>2, <1>4, <1>5, RowsAssumption DEF SeenIds, SeenTypes
<1>7. SeenConfigs
  BY <1>4, <1>5, RowsAssumption DEF SeenConfigs
<1>8. ASSUME NEW g \in table["groups"] PROVE DOMAIN g = GroupFields /\ Fit(g)
  BY <1>2, <1>4, <1>5, <1>8, RowsAssumption DEF GroupFields, Fit
<1>9. GroupsFit
  BY <1>3, <1>5, <1>8 DEF GroupsFit, SaveGroups
<1>10. FormsFit
  <2>1. Fit(GroupForm)
    <3>1. GroupForm.channel = 0 /\ GroupForm.template = 0
      BY DEF GroupForm
    <3>. QED
      BY <1>1, <1>2, <1>6, <3>1, NothingFits
  <2>2. /\ page = "channels" => view = ChannelForm
        /\ page = "groups" => view = GroupForm
    BY <1>1, FreshForms
  <2>3. /\ DOMAIN ChannelForm = {"open", "named", "type", "config"}
        /\ ChannelForm.config = {}
        /\ DOMAIN GroupForm = {"open", "named", "channel", "template"}
    BY DEF ChannelForm, GroupForm
  <2>. QED
    BY <2>1, <2>2, <2>3 DEF FormsFit
<1>. QED
  BY <1>6, <1>7, <1>9, <1>10 DEF RowsInv

\* It survives every step.
LEMMA RowsStep == Shape /\ RowsInv /\ [Next]_vars => RowsInv'
<1> SUFFICES ASSUME Shape, RowsInv, [Next]_vars PROVE RowsInv'
  OBVIOUS
<1>0. /\ "account" \notin Lists /\ "activity" \notin Lists /\ "settings" \notin Lists
      /\ Lists \cap {"me"} = {} /\ Lists \cap {"settings"} = {}
      /\ Lists \cap {"deliveries"} = {}
  BY DEF Lists
<1>1. CASE SessionNext
  BY <1>1, RowsBySession
<1>2. CASE ResourceNext
  BY <1>2, RowsByResource
<1>3. CASE AccountNext /\ UNCHANGED resourceVars
  BY <1>0, <1>3, AccountEffect, RowsByOthers DEF resourceVars
<1>4. CASE ActivityNext /\ UNCHANGED resourceVars
  BY <1>0, <1>4, ActivityEffect, RowsByOthers DEF resourceVars
<1>5. CASE SettingsNext /\ UNCHANGED resourceVars
  BY <1>0, <1>5, SettingsEffect, RowsByOthers DEF resourceVars
<1>6. CASE UNCHANGED vars
  <2>1. UNCHANGED <<table, copy, calls, sent, page, view>>
    BY <1>6 DEF vars, tabVars, resourceVars
  <2>2. \A k : Seen(k)' = Seen(k)
    BY <2>1 DEF Seen, Rows, Live
  <2>3. \A g : Fit(g)' <=> Fit(g)
    BY <2>1, <2>2 DEF Fit
  <2>4. (\A k \in Kinds : SeenIds(k) /\ SeenTypes(k))' /\ SeenConfigs'
    BY <2>1, <2>2 DEF RowsInv, SeenIds, SeenTypes, SeenConfigs
  <2>5. GroupsFit'
    BY <2>1, <2>3 DEF RowsInv, GroupsFit, Live
  <2>6. FormsFit'
    BY <2>1, <2>3 DEF RowsInv, FormsFit
  <2>. QED
    BY <2>4, <2>5, <2>6 DEF RowsInv
<1>. QED
  BY <1>1, <1>2, <1>3, <1>4, <1>5, <1>6 DEF Next

\* It holds in every reachable state.
LEMMA RowsHold == Spec => []RowsInv
<1>. QED
  BY RowsInit, RowsStep, ShapeHolds, PTL DEF Spec

\* What the server stores fits together: a group binds a template of the type of
\* its channel, and a channel has the configuration of its type (the forms of
\* groups.tsx and channels.tsx choose among copies that may be old).
THEOREM StoredRowsFit == Spec => []RowsFit
<1>1. RowsInv => RowsFit
  BY DEF RowsInv, GroupsFit, SeenConfigs, Fit, Seen, RowsFit
<1>. QED
  BY <1>1, RowsHold, PTL

(***************************************************************************)
(* The addresses of sources                                                *)
(***************************************************************************)
\* The calls about sources.
SaveSrc == <<"save", "sources">>
RotateSrc == <<"rotate", "sources">>
RemoveSrc == <<"remove", "sources">>
SrcActs == {SaveSrc, RotateSrc, RemoveSrc}
TurnSrc == Live(RotateSrc) \cup Live(RemoveSrc)
\* An address works, or its source had two rotations under way at once.
Good(address) == Works(address) \/ address.id \in muddled

\* Sources, their calls and their form are of the right form; a new source has
\* the number of its save.
SourcesOK ==
    /\ SeenIds("sources")
    /\ \A s \in table["sources"] : DOMAIN s = {"id", "token"}
    /\ \A i \in Live(SaveSrc) : calls[i].arg = [id |-> NewId(i), token |-> NewId(i)]
    /\ \A i \in Applied(SaveSrc) : calls[i].answer = calls[i].arg
    /\ \A i \in TurnSrc : calls[i].arg \in 1..NewId(sent)
    /\ page = "sources" =>
           /\ DOMAIN view = {"open", "named", "created"}
           /\ view.created # Blank => view.created.id \in 1..NewId(sent)
    /\ clipboard # Blank => clipboard.id \in 1..NewId(sent)

\* What a call is about to show works: nothing under way rotates or deletes the
\* source, or it is muddled.
CallsKeepAddress ==
    /\ \A i \in Applied(SaveSrc) : Good(calls[i].arg)
    /\ \A i \in Live(SaveSrc), r \in TurnSrc :
           calls[r].arg = NewId(i) => NewId(i) \in muddled
    /\ \A r, s \in Live(RotateSrc) :
           calls[r].arg = calls[s].arg /\ r # s => calls[r].arg \in muddled
    /\ \A r \in Applied(RotateSrc) :
           /\ calls[r].answer.id = calls[r].arg
           /\ calls[r].arg \in Ids(table["sources"]) => Good(calls[r].answer)

\* The address in the open dialog works, and nothing under way is about its
\* source.
ShownAddress ==
    (page = "sources" /\ view.created # Blank) =>
        /\ view.open => Good(view.created)
        /\ view.open => \A r \in TurnSrc :
                          calls[r].arg = view.created.id => view.created.id \in muddled
        /\ \A i \in Live(SaveSrc) : NewId(i) # view.created.id

\* The address on the clipboard works, unless its source is gone or a rotation
\* of it has been served and not answered.
CopiedAddress ==
    clipboard # Blank =>
        /\ \/ clipboard.id \notin Ids(table["sources"])
           \/ Good(clipboard)
           \/ \E r \in Applied(RotateSrc) : calls[r].arg = clipboard.id
        /\ \A i \in Live(SaveSrc) : NewId(i) = clipboard.id => clipboard.id \in muddled

\* What is inductive about the addresses, given Shape.
AddressInv == SourcesOK /\ CallsKeepAddress /\ ShownAddress /\ CopiedAddress

\* The calls about sources are as they were, or fewer.
SrcCallsKept ==
    \A do \in SrcActs :
        /\ Live(do)' \subseteq Live(do)
        /\ Applied(do)' \subseteq Applied(do)
        /\ \A i \in Live(do)' : /\ calls'[i].arg = calls[i].arg
                                /\ calls'[i].answer = calls[i].answer

\* A rotation that is under way no more was of a muddled source.
RotationsKept ==
    \A r \in Applied(RotateSrc) : r \in Applied(RotateSrc)' \/ calls[r].arg \in muddled'

\* What a dialog does to the form of sources.
SourceViews == {view, [view EXCEPT !.open = TRUE, !.created = Blank],
                [view EXCEPT !.open = FALSE], [view EXCEPT !.named = TRUE]}

\* Nothing happens to sources but to the form, and some calls may go.
SourcesStay ==
    /\ SrcCallsKept /\ RotationsKept
    /\ SeenIds("sources") => SeenIds("sources")'
    /\ sent <= sent' /\ sent' \in Nat
    /\ table'["sources"] = table["sources"]
    /\ clipboard' = clipboard /\ muddled \subseteq muddled'
    /\ page' = "sources" => view' = SourceForm \/ (page = "sources" /\ view' \in SourceViews)

\* New rows are numbered in the order of their saves.
LEMMA NewIds ==
    ASSUME NEW a \in Nat, NEW b \in Nat, a <= b
    PROVE  NewId(a) \in Nat /\ NewId(b) \in Nat /\ NewId(a) <= NewId(b)
BY DEF NewId, FirstNew

\* The invariant survives a step that leaves the sources alone.
LEMMA AddressStays ==
    ASSUME Shape, AddressInv, SourcesStay PROVE AddressInv'
<1>0. /\ sent \in Nat /\ SrcCallsKept /\ RotationsKept
      /\ SourcesOK /\ CallsKeepAddress /\ ShownAddress /\ CopiedAddress
      /\ table'["sources"] = table["sources"]
      /\ clipboard' = clipboard /\ muddled \subseteq muddled'
  BY SentIsNumber DEF Shape, AddressInv, SourcesStay
<1>1. \A n : n \in 1..NewId(sent) => n \in 1..NewId(sent')
  <2>1. sent \in Nat /\ sent' \in Nat /\ sent <= sent'
    BY SentIsNumber DEF Shape, SourcesStay
  <2>2. NewId(sent) \in Nat /\ NewId(sent') \in Nat /\ NewId(sent) <= NewId(sent')
    BY <2>1, NewIds
  <2>. QED
    BY <2>2
<1>2. /\ Live(SaveSrc)' \subseteq Live(SaveSrc)
      /\ Applied(SaveSrc)' \subseteq Applied(SaveSrc)
      /\ Live(RotateSrc)' \subseteq Live(RotateSrc)
      /\ Applied(RotateSrc)' \subseteq Applied(RotateSrc)
      /\ TurnSrc' \subseteq TurnSrc
      /\ Applied(SaveSrc)' \subseteq Live(SaveSrc)'
      /\ Applied(RotateSrc)' \subseteq Live(RotateSrc)'
      /\ \A i \in Live(SaveSrc)' \cup TurnSrc' :
             calls'[i].arg = calls[i].arg /\ calls'[i].answer = calls[i].answer
  BY <1>0 DEF SrcCallsKept, SrcActs, TurnSrc, Applied
<1>3. page' = "sources" =>
        \/ view'.created = Blank /\ DOMAIN view' = {"open", "named", "created"}
        \/ /\ page = "sources" /\ view'.created = view.created
           /\ DOMAIN view' = {"open", "named", "created"}
           /\ view'.open => view.open
  <2> SUFFICES ASSUME page' = "sources"
               PROVE  \/ /\ view'.created = Blank
                         /\ DOMAIN view' = {"open", "named", "created"}
                      \/ /\ page = "sources" /\ view'.created = view.created
                         /\ DOMAIN view' = {"open", "named", "created"}
                         /\ view'.open => view.open
    OBVIOUS
  <2>1. CASE view' = SourceForm
    BY <2>1 DEF SourceForm
  <2>2. CASE page = "sources" /\ view' \in SourceViews
    <3>1. DOMAIN view = {"open", "named", "created"}
      BY <1>0, <2>2 DEF SourcesOK
    <3>2. CASE view' = view
      BY <2>2, <3>1, <3>2
    <3>3. CASE view' = [view EXCEPT !.open = TRUE, !.created = Blank]
      BY <3>1, <3>3
    <3>4. CASE view' = [view EXCEPT !.open = FALSE]
      BY <2>2, <3>1, <3>4
    <3>5. CASE view' = [view EXCEPT !.named = TRUE]
      BY <2>2, <3>1, <3>5
    <3>. QED
      BY <2>2, <3>2, <3>3, <3>4, <3>5 DEF SourceViews
  <2>. QED
    BY <2>1, <2>2 DEF SourcesStay
<1>4. SourcesOK'
  <2>1. SeenIds("sources")'
    BY <1>0 DEF SourcesStay, SourcesOK
  <2>2. \A i \in Live(SaveSrc)' : calls'[i].arg = [id |-> NewId(i), token |-> NewId(i)]
    BY <1>0, <1>2 DEF SourcesOK
  <2>3. \A i \in Applied(SaveSrc)' : calls'[i].answer = calls'[i].arg
    BY <1>0, <1>2 DEF SourcesOK
  <2>4. \A i \in TurnSrc' : calls'[i].arg \in 1..NewId(sent')
    BY <1>0, <1>1, <1>2 DEF SourcesOK
  <2>. QED
    BY <1>0, <1>1, <1>3, <2>1, <2>2, <2>3, <2>4 DEF SourcesOK
<1>5. \A a : Good(a) => Good(a)'
  BY <1>0 DEF Good, Works
<1>6. CallsKeepAddress'
  <2>1. ASSUME NEW i \in Applied(SaveSrc)' PROVE Good(calls[i].arg)'
    <3>1. PICK a : a = calls[i].arg
      OBVIOUS
    <3>2. Good(a) /\ calls'[i].arg = a
      BY <1>0, <1>2, <3>1 DEF CallsKeepAddress
    <3>. QED
      BY <1>5, <3>2
  <2>2. ASSUME NEW r \in Applied(RotateSrc)', calls'[r].arg \in Ids(table'["sources"])
        PROVE  Good(calls[r].answer)'
    <3>1. PICK a : a = calls[r].answer
      OBVIOUS
    <3>2. r \in TurnSrc'
      BY <1>2 DEF TurnSrc
    <3>3. Good(a) /\ calls'[r].answer = a
      BY <1>0, <1>2, <2>2, <3>1, <3>2 DEF CallsKeepAddress
    <3>. QED
      BY <1>5, <3>3
  <2>3. \A i \in Live(SaveSrc)', r \in TurnSrc' :
            calls'[r].arg = NewId(i) => NewId(i) \in muddled'
    BY <1>0, <1>2 DEF CallsKeepAddress
  <2>4. \A r, s \in Live(RotateSrc)' :
            calls'[r].arg = calls'[s].arg /\ r # s => calls'[r].arg \in muddled'
    BY <1>0, <1>2 DEF CallsKeepAddress, TurnSrc
  <2>5. \A r \in Applied(RotateSrc)' : calls'[r].answer.id = calls'[r].arg
    BY <1>0, <1>2 DEF CallsKeepAddress, TurnSrc
  <2>. QED
    BY <2>1, <2>2, <2>3, <2>4, <2>5 DEF CallsKeepAddress
<1>7. ShownAddress'
  <2> SUFFICES ASSUME page' = "sources", view'.created # Blank
               PROVE  /\ view'.open => Good(view.created)'
                      /\ view'.open => \A r \in TurnSrc' :
                           calls'[r].arg = view'.created.id => view'.created.id \in muddled'
                      /\ \A i \in Live(SaveSrc)' : NewId(i) # view'.created.id
    BY DEF ShownAddress
  <2>1. /\ page = "sources" /\ view'.created = view.created
        /\ view'.open => view.open
    BY <1>3
  <2>2. PICK a : a = view.created
    OBVIOUS
  <2>3. view'.open => Good(a)'
    BY <1>0, <1>5, <2>1, <2>2 DEF ShownAddress
  <2>. QED
    BY <1>0, <1>2, <2>1, <2>2, <2>3 DEF ShownAddress
<1>8. CopiedAddress'
  <2>1. PICK a : a = clipboard
    OBVIOUS
  <2>2. Good(a) => Good(clipboard)'
    BY <1>0, <1>5, <2>1
  <2>3. ASSUME NEW r \in Applied(RotateSrc), calls[r].arg = clipboard.id
        PROVE  Good(clipboard)' \/ \E s \in Applied(RotateSrc)' : calls'[s].arg = clipboard.id
    <3>1. CASE calls[r].arg \in muddled'
      BY <1>0, <2>3, <3>1 DEF Good
    <3>2. CASE r \in Applied(RotateSrc)'
      BY <1>2, <2>3, <3>2 DEF TurnSrc
    <3>. QED
      BY <1>0, <3>1, <3>2 DEF RotationsKept
  <2>. QED
    BY <1>0, <1>2, <2>1, <2>2, <2>3 DEF CopiedAddress
<1>. QED
  BY <1>4, <1>6, <1>7, <1>8 DEF AddressInv

\* Rows stay old, or those of saves that were sent.
LEMMA IdsKeep ==
    ASSUME Shape, sent <= sent', sent' \in Nat, NEW k, CopyRows(k), SeenIds(k),
           \A r \in table'[k] : \E s \in Seen(k) : r.id = s.id,
           \A i \in Live(<<"save", k>>)' :
               \/ i \in Live(<<"save", k>>) /\ calls'[i].arg = calls[i].arg
               \/ calls'[i].arg.id = NewId(sent')
    PROVE  SeenIds(k)'
<1> SUFFICES ASSUME NEW r \in Seen(k)' PROVE r.id \in 1..NewId(sent')
  BY DEF SeenIds
<1>1. /\ NewId(sent) \in Nat /\ NewId(sent') \in Nat /\ NewId(sent) <= NewId(sent')
      /\ NewId(sent') > 0
  <2>1. sent \in Nat
    BY SentIsNumber DEF Shape
  <2>2. \A n \in Nat : NewId(n) > 0
    BY DEF NewId, FirstNew
  <2>. QED
    BY <2>1, <2>2, NewIds
<1>2. \/ r \in table'[k]
      \/ copy'[k].known /\ r \in copy'[k].value
      \/ copy'[k].stage = "read" /\ r \in copy'[k].got
      \/ \E i \in Live(<<"save", k>>)' : r = calls'[i].arg
  BY DEF Seen, Rows
<1>3. (\E s \in Seen(k) : r.id = s.id) \/ r.id = NewId(sent')
  <2>1. r \in Seen(k) \/ (\E s \in Seen(k) : r.id = s.id) \/ r.id = NewId(sent')
    BY <1>2, SeenRow DEF CopyRows
  <2>. QED
    BY <2>1
<1>. QED
  BY <1>1, <1>3 DEF SeenIds

\* The invariant survives a step of another page.
LEMMA AddressByOthers ==
    ASSUME Shape, AddressInv, NEW m, NEW qs, PageEffect(m, qs), m \notin Lists,
           Lists \cap qs = {}, UNCHANGED resourceVars
    PROVE  AddressInv'
<1>0. /\ "sources" \in Lists /\ "sources" \notin {"none", m}
      /\ UNCHANGED page /\ sent <= sent' /\ sent' \in Nat /\ OnlyCallsOf(m)
      /\ page # m => view' = view
      /\ UNCHANGED <<table, clipboard, muddled>>
  BY TabAssumption DEF Lists, PageEffect, CallStep, CallsOK, resourceVars
<1>1. CopyRows("sources") /\ SaveArgs("sources")
  BY <1>0, OthersRows
<1>2. SrcCallsKept /\ RotationsKept
  BY <1>0, OthersLive
     DEF SrcCallsKept, RotationsKept, SrcActs, SaveSrc, RotateSrc, RemoveSrc,
        Applied
<1>3. SeenIds("sources") => SeenIds("sources")'
  <2>1. Seen("sources")' \subseteq Seen("sources")
    BY <1>0, <1>1, SeenShrinks DEF Seen
  <2>2. NewId(sent) \in Nat /\ NewId(sent') \in Nat /\ NewId(sent) <= NewId(sent')
    BY <1>0, NewIds, SentIsNumber DEF Shape
  <2>. QED
    BY <2>1, <2>2 DEF SeenIds
<1>4. SourcesStay
  BY <1>0, <1>2, <1>3 DEF SourcesStay, SourceViews
<1>. QED
  BY <1>4, AddressStays

\* It survives a step of the session, which muddles the rotations it forgets.
LEMMA AddressBySession ==
    ASSUME Shape, AddressInv, SessionNext PROVE AddressInv'
<1>0. /\ "sources" \in Lists /\ "sources" \notin {"none", "session"} \cup Outside
      /\ SessionEffect /\ CallsOK
      /\ UNCHANGED <<table, clipboard>> /\ sent <= sent' /\ sent' \in Nat
  BY SessionEffects, TabAssumption
     DEF Lists, Outside, SessionEffect, TabTypeOK, Shape
<1>1. CopyRows("sources") /\ SaveArgs("sources")
  BY <1>0, SessionRows
<1>2. SeenIds("sources") => SeenIds("sources")'
  <2>1. Seen("sources")' \subseteq Seen("sources")
    BY <1>0, <1>1, SeenShrinks DEF Seen
  <2>2. NewId(sent) \in Nat /\ NewId(sent') \in Nat /\ NewId(sent) <= NewId(sent')
    BY <1>0, NewIds, SentIsNumber
  <2>. QED
    BY <2>1, <2>2 DEF SeenIds
<1>3. page' = "sources" => view' = SourceForm \/ (page = "sources" /\ view' \in SourceViews)
  <2>1. \/ page' = page /\ view' = view
        \/ view' = Fresh(page') \/ page' \in Outside
    BY <1>0 DEF SessionEffect, Restarted, CallsGoOn, Left
  <2>. QED
    BY <1>0, <2>1, FreshForms DEF SourceViews
<1>4. CASE Restarted
  <2>1. SrcCallsKept
    BY <1>0, <1>4, NoneLive
       DEF SrcCallsKept, SrcActs, SaveSrc, RotateSrc, RemoveSrc
  <2>2. muddled' = muddled \cup {calls[i].arg : i \in Rotations}
    BY <1>4 DEF Restarted
  <2>3. Applied(RotateSrc) \subseteq Rotations
    BY DEF Applied, Live, RotateSrc, Rotations
  <2>4. RotationsKept
    BY <2>2, <2>3 DEF RotationsKept
  <2>. QED
    BY <1>0, <1>2, <1>3, <2>1, <2>2, <2>4, AddressStays DEF SourcesStay
<1>5. CASE CallsGoOn /\ CopiesGoOn /\ muddled' = muddled
  <2>1. SrcCallsKept
    BY <1>0, <1>5, SessionLive
       DEF SrcCallsKept, SrcActs, SaveSrc, RotateSrc, RemoveSrc
  <2>2. RotationsKept
    BY <1>0, <1>5, SessionLive DEF RotationsKept, RotateSrc
  <2>. QED
    BY <1>0, <1>2, <1>3, <1>5, <2>1, <2>2, AddressStays DEF SourcesStay
<1>. QED
  BY <1>0, <1>4, <1>5 DEF SessionEffect

\* The resource pages keep the rows of sources in form.
LEMMA SourceIds ==
    ASSUME Shape, SourcesOK, ResourceNext
    PROVE  /\ SeenIds("sources")'
           /\ \A s \in table'["sources"] : DOMAIN s = {"id", "token"}
           /\ page' = page /\ sent <= sent' /\ sent \in Nat /\ sent' \in Nat
<1>0. /\ "sources" \in Lists /\ "sources" # "groups" /\ DOMAIN table = Lists
      /\ sent \in Nat /\ CopyRows("sources") /\ SeenIds("sources")
      /\ \A s \in table["sources"] : DOMAIN s = {"id", "token"}
      /\ table["sources"] \subseteq Seen("sources")
  BY SentIsNumber, ResourceRows DEF Lists, Shape, TypeOK, SourcesOK, Seen
<1>1. page' = page /\ sent <= sent' /\ sent' \in Nat
  <2>1. PICK m \in Lists : PageEffect(m, Lists)
    BY ResourceEffect
  <2>. QED
    BY <2>1, TabAssumption DEF PageEffect, CallStep, CallsOK
<1>2. ASSUME NEW r \in table'["sources"]
      PROVE  (\E s \in Seen("sources") : r.id = s.id) /\ DOMAIN r = {"id", "token"}
  <2> DEFINE Goal == (\E s \in Seen("sources") : r.id = s.id) /\ DOMAIN r = {"id", "token"}
  <2>1. ASSUME r \in table["sources"] PROVE Goal
    BY <1>0, <2>1
  <2>2. ASSUME NEW l \in Lists, NEW i \in Live(<<"save", l>>),
               table' = [table EXCEPT ![l] = @ \cup {calls[i].arg}]
        PROVE  Goal
    <3>1. CASE r = calls[i].arg /\ l = "sources"
      <4>1. r \in Seen("sources")
        BY <2>2, <3>1, SeenRow
      <4>2. r = [id |-> NewId(i), token |-> NewId(i)]
        BY <2>2, <3>1 DEF SourcesOK, SaveSrc
      <4>. QED
        BY <4>1, <4>2
    <3>2. CASE r \in table["sources"]
      BY <2>1, <3>2
    <3>. QED
      BY <1>0, <1>2, <2>2, <3>1, <3>2
  <2>3. ASSUME NEW l \in Lists, NEW id, table' = Remaining(l, id) PROVE Goal
    BY <1>0, <1>2, <2>1, <2>3, RemainingRows
  <2>4. ASSUME NEW id, NEW token, table' = Tokened(id, token) PROVE Goal
    <3>1. PICK s \in table["sources"] :
             r = IF s.id = id THEN [s EXCEPT !.token = token] ELSE s
      BY <1>0, <1>2, <2>4, TokenedRows
    <3>2. DOMAIN s = {"id", "token"} /\ s \in Seen("sources")
      BY <1>0
    <3>. QED
      BY <3>1, <3>2
  <2>5. CASE table' = table
    BY <1>2, <2>1, <2>5
  <2>. QED
    BY <2>2, <2>3, <2>4, <2>5, ResourceTable
<1>3. \A i \in Live(<<"save", "sources">>)' :
          \/ i \in Live(<<"save", "sources">>) /\ calls'[i].arg = calls[i].arg
          \/ calls'[i].arg.id = NewId(sent')
  BY <1>0, ResourceSaves DEF SaveSent
<1>4. SeenIds("sources")'
  BY <1>0, <1>1, <1>2, <1>3, IdsKeep
<1>. QED
  BY <1>0, <1>1, <1>2, <1>4

\* A step of a resource page that leaves the sources alone.
LEMMA SourcesStayBy ==
    ASSUME Shape, SourcesOK, ResourceNext, SrcCallsKept, RotationsKept,
           table'["sources"] = table["sources"], clipboard' = clipboard,
           muddled \subseteq muddled',
           page = "sources" => view' \in SourceViews
    PROVE  SourcesStay
BY SourceIds DEF SourcesStay

\* The calls about sources when no call changes.
LEMMA SourcesKept ==
    ASSUME UNCHANGED calls PROVE SrcCallsKept /\ RotationsKept
BY DEF SrcCallsKept, RotationsKept, Live, Applied

\* The calls about sources when another call is sent.
LEMMA SourcesSent ==
    ASSUME Shape, NEW do, do \notin SrcActs, NEW arg, Dispatch(do, arg)
    PROVE  SrcCallsKept /\ RotationsKept
<1>1. ASSUME NEW kind \in SrcActs
      PROVE  /\ Live(kind)' = Live(kind) /\ Applied(kind)' = Applied(kind)
             /\ \A i \in Live(kind) : calls'[i] = calls[i]
  <2>1. CallsOK /\ tour \in Tours /\ csrf \in Token /\ cookie \in Token
        /\ kind[1] # "none" /\ do # kind
    BY <1>1 DEF Shape, TypeOK, TabTypeOK, SrcActs, SaveSrc, RotateSrc, RemoveSrc
  <2>. QED
    BY <2>1, SentLive
<1>. QED
  BY <1>1 DEF SrcCallsKept, RotationsKept, SrcActs

\* The calls about sources when another call is served.
LEMMA SourcesServed ==
    ASSUME Shape, NEW i \in Call, calls[i].stage = "sent", calls[i].do \notin SrcActs,
           NEW v, Served(i, v), sent' = sent
    PROVE  SrcCallsKept /\ RotationsKept
<1>1. ASSUME NEW kind \in SrcActs
      PROVE  /\ Live(kind)' = Live(kind) /\ Applied(kind)' = Applied(kind)
             /\ \A j \in Live(kind) : calls'[j] = calls[j]
  BY <1>1, ServedLive DEF Shape, Live
<1>. QED
  BY <1>1 DEF SrcCallsKept, RotationsKept, SrcActs

\* The calls about sources when a call is done.
LEMMA SourcesDone ==
    ASSUME Shape, NEW i \in Call, Done(i), sent' = sent,
           calls[i].do # RotateSrc \/ calls[i].arg \in muddled'
    PROVE  SrcCallsKept /\ RotationsKept
<1>1. ASSUME NEW kind \in SrcActs
      PROVE  /\ Live(kind)' = Live(kind) \ {i} /\ Applied(kind)' = Applied(kind) \ {i}
             /\ \A j \in Live(kind) \ {i} : calls'[j] = calls[j]
  <2>1. kind[1] # "none"
    BY <1>1 DEF SrcActs, SaveSrc, RotateSrc, RemoveSrc
  <2>. QED
    BY <1>1, <2>1, DoneLive DEF Shape, Live
<1>2. SrcCallsKept
  BY <1>1 DEF SrcCallsKept
<1>3. RotationsKept
  BY <1>1 DEF RotationsKept, SrcActs, Applied, Live
<1>. QED
  BY <1>2, <1>3

\* The steps that do something to sources, their calls or their form.
SourceStep ==
    \/ SaveSource \/ RemoveSource \/ RotateToken \/ CopyCredentials
    \/ \E i \in Call : \/ ServeSave(i, "sources") \/ ServeRemove(i, "sources")
                       \/ ServeRotate(i) \/ AnswerSave(i, "sources") \/ AnswerRotate(i)
    \/ \E id \in Ids(table["sources"]) :
           /\ OtherTabChanges("sources", {"sources"} \cup Dependents("sources"),
                              Remaining("sources", id))
           /\ muddled' = muddled \cup {id}
    \/ OtherTabRotates

\* A step of the resource pages is one of these, or leaves the sources alone.
LEMMA SourceSteps ==
    ASSUME Shape, SourcesOK, ResourceNext PROVE SourcesStay \/ SourceStep
<1> DEFINE Goal == SourcesStay \/ SourceStep
<1>0. /\ "sources" \in Lists /\ DOMAIN table = Lists /\ MineHere
      /\ \A act, l : l # "sources" => <<act, l>> \notin SrcActs
      /\ \A l : <<"test", l>> \notin SrcActs
      /\ \A l : <<"preview", l>> \notin SrcActs
      /\ "sources" \notin {"channels", "templates", "groups", "rules", "schedules"}
  BY DEF Lists, Shape, TypeOK, SrcActs, SaveSrc, RotateSrc, RemoveSrc
<1>1. ASSUME NEW p, NEW form, Edit(p, form), p = "sources" => form \in SourceViews
      PROVE  Goal
  BY <1>1, SourcesKept, SourcesStayBy DEF Edit, resourceVars
<1>2. CASE ChannelDialog \/ TemplateDialog \/ GroupDialog \/ RuleDialog \/ ScheduleDialog
  BY <1>0, <1>1, <1>2
     DEF ChannelDialog, TemplateDialog, GroupDialog, RuleDialog, ScheduleDialog,
         OpenDialog, CloseDialog, TypeName
<1>3. CASE SourceDialog
  <2>1. /\ [view EXCEPT !.open = TRUE, !.created = Blank] \in SourceViews
        /\ [view EXCEPT !.open = FALSE] \in SourceViews
        /\ [view EXCEPT !.named = TRUE] \in SourceViews
    BY DEF SourceViews
  <2>. QED
    BY <1>1, <1>3, <2>1 DEF SourceDialog, OpenSourceDialog, CloseDialog, TypeName
<1>4. ASSUME NEW act, NEW l, <<act, l>> \notin SrcActs, NEW arg, Send(<<act, l>>, arg),
             UNCHANGED <<view, table, clipboard>>, muddled \subseteq muddled'
      PROVE  Goal
  <2>1. SrcCallsKept /\ RotationsKept
    BY <1>4, SourcesSent DEF Send
  <2>. QED
    BY <1>4, <2>1, SourcesStayBy DEF SourceViews
<1>5. CASE \/ SaveChannel \/ SaveTemplate \/ SaveGroup \/ SaveRule \/ SaveSchedule
           \/ TestChannel \/ PreviewTemplate
  BY <1>0, <1>4, <1>5
     DEF SaveChannel, SaveTemplate, SaveGroup, SaveRule, SaveSchedule, TestChannel,
         PreviewTemplate, Save, Press, resourceVars
<1>6. CASE RemoveChannel \/ RemoveTemplate \/ RemoveGroup \/ RemoveRule \/ RemoveSchedule
  <2>1. PICK l \in {"channels", "templates", "groups", "rules", "schedules"} : RemoveRow(l)
    BY <1>6
       DEF RemoveChannel, RemoveTemplate, RemoveGroup, RemoveRule,
       RemoveSchedule
  <2>2. PICK r \in Rows(l) : Send(<<"remove", l>>, r.id) /\ muddled' = Overlapped(r.id)
    BY <2>1 DEF RemoveRow
  <2>3. muddled \subseteq muddled'
    BY <2>2 DEF Overlapped
  <2>. QED
    BY <1>0, <1>4, <2>1, <2>2, <2>3 DEF RemoveRow
<1>7. ASSUME NEW i \in Call, calls[i].stage = "sent", calls[i].do \notin SrcActs, NEW v,
             Served(i, v), UNCHANGED <<sent, view, clipboard, muddled>>,
             table'["sources"] = table["sources"]
      PROVE  Goal
  BY <1>7, SourcesServed, SourcesStayBy DEF SourceViews
<1>8. ASSUME NEW i \in Call, NEW l \in Lists, ServeSave(i, l) \/ ServeRemove(i, l)
      PROVE  Goal
  <2>1. CASE l = "sources"
    BY <1>8, <2>1 DEF SourceStep
  <2>2. CASE l # "sources"
    <3>1. "sources" \notin {l} \cup Dependents(l)
      BY <2>2 DEF Dependents
    <3>2. table'["sources"] = table["sources"]
      BY <1>0, <1>8, <2>2, <3>1, RemainingRows DEF ServeSave, ServeRemove
    <3>3. /\ calls[i].stage = "sent" /\ calls[i].do \notin SrcActs
          /\ UNCHANGED <<sent, view, clipboard, muddled>>
      BY <1>0, <1>8, <2>2 DEF ServeSave, ServeRemove, Accepted, Kept
    <3>4. Served(i, calls[i].arg) \/ Served(i, Blank)
      BY <1>8 DEF ServeSave, ServeRemove
    <3>. QED
      BY <1>7, <3>2, <3>3, <3>4
  <2>. QED
    BY <2>1, <2>2
<1>9. ASSUME NEW i \in Call, ServeTrial(i) PROVE Goal
  <2>1. calls[i].stage = "sent" /\ calls[i].do \notin SrcActs
    BY <1>0, <1>9 DEF ServeTrial, Accepted, Trials
  <2>. QED
    BY <1>7, <1>9, <2>1 DEF ServeTrial, Kept
<1>10. ASSUME NEW i \in Call, Done(i), UNCHANGED <<sent, table, clipboard>>,
              calls[i].do # RotateSrc \/ calls[i].arg \in muddled',
              muddled \subseteq muddled',
              page = "sources" => view' = view \/ view' \in SourceViews
       PROVE  Goal
  BY <1>10, SourcesDone, SourcesStayBy DEF SourceViews
<1>11. ASSUME NEW i \in Call, NEW l \in Lists, AnswerSave(i, l) PROVE Goal
  <2>1. CASE l = "sources"
    BY <1>11, <2>1 DEF SourceStep
  <2>2. CASE l # "sources"
    <3>1. calls[i].do # RotateSrc
      BY <1>11 DEF AnswerSave, Answered, RotateSrc
    <3>2. page = "sources" => view' = view
      BY <1>0, <1>11, <2>2, PageNames DEF AnswerSave, Answered, MineHere, PageOf
    <3>. QED
      BY <1>10, <1>11, <3>1, <3>2 DEF AnswerSave, Settled
  <2>. QED
    BY <2>1, <2>2
<1>12. ASSUME NEW i \in Call, NEW l, AnswerRemove(i, l) PROVE Goal
  <2>1. calls[i].do # RotateSrc
    BY <1>12 DEF AnswerRemove, Answered, RotateSrc
  <2>. QED
    BY <1>10, <1>12, <2>1 DEF AnswerRemove, Settled
<1>13. ASSUME NEW i \in Call, AnswerTrial(i) PROVE Goal
  <2>1. calls[i].do # RotateSrc
    BY <1>13 DEF AnswerTrial, Answered, Trials, RotateSrc
  <2>. QED
    BY <1>10, <1>13, <2>1 DEF AnswerTrial, Settled
<1>14. ASSUME NEW i \in Call, LoseResourceAnswer(i) PROVE Goal
  <2>1. PICK l \in Lists, act \in {"save", "remove", "rotate"} :
           /\ Lost(i, <<act, l>>)
           /\ muddled' = IF act = "rotate" THEN muddled \cup {calls[i].arg} ELSE muddled
    BY <1>14 DEF LoseResourceAnswer
  <2>2. calls[i].do = RotateSrc => act = "rotate"
    BY <2>1 DEF Lost, Answered, RotateSrc
  <2>. QED
    BY <1>10, <1>14, <2>1, <2>2 DEF LoseResourceAnswer, Lost
<1>15. CASE OtherTabRemoves
  <2>0. PICK l \in Lists : \E id \in Ids(table[l]) :
           /\ OtherTabChanges(l, {l} \cup Dependents(l), Remaining(l, id))
           /\ muddled' = IF l = "sources" THEN muddled \cup {id} ELSE muddled
    BY <1>15 DEF OtherTabRemoves
  <2>1. PICK id \in Ids(table[l]) :
           /\ OtherTabChanges(l, {l} \cup Dependents(l), Remaining(l, id))
           /\ muddled' = IF l = "sources" THEN muddled \cup {id} ELSE muddled
    BY <2>0
  <2>2. CASE l = "sources"
    BY <2>1, <2>2 DEF SourceStep
  <2>3. CASE l # "sources"
    <3>1. "sources" \notin {l} \cup Dependents(l)
      BY <2>3 DEF Dependents
    <3>2. table'["sources"] = table["sources"]
      BY <1>0, <2>1, <3>1, RemainingRows DEF OtherTabChanges
    <3>. QED
      BY <2>1, <2>3, <3>2, SourcesKept, SourcesStayBy
         DEF OtherTabChanges, SourceViews
  <2>. QED
    BY <2>2, <2>3
<1>16. {"channels", "templates", "groups", "sources", "rules", "schedules"}
           \subseteq Lists
  BY DEF Lists
<1>. QED
  BY <1>2, <1>3, <1>5, <1>6, <1>8, <1>9, <1>11, <1>12, <1>13, <1>14, <1>15, <1>16
     DEF ResourceNext, SourceStep, ChannelSaved, ChannelRemoved, TemplateSaved,
         TemplateRemoved, GroupSaved, GroupRemoved, SourceSaved, SourceRemoved,
         RuleSaved, RuleRemoved, ScheduleSaved, ScheduleRemoved

\* The fields of the form of sources.
SourceForms == {"open", "named", "created"}

\* The sources stay of the right form when their calls and their form do.
LEMMA SourcesOKBy ==
    ASSUME Shape, SourcesOK, ResourceNext,
           \A i \in Live(SaveSrc)' : calls'[i].arg = [id |-> NewId(i), token |-> NewId(i)],
           \A i \in Applied(SaveSrc)' : calls'[i].answer = calls'[i].arg,
           \A i \in TurnSrc' : \/ i \in TurnSrc /\ calls'[i].arg = calls[i].arg
                               \/ calls'[i].arg \in 1..NewId(sent),
           page = "sources" =>
               /\ DOMAIN view' = SourceForms
               /\ view'.created # Blank => view'.created.id \in 1..NewId(sent),
           clipboard' # Blank => clipboard'.id \in 1..NewId(sent)
    PROVE  SourcesOK'
<1>1. /\ SeenIds("sources")'
      /\ \A s \in table'["sources"] : DOMAIN s = {"id", "token"}
      /\ page' = page /\ sent <= sent' /\ sent \in Nat /\ sent' \in Nat
  BY SourceIds
<1>2. \A n : n \in 1..NewId(sent) => n \in 1..NewId(sent')
  <2>1. NewId(sent) \in Nat /\ NewId(sent') \in Nat /\ NewId(sent) <= NewId(sent')
    BY <1>1, NewIds
  <2>. QED
    BY <2>1
<1>3. \A i \in TurnSrc' : calls'[i].arg \in 1..NewId(sent')
  BY <1>2 DEF SourcesOK
<1>. QED
  BY <1>1, <1>2, <1>3 DEF SourcesOK, SourceForms

\* A source is saved: its number is new.
LEMMA AddressBySave ==
    ASSUME Shape, AddressInv, ResourceNext, SaveSource PROVE AddressInv'
<1> DEFINE n == sent + 1
<1>0. /\ SourcesOK /\ CallsKeepAddress /\ ShownAddress /\ CopiedAddress
      /\ CallsOK /\ tour \in Tours /\ csrf \in Token /\ cookie \in Token
      /\ sent \in Nat
      /\ SaveSrc[1] # "none" /\ RotateSrc[1] # "none" /\ RemoveSrc[1] # "none"
      /\ SaveSrc # RotateSrc /\ SaveSrc # RemoveSrc
  BY SentIsNumber
     DEF AddressInv, Shape, TypeOK, TabTypeOK, SaveSrc, RotateSrc, RemoveSrc
<1>1. /\ Dispatch(SaveSrc, [id |-> NewId(n), token |-> NewId(n)])
      /\ page = "sources" /\ page' = page /\ view.created = Blank
      /\ UNCHANGED <<view, table, clipboard, muddled>>
  BY DEF SaveSource, Save, Press, Send, Dispatch, NextId, SaveSrc, resourceVars
<1>2. /\ Live(SaveSrc)' = Live(SaveSrc) \cup {n}
      /\ Applied(SaveSrc)' = Applied(SaveSrc)
      /\ \A i \in Live(SaveSrc) : calls'[i] = calls[i]
      /\ calls'[n] = Request(SaveSrc, [id |-> NewId(n), token |-> NewId(n)])
      /\ n \notin Live(SaveSrc)
  BY <1>0, <1>1, SentLive
<1>3. /\ Live(RotateSrc)' = Live(RotateSrc) /\ Live(RemoveSrc)' = Live(RemoveSrc)
      /\ TurnSrc' = TurnSrc /\ Applied(RotateSrc)' = Applied(RotateSrc)
      /\ \A r \in TurnSrc : calls'[r] = calls[r]
      /\ Applied(SaveSrc) \subseteq Live(SaveSrc)
      /\ Applied(RotateSrc) \subseteq TurnSrc /\ Live(RotateSrc) \subseteq TurnSrc
  BY <1>0, <1>1, SentLive DEF TurnSrc, Applied
<1>4. calls'[n].arg = [id |-> NewId(n), token |-> NewId(n)]
  BY <1>2 DEF Request
<1>5. \A m \in 1..NewId(sent) : m # NewId(n)
  BY <1>0 DEF NewId, FirstNew
<1>. HIDE DEF n
<1>6. SourcesOK'
  <2>1. \A i \in Live(SaveSrc)' : calls'[i].arg = [id |-> NewId(i), token |-> NewId(i)]
    BY <1>0, <1>2, <1>4 DEF SourcesOK
  <2>2. \A i \in Applied(SaveSrc)' : calls'[i].answer = calls'[i].arg
    BY <1>0, <1>2, <1>3 DEF SourcesOK
  <2>. QED
    BY <1>0, <1>1, <1>3, <2>1, <2>2, SourcesOKBy DEF SourcesOK, SourceForms
<1>7. CallsKeepAddress'
  BY <1>0, <1>1, <1>2, <1>3, <1>5 DEF CallsKeepAddress, SourcesOK, Good, Works
<1>8. ShownAddress'
  BY <1>1 DEF ShownAddress
<1>9. CopiedAddress'
  BY <1>0, <1>1, <1>2, <1>3, <1>5 DEF CopiedAddress, SourcesOK, Good, Works
<1>. QED
  BY <1>6, <1>7, <1>8, <1>9 DEF AddressInv

\* A call is sent about a source that is there: a rotation or a deletion.
LEMMA AddressByTurn ==
    ASSUME Shape, AddressInv, ResourceNext, NEW do \in {RotateSrc, RemoveSrc},
           NEW id \in Ids(Rows("sources")), Dispatch(do, id), muddled' = Overlapped(id),
           page = "sources", ~view.open, UNCHANGED <<view, table, clipboard>>
    PROVE  AddressInv'
<1> DEFINE n == sent + 1
<1>0. /\ SourcesOK /\ CallsKeepAddress /\ ShownAddress /\ CopiedAddress
      /\ CallsOK /\ tour \in Tours /\ csrf \in Token /\ cookie \in Token
      /\ sent \in Nat /\ page' = page
      /\ SaveSrc[1] # "none" /\ RotateSrc[1] # "none" /\ RemoveSrc[1] # "none"
      /\ SaveSrc # RotateSrc /\ SaveSrc # RemoveSrc /\ RotateSrc # RemoveSrc
  BY SentIsNumber
     DEF AddressInv, Shape, TypeOK, TabTypeOK, SaveSrc, RotateSrc, RemoveSrc,
        Dispatch
<1>1. /\ Live(SaveSrc)' = Live(SaveSrc) /\ Applied(SaveSrc)' = Applied(SaveSrc)
      /\ \A i \in Live(SaveSrc) : calls'[i] = calls[i]
      /\ Applied(SaveSrc) \subseteq Live(SaveSrc)
  BY <1>0, SentLive DEF Applied
<1>2. /\ TurnSrc' = TurnSrc \cup {n} /\ n \notin TurnSrc
      /\ Live(RotateSrc)' \subseteq Live(RotateSrc) \cup {n}
      /\ Applied(RotateSrc)' = Applied(RotateSrc)
      /\ \A r \in TurnSrc : calls'[r] = calls[r]
      /\ calls'[n] = Request(do, id)
      /\ Applied(RotateSrc) \subseteq TurnSrc /\ Live(RotateSrc) \subseteq TurnSrc
      /\ do = RemoveSrc => Live(RotateSrc)' = Live(RotateSrc)
  <2>1. /\ Live(RotateSrc)' = IF do = RotateSrc THEN Live(RotateSrc) \cup {n}
                              ELSE Live(RotateSrc)
        /\ Live(RemoveSrc)' = IF do = RemoveSrc THEN Live(RemoveSrc) \cup {n}
                              ELSE Live(RemoveSrc)
        /\ n \notin Live(RotateSrc) /\ n \notin Live(RemoveSrc)
        /\ Applied(RotateSrc)' = Applied(RotateSrc)
        /\ \A r \in Live(RotateSrc) \cup Live(RemoveSrc) : calls'[r] = calls[r]
        /\ calls'[n] = Request(do, id)
    BY <1>0, SentLive
  <2>. HIDE DEF n
  <2>. QED
    BY <1>0, <2>1 DEF TurnSrc, Applied
<1>3. calls'[n].arg = id
  BY <1>2 DEF Request
<1>4. muddled \subseteq muddled'
  BY DEF Overlapped
<1>5. id \in 1..NewId(sent)
  <2>1. PICK s \in Rows("sources") : s.id = id
    BY DEF Ids
  <2>. QED
    BY <1>0, <2>1 DEF SourcesOK, SeenIds, Seen
<1>6. ASSUME NEW i \in Live(SaveSrc), id = NewId(i) PROVE id \in muddled'
  <2>1. /\ i \in Call /\ calls[i].stage # "idle" /\ calls[i].do = <<"save", "sources">>
        /\ calls[i].arg.id = id
    <3>1. i \in Call /\ calls[i].do = <<"save", "sources">>
      BY <1>6 DEF Live, SaveSrc
    <3>2. calls[i].stage # "idle"
      BY <1>0, <3>1 DEF CallsOK
    <3>3. calls[i].arg = [id |-> NewId(i), token |-> NewId(i)]
      BY <1>0, <1>6 DEF SourcesOK
    <3>. QED
      BY <1>6, <3>1, <3>2, <3>3
  <2>. QED
    BY <2>1 DEF Overlapped
<1>7. ASSUME NEW r \in Live(RotateSrc), calls[r].arg = id PROVE id \in muddled'
  <2>1. r \in Rotations
    BY <1>0, <1>7 DEF Live, RotateSrc, CallsOK, Rotations
  <2>. QED
    BY <1>7, <2>1 DEF Overlapped, Rotations
<1>. HIDE DEF n
<1>8. SourcesOK'
  <2>1. \A i \in Live(SaveSrc)' : calls'[i].arg = [id |-> NewId(i), token |-> NewId(i)]
    BY <1>0, <1>1 DEF SourcesOK
  <2>2. \A i \in Applied(SaveSrc)' : calls'[i].answer = calls'[i].arg
    BY <1>0, <1>1 DEF SourcesOK
  <2>3. \A i \in TurnSrc' : \/ i \in TurnSrc /\ calls'[i].arg = calls[i].arg
                            \/ calls'[i].arg \in 1..NewId(sent)
    BY <1>2, <1>3, <1>5
  <2>. QED
    BY <1>0, <2>1, <2>2, <2>3, SourcesOKBy DEF SourcesOK, SourceForms
<1>9. CallsKeepAddress'
  <2>1. \A i \in Live(SaveSrc)', r \in TurnSrc' :
            calls'[r].arg = NewId(i) => NewId(i) \in muddled'
    BY <1>0, <1>1, <1>2, <1>3, <1>4, <1>6 DEF CallsKeepAddress
  <2>2. \A r, s \in Live(RotateSrc)' :
            calls'[r].arg = calls'[s].arg /\ r # s => calls'[r].arg \in muddled'
    BY <1>0, <1>2, <1>3, <1>4, <1>7 DEF CallsKeepAddress
  <2>3. \A i \in Applied(SaveSrc)' : Good(calls[i].arg)'
    BY <1>0, <1>1, <1>4 DEF CallsKeepAddress, Good, Works
  <2>4. \A r \in Applied(RotateSrc)' :
            /\ calls'[r].answer.id = calls'[r].arg
            /\ calls'[r].arg \in Ids(table'["sources"]) => Good(calls[r].answer)'
    BY <1>0, <1>2, <1>4 DEF CallsKeepAddress, Good, Works
  <2>. QED
    BY <2>1, <2>2, <2>3, <2>4 DEF CallsKeepAddress
<1>10. ShownAddress'
  BY <1>0, <1>1 DEF ShownAddress
<1>11. CopiedAddress'
  BY <1>0, <1>1, <1>2, <1>4 DEF CopiedAddress, Good, Works
<1>. QED
  BY <1>8, <1>9, <1>10, <1>11 DEF AddressInv

\* The save is served: the address of the new source works.
LEMMA AddressByServeSave ==
    ASSUME Shape, AddressInv, ResourceNext, NEW n \in Call, ServeSave(n, "sources")
    PROVE  AddressInv'
<1>0. /\ SourcesOK /\ CallsKeepAddress /\ ShownAddress /\ CopiedAddress
      /\ CallsOK /\ DOMAIN table = Lists /\ "sources" \in Lists
      /\ n \in Live(SaveSrc) /\ calls[n].stage = "sent"
      /\ SaveSrc # RotateSrc /\ SaveSrc # RemoveSrc
      /\ UNCHANGED <<page, view, clipboard, muddled, sent>>
      /\ calls[n].arg = [id |-> NewId(n), token |-> NewId(n)]
  <2>1. /\ n \in Live(SaveSrc) /\ calls[n].stage = "sent"
        /\ UNCHANGED <<page, view, clipboard, muddled, sent>>
    BY DEF SaveSrc, ServeSave, Accepted, Kept, Live
  <2>2. SaveSrc # RotateSrc /\ SaveSrc # RemoveSrc
    BY DEF SaveSrc, RotateSrc, RemoveSrc
  <2>3. calls[n].arg = [id |-> NewId(n), token |-> NewId(n)]
    BY <2>1 DEF AddressInv, SourcesOK
  <2>. QED
    BY <2>1, <2>2, <2>3 DEF AddressInv, Shape, TypeOK, Lists
<1>1. PICK row : row = calls[n].arg
  OBVIOUS
<1>2. /\ table'["sources"] = table["sources"] \cup {row}
      /\ Served(n, row) /\ row.id = NewId(n)
  BY <1>0, <1>1 DEF ServeSave
<1>3. /\ \A do \in SrcActs : Live(do)' = Live(do)
      /\ Applied(SaveSrc)' = Applied(SaveSrc) \cup {n}
      /\ Applied(RotateSrc)' = Applied(RotateSrc) /\ TurnSrc' = TurnSrc
      /\ \A j \in Call : calls'[j].arg = calls[j].arg
      /\ \A j \in Call \ {n} : calls'[j] = calls[j]
      /\ calls'[n].answer = row /\ n \notin TurnSrc
  <2>1. \A do : /\ Live(do)' = Live(do)
                /\ calls[n].do # do => Applied(do)' = Applied(do)
                /\ calls[n].do = do => Applied(do)' = Applied(do) \cup {n}
    BY <1>0, <1>2, ServedLive
  <2>2. /\ \A j \in Call : calls'[j].arg = calls[j].arg
        /\ \A j \in Call \ {n} : calls'[j] = calls[j]
        /\ calls'[n].answer = row
    BY <1>0, <1>2, ServedLive
  <2>3. calls[n].do = SaveSrc
    BY <1>0 DEF Live
  <2>. QED
    BY <1>0, <2>1, <2>2, <2>3 DEF TurnSrc, Live
<1>4. /\ Live(SaveSrc)' = Live(SaveSrc) /\ Live(RotateSrc)' = Live(RotateSrc)
      /\ Live(SaveSrc) \subseteq Call /\ TurnSrc \subseteq Call
      /\ Applied(SaveSrc) \subseteq Live(SaveSrc)
      /\ Applied(RotateSrc) \subseteq TurnSrc /\ Live(RotateSrc) \subseteq TurnSrc
  BY <1>3 DEF SrcActs, Live, TurnSrc, Applied
<1>5. SourcesOK'
  <2>1. \A i \in Live(SaveSrc)' : calls'[i].arg = [id |-> NewId(i), token |-> NewId(i)]
    BY <1>0, <1>3, <1>4 DEF SourcesOK
  <2>2. \A i \in Applied(SaveSrc)' : calls'[i].answer = calls'[i].arg
    BY <1>0, <1>1, <1>3, <1>4 DEF SourcesOK
  <2>3. \A i \in TurnSrc' : i \in TurnSrc /\ calls'[i].arg = calls[i].arg
    BY <1>3, <1>4
  <2>. QED
    BY <1>0, <2>1, <2>2, <2>3, SourcesOKBy DEF SourcesOK, SourceForms
<1>6. \A a : Good(a) => Good(a)'
  BY <1>0, <1>2 DEF Good, Works
<1>7. Good(row)'
  BY <1>2 DEF Good, Works
<1>8. CallsKeepAddress'
  <2>1. ASSUME NEW i \in Applied(SaveSrc)' PROVE Good(calls[i].arg)'
    <3>1. PICK a : a = calls[i].arg
      OBVIOUS
    <3>2. Good(a)' /\ calls'[i].arg = a
      BY <1>0, <1>1, <1>3, <1>4, <1>6, <1>7, <2>1, <3>1 DEF CallsKeepAddress
    <3>. QED
      BY <3>2
  <2>2. ASSUME NEW r \in Applied(RotateSrc)', calls'[r].arg \in Ids(table'["sources"])
        PROVE  Good(calls[r].answer)'
    <3>1. PICK a : a = calls[r].answer
      OBVIOUS
    <3>2. /\ r \in Applied(RotateSrc) /\ r \in TurnSrc /\ calls'[r] = calls[r]
          /\ a.id = calls[r].arg
      BY <1>0, <1>3, <1>4, <2>2, <3>1 DEF CallsKeepAddress
    <3>3. CASE calls[r].arg \in Ids(table["sources"])
      BY <1>0, <1>6, <3>1, <3>2, <3>3 DEF CallsKeepAddress
    <3>4. CASE calls[r].arg = NewId(n)
      <4>1. a.id \in muddled
        BY <1>0, <3>2, <3>4 DEF CallsKeepAddress
      <4>. QED
        BY <1>0, <3>1, <3>2, <4>1 DEF Good
    <3>. QED
      BY <1>2, <2>2, <3>2, <3>3, <3>4 DEF Ids
  <2>3. \A i \in Live(SaveSrc)', r \in TurnSrc' :
            calls'[r].arg = NewId(i) => NewId(i) \in muddled'
    BY <1>0, <1>3, <1>4 DEF CallsKeepAddress
  <2>4. \A r, s \in Live(RotateSrc)' :
            calls'[r].arg = calls'[s].arg /\ r # s => calls'[r].arg \in muddled'
    BY <1>0, <1>3, <1>4 DEF CallsKeepAddress
  <2>5. \A r \in Applied(RotateSrc)' : calls'[r].answer.id = calls'[r].arg
    BY <1>0, <1>3, <1>4 DEF CallsKeepAddress
  <2>. QED
    BY <2>1, <2>2, <2>3, <2>4, <2>5 DEF CallsKeepAddress
<1>9. ShownAddress'
  <2>1. PICK a : a = view.created
    OBVIOUS
  <2>. QED
    BY <1>0, <1>3, <1>4, <1>6, <2>1 DEF ShownAddress
<1>10. CopiedAddress'
  <2>1. PICK a : a = clipboard
    OBVIOUS
  <2>2. Good(a) => Good(clipboard)'
    BY <1>0, <1>6, <2>1
  <2>3. clipboard.id \in Ids(table'["sources"]) =>
            clipboard.id \in Ids(table["sources"]) \/ clipboard.id = NewId(n)
    BY <1>2 DEF Ids
  <2>4. clipboard.id \in muddled => Good(clipboard)'
    BY <1>0 DEF Good
  <2>. QED
    BY <1>0, <1>3, <1>4, <2>1, <2>2, <2>3, <2>4 DEF CopiedAddress
<1>. QED
  BY <1>5, <1>8, <1>9, <1>10 DEF AddressInv

\* One source loses its address: by a call under way, or behind the tab's back.
LEMMA AddressByLoss ==
    ASSUME Shape, AddressInv, ResourceNext, NEW id,
           \A a : a.id # id /\ Works(a) => Works(a)',
           Ids(table'["sources"]) \subseteq Ids(table["sources"]),
           muddled \subseteq muddled', UNCHANGED <<page, view, clipboard>>,
           \A do \in SrcActs : Live(do)' = Live(do),
           \A j \in Call : calls'[j].arg = calls[j].arg,
           Applied(SaveSrc)' = Applied(SaveSrc),
           \A j \in Applied(SaveSrc) \cup Applied(RotateSrc) : calls'[j] = calls[j],
           Applied(RotateSrc) \subseteq Applied(RotateSrc)',
           \A r \in Applied(RotateSrc)' :
               \/ r \in Applied(RotateSrc)
               \/ /\ calls'[r].arg = id /\ calls'[r].answer.id = id
                  /\ Good(calls[r].answer)',
           \/ id \in muddled'
           \/ \E n \in TurnSrc : /\ calls[n].arg = id /\ n \notin Applied(RotateSrc)
                                 /\ \/ id \notin Ids(table'["sources"])
                                    \/ n \in Applied(RotateSrc)'
    PROVE  AddressInv'
<1>0. /\ SourcesOK /\ CallsKeepAddress /\ ShownAddress /\ CopiedAddress
  BY DEF AddressInv
<1>1. /\ Live(SaveSrc)' = Live(SaveSrc) /\ Live(RotateSrc)' = Live(RotateSrc)
      /\ TurnSrc' = TurnSrc /\ Live(RotateSrc) \subseteq TurnSrc
      /\ Live(SaveSrc) \subseteq Call /\ TurnSrc \subseteq Call
      /\ Applied(SaveSrc) \subseteq Live(SaveSrc)
      /\ Applied(RotateSrc)' \subseteq TurnSrc
      /\ Applied(RotateSrc)' \subseteq Live(RotateSrc)
      /\ Applied(RotateSrc) \subseteq Live(RotateSrc)
  BY DEF SrcActs, TurnSrc, Live, Applied
<1>2. SourcesOK'
  <2>1. \A i \in Live(SaveSrc)' : calls'[i].arg = [id |-> NewId(i), token |-> NewId(i)]
    BY <1>0, <1>1 DEF SourcesOK
  <2>2. \A i \in Applied(SaveSrc)' : calls'[i].answer = calls'[i].arg
    BY <1>0, <1>1 DEF SourcesOK
  <2>3. \A i \in TurnSrc' : i \in TurnSrc /\ calls'[i].arg = calls[i].arg
    BY <1>1
  <2>. QED
    BY <1>0, <2>1, <2>2, <2>3, SourcesOKBy DEF SourcesOK, SourceForms
<1>3. ASSUME NEW a, Good(a), a.id # id \/ id \in muddled' PROVE Good(a)'
  BY <1>3 DEF Good
<1>4. ASSUME NEW i \in Live(SaveSrc), NewId(i) = id PROVE id \in muddled'
  BY <1>0, <1>4 DEF CallsKeepAddress
<1>5. CallsKeepAddress'
  <2>1. ASSUME NEW i \in Applied(SaveSrc)' PROVE Good(calls[i].arg)'
    <3>1. PICK a : a = calls[i].arg
      OBVIOUS
    <3>2. Good(a) /\ calls'[i].arg = a /\ a.id = NewId(i) /\ i \in Live(SaveSrc)
      <4>1. i \in Applied(SaveSrc) /\ i \in Live(SaveSrc)
        BY <1>1, <2>1
      <4>2. Good(calls[i].arg)
        BY <1>0, <4>1 DEF CallsKeepAddress
      <4>3. calls[i].arg = [id |-> NewId(i), token |-> NewId(i)]
        BY <1>0, <4>1 DEF SourcesOK
      <4>. QED
        BY <1>1, <3>1, <4>1, <4>2, <4>3
    <3>3. Good(a)'
      BY <1>3, <1>4, <3>2
    <3>. QED
      BY <3>2, <3>3
  <2>2. ASSUME NEW r \in Applied(RotateSrc)', calls'[r].arg \in Ids(table'["sources"])
        PROVE  Good(calls[r].answer)'
    <3>1. CASE r \notin Applied(RotateSrc)
      BY <2>2, <3>1
    <3>2. CASE r \in Applied(RotateSrc)
      <4>1. PICK a : a = calls[r].answer
        OBVIOUS
      <4>2. /\ calls'[r] = calls[r] /\ r \in Live(RotateSrc) /\ a.id = calls[r].arg
            /\ Good(a)
        BY <1>0, <1>1, <2>2, <3>2, <4>1 DEF CallsKeepAddress
      <4>3. a.id = id => id \in muddled'
        <5> SUFFICES ASSUME a.id = id, id \notin muddled' PROVE FALSE
          OBVIOUS
        <5>1. PICK n \in TurnSrc : /\ calls[n].arg = id /\ n \notin Applied(RotateSrc)
                                   /\ \/ id \notin Ids(table'["sources"])
                                      \/ n \in Applied(RotateSrc)'
          OBVIOUS
        <5>2. n \in Live(RotateSrc) /\ n # r
          BY <1>1, <2>2, <3>2, <4>2, <5>1
        <5>. QED
          BY <1>0, <4>2, <5>1, <5>2 DEF CallsKeepAddress
      <4>4. Good(a)'
        BY <1>3, <4>2, <4>3
      <4>. QED
        BY <4>1, <4>2, <4>4
    <3>. QED
      BY <3>1, <3>2
  <2>3. \A i \in Live(SaveSrc)', r \in TurnSrc' :
            calls'[r].arg = NewId(i) => NewId(i) \in muddled'
    BY <1>0, <1>1 DEF CallsKeepAddress
  <2>4. \A r, s \in Live(RotateSrc)' :
            calls'[r].arg = calls'[s].arg /\ r # s => calls'[r].arg \in muddled'
    BY <1>0, <1>1 DEF CallsKeepAddress
  <2>5. \A r \in Applied(RotateSrc)' : calls'[r].answer.id = calls'[r].arg
    BY <1>0, <1>1 DEF CallsKeepAddress
  <2>. QED
    BY <2>1, <2>2, <2>3, <2>4, <2>5 DEF CallsKeepAddress
<1>6. ShownAddress'
  <2> SUFFICES ASSUME page = "sources", view.created # Blank
               PROVE  /\ view.open => Good(view.created)'
                      /\ view.open => \A r \in TurnSrc' :
                           calls'[r].arg = view.created.id => view.created.id \in muddled'
                      /\ \A i \in Live(SaveSrc)' : NewId(i) # view.created.id
    BY DEF ShownAddress
  <2>1. PICK a : a = view.created
    OBVIOUS
  <2>2. view.open => Good(a)'
    BY <1>0, <1>3, <2>1 DEF ShownAddress
  <2>. QED
    BY <1>0, <1>1, <2>1, <2>2 DEF ShownAddress
<1>7. CopiedAddress'
  <2> SUFFICES ASSUME clipboard # Blank
               PROVE  /\ \/ clipboard.id \notin Ids(table'["sources"])
                         \/ Good(clipboard)'
                         \/ \E r \in Applied(RotateSrc)' : calls'[r].arg = clipboard.id
                      /\ \A i \in Live(SaveSrc)' :
                             NewId(i) = clipboard.id => clipboard.id \in muddled'
    BY DEF CopiedAddress
  <2>1. PICK a : a = clipboard
    OBVIOUS
  <2>2. \/ clipboard.id \notin Ids(table'["sources"])
        \/ Good(a)'
        \/ \E r \in Applied(RotateSrc)' : calls'[r].arg = clipboard.id
    <3>1. CASE a.id = id /\ id \notin muddled'
      BY <1>1, <2>1, <3>1
    <3>2. CASE a.id # id \/ id \in muddled'
      BY <1>0, <1>1, <1>3, <2>1, <3>2 DEF CopiedAddress
    <3>. QED
      BY <3>1, <3>2
  <2>. QED
    BY <1>0, <1>1, <2>1, <2>2 DEF CopiedAddress
<1>. QED
  BY <1>2, <1>5, <1>6, <1>7 DEF AddressInv

\* What a deletion and a rotation leave of the sources.
LEMMA SourcesRemoved ==
    ASSUME DOMAIN table = Lists, NEW id, table' = Remaining("sources", id)
    PROVE  /\ \A a : a.id # id /\ Works(a) => Works(a)'
           /\ Ids(table'["sources"]) \subseteq Ids(table["sources"])
           /\ id \notin Ids(table'["sources"])
<1>1. table'["sources"] = {r \in table["sources"] : r.id # id}
  BY DEF Remaining, Lists
<1>. QED
  BY <1>1 DEF Works, Ids

\* A rotation keeps the other addresses working, and makes the new one work.
LEMMA SourcesTokened ==
    ASSUME DOMAIN table = Lists, NEW id, NEW token, table' = Tokened(id, token),
           \A s \in table["sources"] : DOMAIN s = {"id", "token"}
    PROVE  /\ \A a : a.id # id /\ Works(a) => Works(a)'
           /\ Ids(table'["sources"]) \subseteq Ids(table["sources"])
           /\ id \in Ids(table["sources"]) =>
                  \A a : a.id = id /\ a.token = token => Works(a)'
<1>1. table'["sources"] =
        {IF r.id = id THEN [r EXCEPT !.token = token] ELSE r : r \in table["sources"]}
  BY TokenedRows
<1>2. ASSUME NEW r \in table["sources"]
      PROVE  LET s == IF r.id = id THEN [r EXCEPT !.token = token] ELSE r
             IN  /\ s \in table'["sources"] /\ s.id = r.id
                 /\ r.id = id => s.token = token
                 /\ r.id # id => s = r
  BY <1>1, <1>2
<1>3. ASSUME NEW s \in table'["sources"] PROVE \E r \in table["sources"] : s.id = r.id
  <2>1. PICK r \in table["sources"] :
           s = IF r.id = id THEN [r EXCEPT !.token = token] ELSE r
    BY <1>1, <1>3
  <2>. QED
    BY <2>1
<1>4. ASSUME NEW a, a.id # id, Works(a) PROVE Works(a)'
  BY <1>2, <1>4 DEF Works
<1>5. ASSUME id \in Ids(table["sources"]), NEW a, a.id = id, a.token = token
      PROVE  Works(a)'
  <2>1. PICK r \in table["sources"] : r.id = id
    BY <1>5 DEF Ids
  <2>. QED
    BY <1>2, <1>5, <2>1 DEF Works
<1>6. Ids(table'["sources"]) \subseteq Ids(table["sources"])
  BY <1>3 DEF Ids
<1>. QED
  BY <1>4, <1>5, <1>6

\* A deletion is served: the address of its source is lost.
LEMMA AddressByServeRemove ==
    ASSUME Shape, AddressInv, ResourceNext, NEW n \in Call, ServeRemove(n, "sources")
    PROVE  AddressInv'
<1>0. /\ CallsOK /\ DOMAIN table = Lists /\ SourcesOK
      /\ n \in Live(RemoveSrc) /\ calls[n].stage = "sent" /\ calls[n].do = RemoveSrc
      /\ UNCHANGED <<page, view, clipboard, muddled, sent>> /\ Served(n, Blank)
      /\ table' = Remaining("sources", calls[n].arg)
  BY DEF AddressInv, Shape, TypeOK, RemoveSrc, ServeRemove, Accepted, Kept, Live
<1>1. SaveSrc # RemoveSrc /\ RotateSrc # RemoveSrc
  BY DEF SaveSrc, RotateSrc, RemoveSrc
<1>2. PICK id : id = calls[n].arg
  OBVIOUS
<1>3. /\ \A a : a.id # id /\ Works(a) => Works(a)'
      /\ Ids(table'["sources"]) \subseteq Ids(table["sources"])
      /\ id \notin Ids(table'["sources"])
  BY <1>0, <1>2, SourcesRemoved
<1>4. /\ \A do \in SrcActs : Live(do)' = Live(do)
      /\ Applied(SaveSrc)' = Applied(SaveSrc)
      /\ Applied(RotateSrc)' = Applied(RotateSrc)
      /\ \A j \in Call : calls'[j].arg = calls[j].arg
      /\ \A j \in Call \ {n} : calls'[j] = calls[j]
  BY <1>0, <1>1, ServedLive
<1>5. /\ n \in TurnSrc /\ n \notin Applied(RotateSrc) /\ n \notin Applied(SaveSrc)
      /\ Applied(RotateSrc) \cup Applied(SaveSrc) \subseteq Call
  BY <1>0, <1>1 DEF TurnSrc, Applied, Live
<1>. QED
  BY <1>0, <1>2, <1>3, <1>4, <1>5, AddressByLoss

\* A rotation is served: the new address works, and its answer will show it.
LEMMA AddressByServeRotate ==
    ASSUME Shape, AddressInv, ResourceNext, NEW n \in Call, ServeRotate(n)
    PROVE  AddressInv'
<1>0. /\ CallsOK /\ DOMAIN table = Lists
      /\ \A s \in table["sources"] : DOMAIN s = {"id", "token"}
      /\ n \in Live(RotateSrc) /\ calls[n].stage = "sent" /\ calls[n].do = RotateSrc
      /\ UNCHANGED <<page, view, clipboard, muddled, sent>>
      /\ table' = Tokened(calls[n].arg, NewId(n))
      /\ calls[n].arg \in Ids(table["sources"])
  <2>1. /\ n \in Live(RotateSrc) /\ calls[n].stage = "sent" /\ calls[n].do = RotateSrc
        /\ UNCHANGED <<page, view, clipboard, muddled, sent>>
        /\ table' = Tokened(calls[n].arg, NewId(n))
        /\ calls[n].arg \in Ids(table["sources"])
    BY DEF RotateSrc, ServeRotate, Accepted, Kept, Live
  <2>. QED
    BY <2>1 DEF AddressInv, SourcesOK, Shape, TypeOK
<1>1. SaveSrc # RotateSrc
  BY DEF SaveSrc, RotateSrc
<1>2. PICK id : id = calls[n].arg
  OBVIOUS
<1>3. PICK row : row = [id |-> id, token |-> NewId(n)]
  OBVIOUS
<1>4. Served(n, row) /\ row.id = id /\ row.token = NewId(n)
  BY <1>2, <1>3 DEF ServeRotate
<1>5. /\ \A a : a.id # id /\ Works(a) => Works(a)'
      /\ Ids(table'["sources"]) \subseteq Ids(table["sources"])
      /\ Works(row)'
  BY <1>0, <1>2, <1>4, SourcesTokened
<1>6. /\ \A do \in SrcActs : Live(do)' = Live(do)
      /\ Applied(SaveSrc)' = Applied(SaveSrc)
      /\ Applied(RotateSrc)' = Applied(RotateSrc) \cup {n} /\ n \notin Applied(RotateSrc)
      /\ \A j \in Call : calls'[j].arg = calls[j].arg
      /\ \A j \in Call \ {n} : calls'[j] = calls[j]
      /\ calls'[n].answer = row
  BY <1>0, <1>1, <1>4, ServedLive
<1>7. /\ n \in TurnSrc /\ n \notin Applied(SaveSrc)
      /\ Applied(RotateSrc) \cup Applied(SaveSrc) \subseteq Call
  BY <1>0, <1>1 DEF TurnSrc, Applied, Live
<1>8. Good(calls[n].answer)'
  BY <1>5, <1>6 DEF Good
<1>9. \A r \in Applied(RotateSrc)' :
               \/ r \in Applied(RotateSrc)
               \/ /\ calls'[r].arg = id /\ calls'[r].answer.id = id
                  /\ Good(calls[r].answer)'
  BY <1>2, <1>4, <1>6, <1>8
<1>. QED
  BY <1>0, <1>2, <1>5, <1>6, <1>7, <1>9, AddressByLoss

\* Another tab deletes or rotates, and muddles the source.
LEMMA AddressByOtherTab ==
    ASSUME Shape, AddressInv, ResourceNext, NEW id, muddled' = muddled \cup {id},
           NEW qs, NEW t, OtherTabChanges("sources", qs, t),
           t = Remaining("sources", id) \/ \E token : t = Tokened(id, token)
    PROVE  AddressInv'
<1>0. /\ DOMAIN table = Lists /\ \A s \in table["sources"] : DOMAIN s = {"id", "token"}
      /\ UNCHANGED <<page, view, clipboard, calls>> /\ table' = t
  BY DEF AddressInv, SourcesOK, Shape, TypeOK, OtherTabChanges
<1>1. /\ \A a : a.id # id /\ Works(a) => Works(a)'
      /\ Ids(table'["sources"]) \subseteq Ids(table["sources"])
  BY <1>0, SourcesRemoved, SourcesTokened
<1>2. /\ \A do \in SrcActs : Live(do)' = Live(do)
      /\ \A j \in Call : calls'[j] = calls[j]
      /\ Applied(SaveSrc)' = Applied(SaveSrc) /\ Applied(RotateSrc)' = Applied(RotateSrc)
      /\ Applied(RotateSrc) \cup Applied(SaveSrc) \subseteq Call
  BY <1>0 DEF Live, Applied
<1>. QED
  BY <1>0, <1>1, <1>2, AddressByLoss

\* The answer of a save shows the new address.
LEMMA AddressByAnswer ==
    ASSUME Shape, AddressInv, ResourceNext, NEW n \in Call, AnswerSave(n, "sources")
    PROVE  AddressInv'
<1>0. /\ SourcesOK /\ CallsKeepAddress /\ ShownAddress /\ CopiedAddress
      /\ CallsOK /\ MineHere
      /\ n \in Live(SaveSrc) /\ n \in Applied(SaveSrc) /\ calls[n].do = SaveSrc
      /\ Done(n) /\ UNCHANGED <<page, table, clipboard, muddled, sent>>
      /\ view' = IF calls[n].mine THEN [view EXCEPT !.created = calls[n].answer] ELSE view
  <2>1. /\ n \in Live(SaveSrc) /\ n \in Applied(SaveSrc) /\ calls[n].do = SaveSrc
        /\ Done(n) /\ UNCHANGED <<page, table, clipboard, muddled, sent>>
        /\ view' = IF calls[n].mine THEN [view EXCEPT !.created = calls[n].answer]
                   ELSE view
    BY DEF SaveSrc, AnswerSave, Answered, Live, Applied, Settled, Shown
  <2>. QED
    BY <2>1 DEF AddressInv, Shape
<1>1. /\ SaveSrc # RotateSrc /\ SaveSrc # RemoveSrc
      /\ SaveSrc[1] # "none" /\ RotateSrc[1] # "none" /\ RemoveSrc[1] # "none"
  BY DEF SaveSrc, RotateSrc, RemoveSrc
<1>2. /\ Live(SaveSrc)' = Live(SaveSrc) \ {n} /\ Live(RotateSrc)' = Live(RotateSrc)
      /\ Live(RemoveSrc)' = Live(RemoveSrc) /\ TurnSrc' = TurnSrc
      /\ Applied(SaveSrc)' = Applied(SaveSrc) \ {n}
      /\ Applied(RotateSrc)' = Applied(RotateSrc)
      /\ \A j \in Call \ {n} : calls'[j] = calls[j]
      /\ n \notin TurnSrc /\ TurnSrc \subseteq Call
  <2>1. \A do : do[1] # "none" => /\ Live(do)' = Live(do) \ {n}
                                  /\ Applied(do)' = Applied(do) \ {n}
    BY <1>0, DoneLive
  <2>2. \A j \in Call \ {n} : calls'[j] = calls[j]
    BY <1>0, <1>1, DoneLive
  <2>3. n \notin Live(RotateSrc) /\ n \notin Live(RemoveSrc)
    BY <1>0, <1>1 DEF Live
  <2>. QED
    BY <1>1, <2>1, <2>2, <2>3 DEF TurnSrc, Live, Applied
<1>3. SrcCallsKept /\ RotationsKept
  BY <1>2 DEF SrcCallsKept, RotationsKept, SrcActs, TurnSrc, Live, Applied
<1>4. CASE ~calls[n].mine
  <2>1. SourcesStay
    BY <1>0, <1>3, <1>4, SourcesStayBy DEF SourceViews
  <2>. QED
    BY <2>1, AddressStays
<1>5. CASE calls[n].mine
  <2>1. page = "sources"
    BY <1>0, <1>5 DEF MineHere, PageOf, SaveSrc
  <2>2. PICK row : row = calls[n].answer
    OBVIOUS
  <2>3. /\ view' = [view EXCEPT !.created = row] /\ DOMAIN view = SourceForms
        /\ row = [id |-> NewId(n), token |-> NewId(n)] /\ row = calls[n].arg
    <3>1. calls[n].answer = calls[n].arg
      BY <1>0 DEF SourcesOK
    <3>2. calls[n].arg = [id |-> NewId(n), token |-> NewId(n)]
      BY <1>0 DEF SourcesOK
    <3>. QED
      BY <1>0, <1>5, <2>1, <2>2, <3>1, <3>2 DEF SourcesOK, SourceForms
  <2>4. /\ DOMAIN view' = SourceForms /\ view'.created = row /\ view'.open = view.open
        /\ row.id = NewId(n)
    BY <2>3 DEF SourceForms
  <2>5. \A a : Good(a) => Good(a)'
    BY <1>0 DEF Good, Works
  <2>6. NewId(n) \in 1..NewId(sent)
    <3>1. calls[n].arg \in Seen("sources")
      BY <1>0, SeenRow DEF SaveSrc
    <3>. QED
      BY <1>0, <2>3, <2>4, <3>1 DEF SourcesOK, SeenIds
  <2>7. SourcesOK'
    <3>1. \A i \in Live(SaveSrc)' : calls'[i].arg = [id |-> NewId(i), token |-> NewId(i)]
      BY <1>0, <1>2 DEF SourcesOK, Live
    <3>2. \A i \in Applied(SaveSrc)' : calls'[i].answer = calls'[i].arg
      BY <1>0, <1>2 DEF SourcesOK, Applied, Live
    <3>3. \A i \in TurnSrc' : i \in TurnSrc /\ calls'[i].arg = calls[i].arg
      BY <1>2
    <3>4. clipboard' # Blank => clipboard'.id \in 1..NewId(sent)
      BY <1>0 DEF SourcesOK
    <3>. QED
      BY <1>0, <2>4, <2>6, <3>1, <3>2, <3>3, <3>4, SourcesOKBy
  <2>8. CallsKeepAddress'
    <3>1. \A i \in Applied(SaveSrc)' : Good(calls[i].arg)'
      <4> SUFFICES ASSUME NEW i \in Applied(SaveSrc)' PROVE Good(calls[i].arg)'
        OBVIOUS
      <4>1. PICK a : a = calls[i].arg
        OBVIOUS
      <4>2. Good(a) /\ calls'[i].arg = a
        BY <1>0, <1>2, <4>1 DEF CallsKeepAddress, Applied, Live
      <4>. QED
        BY <2>5, <4>2
    <3>2. \A r \in Applied(RotateSrc)' :
            /\ calls'[r].answer.id = calls'[r].arg
            /\ calls'[r].arg \in Ids(table'["sources"]) => Good(calls[r].answer)'
      <4> SUFFICES ASSUME NEW r \in Applied(RotateSrc)'
                   PROVE  /\ calls'[r].answer.id = calls'[r].arg
                          /\ calls'[r].arg \in Ids(table'["sources"])
                               => Good(calls[r].answer)'
        OBVIOUS
      <4>1. PICK a : a = calls[r].answer
        OBVIOUS
      <4>2. r \in Applied(RotateSrc) /\ calls'[r] = calls[r]
        BY <1>2 DEF Applied, TurnSrc
      <4>. QED
        BY <1>0, <2>5, <4>1, <4>2 DEF CallsKeepAddress
    <3>3. \A i \in Live(SaveSrc)', r \in TurnSrc' :
              calls'[r].arg = NewId(i) => NewId(i) \in muddled'
      BY <1>0, <1>2 DEF CallsKeepAddress
    <3>4. \A r, s \in Live(RotateSrc)' :
              calls'[r].arg = calls'[s].arg /\ r # s => calls'[r].arg \in muddled'
      BY <1>0, <1>2 DEF CallsKeepAddress, TurnSrc
    <3>. QED
      BY <3>1, <3>2, <3>3, <3>4 DEF CallsKeepAddress
  <2>9. ShownAddress'
    <3>1. Good(row)
      BY <1>0, <2>3 DEF CallsKeepAddress
    <3>2. Good(view.created)'
      BY <2>4, <2>5, <3>1
    <3>3. \A r \in TurnSrc' : calls'[r].arg = NewId(n) => NewId(n) \in muddled'
      BY <1>0, <1>2 DEF CallsKeepAddress
    <3>4. \A i \in Live(SaveSrc)' : NewId(i) # NewId(n)
      BY <1>2 DEF NewId, FirstNew, Live, Call
    <3>. QED
      BY <2>4, <3>2, <3>3, <3>4 DEF ShownAddress
  <2>10. CopiedAddress'
    <3>1. PICK a : a = clipboard
      OBVIOUS
    <3>2. Good(a) => Good(clipboard)'
      BY <1>0, <2>5, <3>1
    <3>3. \A r \in Applied(RotateSrc) : r \in Applied(RotateSrc)' /\ calls'[r] = calls[r]
      BY <1>2 DEF Applied, TurnSrc
    <3>. QED
      BY <1>0, <1>2, <3>1, <3>2, <3>3 DEF CopiedAddress
  <2>. QED
    BY <2>7, <2>8, <2>9, <2>10 DEF AddressInv
<1>. QED
  BY <1>4, <1>5

\* The address on display is copied.
LEMMA AddressByCopy ==
    ASSUME Shape, AddressInv, ResourceNext, CopyCredentials PROVE AddressInv'
<1>0. /\ SourcesOK /\ CallsKeepAddress /\ ShownAddress /\ CopiedAddress
      /\ UNCHANGED <<page, view, calls, sent, table, muddled>>
      /\ clipboard' = view.created /\ page = "sources" /\ view.open
      /\ view.created # Blank
  BY DEF AddressInv, CopyCredentials, tabVars
<1>1. \A do : Live(do)' = Live(do) /\ Applied(do)' = Applied(do)
  BY <1>0 DEF Live, Applied
<1>2. TurnSrc' = TurnSrc
  BY <1>1 DEF TurnSrc
<1>3. SourcesOK'
  <2>1. /\ \A i \in Live(SaveSrc)' : calls'[i].arg = [id |-> NewId(i), token |-> NewId(i)]
        /\ \A i \in Applied(SaveSrc)' : calls'[i].answer = calls'[i].arg
    BY <1>0, <1>1 DEF SourcesOK
  <2>2. \A i \in TurnSrc' : i \in TurnSrc /\ calls'[i].arg = calls[i].arg
    BY <1>0, <1>2
  <2>3. /\ DOMAIN view' = SourceForms
        /\ view'.created # Blank => view'.created.id \in 1..NewId(sent)
        /\ clipboard' # Blank => clipboard'.id \in 1..NewId(sent)
    BY <1>0 DEF SourcesOK, SourceForms
  <2>. QED
    BY <1>0, <2>1, <2>2, <2>3, SourcesOKBy
<1>4. CallsKeepAddress'
  BY <1>0, <1>1, <1>2 DEF CallsKeepAddress, Good, Works
<1>5. ShownAddress'
  BY <1>0, <1>1, <1>2 DEF ShownAddress, Good, Works
<1>6. CopiedAddress'
  BY <1>0, <1>1 DEF CopiedAddress, ShownAddress, Good, Works
<1>. QED
  BY <1>3, <1>4, <1>5, <1>6 DEF AddressInv

\* The answer of a rotation shows the new address and copies it.
LEMMA AddressByAnswerRotate ==
    ASSUME Shape, AddressInv, ResourceNext, NEW n \in Call, AnswerRotate(n)
    PROVE  AddressInv'
<1>0. /\ SourcesOK /\ CallsKeepAddress /\ ShownAddress /\ CopiedAddress /\ CallsOK
      /\ n \in Live(RotateSrc) /\ n \in Applied(RotateSrc) /\ calls[n].do = RotateSrc
      /\ n \in TurnSrc
      /\ Done(n) /\ UNCHANGED <<page, view, table, muddled, sent>>
      /\ clipboard' = calls[n].answer
  <2>1. /\ n \in Live(RotateSrc) /\ n \in Applied(RotateSrc) /\ calls[n].do = RotateSrc
        /\ Done(n) /\ UNCHANGED <<page, view, table, muddled, sent>>
        /\ clipboard' = calls[n].answer
    BY DEF RotateSrc, AnswerRotate, Answered, Live, Applied, Settled
  <2>. QED
    BY <2>1 DEF AddressInv, Shape, TurnSrc
<1>1. /\ SaveSrc # RotateSrc /\ RotateSrc # RemoveSrc
      /\ SaveSrc[1] # "none" /\ RotateSrc[1] # "none" /\ RemoveSrc[1] # "none"
  BY DEF SaveSrc, RotateSrc, RemoveSrc
<1>2. /\ Live(SaveSrc)' = Live(SaveSrc) /\ Live(RotateSrc)' = Live(RotateSrc) \ {n}
      /\ TurnSrc' = TurnSrc \ {n}
      /\ Applied(SaveSrc)' = Applied(SaveSrc)
      /\ Applied(RotateSrc)' = Applied(RotateSrc) \ {n}
      /\ \A j \in Call \ {n} : calls'[j] = calls[j]
      /\ n \notin Live(SaveSrc) /\ TurnSrc \subseteq Call /\ Live(SaveSrc) \subseteq Call
      /\ Applied(SaveSrc) \subseteq Live(SaveSrc)
      /\ Applied(RotateSrc) \subseteq TurnSrc /\ Live(RotateSrc) \subseteq TurnSrc
  <2>1. \A do : do[1] # "none" => /\ Live(do)' = Live(do) \ {n}
                                  /\ Applied(do)' = Applied(do) \ {n}
    BY <1>0, DoneLive
  <2>2. \A j \in Call \ {n} : calls'[j] = calls[j]
    BY <1>0, <1>1, DoneLive
  <2>3. n \notin Live(SaveSrc)
    BY <1>0, <1>1 DEF Live
  <2>. QED
    BY <1>1, <2>1, <2>2, <2>3 DEF TurnSrc, Live, Applied
<1>3. \A j \in Live(SaveSrc)' \cup TurnSrc' : calls'[j] = calls[j]
  BY <1>2
<1>4. \A a : Good(a) => Good(a)'
  BY <1>0 DEF Good, Works
<1>5. SourcesOK'
  <2>1. /\ \A i \in Live(SaveSrc)' : calls'[i].arg = [id |-> NewId(i), token |-> NewId(i)]
        /\ \A i \in Applied(SaveSrc)' : calls'[i].answer = calls'[i].arg
    BY <1>0, <1>2, <1>3 DEF SourcesOK
  <2>2. \A i \in TurnSrc' : i \in TurnSrc /\ calls'[i].arg = calls[i].arg
    BY <1>2, <1>3
  <2>3. clipboard'.id \in 1..NewId(sent)
    BY <1>0 DEF SourcesOK, CallsKeepAddress
  <2>. QED
    BY <1>0, <2>1, <2>2, <2>3, SourcesOKBy DEF SourcesOK, SourceForms
<1>6. CallsKeepAddress'
  <2>1. \A i \in Applied(SaveSrc)' : Good(calls[i].arg)'
    <3> SUFFICES ASSUME NEW i \in Applied(SaveSrc)' PROVE Good(calls[i].arg)'
      OBVIOUS
    <3>1. PICK a : a = calls[i].arg
      OBVIOUS
    <3>. QED
      BY <1>0, <1>2, <1>3, <1>4, <3>1 DEF CallsKeepAddress
  <2>2. \A r \in Applied(RotateSrc)' :
          /\ calls'[r].answer.id = calls'[r].arg
          /\ calls'[r].arg \in Ids(table'["sources"]) => Good(calls[r].answer)'
    <3> SUFFICES ASSUME NEW r \in Applied(RotateSrc)'
                 PROVE  /\ calls'[r].answer.id = calls'[r].arg
                        /\ calls'[r].arg \in Ids(table'["sources"])
                             => Good(calls[r].answer)'
      OBVIOUS
    <3>1. PICK a : a = calls[r].answer
      OBVIOUS
    <3>2. r \in Applied(RotateSrc) /\ calls'[r] = calls[r]
      BY <1>2, <1>3
    <3>. QED
      BY <1>0, <1>4, <3>1, <3>2 DEF CallsKeepAddress
  <2>3. \A i \in Live(SaveSrc)', r \in TurnSrc' :
            calls'[r].arg = NewId(i) => NewId(i) \in muddled'
    BY <1>0, <1>2, <1>3 DEF CallsKeepAddress
  <2>4. \A r, s \in Live(RotateSrc)' :
            calls'[r].arg = calls'[s].arg /\ r # s => calls'[r].arg \in muddled'
    BY <1>0, <1>2, <1>3 DEF CallsKeepAddress
  <2>. QED
    BY <2>1, <2>2, <2>3, <2>4 DEF CallsKeepAddress
<1>7. ShownAddress'
  <2>1. PICK a : a = view.created
    OBVIOUS
  <2>. QED
    BY <1>0, <1>2, <1>3, <1>4, <2>1 DEF ShownAddress
<1>8. CopiedAddress'
  <2>1. PICK a : a = calls[n].answer
    OBVIOUS
  <2>2. /\ a.id = calls[n].arg /\ clipboard' = a
        /\ calls[n].arg \in Ids(table["sources"]) => Good(a)
    BY <1>0, <2>1 DEF CallsKeepAddress
  <2>3. a.id \in Ids(table["sources"]) => Good(clipboard)'
    BY <1>4, <2>2
  <2>4. \A i \in Live(SaveSrc)' : NewId(i) = a.id => a.id \in muddled'
    BY <1>0, <1>2, <2>2 DEF CallsKeepAddress
  <2>. QED
    BY <1>0, <2>2, <2>3, <2>4 DEF CopiedAddress
<1>. QED
  BY <1>5, <1>6, <1>7, <1>8 DEF AddressInv

\* The invariant survives a step of the resource pages.
LEMMA AddressByResource ==
    ASSUME Shape, AddressInv, ResourceNext PROVE AddressInv'
<1>0. SourcesOK /\ <<"rotate", "sources">> = RotateSrc /\ <<"remove", "sources">> = RemoveSrc
  BY DEF AddressInv, RotateSrc, RemoveSrc
<1>1. CASE SourcesStay
  BY <1>1, AddressStays
<1>2. CASE SaveSource
  BY <1>2, AddressBySave
<1>3. CASE RemoveSource \/ RotateToken
  <2>1. /\ page = "sources" /\ ~view.open /\ UNCHANGED <<view, table, clipboard>>
        /\ \E r \in Rows("sources") : /\ \/ Send(RemoveSrc, r.id) \/ Send(RotateSrc, r.id)
                                      /\ muddled' = Overlapped(r.id)
    BY <1>0, <1>3 DEF RemoveSource, RotateToken, RemoveRow
  <2>2. PICK r \in Rows("sources") : /\ \/ Send(RemoveSrc, r.id) \/ Send(RotateSrc, r.id)
                                     /\ muddled' = Overlapped(r.id)
    BY <2>1
  <2>3. PICK id : id = r.id
    OBVIOUS
  <2>4. PICK do \in {RotateSrc, RemoveSrc} : Dispatch(do, id)
    BY <2>2, <2>3 DEF Send
  <2>5. id \in Ids(Rows("sources")) /\ muddled' = Overlapped(id)
    BY <2>2, <2>3 DEF Ids
  <2>. QED
    BY <2>1, <2>4, <2>5, AddressByTurn
<1>4. CASE CopyCredentials
  BY <1>4, AddressByCopy
<1>5. ASSUME NEW i \in Call,
             \/ ServeSave(i, "sources") \/ ServeRemove(i, "sources")
             \/ ServeRotate(i) \/ AnswerSave(i, "sources") \/ AnswerRotate(i)
      PROVE  AddressInv'
  BY <1>5, AddressByServeSave, AddressByServeRemove, AddressByServeRotate,
     AddressByAnswer, AddressByAnswerRotate
<1>6. ASSUME NEW id,
             OtherTabChanges("sources", {"sources"} \cup Dependents("sources"),
                             Remaining("sources", id)),
             muddled' = muddled \cup {id}
      PROVE  AddressInv'
  BY <1>6, AddressByOtherTab
<1>7. CASE OtherTabRotates
  <2>1. PICK id : /\ OtherTabChanges("sources", {"sources"},
                                     Tokened(id, FirstNew * (faults + 2) + id))
                  /\ muddled' = muddled \cup {id}
    BY <1>7 DEF OtherTabRotates
  <2>2. PICK t : t = Tokened(id, FirstNew * (faults + 2) + id)
    OBVIOUS
  <2>. QED
    BY <2>1, <2>2, AddressByOtherTab
<1>. QED
  BY <1>0, <1>1, <1>2, <1>3, <1>4, <1>5, <1>6, <1>7, SourceSteps DEF SourceStep

\* It holds at first: nothing is shown nor copied.
LEMMA AddressInit == Init => AddressInv
<1> SUFFICES ASSUME Init PROVE AddressInv
  OBVIOUS
<1>1. Shape /\ view = Fresh(page) /\ \A i \in Call : calls[i] = NoCall
  BY ShapeInit DEF Init
<1>2. /\ table = FirstTable /\ sent = 0 /\ NewId(sent) = 10 /\ FirstNew = 10
      /\ clipboard = Blank /\ "sources" \in Lists
  BY DEF Init, NewId, FirstNew, Lists
<1>3. Live(SaveSrc) = {} /\ TurnSrc = {} /\ Live(RotateSrc) = {}
  BY <1>1 DEF Live, TurnSrc, SaveSrc, RotateSrc, RemoveSrc, NoCall
<1>4. Applied(SaveSrc) = {} /\ Applied(RotateSrc) = {}
  BY <1>3 DEF Applied
<1>5. Live(<<"save", "sources">>) = {}
  BY <1>3 DEF SaveSrc
<1>6. Seen("sources") \subseteq FirstTable["sources"]
  <2>1. copy["sources"] \in {Unknown, Known(FirstTable["sources"])}
    BY <1>2, PageNames DEF Init
  <2>2. /\ copy["sources"].stage = "idle"
        /\ copy["sources"].known => copy["sources"].value = FirstTable["sources"]
    BY <2>1, UnknownCopy, KnownCopy
  <2>. QED
    BY <1>2, <1>5, <2>2 DEF Seen, Rows
<1>7. SeenIds("sources")
  BY <1>2, <1>6, RowsAssumption DEF SeenIds
<1>8. page = "sources" => view = SourceForm
  BY <1>1, FreshForms
<1>9. DOMAIN SourceForm = {"open", "named", "created"} /\ SourceForm.created = Blank
  BY DEF SourceForm
<1>10. SourcesOK
  BY <1>2, <1>3, <1>4, <1>7, <1>8, <1>9, RowsAssumption DEF SourcesOK
<1>11. CallsKeepAddress
  BY <1>3, <1>4 DEF CallsKeepAddress
<1>12. ShownAddress /\ CopiedAddress
  BY <1>2, <1>8, <1>9 DEF ShownAddress, CopiedAddress
<1>. QED
  BY <1>10, <1>11, <1>12 DEF AddressInv

\* It survives every step.
LEMMA AddressStep == Shape /\ AddressInv /\ [Next]_vars => AddressInv'
<1> SUFFICES ASSUME Shape, AddressInv, [Next]_vars PROVE AddressInv'
  OBVIOUS
<1>0. /\ "account" \notin Lists /\ "activity" \notin Lists /\ "settings" \notin Lists
      /\ Lists \cap {"me"} = {} /\ Lists \cap {"settings"} = {}
      /\ Lists \cap {"deliveries"} = {}
  BY DEF Lists
<1>1. CASE SessionNext
  BY <1>1, AddressBySession
<1>2. CASE ResourceNext
  BY <1>2, AddressByResource
<1>3. CASE AccountNext /\ UNCHANGED resourceVars
  BY <1>0, <1>3, AccountEffect, AddressByOthers
<1>4. CASE ActivityNext /\ UNCHANGED resourceVars
  BY <1>0, <1>4, ActivityEffect, AddressByOthers
<1>5. CASE SettingsNext /\ UNCHANGED resourceVars
  BY <1>0, <1>5, SettingsEffect, AddressByOthers
<1>6. CASE UNCHANGED vars
  <2>1. UNCHANGED <<table, copy, calls, sent, page, view, clipboard, muddled>>
    BY <1>6 DEF vars, tabVars, resourceVars
  <2>. QED
    BY <2>1
       DEF AddressInv, SourcesOK, CallsKeepAddress, ShownAddress, CopiedAddress,
                SeenIds, Seen, Rows, Live, Applied, TurnSrc, Good, Works
<1>. QED
  BY <1>1, <1>2, <1>3, <1>4, <1>5, <1>6 DEF Next

\* It holds in every reachable state.
LEMMA AddressesHold == Spec => []AddressInv
<1>. QED
  BY AddressInit, AddressStep, ShapeHolds, PTL DEF Spec

\* The address in the open dialog of a source is accepted by the server
\* (sources.tsx shows it once, after creating the source), unless its rotations
\* crossed.
THEOREM ShownAddressHolds == Spec => []ShownAddressWorks
<1>1. AddressInv => ShownAddressWorks
  BY DEF AddressInv, ShownAddress, ShownAddressWorks, Good
<1>. QED
  BY <1>1, AddressesHold, PTL

\* So is the address on the clipboard, once the answers of rotations have come,
\* as long as its source is there.
THEOREM CopiedAddressHolds == Spec => []CopiedAddressWorks
<1>1. AddressInv => CopiedAddressWorks
  <2> SUFFICES ASSUME AddressInv, Quiet, clipboard # Blank,
                      clipboard.id \in Ids(table["sources"])
               PROVE  Works(clipboard) \/ clipboard.id \in muddled
    BY DEF CopiedAddressWorks
  <2>1. Applied(RotateSrc) = {}
    BY DEF Quiet, Applied, Live
  <2>. QED
    BY <2>1 DEF AddressInv, CopiedAddress, Good
<1>. QED
  BY <1>1, AddressesHold, PTL
===============================================================================
