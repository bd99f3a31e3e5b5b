--------------------------- MODULE ConsoleResources ---------------------------
(***************************************************************************)
(* The six resource pages of the console: channels, templates, target      *)
(* groups, sources, rules and schedules.  Each shows the client's copy of  *)
(* a list, creates a row from a dialog, and deletes rows; groups, rules    *)
(* and schedules choose among rows of other lists.  The server's tables    *)
(* and their cascading foreign keys are modelled as the pages meet them.   *)
(*                                                                         *)
(* A row's id, and a source's token, is the number of the call that made   *)
(* it plus FirstNew: unique, as the server's random ids are.               *)
(***************************************************************************)
EXTENDS ConsoleTab

CONSTANTS
  ChannelTypes,  \* the types of channel the server offers
  FirstTable     \* the rows there are at the start

VARIABLES
  table,      \* the server's rows, by list
  clipboard,  \* the address copied last, Blank for none
  muddled     \* ghost: sources whose token changed behind the page's back

resourceVars == <<table, clipboard, muddled>>

FirstNew == 10
NewId(i) == FirstNew + i
Ids(rows) == {r.id : r \in rows}

(* Any rows with ids of their own may be there at the start, whose groups  *)
(* and channels were made by the pages below.                              *)
ASSUME RowsAssumption ==
  /\ FirstTable = [k \in Lists |-> FirstTable[k]]
  /\ \A k \in Lists : \A r, s \in FirstTable[k] :
       r.id \in 1..FirstNew /\ (r.id = s.id => r = s)
  /\ \A s \in FirstTable["sources"] : DOMAIN s = {"id", "token"}
  /\ \A c \in FirstTable["channels"] : c.config \subseteq {c.type}
  /\ \A g \in FirstTable["groups"] :
       /\ DOMAIN g = {"id", "channel", "template"}
       /\ {g.channel, g.template} \subseteq 0..FirstNew
  /\ \A g \in FirstTable["groups"], c \in FirstTable["channels"],
       t \in FirstTable["templates"] :
       g.channel = c.id /\ g.template = t.id => c.type = t.type
Rows(k) == IF copy[k].known THEN copy[k].value ELSE {}

(* "wecom", the type the channel and template forms start with.            *)
DefaultType == CHOOSE t \in ChannelTypes : TRUE

(***************************************************************************)
(* The forms, each as its page's useState calls make it.                   *)
(***************************************************************************)
ChannelForm  == [open |-> FALSE, named |-> FALSE, type |-> DefaultType,
                 config |-> {}]
TemplateForm == [open |-> FALSE, type |-> DefaultType, parses |-> TRUE]
GroupForm    == [open |-> FALSE, named |-> FALSE, channel |-> 0, template |-> 0]
SourceForm   == [open |-> FALSE, named |-> FALSE, created |-> Blank]
RuleForm     == [open |-> FALSE, named |-> FALSE, source |-> 0, group |-> 0]
ScheduleForm == [open |-> FALSE, named |-> FALSE, group |-> 0, kind |-> "daily",
                 runAt |-> FALSE, parses |-> TRUE]

Edit(p, form) ==
  /\ page = p /\ GateOpen /\ view' = form /\ view' # view
  /\ UNCHANGED <<tour, page, copy, calls, sent, sessionVars, faults, excused,
                 resourceVars>>

(* CrudDialog: opening and closing leave what was typed in place.          *)
OpenDialog(p)  == ~view.open /\ Edit(p, [view EXCEPT !.open = TRUE])
CloseDialog(p) == view.open  /\ Edit(p, [view EXCEPT !.open = FALSE])

(* The text fields a button waits for.                                     *)
TypeName(p) == view.open /\ ~view.named /\ Edit(p, [view EXCEPT !.named = TRUE])

(***************************************************************************)
(* The server                                                              *)
(***************************************************************************)
(* ON DELETE CASCADE of the migrations: a binding goes with its channel    *)
(* or template, a rule with its source or group, a schedule with its       *)
(* group; a group stays when its binding goes.                             *)
Remaining(k, id) ==
  LET gone(l) == IF l = k THEN {id} ELSE {}
  IN [table EXCEPT
       ![k] = {r \in @ : r.id # id},
       !["groups"] = {IF g.channel \in gone("channels")
                         \/ g.template \in gone("templates")
                      THEN [g EXCEPT !.channel = 0, !.template = 0] ELSE g
                      : g \in {h \in @ : h.id \notin gone("groups")}},
       !["rules"] = {r \in @ : /\ r.id \notin gone("rules")
                               /\ r.source \notin gone("sources")
                               /\ r.group \notin gone("groups")},
       !["schedules"] = {r \in @ : /\ r.id \notin gone("schedules")
                                   /\ r.group \notin gone("groups")}]

(* The lists a deletion changes besides its own.                           *)
Dependents(k) == CASE k \in {"channels", "templates"} -> {"groups"}
                   [] k = "sources" -> {"rules"}
                   [] k = "groups"  -> {"rules", "schedules"}
                   [] OTHER         -> {}

(* A foreign key that names no row refuses the insert.                     *)
KeysHold(k, r) ==
  /\ k = "groups" => /\ r.channel \in Ids(table["channels"])
                     /\ r.template \in Ids(table["templates"])
  /\ k = "rules" => /\ r.source \in Ids(table["sources"])
                    /\ r.group \in Ids(table["groups"])
  /\ k = "schedules" => r.group \in Ids(table["groups"])

Kept == UNCHANGED <<tour, page, view, sent, sessionVars, faults,
                    clipboard>>

ServeSave(i, k) ==
  /\ Accepted(i, <<"save", k>>)
  /\ KeysHold(k, calls[i].arg)
  /\ table' = [table EXCEPT ![k] = @ \cup {calls[i].arg}]
  /\ Served(i, calls[i].arg)
  /\ Kept /\ UNCHANGED <<copy, excused, muddled>>

ServeRemove(i, k) ==
  /\ Accepted(i, <<"remove", k>>)
  /\ table' = Remaining(k, calls[i].arg)
  /\ Served(i, Blank)
  /\ excused' = excused \cup Dependents(k)
  /\ copy' = Behind(copy, Dependents(k))
  /\ Kept /\ UNCHANGED muddled

Tokened(id, token) ==
  [table EXCEPT !["sources"] =
     {IF r.id = id THEN [r EXCEPT !.token = token] ELSE r : r \in @}]

ServeRotate(i) ==
  /\ Accepted(i, <<"rotate", "sources">>)
  /\ calls[i].arg \in Ids(table["sources"])
  /\ table' = Tokened(calls[i].arg, NewId(i))
  /\ Served(i, [id |-> calls[i].arg, token |-> NewId(i)])
  /\ excused' = excused \cup {"sources"}
  /\ copy' = Behind(copy, {"sources"})
  /\ Kept /\ UNCHANGED muddled

(* A test message or a preview changes nothing here.                       *)
Trials == {<<"test", "channels">>, <<"preview", "templates">>}

ServeTrial(i) ==
  /\ \E do \in Trials : Accepted(i, do)
  /\ Served(i, Blank)
  /\ Kept /\ UNCHANGED <<copy, table, excused, muddled>>

(***************************************************************************)
(* The buttons of the tables and dialogs                                   *)
(***************************************************************************)
Press(p, do, arg) ==
  /\ page = p /\ GateOpen
  /\ Send(do, arg)
  /\ UNCHANGED <<view, resourceVars>>

Rotations == {i \in Call : /\ calls[i].stage # "idle"
                            /\ calls[i].do = <<"rotate", "sources">>}

(* A call about a source while its creation or a rotation of it is still   *)
(* under way muddles it: their answers may come in either order.           *)
Overlapped(id) ==
  IF \E i \in Call :
       \/ i \in Rotations /\ calls[i].arg = id
       \/ /\ calls[i].stage # "idle" /\ calls[i].do = <<"save", "sources">>
          /\ calls[i].arg.id = id
  THEN muddled \cup {id} ELSE muddled

(* Every row of a table has a delete button, none waits for another.       *)
RemoveRow(k) ==
  /\ page = k /\ GateOpen /\ ~view.open
  /\ \E r \in Rows(k) : /\ Send(<<"remove", k>>, r.id)
                        /\ muddled' = Overlapped(r.id)
  /\ UNCHANGED <<view, table, clipboard>>

RemoveChannel  == RemoveRow("channels")
RemoveTemplate == RemoveRow("templates")
RemoveGroup    == RemoveRow("groups")
RemoveSource   == RemoveRow("sources")
RemoveRule     == RemoveRow("rules")
RemoveSchedule == RemoveRow("schedules")

(* A save sends the row as the form has it; text that JSON.parse refuses   *)
(* sends nothing.  Only the channel page waits for the save under way.     *)
Save(k, row) == view.open /\ Press(k, <<"save", k>>, row)

NextId == NewId(sent + 1)

SaveChannel ==
  /\ page = "channels" /\ view.named /\ ~Pending(<<"save", "channels">>)
  /\ Save("channels", [id |-> NextId, type |-> view.type,
                       config |-> view.config])

(* The test goes to the channel of the row, in a body made for its type.   *)
TestChannel ==
  /\ page = "channels" /\ ~view.open
  /\ \E r \in Rows("channels") :
       Press("channels", <<"test", "channels">>, [id |-> r.id, type |-> r.type])

SaveTemplate ==
  /\ page = "templates" /\ view.parses
  /\ Save("templates", [id |-> NextId, type |-> view.type])

PreviewTemplate ==
  /\ page = "templates" /\ view.open /\ view.parses
  /\ Press("templates", <<"preview", "templates">>, Blank)

SaveGroup ==
  /\ page = "groups" /\ view.named /\ view.channel # 0 /\ view.template # 0
  /\ Save("groups", [id |-> NextId, channel |-> view.channel,
                     template |-> view.template])

SaveSource ==
  /\ page = "sources" /\ view.named /\ view.created = Blank
  /\ Save("sources", [id |-> NextId, token |-> NextId])

SaveRule ==
  /\ page = "rules" /\ view.named /\ view.source # 0 /\ view.group # 0
  /\ Save("rules", [id |-> NextId, source |-> view.source,
                    group |-> view.group])

Repeating == {"daily", "weekly", "monthly", "yearly"}

(* What recurrence() sends; a single run without a time throws.            *)
Recurrence(form) ==
  [kind |-> form.kind,
   fields |-> CASE form.kind = "cron"    -> {"cron"}
                [] form.kind = "once"    -> {"run_at"}
                [] form.kind = "weekly"  -> {"interval", "time", "weekdays"}
                [] form.kind = "monthly" -> {"interval", "time", "day"}
                [] form.kind = "yearly"  -> {"interval", "time", "month", "day"}
                [] OTHER                 -> {"interval", "time"}]

SaveSchedule ==
  /\ page = "schedules" /\ view.named /\ view.group # 0 /\ view.parses
  /\ view.kind = "once" => view.runAt
  /\ Save("schedules", [id |-> NextId, group |-> view.group,
                        recurrence |-> Recurrence(view)])

RotateToken ==
  /\ page = "sources" /\ GateOpen /\ ~view.open
  /\ \E r \in Rows("sources") : /\ Send(<<"rotate", "sources">>, r.id)
                                /\ muddled' = Overlapped(r.id)
  /\ UNCHANGED <<view, table, clipboard>>

(***************************************************************************)
(* The dialogs: every field a save or a property depends on                *)
(***************************************************************************)
ChannelDialog ==
  /\ page = "channels"
  /\ \/ OpenDialog("channels") \/ CloseDialog("channels") \/ TypeName("channels")
     \/ /\ view.open
        /\ \/ \E t \in ChannelTypes :
                Edit("channels", [view EXCEPT !.type = t, !.config = {}])
           \/ Edit("channels", [view EXCEPT !.config = @ \cup {view.type}])

TemplateDialog ==
  /\ page = "templates"
  /\ \/ OpenDialog("templates") \/ CloseDialog("templates")
     \/ /\ view.open
        /\ \/ \E t \in ChannelTypes : Edit("templates", [view EXCEPT !.type = t])
           \/ \E ok \in BOOLEAN : Edit("templates", [view EXCEPT !.parses = ok])

(* Fault: another channel leaves the template chosen before.               *)
GroupDialog_KeepsTemplate ==
  /\ page = "groups"
  /\ \/ OpenDialog("groups") \/ CloseDialog("groups") \/ TypeName("groups")
     \/ /\ view.open
        /\ \/ \E c \in Ids(Rows("channels")) :
                Edit("groups", [view EXCEPT !.channel = c])
           \/ \E t \in Ids(Rows("templates")) :
                Edit("groups", [view EXCEPT !.template = t])

(* The templates on offer: of the type the copy gives the chosen channel.  *)
Compatible ==
  {t \in Rows("templates") :
     view.channel # 0 => \E c \in Rows("channels") :
                            c.id = view.channel /\ c.type = t.type}

GroupDialog ==
  /\ page = "groups"
  /\ \/ OpenDialog("groups") \/ CloseDialog("groups") \/ TypeName("groups")
     \/ /\ view.open
        /\ \/ \E c \in Ids(Rows("channels")) :
                Edit("groups", [view EXCEPT !.channel = c, !.template = 0])
           \/ \E t \in Ids(Compatible) :
                Edit("groups", [view EXCEPT !.template = t])

RuleDialog ==
  /\ page = "rules"
  /\ \/ OpenDialog("rules") \/ CloseDialog("rules") \/ TypeName("rules")
     \/ /\ view.open
        /\ \/ \E s \in Ids(Rows("sources")) :
                Edit("rules", [view EXCEPT !.source = s])
           \/ \E g \in Ids(Rows("groups")) :
                Edit("rules", [view EXCEPT !.group = g])

ScheduleDialog ==
  /\ page = "schedules"
  /\ \/ OpenDialog("schedules") \/ CloseDialog("schedules")
     \/ TypeName("schedules")
     \/ /\ view.open
        /\ \/ \E g \in Ids(Rows("groups")) :
                Edit("schedules", [view EXCEPT !.group = g])
           \/ \E k \in Repeating \cup {"cron", "once"} :
                Edit("schedules", [view EXCEPT !.kind = k])
           \/ view.kind = "once" /\ Edit("schedules", [view EXCEPT !.runAt = TRUE])
           \/ \E ok \in BOOLEAN : Edit("schedules", [view EXCEPT !.parses = ok])

(* Fault: the button only opens the dialog.                                *)
OpenSourceDialog_KeepsLast == page = "sources" /\ OpenDialog("sources")

(* The button that opens the source dialog clears the last credentials.    *)
OpenSourceDialog == /\ page = "sources" /\ ~view.open
                    /\ Edit("sources", [view EXCEPT !.open = TRUE,
                                                    !.created = Blank])

SourceDialog ==
  /\ page = "sources"
  /\ \/ OpenSourceDialog \/ CloseDialog("sources")
     \/ view.created = Blank /\ TypeName("sources")

(* The credentials are on display until the dialog closes.                 *)
CopyCredentials ==
  /\ page = "sources" /\ GateOpen /\ view.open /\ view.created # Blank
  /\ clipboard' = view.created
  /\ clipboard' # clipboard
  /\ UNCHANGED <<tabVars, table, muddled>>

(***************************************************************************)
(* The answers                                                             *)
(***************************************************************************)
Settled == UNCHANGED <<tour, page, sent, sessionVars, faults, excused, table,
                       muddled>>

(* The dialog closes; the one for sources shows the new credentials.       *)
Shown(i, k) == IF k = "sources" THEN [view EXCEPT !.created = calls[i].answer]
               ELSE [view EXCEPT !.open = FALSE]

(* Fault: the list is left as it is.                                       *)
AnswerSave_KeepsList(i, k) ==
  /\ Answered(i, <<"save", k>>)
  /\ Done(i)
  /\ view' = IF calls[i].mine THEN Shown(i, k) ELSE view
  /\ Settled /\ UNCHANGED <<copy, clipboard>>

AnswerSave(i, k) ==
  /\ Answered(i, <<"save", k>>)
  /\ Done(i)
  /\ view' = IF calls[i].mine THEN Shown(i, k) ELSE view
  /\ copy' = Invalidated(copy, {k})
  /\ Settled /\ UNCHANGED clipboard

AnswerRemove(i, k) ==
  /\ Answered(i, <<"remove", k>>)
  /\ Done(i)
  /\ copy' = Invalidated(copy, {k})
  /\ Settled /\ UNCHANGED <<view, clipboard>>

ChannelSaved(i)    == AnswerSave(i, "channels")
TemplateSaved(i)   == AnswerSave(i, "templates")
GroupSaved(i)      == AnswerSave(i, "groups")
SourceSaved(i)     == AnswerSave(i, "sources")
RuleSaved(i)       == AnswerSave(i, "rules")
ScheduleSaved(i)   == AnswerSave(i, "schedules")
ChannelRemoved(i)  == AnswerRemove(i, "channels")
TemplateRemoved(i) == AnswerRemove(i, "templates")
GroupRemoved(i)    == AnswerRemove(i, "groups")
SourceRemoved(i)   == AnswerRemove(i, "sources")
RuleRemoved(i)     == AnswerRemove(i, "rules")
ScheduleRemoved(i) == AnswerRemove(i, "schedules")

(* Fault: the new address is not copied.                                   *)
AnswerRotate_NoCopy(i) ==
  /\ Answered(i, <<"rotate", "sources">>)
  /\ Done(i)
  /\ Settled /\ UNCHANGED <<view, copy, clipboard>>

(* The list, which shows the start of the token, is left as it is.         *)
AnswerRotate(i) ==
  /\ Answered(i, <<"rotate", "sources">>)
  /\ Done(i)
  /\ clipboard' = calls[i].answer
  /\ Settled /\ UNCHANGED <<view, copy>>

AnswerTrial(i) ==
  /\ \E do \in Trials : Answered(i, do)
  /\ Done(i)
  /\ Settled /\ UNCHANGED <<view, copy, clipboard>>

(* An answer that is lost invalidates nothing.                             *)
LoseResourceAnswer(i) ==
  /\ \E k \in Lists, act \in {"save", "remove", "rotate"} :
       /\ Lost(i, <<act, k>>)
       /\ excused' = excused \cup {k}
       /\ copy' = Behind(copy, {k})
       /\ muddled' = IF act = "rotate" THEN muddled \cup {calls[i].arg}
                     ELSE muddled
  /\ UNCHANGED <<view, table, clipboard>>

(***************************************************************************)
(* Another tab                                                             *)
(***************************************************************************)
OtherTabChanges(k, qs, t) ==
  /\ InTour(k) /\ Disturb
  /\ table' = t
  /\ excused' = excused \cup qs
  /\ copy' = Behind(copy, qs)
  /\ UNCHANGED <<tour, page, view, calls, sent, sessionVars, clipboard>>

OtherTabRemoves ==
  \E k \in Lists : \E id \in Ids(table[k]) :
    /\ OtherTabChanges(k, {k} \cup Dependents(k), Remaining(k, id))
    /\ muddled' = IF k = "sources" THEN muddled \cup {id} ELSE muddled

OtherTabRotates ==
  \E id \in Ids(table["sources"]) :
    /\ OtherTabChanges("sources", {"sources"}, Tokened(id, FirstNew * (faults + 2) + id))
    /\ muddled' = muddled \cup {id}

ResourceNext ==
  \/ ChannelDialog \/ SaveChannel \/ RemoveChannel \/ TestChannel
  \/ TemplateDialog \/ SaveTemplate \/ RemoveTemplate \/ PreviewTemplate
  \/ GroupDialog \/ SaveGroup \/ RemoveGroup
  \/ SourceDialog \/ SaveSource \/ RemoveSource \/ RotateToken \/ CopyCredentials
  \/ RuleDialog \/ SaveRule \/ RemoveRule
  \/ ScheduleDialog \/ SaveSchedule \/ RemoveSchedule
  \/ \E i \in Call :
       \/ \E k \in Lists : ServeSave(i, k) \/ ServeRemove(i, k)
       \/ ChannelSaved(i) \/ ChannelRemoved(i)
       \/ TemplateSaved(i) \/ TemplateRemoved(i)
       \/ GroupSaved(i) \/ GroupRemoved(i) \/ SourceSaved(i) \/ SourceRemoved(i)
       \/ RuleSaved(i) \/ RuleRemoved(i) \/ ScheduleSaved(i) \/ ScheduleRemoved(i)
       \/ ServeRotate(i) \/ AnswerRotate(i) \/ ServeTrial(i) \/ AnswerTrial(i)
       \/ LoseResourceAnswer(i)
  \/ OtherTabRemoves \/ OtherTabRotates

(***************************************************************************)
(* What the resource pages promise                                         *)
(***************************************************************************)
Works(address) == \E r \in table["sources"] : r.id = address.id
                                              /\ r.token = address.token

(* The credentials on display are those of the source just made: opening   *)
(* the dialog again never shows an address that a rotation has ended       *)
(* since, whatever calls are under way (sources.tsx:104 and :80), short of *)
(* what another tab did to it.                                             *)
ShownAddressWorks ==
  (page = "sources" /\ view.open /\ view.created # Blank)
    => \/ Works(view.created) \/ view.created.id \in muddled

(* Once nothing is under way, the address copied last opens the source it  *)
(* names, if that is still there; two rotations of one source at a time, a *)
(* lost answer, a reload or another tab's rotation is all that can spoil it *)
(* (sources.tsx:92).                                                       *)
CopiedAddressWorks ==
  (Quiet /\ clipboard # Blank /\ clipboard.id \in Ids(table["sources"]))
    => Works(clipboard) \/ clipboard.id \in muddled

(* What a page stores fits together: a target group joins a channel and a  *)
(* template of one type, and a channel has the settings of its own type    *)
(* only, though the choices are made in any order and from copies of three *)
(* lists (groups.tsx:183, channels.tsx:179).  The server checks neither.   *)
RowsFit ==
  /\ \A g \in table["groups"] : \A c \in table["channels"] :
       \A t \in table["templates"] :
         g.channel = c.id /\ g.template = t.id => c.type = t.type
  /\ \A c \in table["channels"] : c.config \subseteq {c.type}
===============================================================================
