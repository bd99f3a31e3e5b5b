------------------------------- MODULE MCConsole -------------------------------
(***************************************************************************)
(* Values for the constants of Console: pages are toured in groups, those  *)
(* whose lists or sessions meet.                                           *)
(***************************************************************************)
EXTENDS Console

Types == {"wecom", "dingtalk"}

FirstRows ==
  [k \in Lists |->
     CASE k = "channels"  -> {[id |-> 1, type |-> "wecom", config |-> {}],
                              [id |-> 2, type |-> "dingtalk", config |-> {}]}
       [] k = "templates" -> {[id |-> 1, type |-> "wecom"],
                              [id |-> 2, type |-> "dingtalk"]}
       [] k = "groups"    -> {[id |-> 1, channel |-> 1, template |-> 1]}
       [] k = "sources"   -> {[id |-> 1, token |-> 1]}
       [] k = "rules"     -> {[id |-> 1, source |-> 1, group |-> 1]}
       [] k = "schedules" -> {[id |-> 1, group |-> 1,
                               recurrence |-> Recurrence(ScheduleForm)]}]

Tour(pages, n, f, e) == [pages |-> pages, factor |-> FALSE,
                         calls |-> n, faults |-> f, events |-> e]
With2FA(t) == [t EXCEPT !.factor = TRUE]

SessionTours ==
  {Tour({"login", "setup", "dashboard"}, 1, 1, 0),
   Tour({"login", "dashboard"}, 2, 0, 0),
   With2FA(Tour({"login", "dashboard"}, 2, 0, 0)),
   Tour({"login", "account"}, 1, 1, 0)}

AccountTours == {Tour({"account"}, 3, 0, 0), With2FA(Tour({"account"}, 2, 1, 0))}

ResourceTours ==
  {Tour({"channels"}, 2, 0, 0), Tour({"channels"}, 1, 1, 0),
   Tour({"channels", "groups"}, 1, 0, 0), Tour({"templates", "groups"}, 1, 1, 0),
   Tour({"sources"}, 2, 1, 0), Tour({"sources", "rules"}, 1, 1, 0),
   Tour({"schedules"}, 1, 0, 0), Tour({"groups", "schedules"}, 1, 0, 0)}

PollTours ==
  {Tour({"activity"}, 2, 1, 1), Tour({"activity", "dashboard"}, 0, 0, 1),
   Tour({"dashboard"}, 0, 1, 2)}

SettingsTours ==
  {Tour({"settings", "account"}, 2, 0, 0), Tour({"settings", "account"}, 1, 1, 0)}

PageTours == SessionTours \cup AccountTours \cup ResourceTours
             \cup PollTours \cup SettingsTours
===============================================================================
