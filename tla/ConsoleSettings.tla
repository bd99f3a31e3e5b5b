---------------------------- MODULE ConsoleSettings ---------------------------
(***************************************************************************)
(* The settings page of the console.  Its form is filled once, from the    *)
(* copy there is when it mounts, and saved whole; the answer overwrites    *)
(* both the form and the copy.  Of the fields it keeps the two retention   *)
(* periods, the Pocket ID switch and its secret: those its button reads.   *)
(***************************************************************************)
EXTENDS ConsoleTab

CONSTANT Days    \* the retention periods, in days

ASSUME DaysAssumption == Days \subseteq Nat

VARIABLE settings    \* the server's settings

settingsVars == <<settings>>

(* value: the fields; secret: whether one was typed; the ghosts touched    *)
(* and behind: edited since, and possibly old, for a named reason.         *)
SettingsView == [value |-> Blank, secret |-> FALSE, touched |-> FALSE,
                 behind |-> FALSE]

SavesUnderWay(but) ==
  \E i \in Call \ but : /\ calls[i].stage # "idle"
                        /\ calls[i].do = <<"save", "settings">>

Show(form) ==
  /\ page = "settings" /\ GateOpen /\ view' = form
  /\ UNCHANGED <<tour, page, copy, calls, sent, sessionVars, faults, excused,
                 settings>>

(* useState(initial): the first value the query has while the page is on   *)
(* display, and none that comes later.                                     *)
MountForm ==
  /\ page = "settings" /\ copy["settings"].known /\ view.value = Blank
  /\ Show([SettingsView EXCEPT
             !.value = copy["settings"].value,
             !.behind = \/ "settings" \in excused \/ SavesUnderWay({})
                        \/ copy["settings"].stage # "idle"])

EditField(value, secret) ==
  /\ page = "settings" /\ view.value # Blank
  /\ Show([view EXCEPT !.value = value, !.secret = secret, !.touched = TRUE])

EditSettings ==
  /\ page = "settings" /\ view.value # Blank
  /\ \/ \E d \in Days \ {view.value.payload} :
          EditField([view.value EXCEPT !.payload = d], view.secret)
     \/ \E d \in Days \ {view.value.metadata} :
          EditField([view.value EXCEPT !.metadata = d], view.secret)
     \/ EditField([view.value EXCEPT !.pocket = ~@], view.secret)

(* A secret that is typed takes back the wish to clear the stored one.     *)
TypeSecret ==
  /\ page = "settings" /\ view.value # Blank /\ ~view.secret
  /\ EditField(view.value, TRUE)

Valid(value, secret) ==
  /\ value.metadata >= 1 /\ value.payload <= value.metadata
  /\ value.pocket => value.configured \/ secret

SaveSettings ==
  /\ page = "settings" /\ GateOpen /\ view.value # Blank
  /\ ~Pending(<<"save", "settings">>)
  /\ Valid(view.value, view.secret)
  /\ Send(<<"save", "settings">>, [value |-> view.value, secret |-> view.secret])
  /\ UNCHANGED <<view, settings>>

(* The server stores every field but "configured", which is its own.       *)
Stored(arg) == [arg.value EXCEPT !.configured = settings.configured \/ arg.secret]

ServeSettings(i) ==
  /\ Accepted(i, <<"save", "settings">>)
  /\ Valid(Stored(calls[i].arg), FALSE)
  /\ settings' = Stored(calls[i].arg)
  /\ Served(i, settings')
  /\ UNCHANGED <<tour, page, view, copy, sent, sessionVars, faults, excused>>

(* Fault: the answer clears the secret and leaves the other fields.        *)
SettingsSaved_KeepsFields(i) ==
  LET value == calls[i].answer IN
  /\ Answered(i, <<"save", "settings">>)
  /\ Done(i)
  /\ view' = IF calls[i].mine
             THEN [view EXCEPT !.secret = FALSE, !.touched = FALSE,
                               !.behind = value # settings \/ SavesUnderWay({i})]
             ELSE view
  /\ copy' = [copy EXCEPT !["settings"] = Written(@, value)]
  /\ excused' = IF value # settings THEN excused \cup {"settings"} ELSE excused
  /\ UNCHANGED <<tour, page, sent, sessionVars, faults, settings>>

(* Whatever was typed since the save was sent is overwritten.  An answer   *)
(* that is old by now excuses the copy.                                    *)
SettingsSaved(i) ==
  LET value == calls[i].answer IN
  /\ Answered(i, <<"save", "settings">>)
  /\ Done(i)
  /\ view' = IF calls[i].mine
             THEN [SettingsView EXCEPT !.value = value,
                                       !.behind = \/ value # settings
                                                  \/ SavesUnderWay({i})]
             ELSE view
  /\ copy' = [copy EXCEPT !["settings"] = Written(@, value)]
  /\ excused' = IF value # settings THEN excused \cup {"settings"} ELSE excused
  /\ UNCHANGED <<tour, page, sent, sessionVars, faults, settings>>

(* The form, when it is on display, is behind what happened without it.    *)
FormBehind == IF page = "settings" THEN [view EXCEPT !.behind = TRUE] ELSE view

LoseSettingsAnswer(i) ==
  /\ Lost(i, <<"save", "settings">>)
  /\ view' = FormBehind
  /\ excused' = excused \cup {"settings"}
  /\ copy' = Behind(copy, {"settings"})
  /\ UNCHANGED settings

OtherTabSaves ==
  /\ InTour("settings") /\ Disturb
  /\ \E d \in Days : settings' = [settings EXCEPT !.payload = d]
  /\ Valid(settings', FALSE) /\ settings' # settings
  /\ view' = FormBehind
  /\ excused' = excused \cup {"settings"}
  /\ copy' = Behind(copy, {"settings"})
  /\ UNCHANGED <<tour, page, calls, sent, sessionVars>>

SettingsNext ==
  \/ MountForm \/ EditSettings \/ TypeSecret \/ SaveSettings
  \/ \E i \in Call : ServeSettings(i) \/ SettingsSaved(i) \/ LoseSettingsAnswer(i)
  \/ OtherTabSaves

(***************************************************************************)
(* What the settings page promises                                         *)
(***************************************************************************)
(* A form that nobody touched since it was mounted or saved shows what is  *)
(* in force, so that saving it again changes nothing: short of another     *)
(* tab, a lost or an overtaken answer, and a page entered again while a    *)
(* save was under way (settings.tsx:68 and :86).                           *)
UntouchedFormIsCurrent ==
  (page = "settings" /\ view.value # Blank /\ ~view.touched /\ Quiet)
    => view.value = settings \/ view.behind
===============================================================================
