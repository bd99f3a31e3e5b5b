---------------------------- MODULE ConsoleAccount ----------------------------
(***************************************************************************)
(* The account page of the console: the cards for the user name, the       *)
(* password and the second factor.  The cards read the copy of /auth/me,   *)
(* which the user name and the factor's calls write themselves; the        *)
(* second factor is set up in steps the server keeps: a secret pending,    *)
(* then on, with recovery codes that are shown once.                       *)
(*                                                                         *)
(* A secret, a set of recovery codes and a user name are the number of the *)
(* call that made them: unique; those from before are FirstSecret.         *)
(***************************************************************************)
EXTENDS ConsoleTab

VARIABLE account   \* the server's administrator: name, secret, on, codes

accountVars == <<account>>

FirstSecret == MaxCalls + 1

(* The three dialogs are modal: at most one is open.                       *)
NoCard == "none"
AccountForm == [card |-> NoCard, filled |-> FALSE, setup |-> 0, codes |-> 0]

(* GET /auth/me, and the shorter answer of POST /auth/login.               *)
MeOf(s) == [token |-> s, name |-> account.name, factor |-> account.on,
            linked |-> TRUE]
LoginAnswer(s) == [MeOf(s) EXCEPT !.linked = FALSE]

Me == copy["me"].value
OnAccount == page = "account" /\ GateOpen /\ copy["me"].known

EditAccount(form) ==
  /\ OnAccount /\ view' = form
  /\ UNCHANGED <<tour, page, copy, calls, sent, sessionVars, faults, excused,
                 account>>

OpenCard ==
  /\ OnAccount /\ view.card = NoCard
  /\ \E c \in {"username", "password", "factor"} :
       EditAccount([view EXCEPT !.card = c])

(* What the open dialog's button needs is typed.                           *)
FillCard == /\ OnAccount /\ view.card # NoCard /\ ~view.filled
            /\ EditAccount([view EXCEPT !.filled = TRUE])

(* Closing a dialog forgets what was typed in it, and that of the factor   *)
(* its set-up and its codes too (resetDialog).                             *)
Closed(card) ==
  IF view.card # card THEN view
  ELSE IF card = "factor" THEN AccountForm
  ELSE [view EXCEPT !.card = NoCard, !.filled = FALSE]

CloseCard == /\ OnAccount /\ view.card # NoCard
             /\ EditAccount(Closed(view.card))

(***************************************************************************)
(* The buttons                                                             *)
(***************************************************************************)
(* Fault: the button does not wait for the call under way.                 *)
Submit_NotWaiting(card, do, arg) ==
  /\ OnAccount /\ view.card = card /\ view.filled
  /\ Send(<<do, "account">>, arg)
  /\ UNCHANGED <<view, account>>

Submit(card, do, arg) ==
  /\ OnAccount /\ view.card = card /\ view.filled
  /\ ~Pending(<<do, "account">>)
  /\ Send(<<do, "account">>, arg)
  /\ UNCHANGED <<view, account>>

ChangeUsername == Submit("username", "username", Blank)

(* A code is asked for when the copy says that the factor is on.           *)
ChangePassword ==
  OnAccount /\ Submit("password", "password", Me.factor)

(* The factor's dialog shows the recovery codes before a set-up, and a     *)
(* set-up before the form for switching it on or off.                      *)
EnableFactor ==
  /\ OnAccount /\ view.codes = 0 /\ view.setup # 0
  /\ Submit("factor", "enable", view.setup)

(* Neither waits for the other two calls: switching the factor off while a *)
(* set-up or its end is under way spoils the codes that may still come.    *)
DisableFactor ==
  /\ OnAccount /\ view.codes = 0 /\ view.setup = 0 /\ Me.factor
  /\ view.card = "factor" /\ view.filled
  /\ ~Pending(<<"disable", "account">>)
  /\ Dispatch(<<"disable", "account">>, account.secret)
  /\ excused' = IF \E do \in {"begin", "enable"} : Pending(<<do, "account">>)
                THEN excused \cup {"codes"} ELSE excused
  /\ UNCHANGED <<view, account>>

BeginFactor ==
  /\ OnAccount /\ view.codes = 0 /\ view.setup = 0 /\ ~Me.factor
  /\ Submit("factor", "begin", Blank)

(***************************************************************************)
(* The server: account.go and store.go                                     *)
(***************************************************************************)
ServeAccount(i, do, value, answer) ==
  /\ Accepted(i, <<do, "account">>)
  /\ account' = value
  /\ Served(i, answer)
  /\ UNCHANGED <<tour, page, view, copy, sent, csrf, cookie, opened, faults,
                 excused>>

ServeUsername(i) ==
  /\ ServeAccount(i, "username", [account EXCEPT !.name = i], i)
  /\ UNCHANGED alive

(* A new password ends every other session.                                *)
ServePassword(i) ==
  /\ ServeAccount(i, "password", account, Blank)
  /\ account.on => calls[i].arg
  /\ alive' = {calls[i].bearer}

ServeBegin(i) ==
  /\ ~account.on
  /\ ServeAccount(i, "begin", [account EXCEPT !.secret = i], i)
  /\ UNCHANGED alive

(* A code is right for the secret it was made with; whether the factor is  *)
(* on already is not asked.                                                *)
ServeEnable(i) ==
  /\ ServeAccount(i, "enable", [account EXCEPT !.on = TRUE, !.codes = i], i)
  /\ account.secret # 0 /\ calls[i].arg = account.secret
  /\ UNCHANGED alive

ServeDisable(i) ==
  /\ ServeAccount(i, "disable",
                  [account EXCEPT !.on = FALSE, !.secret = 0, !.codes = 0],
                  Blank)
  /\ account.on /\ calls[i].arg = account.secret
  /\ UNCHANGED alive

(***************************************************************************)
(* The answers                                                             *)
(***************************************************************************)
(* setQueryData on ["me"] changes one field of a copy that is there; a     *)
(* fetch that is under way lands all the same.  An answer that is old by   *)
(* now excuses the copy.                                                   *)
WriteMe(field, value, now) ==
  /\ copy' = IF copy["me"].known
             THEN [copy EXCEPT !["me"] = Written(@, [Me EXCEPT ![field] = value])]
             ELSE Behind(copy, {"me"})
  /\ excused' = IF value # now THEN excused \cup {"me"} ELSE excused

AnswerAccount(i, do, form) ==
  /\ Answered(i, <<do, "account">>)
  /\ Done(i)
  /\ view' = IF calls[i].mine THEN form ELSE view
  /\ UNCHANGED <<tour, page, sent, sessionVars, faults, account>>

UsernameSaved(i) ==
  /\ AnswerAccount(i, "username", Closed("username"))
  /\ WriteMe("name", calls[i].answer, account.name)

PasswordSaved(i) ==
  /\ AnswerAccount(i, "password", Closed("password"))
  /\ UNCHANGED <<copy, excused>>

FactorBegun(i) ==
  /\ AnswerAccount(i, "begin", [view EXCEPT !.setup = calls[i].answer,
                                            !.filled = @ /\ view.card # "factor"])
  /\ UNCHANGED <<copy, excused>>

FactorEnabled(i) ==
  /\ AnswerAccount(i, "enable", [view EXCEPT !.setup = 0,
                                             !.codes = calls[i].answer,
                                             !.filled = @ /\ view.card # "factor"])
  /\ WriteMe("factor", TRUE, account.on)

FactorDisabled(i) ==
  /\ AnswerAccount(i, "disable",
                   [Closed("factor") EXCEPT !.setup = 0, !.codes = 0])
  /\ WriteMe("factor", FALSE, account.on)

(* Another tab switches the factor off.                                    *)
OtherTabDisables ==
  /\ InTour("account") /\ account.on /\ Disturb
  /\ account' = [account EXCEPT !.on = FALSE, !.secret = 0, !.codes = 0]
  /\ excused' = excused \cup {"me", "codes"}
  /\ copy' = Behind(copy, {"me"})
  /\ UNCHANGED <<tour, page, view, calls, sent, sessionVars>>

LoseAccountAnswer(i) ==
  /\ \E do \in {"username", "password", "begin", "enable", "disable"} :
       Lost(i, <<do, "account">>)
  /\ excused' = excused \cup {"me"}
  /\ copy' = Behind(copy, {"me"})
  /\ UNCHANGED <<view, account>>

AccountNext ==
  \/ OpenCard \/ FillCard \/ CloseCard
  \/ ChangeUsername \/ ChangePassword
  \/ BeginFactor \/ EnableFactor \/ DisableFactor
  \/ \E i \in Call :
       \/ ServeUsername(i) \/ UsernameSaved(i)
       \/ ServePassword(i) \/ PasswordSaved(i)
       \/ ServeBegin(i) \/ FactorBegun(i)
       \/ ServeEnable(i) \/ FactorEnabled(i)
       \/ ServeDisable(i) \/ FactorDisabled(i)
       \/ LoseAccountAnswer(i)
  \/ OtherTabDisables

(***************************************************************************)
(* What the account page promises                                          *)
(***************************************************************************)
(* The recovery codes on display are those the server accepts, so that the *)
(* user saves the right ones: neither a second click, a page left and      *)
(* entered again, nor a late answer shows a set that a later call replaced *)
(* (account.tsx:399), short of another tab switching the factor off, or    *)
(* this one while its set-up was still under way.                          *)
ShownCodesInForce ==
  (page = "account" /\ view.card = "factor" /\ view.codes # 0)
    => view.codes = account.codes \/ "codes" \in excused
===============================================================================
