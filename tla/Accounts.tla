-------------------------------- MODULE Accounts -------------------------------
(* The administrator's account: set-up, login with a second factor or through *)
(* Pocket ID, sessions, and the changes an administrator makes to all of it.  *)
(*                                                                            *)
(* A handler reads the account, decides, and writes later: every statement or *)
(* transaction is an action, and requests run side by side in between.        *)
(* Passwords, secrets, recovery codes, sessions and OAuth states are named by *)
(* the request that made them; a batch of recovery codes is one code.         *)
(* Sessions and states that have expired are found by no query, so they are   *)
(* as good as gone.                                                           *)
CONSTANTS
    Request,   \* requests to the account handlers
    Identity,  \* subjects that Pocket ID may vouch for
    Earlier,   \* stands for a request that ended before all others
    None

ASSUME AccountsAssumption ==
    Earlier \notin Request /\ None \notin Request \cup Identity \cup {Earlier}

Name == Request \cup {Earlier}

\* What a request is for.
Gated == {"logout", "password", "totp_setup", "totp_enable", "totp_disable"}
Ops == Gated \cup {"setup", "login", "start", "callback"}

\* A row of admins.
Row == [password : Name, secret : Name \cup {None}, on : BOOLEAN,
        subject : Identity \cup {None}]

ASSUME RowAssumption == None \notin Row

VARIABLES
    admin,     \* the row of admins, None before set-up
    codes,     \* admin_recovery_codes
    sessions,  \* sessions that have not expired
    states,    \* oauth_states that have not expired
    token,     \* the set-up token of this process is still accepted
    op,        \* what each request is for
    pc,        \* how far it has come
    seen,      \* the row of admins it read
    mine,      \* the session it came with, the state it redeemed
    who,       \* the identity that Pocket ID vouched for
    created,   \* history: set-ups that were answered "created"
    used,      \* history: the requests that each code or state let through
    confirmed, \* history: secrets that a code was verified against
    hurried,   \* history: secrets set while another was being enabled
    overtaken  \* history: logins under way while the password was changed

tables == <<admin, codes, sessions, states>>
request == <<op, pc, seen, mine, who>>
history == <<created, used, confirmed, hurried, overtaken>>
vars == <<tables, token, request, history>>

Places == {"new", "authed", "create", "consume", "write", "exchange", "bind",
           "issue", "done"}

\* Secrets and codes are the administrator's: one that is not set up has none.
Account == [password : {Earlier}, secret : {None, Earlier}, on : BOOLEAN,
            subject : {None}]

\* The account as requests before these have left it.
Init ==
    /\ admin \in {None} \cup {a \in Account : a.on => a.secret # None}
    /\ codes = IF admin # None /\ admin.on THEN {Earlier} ELSE {}
    /\ sessions = IF admin # None THEN {Earlier} ELSE {}
    /\ states \in {{}, {Earlier}}
    /\ token = TRUE
    /\ op \in [Request -> Ops]
    /\ pc = [r \in Request |-> "new"]
    /\ seen = [r \in Request |-> None]
    /\ mine = [r \in Request |-> None]
    /\ who = [r \in Request |-> None]
    /\ created = IF admin = None THEN {} ELSE {Earlier}
    /\ used = [n \in Name |-> {}]
    /\ confirmed = IF admin # None /\ admin.on THEN {Earlier} ELSE {}
    /\ hurried = {}
    /\ overtaken = {}

Goes(r, place) == pc' = [pc EXCEPT ![r] = place]

--------------------------------------------------------------------------------
(* Set-up.                                                                   *)

CheckSetupToken(r) ==
    /\ pc[r] = "new" /\ op[r] = "setup"
    /\ Goes(r, IF token THEN "create" ELSE "done")
    /\ UNCHANGED <<tables, token, op, seen, mine, who, history>>

\* A fault: the count of administrators is not looked at.
MayCreate_Unchecked == TRUE

MayCreate == admin = None

\* CreateAdmin counts and inserts in one transaction; the token is then void.
CreateAdmin(r) ==
    /\ pc[r] = "create"
    /\ IF MayCreate
       THEN /\ admin' = [password |-> r, secret |-> None, on |-> FALSE,
                         subject |-> None]
            /\ created' = created \cup {r}
            /\ token' = FALSE
       ELSE UNCHANGED <<admin, created, token>>
    /\ Goes(r, "done")
    /\ UNCHANGED <<codes, sessions, states, op, seen, mine, who, used,
                   confirmed, hurried, overtaken>>

--------------------------------------------------------------------------------
(* Passwords, the second factor, and what both guard.                        *)

\* requireAuth finds the session of the request.
Authenticate(r, s) ==
    /\ pc[r] = "new" /\ op[r] \in Gated
    /\ s \in sessions
    /\ mine' = [mine EXCEPT ![r] = s]
    /\ Goes(r, "authed")
    /\ UNCHANGED <<tables, token, op, seen, who, history>>

\* Login goes on with a session, the other handlers with their write.
Onward(r) == IF op[r] = "login" THEN "issue" ELSE "write"

\* What the handler makes of the account: the password is right, and then a code
\* for the secret if there has to be one, or else a recovery code to look up.
\* Enabling the second factor asks for no password and takes no recovery code.
After(r) ==
    CASE op[r] \in {"login", "password"} ->
            IF admin.on THEN {Onward(r), "consume"} ELSE {Onward(r)}
      [] op[r] = "totp_setup"   -> IF admin.on THEN {} ELSE {"write"}
      [] op[r] = "totp_enable"  -> IF admin.secret = None THEN {} ELSE {"write"}
      [] op[r] = "totp_disable" -> IF admin.on THEN {"write", "consume"} ELSE {}

ReadAccount(r) ==
    /\ \/ pc[r] = "new" /\ op[r] = "login"
       \/ pc[r] = "authed" /\ op[r] # "logout"
    /\ admin # None
    /\ seen' = [seen EXCEPT ![r] = admin]
    /\ \E place \in After(r) : Goes(r, place)
    /\ confirmed' = IF op[r] = "totp_enable" THEN confirmed \cup {admin.secret}
                                             ELSE confirmed
    /\ UNCHANGED <<tables, token, op, mine, who, created, used, hurried, overtaken>>

\* A fault: the number of rows that were deleted is not looked at.
Consumed_Ignored(c) == TRUE

Consumed(c) == c \in codes

\* ConsumeRecoveryCode deletes the code; it counts only for who deleted it.
Consume(r, c) ==
    /\ pc[r] = "consume"
    /\ Consumed(c)
    /\ codes' = codes \ {c}
    /\ used' = [used EXCEPT ![c] = @ \cup {r}]
    /\ Goes(r, Onward(r))
    /\ UNCHANGED <<admin, sessions, states, token, op, seen, mine, who, created,
                   confirmed, hurried, overtaken>>

--------------------------------------------------------------------------------
(* The writes.                                                               *)

\* A fault: the sessions of before stay.
Kept_All(s) == sessions

\* UpdatePassword deletes every session but the one the request came with.
Kept(s) == sessions \cap {s}

WritePassword(r) ==
    /\ pc[r] = "write" /\ op[r] = "password"
    /\ admin' = [admin EXCEPT !.password = r]
    /\ sessions' = Kept(mine[r])
    /\ overtaken' = overtaken \cup
                        {q \in Request : op[q] = "login"
                                         /\ pc[q] \in {"consume", "issue"}}
    /\ Goes(r, "done")
    /\ UNCHANGED <<codes, states, token, op, seen, mine, who, created, used,
                   confirmed, hurried>>

\* A fault: a new secret leaves the second factor as it was.
WithSecret_StaysOn(row, n) == [row EXCEPT !.secret = n]

\* SetTOTPPending: the factor is off until a code has confirmed the secret.
WithSecret(row, n) == [row EXCEPT !.secret = n, !.on = FALSE]

Enabling(r) == pc[r] = "write" /\ op[r] = "totp_enable"

WriteSecret(r) ==
    /\ pc[r] = "write" /\ op[r] = "totp_setup"
    /\ admin' = WithSecret(admin, r)
    /\ hurried' = IF \E q \in Request : Enabling(q) THEN hurried \cup {r}
                                                    ELSE hurried
    /\ Goes(r, "done")
    /\ UNCHANGED <<codes, sessions, states, token, op, seen, mine, who, created,
                   used, confirmed, overtaken>>

\* The UPDATE of EnableTOTP: WHERE totp_secret_enc IS NOT NULL.
Enabled(row) == [row EXCEPT !.on = @ \/ row.secret # None]

\* EnableTOTP; new recovery codes replace the old ones in any case.
WriteEnabled(r) ==
    /\ Enabling(r)
    /\ admin' = Enabled(admin)
    /\ codes' = {r}
    /\ Goes(r, "done")
    /\ UNCHANGED <<sessions, states, token, op, seen, mine, who, history>>

WriteDisabled(r) ==
    /\ pc[r] = "write" /\ op[r] = "totp_disable"
    /\ admin' = [admin EXCEPT !.secret = None, !.on = FALSE]
    /\ codes' = {}
    /\ Goes(r, "done")
    /\ UNCHANGED <<sessions, states, token, op, seen, mine, who, history>>

Logout(r) ==
    /\ pc[r] = "authed" /\ op[r] = "logout"
    /\ sessions' = sessions \ {mine[r]}
    /\ Goes(r, "done")
    /\ UNCHANGED <<admin, codes, states, token, op, seen, mine, who, history>>

\* Login and the Pocket ID callback end with a session.
IssueSession(r) ==
    /\ pc[r] = "issue"
    /\ sessions' = sessions \cup {r}
    /\ Goes(r, "done")
    /\ UNCHANGED <<admin, codes, states, token, op, seen, mine, who, history>>

--------------------------------------------------------------------------------
(* Pocket ID.                                                                *)

StartLogin(r) ==
    /\ pc[r] = "new" /\ op[r] = "start"
    /\ states' = states \cup {r}
    /\ Goes(r, "done")
    /\ UNCHANGED <<admin, codes, sessions, token, op, seen, mine, who, history>>

Redeemed(o) == states \ {o}

\* ConsumeOAuthState finds and deletes the state in one transaction.
RedeemState(r, o) ==
    /\ pc[r] = "new" /\ op[r] = "callback"
    /\ o \in states
    /\ states' = Redeemed(o)
    /\ used' = [used EXCEPT ![o] = @ \cup {r}]
    /\ mine' = [mine EXCEPT ![r] = o]
    /\ Goes(r, "exchange")
    /\ UNCHANGED <<admin, codes, sessions, token, op, seen, who, created,
                   confirmed, hurried, overtaken>>

\* Pocket ID answers with an identity.  While none is bound, one that the
\* settings allow may be; they may allow several, by name and by address.
Identify(r, i) ==
    /\ pc[r] = "exchange"
    /\ admin # None
    /\ who' = [who EXCEPT ![r] = i]
    /\ \/ admin.subject = None /\ Goes(r, "bind")
       \/ admin.subject = i /\ Goes(r, "issue")
    /\ UNCHANGED <<tables, token, op, seen, mine, history>>

\* A fault: the identity is bound over one that was bound since.
MayBind_Anyway(r) == TRUE

\* The WHERE clause of BindPocketIDSubject.
MayBind(r) == admin.subject \in {None, who[r]}

Bind(r) ==
    /\ pc[r] = "bind"
    /\ MayBind(r)
    /\ admin' = [admin EXCEPT !.subject = who[r]]
    /\ Goes(r, "issue")
    /\ UNCHANGED <<codes, sessions, states, token, op, seen, mine, who, history>>

--------------------------------------------------------------------------------

\* Refused: no session, a wrong password or code, an identity not allowed; or
\* given up: the database fails, the client hangs up.
Refuse(r) ==
    /\ pc[r] # "done"
    /\ Goes(r, "done")
    /\ UNCHANGED <<tables, token, op, seen, mine, who, history>>

\* The hour of a session, or of a state, has come.
Expire(n) ==
    /\ n \in sessions \cup states
    /\ \/ sessions' = sessions \ {n} /\ UNCHANGED states
       \/ states' = states \ {n} /\ UNCHANGED sessions
    /\ UNCHANGED <<admin, codes, token, request, history>>

\* The process starts again, with a set-up token.
Restart ==
    /\ pc' = [r \in Request |-> IF pc[r] = "new" THEN "new" ELSE "done"]
    /\ token' = TRUE
    /\ UNCHANGED <<tables, op, seen, mine, who, history>>

RequestStep(r) ==
    \/ CheckSetupToken(r) \/ CreateAdmin(r)
    \/ \E s \in sessions : Authenticate(r, s)
    \/ ReadAccount(r)
    \/ \E c \in Name : Consume(r, c)
    \/ WritePassword(r) \/ WriteSecret(r) \/ WriteEnabled(r) \/ WriteDisabled(r)
    \/ Logout(r) \/ IssueSession(r)
    \/ StartLogin(r)
    \/ \E o \in states : RedeemState(r, o)
    \/ \E i \in Identity : Identify(r, i)
    \/ Bind(r)
    \/ Refuse(r)

Next ==
    \/ \E r \in Request : RequestStep(r)
    \/ \E n \in Name : Expire(n)
    \/ Restart

Spec == Init /\ [][Next]_vars

--------------------------------------------------------------------------------

TypeOK ==
    /\ admin \in Row \cup {None}
    /\ codes \subseteq Name
    /\ sessions \subseteq Name
    /\ states \subseteq Name
    /\ token \in BOOLEAN
    /\ op \in [Request -> Ops]
    /\ pc \in [Request -> Places]
    /\ seen \in [Request -> Row \cup {None}]
    /\ mine \in [Request -> Name \cup {None}]
    /\ who \in [Request -> Identity \cup {None}]
    /\ created \subseteq Name
    /\ used \in [Name -> SUBSET Request]
    /\ confirmed \subseteq Name
    /\ hurried \subseteq Request
    /\ overtaken \subseteq Request

\* There is one administrator, whatever set-ups run at once and however often
\* the process starts with a fresh token.
OneAdministrator == \A m, n \in created : m = n

\* A recovery code or an OAuth state lets one request through, though several
\* may come with it at once.  (No request takes both.)
UsedOnce ==
    \A n \in Name : \A q, r \in used[n] :
        (op[q] = "callback" <=> op[r] = "callback") => q = r

\* A second factor that is on has a secret: without one nobody could log in, or
\* switch it off.  Enabling may overlap with disabling and with a new set-up.
FactorHasSecret == admin # None /\ admin.on => admin.secret # None

\* Its secret is one the administrator has proved to hold, unless it was replaced
\* while another request was enabling the one before.
FactorIsConfirmed ==
    admin # None /\ admin.on => admin.secret \in confirmed \cup hurried

\* Whoever has a session through Pocket ID is the one identity that is bound,
\* also when two identities that may be bound come at once.
SessionsOfTheBound ==
    \A r \in Request :
        op[r] = "callback" /\ r \in sessions => admin.subject = who[r]

\* Changing the password ends the sessions that were opened with the one before:
\* what is left is the session that changed it, and logins that were already past
\* the check of the password.
OpenedWith(s) == IF s = Earlier THEN Earlier ELSE seen[s].password

PasswordEndsSessions ==
    \A s \in sessions :
        (s = Earlier \/ op[s] = "login") /\ OpenedWith(s) # admin.password
            => s = mine[admin.password] \/ s \in overtaken

================================================================================
