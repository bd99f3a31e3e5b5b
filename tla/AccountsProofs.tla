----------------------------- MODULE AccountsProofs ----------------------------
(* Theorems about Accounts, for any number of requests and identities.        *)
EXTENDS Accounts, TLAPS

\* A request that has got that far has an account to change or to log in to.
AdminIsThere ==
    /\ \A r \in Request : pc[r] \in {"consume", "write", "bind", "issue"}
                              => admin # None
    /\ sessions # {} => admin # None
    /\ admin = None => created = {}

\* What bears the name of a request was made by its last step.
NamesAreDone ==
    /\ \A r \in Request : r \in sessions \cup codes \cup states => pc[r] = "done"
    /\ admin # None /\ admin.password \in Request => pc[admin.password] = "done"

\* The places of the requests that Pocket ID is asked about, and of the others.
PlacesFit ==
    \A r \in Request :
        /\ pc[r] = "authed" => op[r] \in Gated
        /\ pc[r] = "consume" => op[r] \in {"login", "password", "totp_disable"}
        /\ pc[r] \in {"exchange", "bind"} => op[r] = "callback"

\* A code or a state that let a request through is gone for good.
UsedIsGone ==
    \A n \in Name : \A q \in used[n] :
        /\ n \in Request => pc[n] = "done"
        /\ op[q] = "callback" => n \notin states
        /\ op[q] # "callback" => n \notin codes

CallbacksAreBound ==
    \A r \in Request :
        /\ pc[r] = "bind" => who[r] \in Identity
        /\ op[r] = "callback" /\ (pc[r] = "issue" \/ r \in sessions)
               => who[r] \in Identity /\ admin.subject = who[r]

LoginsSawThePassword ==
    \A r \in Request :
        op[r] = "login" /\ pc[r] \in {"consume", "issue"}
            => seen[r].password = admin.password \/ r \in overtaken

EnablingIsConfirmed ==
    \A r \in Request :
        Enabling(r) => admin.secret \in confirmed \cup hurried \cup {None}

AccountsInvariant ==
    /\ TypeOK /\ AdminIsThere /\ NamesAreDone /\ PlacesFit
    /\ OneAdministrator
    /\ UsedIsGone /\ UsedOnce
    /\ FactorHasSecret
    /\ EnablingIsConfirmed /\ FactorIsConfirmed
    /\ CallbacksAreBound /\ SessionsOfTheBound
    /\ LoginsSawThePassword /\ PasswordEndsSessions

--------------------------------------------------------------------------------

\* What a request writes to the secret and the factor of a row leaves it a row.
LEMMA ChangedRow ==
    ASSUME NEW row \in Row, NEW secret \in Name \cup {None}, NEW on \in BOOLEAN
    PROVE  /\ [row EXCEPT !.secret = secret, !.on = on] \in Row
           /\ [row EXCEPT !.secret = secret, !.on = on] # None
           /\ [row EXCEPT !.on = on] \in Row /\ [row EXCEPT !.on = on] # None
BY RowAssumption DEF Row

\* What requests before have left satisfies the invariant.
LEMMA InitGood == Init => AccountsInvariant
PROOF
<1> SUFFICES ASSUME Init PROVE AccountsInvariant
  OBVIOUS
<1> USE AccountsAssumption DEF Init, Account, Name
<1>1. TypeOK BY DEF TypeOK, Row, Places
<1>2. AdminIsThere BY DEF AdminIsThere
<1>3. NamesAreDone BY DEF NamesAreDone
<1>4. PlacesFit BY DEF PlacesFit
<1>5. OneAdministrator BY DEF OneAdministrator
<1>6. UsedIsGone BY DEF UsedIsGone
<1>7. UsedOnce BY DEF UsedOnce
<1>8. FactorHasSecret BY DEF FactorHasSecret
<1>9. EnablingIsConfirmed BY DEF EnablingIsConfirmed, Enabling
<1>10. FactorIsConfirmed BY DEF FactorIsConfirmed
<1>11. CallbacksAreBound BY DEF CallbacksAreBound
<1>12. SessionsOfTheBound BY DEF SessionsOfTheBound
<1>13. LoginsSawThePassword BY DEF LoginsSawThePassword
<1>14. PasswordEndsSessions BY DEF PasswordEndsSessions, OpenedWith
<1> QED
  BY <1>1, <1>2, <1>3, <1>4, <1>5, <1>6, <1>7, <1>8, <1>9, <1>10, <1>11, <1>12,
     <1>13, <1>14
     DEF AccountsInvariant

\* Where a handler may go on to once it has read the account.
LEMMA AfterPlaces ==
    ASSUME NEW r \in Request, op[r] \in Ops \ {"logout", "setup", "start", "callback"}
    PROVE  /\ After(r) \subseteq {"consume", "write", "issue"}
           /\ "issue" \in After(r) => op[r] = "login"
           /\ "consume" \in After(r) =>
                  op[r] \in {"login", "password", "totp_disable"}
           /\ op[r] = "totp_enable" => After(r) = IF admin.secret = None THEN {}
                                                                       ELSE {"write"}
PROOF
<1>1. CASE op[r] = "login" BY <1>1 DEF After, Onward
<1>2. CASE op[r] = "password" BY <1>2 DEF After, Onward
<1>3. CASE op[r] = "totp_setup" BY <1>3 DEF After, Onward
<1>4. CASE op[r] = "totp_enable" BY <1>4 DEF After, Onward
<1>5. CASE op[r] = "totp_disable" BY <1>5 DEF After, Onward
<1> QED BY <1>1, <1>2, <1>3, <1>4, <1>5 DEF Ops, Gated

\* Every step of a request preserves the invariant.
LEMMA StepGood ==
    ASSUME AccountsInvariant, NEW r \in Request, RequestStep(r)
    PROVE  AccountsInvariant'
PROOF
<1> USE DEF AccountsInvariant, Goes, tables, request, history, Name, Row, Places,
        Enabling, OpenedWith
<1>1. CASE CheckSetupToken(r)
  BY <1>1, AccountsAssumption, SMTT(60)
     DEF CheckSetupToken, TypeOK, AdminIsThere, NamesAreDone, PlacesFit,
         OneAdministrator, UsedIsGone, UsedOnce, FactorHasSecret,
         EnablingIsConfirmed, FactorIsConfirmed, CallbacksAreBound,
         SessionsOfTheBound, LoginsSawThePassword, PasswordEndsSessions
<1>2. CASE CreateAdmin(r)
  <2>a. admin' \in Row /\ admin' # None
    <3>1. CASE admin = None
      <4>1. admin' = [password |-> r, secret |-> None, on |-> FALSE, subject |-> None]
        BY <1>2, <3>1 DEF CreateAdmin, MayCreate
      <4>2. admin' \in Row BY <4>1
      <4> QED BY <4>2, RowAssumption
    <3>2. CASE admin # None
      BY <1>2, <3>2 DEF CreateAdmin, MayCreate, TypeOK
    <3> QED BY <3>1, <3>2
  <2>1. TypeOK'
    <3>1. admin' \in Row \cup {None} BY <2>a
    <3>2. created' \subseteq Name /\ token' \in BOOLEAN
      BY <1>2 DEF CreateAdmin, TypeOK
    <3>3. pc' \in [Request -> Places]
      BY <1>2 DEF CreateAdmin, TypeOK
    <3> QED BY <1>2, <3>1, <3>2, <3>3 DEF CreateAdmin, TypeOK
  <2>2. AdminIsThere'
    BY <1>2, <2>a, AccountsAssumption
       DEF CreateAdmin, MayCreate, AdminIsThere, TypeOK
  <2>3. NamesAreDone'
    BY <1>2, <2>a, AccountsAssumption
       DEF CreateAdmin, MayCreate, NamesAreDone, TypeOK, AdminIsThere
  <2>4. PlacesFit'
    BY <1>2, <2>a, AccountsAssumption DEF CreateAdmin, MayCreate, PlacesFit, TypeOK
  <2>5. OneAdministrator'
    BY <1>2, <2>a, AccountsAssumption
       DEF CreateAdmin, MayCreate, OneAdministrator, TypeOK, AdminIsThere
  <2>6. UsedIsGone'
    BY <1>2, <2>a, AccountsAssumption
       DEF CreateAdmin, MayCreate, UsedIsGone, TypeOK, NamesAreDone, PlacesFit
  <2>7. UsedOnce'
    BY <1>2, <2>a, AccountsAssumption
       DEF CreateAdmin, MayCreate, UsedOnce, TypeOK, UsedIsGone, PlacesFit
  <2>8. FactorHasSecret'
    BY <1>2, <2>a, AccountsAssumption
       DEF CreateAdmin, MayCreate, FactorHasSecret, TypeOK, AdminIsThere
  <2>9. EnablingIsConfirmed'
    BY <1>2, <2>a, AccountsAssumption
       DEF CreateAdmin, MayCreate, EnablingIsConfirmed, TypeOK, AdminIsThere,
           PlacesFit
  <2>10. FactorIsConfirmed'
    BY <1>2, <2>a, AccountsAssumption
       DEF CreateAdmin, MayCreate, FactorIsConfirmed, TypeOK, AdminIsThere,
           EnablingIsConfirmed
  <2>11. CallbacksAreBound'
    BY <1>2, <2>a, AccountsAssumption
       DEF CreateAdmin, MayCreate, CallbacksAreBound, TypeOK, AdminIsThere,
           PlacesFit, NamesAreDone
  <2>12. SessionsOfTheBound'
    BY <1>2, <2>a, AccountsAssumption
       DEF CreateAdmin, MayCreate, SessionsOfTheBound, TypeOK, CallbacksAreBound,
           AdminIsThere
  <2>13. LoginsSawThePassword'
    BY <1>2, <2>a, AccountsAssumption
       DEF CreateAdmin, MayCreate, LoginsSawThePassword, TypeOK, AdminIsThere,
           PlacesFit
  <2>14. PasswordEndsSessions'
    BY <1>2, <2>a, AccountsAssumption
       DEF CreateAdmin, MayCreate, PasswordEndsSessions, TypeOK,
           LoginsSawThePassword, NamesAreDone, AdminIsThere
  <2> QED BY <2>1, <2>2, <2>3, <2>4, <2>5, <2>6, <2>7, <2>8, <2>9, <2>10, <2>11,
             <2>12, <2>13, <2>14
<1>3. ASSUME NEW s \in sessions, Authenticate(r, s) PROVE AccountsInvariant'
  BY <1>3, AccountsAssumption, SMTT(60)
     DEF Authenticate, Gated, TypeOK, AdminIsThere, NamesAreDone, PlacesFit,
         OneAdministrator, UsedIsGone, UsedOnce, FactorHasSecret,
         EnablingIsConfirmed, FactorIsConfirmed, CallbacksAreBound,
         SessionsOfTheBound, LoginsSawThePassword, PasswordEndsSessions
<1>4. CASE ReadAccount(r)
  <2>a. op[r] \in Ops \ {"logout", "setup", "start", "callback"}
    BY <1>4 DEF ReadAccount, TypeOK, PlacesFit, Gated, Ops
  <2>b. PICK place \in {"consume", "write", "issue"} :
            /\ pc' = [pc EXCEPT ![r] = place]
            /\ place = "issue" => op[r] = "login"
            /\ place = "consume" => op[r] \in {"login", "password", "totp_disable"}
            /\ op[r] = "totp_enable" => place = "write" /\ admin.secret # None
    BY <1>4, <2>a, AfterPlaces DEF ReadAccount
  <2>1. TypeOK'
    BY <1>4, <2>a, <2>b, AccountsAssumption DEF ReadAccount, TypeOK, AdminIsThere
  <2>2. AdminIsThere'
    BY <1>4, <2>a, <2>b, AccountsAssumption DEF ReadAccount, AdminIsThere, TypeOK
  <2>3. NamesAreDone'
    BY <1>4, <2>a, <2>b, AccountsAssumption
       DEF ReadAccount, NamesAreDone, TypeOK, AdminIsThere
  <2>4. PlacesFit'
    BY <1>4, <2>a, <2>b, AccountsAssumption DEF ReadAccount, PlacesFit, TypeOK
  <2>5. OneAdministrator'
    BY <1>4, <2>a, <2>b, AccountsAssumption
       DEF ReadAccount, OneAdministrator, TypeOK, AdminIsThere
  <2>6. UsedIsGone'
    BY <1>4, <2>a, <2>b, AccountsAssumption
       DEF ReadAccount, UsedIsGone, TypeOK, NamesAreDone, PlacesFit
  <2>7. UsedOnce'
    BY <1>4, <2>a, <2>b, AccountsAssumption
       DEF ReadAccount, UsedOnce, TypeOK, UsedIsGone, PlacesFit
  <2>8. FactorHasSecret'
    BY <1>4, <2>a, <2>b, AccountsAssumption
       DEF ReadAccount, FactorHasSecret, TypeOK, AdminIsThere
  <2>9. EnablingIsConfirmed'
    BY <1>4, <2>a, <2>b, AccountsAssumption
       DEF ReadAccount, EnablingIsConfirmed, TypeOK, AdminIsThere, PlacesFit
  <2>10. FactorIsConfirmed'
    BY <1>4, <2>a, <2>b, AccountsAssumption
       DEF ReadAccount, FactorIsConfirmed, TypeOK, AdminIsThere,
           EnablingIsConfirmed
  <2>11. CallbacksAreBound'
    BY <1>4, <2>a, <2>b, AccountsAssumption
       DEF ReadAccount, CallbacksAreBound, TypeOK, AdminIsThere, PlacesFit,
           NamesAreDone
  <2>12. SessionsOfTheBound'
    BY <1>4, <2>a, <2>b, AccountsAssumption
       DEF ReadAccount, SessionsOfTheBound, TypeOK, CallbacksAreBound,
           AdminIsThere
  <2>13. LoginsSawThePassword'
    BY <1>4, <2>a, <2>b, AccountsAssumption
       DEF ReadAccount, LoginsSawThePassword, TypeOK, AdminIsThere, PlacesFit
  <2>14. PasswordEndsSessions'
    BY <1>4, <2>a, <2>b, AccountsAssumption
       DEF ReadAccount, PasswordEndsSessions, TypeOK, LoginsSawThePassword,
           NamesAreDone, AdminIsThere
  <2> QED BY <2>1, <2>2, <2>3, <2>4, <2>5, <2>6, <2>7, <2>8, <2>9, <2>10, <2>11,
             <2>12, <2>13, <2>14
<1>5. ASSUME NEW c \in Name, Consume(r, c) PROVE AccountsInvariant'
  <2>1. TypeOK'
    BY <1>5, AccountsAssumption DEF Consume, Onward, Consumed, TypeOK, AdminIsThere
  <2>2. AdminIsThere'
    BY <1>5, AccountsAssumption DEF Consume, Onward, Consumed, AdminIsThere, TypeOK
  <2>3. NamesAreDone'
    BY <1>5, AccountsAssumption
       DEF Consume, Onward, Consumed, NamesAreDone, TypeOK, AdminIsThere
  <2>4. PlacesFit'
    BY <1>5, AccountsAssumption DEF Consume, Onward, Consumed, PlacesFit, TypeOK
  <2>5. OneAdministrator'
    BY <1>5, AccountsAssumption
       DEF Consume, Onward, Consumed, OneAdministrator, TypeOK, AdminIsThere
  <2>6. UsedIsGone'
    BY <1>5, AccountsAssumption
       DEF Consume, Onward, Consumed, UsedIsGone, TypeOK, NamesAreDone,
           PlacesFit
  <2>7. UsedOnce'
    BY <1>5, AccountsAssumption
       DEF Consume, Onward, Consumed, UsedOnce, TypeOK, UsedIsGone, PlacesFit
  <2>8. FactorHasSecret'
    BY <1>5, AccountsAssumption
       DEF Consume, Onward, Consumed, FactorHasSecret, TypeOK, AdminIsThere
  <2>9. EnablingIsConfirmed'
    BY <1>5, AccountsAssumption
       DEF Consume, Onward, Consumed, EnablingIsConfirmed, TypeOK, AdminIsThere,
           PlacesFit
  <2>10. FactorIsConfirmed'
    BY <1>5, AccountsAssumption
       DEF Consume, Onward, Consumed, FactorIsConfirmed, TypeOK, AdminIsThere,
           EnablingIsConfirmed
  <2>11. CallbacksAreBound'
    BY <1>5, AccountsAssumption
       DEF Consume, Onward, Consumed, CallbacksAreBound, TypeOK, AdminIsThere,
           PlacesFit, NamesAreDone
  <2>12. SessionsOfTheBound'
    BY <1>5, AccountsAssumption
       DEF Consume, Onward, Consumed, SessionsOfTheBound, TypeOK,
           CallbacksAreBound, AdminIsThere
  <2>13. LoginsSawThePassword'
    BY <1>5, AccountsAssumption
       DEF Consume, Onward, Consumed, LoginsSawThePassword, TypeOK, AdminIsThere,
           PlacesFit
  <2>14. PasswordEndsSessions'
    BY <1>5, AccountsAssumption
       DEF Consume, Onward, Consumed, PasswordEndsSessions, TypeOK,
           LoginsSawThePassword, NamesAreDone, AdminIsThere
  <2> QED BY <2>1, <2>2, <2>3, <2>4, <2>5, <2>6, <2>7, <2>8, <2>9, <2>10, <2>11,
             <2>12, <2>13, <2>14
<1>6. CASE WritePassword(r)
  <2>a. admin' \in Row /\ admin' # None
    BY <1>6, AccountsAssumption, RowAssumption
       DEF WritePassword, Kept, TypeOK, AdminIsThere
  <2>1. TypeOK'
    BY <1>6, <2>a, AccountsAssumption DEF WritePassword, Kept, TypeOK, AdminIsThere
  <2>2. AdminIsThere'
    BY <1>6, <2>a, AccountsAssumption DEF WritePassword, Kept, AdminIsThere, TypeOK
  <2>3. NamesAreDone'
    BY <1>6, <2>a, AccountsAssumption
       DEF WritePassword, Kept, NamesAreDone, TypeOK, AdminIsThere
  <2>4. PlacesFit'
    BY <1>6, <2>a, AccountsAssumption DEF WritePassword, Kept, PlacesFit, TypeOK
  <2>5. OneAdministrator'
    BY <1>6, <2>a, AccountsAssumption
       DEF WritePassword, Kept, OneAdministrator, TypeOK, AdminIsThere
  <2>6. UsedIsGone'
    BY <1>6, <2>a, AccountsAssumption
       DEF WritePassword, Kept, UsedIsGone, TypeOK, NamesAreDone, PlacesFit
  <2>7. UsedOnce'
    BY <1>6, <2>a, AccountsAssumption
       DEF WritePassword, Kept, UsedOnce, TypeOK, UsedIsGone, PlacesFit
  <2>8. FactorHasSecret'
    BY <1>6, <2>a, AccountsAssumption
       DEF WritePassword, Kept, FactorHasSecret, TypeOK, AdminIsThere
  <2>9. EnablingIsConfirmed'
    BY <1>6, <2>a, AccountsAssumption
       DEF WritePassword, Kept, EnablingIsConfirmed, TypeOK, AdminIsThere,
           PlacesFit
  <2>10. FactorIsConfirmed'
    BY <1>6, <2>a, AccountsAssumption
       DEF WritePassword, Kept, FactorIsConfirmed, TypeOK, AdminIsThere,
           EnablingIsConfirmed
  <2>11. CallbacksAreBound'
    BY <1>6, <2>a, AccountsAssumption
       DEF WritePassword, Kept, CallbacksAreBound, TypeOK, AdminIsThere,
           PlacesFit, NamesAreDone
  <2>12. SessionsOfTheBound'
    BY <1>6, <2>a, AccountsAssumption
       DEF WritePassword, Kept, SessionsOfTheBound, TypeOK, CallbacksAreBound,
           AdminIsThere
  <2>13. LoginsSawThePassword'
    BY <1>6, <2>a, AccountsAssumption
       DEF WritePassword, Kept, LoginsSawThePassword, TypeOK, AdminIsThere,
           PlacesFit
  <2>14. PasswordEndsSessions'
    BY <1>6, <2>a, AccountsAssumption
       DEF WritePassword, Kept, PasswordEndsSessions, TypeOK,
           LoginsSawThePassword, NamesAreDone, AdminIsThere
  <2> QED BY <2>1, <2>2, <2>3, <2>4, <2>5, <2>6, <2>7, <2>8, <2>9, <2>10, <2>11,
             <2>12, <2>13, <2>14
<1>7. CASE WriteSecret(r)
  <2>a. admin' \in Row /\ admin' # None
    <3>1. admin \in Row BY <1>7 DEF WriteSecret, TypeOK, AdminIsThere
    <3>2. admin' = [admin EXCEPT !.secret = r, !.on = FALSE]
      BY <1>7 DEF WriteSecret, WithSecret
    <3> QED BY <3>1, <3>2, ChangedRow
  <2>1. TypeOK'
    BY <1>7, <2>a, AccountsAssumption
       DEF WriteSecret, WithSecret, TypeOK, AdminIsThere
  <2>2. AdminIsThere'
    BY <1>7, <2>a, AccountsAssumption
       DEF WriteSecret, WithSecret, AdminIsThere, TypeOK
  <2>3. NamesAreDone'
    BY <1>7, <2>a, AccountsAssumption
       DEF WriteSecret, WithSecret, NamesAreDone, TypeOK, AdminIsThere
  <2>4. PlacesFit'
    BY <1>7, <2>a, AccountsAssumption DEF WriteSecret, WithSecret, PlacesFit, TypeOK
  <2>5. OneAdministrator'
    BY <1>7, <2>a, AccountsAssumption
       DEF WriteSecret, WithSecret, OneAdministrator, TypeOK, AdminIsThere
  <2>6. UsedIsGone'
    BY <1>7, <2>a, AccountsAssumption
       DEF WriteSecret, WithSecret, UsedIsGone, TypeOK, NamesAreDone, PlacesFit
  <2>7. UsedOnce'
    BY <1>7, <2>a, AccountsAssumption
       DEF WriteSecret, WithSecret, UsedOnce, TypeOK, UsedIsGone, PlacesFit
  <2>8. FactorHasSecret'
    BY <1>7, <2>a, AccountsAssumption
       DEF WriteSecret, WithSecret, FactorHasSecret, TypeOK, AdminIsThere
  <2>9. EnablingIsConfirmed'
    BY <1>7, <2>a, AccountsAssumption
       DEF WriteSecret, WithSecret, EnablingIsConfirmed, TypeOK, AdminIsThere,
           PlacesFit
  <2>10. FactorIsConfirmed'
    BY <1>7, <2>a, AccountsAssumption
       DEF WriteSecret, WithSecret, FactorIsConfirmed, TypeOK, AdminIsThere,
           EnablingIsConfirmed
  <2>11. CallbacksAreBound'
    BY <1>7, <2>a, AccountsAssumption
       DEF WriteSecret, WithSecret, CallbacksAreBound, TypeOK, AdminIsThere,
           PlacesFit, NamesAreDone
  <2>12. SessionsOfTheBound'
    BY <1>7, <2>a, AccountsAssumption
       DEF WriteSecret, WithSecret, SessionsOfTheBound, TypeOK,
           CallbacksAreBound, AdminIsThere
  <2>13. LoginsSawThePassword'
    BY <1>7, <2>a, AccountsAssumption
       DEF WriteSecret, WithSecret, LoginsSawThePassword, TypeOK, AdminIsThere,
           PlacesFit
  <2>14. PasswordEndsSessions'
    BY <1>7, <2>a, AccountsAssumption
       DEF WriteSecret, WithSecret, PasswordEndsSessions, TypeOK,
           LoginsSawThePassword, NamesAreDone, AdminIsThere
  <2> QED BY <2>1, <2>2, <2>3, <2>4, <2>5, <2>6, <2>7, <2>8, <2>9, <2>10, <2>11,
             <2>12, <2>13, <2>14
<1>8. CASE WriteEnabled(r)
  <2>a. admin' \in Row /\ admin' # None
    <3>1. admin \in Row BY <1>8 DEF WriteEnabled, TypeOK, AdminIsThere
    <3>2. admin' = [admin EXCEPT !.on = @ \/ admin.secret # None]
      BY <1>8 DEF WriteEnabled, Enabled
    <3>3. (admin.on \/ admin.secret # None) \in BOOLEAN OBVIOUS
    <3> QED BY <3>1, <3>2, <3>3, ChangedRow
  <2>1. TypeOK'
    BY <1>8, <2>a, AccountsAssumption
       DEF WriteEnabled, Enabled, TypeOK, AdminIsThere
  <2>2. AdminIsThere'
    BY <1>8, <2>a, AccountsAssumption
       DEF WriteEnabled, Enabled, AdminIsThere, TypeOK
  <2>3. NamesAreDone'
    BY <1>8, <2>a, AccountsAssumption
       DEF WriteEnabled, Enabled, NamesAreDone, TypeOK, AdminIsThere
  <2>4. PlacesFit'
    BY <1>8, <2>a, AccountsAssumption DEF WriteEnabled, Enabled, PlacesFit, TypeOK
  <2>5. OneAdministrator'
    BY <1>8, <2>a, AccountsAssumption
       DEF WriteEnabled, Enabled, OneAdministrator, TypeOK, AdminIsThere
  <2>6. UsedIsGone'
    BY <1>8, <2>a, AccountsAssumption
       DEF WriteEnabled, Enabled, UsedIsGone, TypeOK, NamesAreDone, PlacesFit
  <2>7. UsedOnce'
    BY <1>8, <2>a, AccountsAssumption
       DEF WriteEnabled, Enabled, UsedOnce, TypeOK, UsedIsGone, PlacesFit
  <2>8. FactorHasSecret'
    BY <1>8, <2>a, AccountsAssumption
       DEF WriteEnabled, Enabled, FactorHasSecret, TypeOK, AdminIsThere
  <2>9. EnablingIsConfirmed'
    BY <1>8, <2>a, AccountsAssumption
       DEF WriteEnabled, Enabled, EnablingIsConfirmed, TypeOK, AdminIsThere,
           PlacesFit
  <2>10. FactorIsConfirmed'
    BY <1>8, <2>a, AccountsAssumption
       DEF WriteEnabled, Enabled, FactorIsConfirmed, TypeOK, AdminIsThere,
           EnablingIsConfirmed
  <2>11. CallbacksAreBound'
    BY <1>8, <2>a, AccountsAssumption
       DEF WriteEnabled, Enabled, CallbacksAreBound, TypeOK, AdminIsThere,
           PlacesFit, NamesAreDone
  <2>12. SessionsOfTheBound'
    BY <1>8, <2>a, AccountsAssumption
       DEF WriteEnabled, Enabled, SessionsOfTheBound, TypeOK, CallbacksAreBound,
           AdminIsThere
  <2>13. LoginsSawThePassword'
    BY <1>8, <2>a, AccountsAssumption
       DEF WriteEnabled, Enabled, LoginsSawThePassword, TypeOK, AdminIsThere,
           PlacesFit
  <2>14. PasswordEndsSessions'
    BY <1>8, <2>a, AccountsAssumption
       DEF WriteEnabled, Enabled, PasswordEndsSessions, TypeOK,
           LoginsSawThePassword, NamesAreDone, AdminIsThere
  <2> QED BY <2>1, <2>2, <2>3, <2>4, <2>5, <2>6, <2>7, <2>8, <2>9, <2>10, <2>11,
             <2>12, <2>13, <2>14
<1>9. CASE WriteDisabled(r)
  <2>a. admin' \in Row /\ admin' # None
    <3>1. admin \in Row BY <1>9 DEF WriteDisabled, TypeOK, AdminIsThere
    <3>2. admin' = [admin EXCEPT !.secret = None, !.on = FALSE]
      BY <1>9 DEF WriteDisabled
    <3> QED BY <3>1, <3>2, ChangedRow
  <2>1. TypeOK'
    BY <1>9, <2>a, AccountsAssumption DEF WriteDisabled, TypeOK, AdminIsThere
  <2>2. AdminIsThere'
    BY <1>9, <2>a, AccountsAssumption DEF WriteDisabled, AdminIsThere, TypeOK
  <2>3. NamesAreDone'
    BY <1>9, <2>a, AccountsAssumption
       DEF WriteDisabled, NamesAreDone, TypeOK, AdminIsThere
  <2>4. PlacesFit'
    BY <1>9, <2>a, AccountsAssumption DEF WriteDisabled, PlacesFit, TypeOK
  <2>5. OneAdministrator'
    BY <1>9, <2>a, AccountsAssumption
       DEF WriteDisabled, OneAdministrator, TypeOK, AdminIsThere
  <2>6. UsedIsGone'
    BY <1>9, <2>a, AccountsAssumption
       DEF WriteDisabled, UsedIsGone, TypeOK, NamesAreDone, PlacesFit
  <2>7. UsedOnce'
    BY <1>9, <2>a, AccountsAssumption
       DEF WriteDisabled, UsedOnce, TypeOK, UsedIsGone, PlacesFit
  <2>8. FactorHasSecret'
    BY <1>9, <2>a, AccountsAssumption
       DEF WriteDisabled, FactorHasSecret, TypeOK, AdminIsThere
  <2>9. EnablingIsConfirmed'
    BY <1>9, <2>a, AccountsAssumption
       DEF WriteDisabled, EnablingIsConfirmed, TypeOK, AdminIsThere, PlacesFit
  <2>10. FactorIsConfirmed'
    BY <1>9, <2>a, AccountsAssumption
       DEF WriteDisabled, FactorIsConfirmed, TypeOK, AdminIsThere,
           EnablingIsConfirmed
  <2>11. CallbacksAreBound'
    BY <1>9, <2>a, AccountsAssumption
       DEF WriteDisabled, CallbacksAreBound, TypeOK, AdminIsThere, PlacesFit,
           NamesAreDone
  <2>12. SessionsOfTheBound'
    BY <1>9, <2>a, AccountsAssumption
       DEF WriteDisabled, SessionsOfTheBound, TypeOK, CallbacksAreBound,
           AdminIsThere
  <2>13. LoginsSawThePassword'
    BY <1>9, <2>a, AccountsAssumption
       DEF WriteDisabled, LoginsSawThePassword, TypeOK, AdminIsThere, PlacesFit
  <2>14. PasswordEndsSessions'
    BY <1>9, <2>a, AccountsAssumption
       DEF WriteDisabled, PasswordEndsSessions, TypeOK, LoginsSawThePassword,
           NamesAreDone, AdminIsThere
  <2> QED BY <2>1, <2>2, <2>3, <2>4, <2>5, <2>6, <2>7, <2>8, <2>9, <2>10, <2>11,
             <2>12, <2>13, <2>14
<1>10. CASE Logout(r)
  BY <1>10, AccountsAssumption, SMTT(60)
     DEF Logout, TypeOK, AdminIsThere, NamesAreDone, PlacesFit, OneAdministrator,
         UsedIsGone, UsedOnce, FactorHasSecret, EnablingIsConfirmed,
         FactorIsConfirmed, CallbacksAreBound, SessionsOfTheBound,
         LoginsSawThePassword, PasswordEndsSessions
<1>11. CASE IssueSession(r)
  BY <1>11, AccountsAssumption, SMTT(60)
     DEF IssueSession, TypeOK, AdminIsThere, NamesAreDone, PlacesFit,
         OneAdministrator, UsedIsGone, UsedOnce, FactorHasSecret,
         EnablingIsConfirmed, FactorIsConfirmed, CallbacksAreBound,
         SessionsOfTheBound, LoginsSawThePassword, PasswordEndsSessions
<1>12. CASE StartLogin(r)
  BY <1>12, AccountsAssumption, SMTT(60)
     DEF StartLogin, TypeOK, AdminIsThere, NamesAreDone, PlacesFit,
         OneAdministrator, UsedIsGone, UsedOnce, FactorHasSecret,
         EnablingIsConfirmed, FactorIsConfirmed, CallbacksAreBound,
         SessionsOfTheBound, LoginsSawThePassword, PasswordEndsSessions
<1>13. ASSUME NEW o \in states, RedeemState(r, o) PROVE AccountsInvariant'
  BY <1>13, AccountsAssumption, SMTT(60)
     DEF RedeemState, Redeemed, TypeOK, AdminIsThere, NamesAreDone, PlacesFit,
         OneAdministrator, UsedIsGone, UsedOnce, FactorHasSecret,
         EnablingIsConfirmed, FactorIsConfirmed, CallbacksAreBound,
         SessionsOfTheBound, LoginsSawThePassword, PasswordEndsSessions
<1>14. ASSUME NEW i \in Identity, Identify(r, i) PROVE AccountsInvariant'
  BY <1>14, AccountsAssumption, SMTT(60)
     DEF Identify, TypeOK, AdminIsThere, NamesAreDone, PlacesFit,
         OneAdministrator, UsedIsGone, UsedOnce, FactorHasSecret,
         EnablingIsConfirmed, FactorIsConfirmed, CallbacksAreBound,
         SessionsOfTheBound, LoginsSawThePassword, PasswordEndsSessions
<1>15. CASE Bind(r)
  <2>a. admin' \in Row /\ admin' # None
    BY <1>15, AccountsAssumption, RowAssumption
       DEF Bind, MayBind, TypeOK, AdminIsThere
  <2>1. TypeOK'
    BY <1>15, <2>a, AccountsAssumption DEF Bind, MayBind, TypeOK, AdminIsThere
  <2>2. AdminIsThere'
    BY <1>15, <2>a, AccountsAssumption DEF Bind, MayBind, AdminIsThere, TypeOK
  <2>3. NamesAreDone'
    BY <1>15, <2>a, AccountsAssumption
       DEF Bind, MayBind, NamesAreDone, TypeOK, AdminIsThere
  <2>4. PlacesFit'
    BY <1>15, <2>a, AccountsAssumption DEF Bind, MayBind, PlacesFit, TypeOK
  <2>5. OneAdministrator'
    BY <1>15, <2>a, AccountsAssumption
       DEF Bind, MayBind, OneAdministrator, TypeOK, AdminIsThere
  <2>6. UsedIsGone'
    BY <1>15, <2>a, AccountsAssumption
       DEF Bind, MayBind, UsedIsGone, TypeOK, NamesAreDone, PlacesFit
  <2>7. UsedOnce'
    BY <1>15, <2>a, AccountsAssumption
       DEF Bind, MayBind, UsedOnce, TypeOK, UsedIsGone, PlacesFit
  <2>8. FactorHasSecret'
    BY <1>15, <2>a, AccountsAssumption
       DEF Bind, MayBind, FactorHasSecret, TypeOK, AdminIsThere
  <2>9. EnablingIsConfirmed'
    BY <1>15, <2>a, AccountsAssumption
       DEF Bind, MayBind, EnablingIsConfirmed, TypeOK, AdminIsThere, PlacesFit
  <2>10. FactorIsConfirmed'
    BY <1>15, <2>a, AccountsAssumption
       DEF Bind, MayBind, FactorIsConfirmed, TypeOK, AdminIsThere,
           EnablingIsConfirmed
  <2>11. CallbacksAreBound'
    BY <1>15, <2>a, AccountsAssumption
       DEF Bind, MayBind, CallbacksAreBound, TypeOK, AdminIsThere, PlacesFit,
           NamesAreDone
  <2>12. SessionsOfTheBound'
    BY <1>15, <2>a, AccountsAssumption
       DEF Bind, MayBind, SessionsOfTheBound, TypeOK, CallbacksAreBound,
           AdminIsThere
  <2>13. LoginsSawThePassword'
    BY <1>15, <2>a, AccountsAssumption
       DEF Bind, MayBind, LoginsSawThePassword, TypeOK, AdminIsThere, PlacesFit
  <2>14. PasswordEndsSessions'
    BY <1>15, <2>a, AccountsAssumption
       DEF Bind, MayBind, PasswordEndsSessions, TypeOK, LoginsSawThePassword,
           NamesAreDone, AdminIsThere
  <2> QED BY <2>1, <2>2, <2>3, <2>4, <2>5, <2>6, <2>7, <2>8, <2>9, <2>10, <2>11,
             <2>12, <2>13, <2>14
<1>16. CASE Refuse(r)
  BY <1>16, AccountsAssumption, SMTT(60)
     DEF Refuse, TypeOK, AdminIsThere, NamesAreDone, PlacesFit, OneAdministrator,
         UsedIsGone, UsedOnce, FactorHasSecret, EnablingIsConfirmed,
         FactorIsConfirmed, CallbacksAreBound, SessionsOfTheBound,
         LoginsSawThePassword, PasswordEndsSessions
<1> QED BY <1>1, <1>2, <1>3, <1>4, <1>5, <1>6, <1>7, <1>8, <1>9, <1>10, <1>11,
           <1>12, <1>13, <1>14, <1>15, <1>16 DEF RequestStep

\* So does every step of the system: requests, expiry and a new start.
LEMMA NextGood == AccountsInvariant /\ [Next]_vars => AccountsInvariant'
PROOF
<1> SUFFICES ASSUME AccountsInvariant, [Next]_vars PROVE AccountsInvariant'
  OBVIOUS
<1>1. CASE \E r \in Request : RequestStep(r)
  BY <1>1, StepGood
<1>2. ASSUME NEW n \in Name, Expire(n) PROVE AccountsInvariant'
  BY <1>2, AccountsAssumption
     DEF Expire, request, history, Name, Enabling, OpenedWith, AccountsInvariant,
         TypeOK, AdminIsThere, NamesAreDone,
         PlacesFit, OneAdministrator, UsedIsGone,
         UsedOnce, FactorHasSecret, EnablingIsConfirmed, FactorIsConfirmed,
         CallbacksAreBound, SessionsOfTheBound, LoginsSawThePassword,
         PasswordEndsSessions
<1>3. CASE Restart
  BY <1>3, AccountsAssumption
     DEF Restart, tables, history, Name, Places, Enabling, OpenedWith,
         AccountsInvariant, TypeOK, AdminIsThere, NamesAreDone,
         PlacesFit, OneAdministrator, UsedIsGone,
         UsedOnce, FactorHasSecret, EnablingIsConfirmed, FactorIsConfirmed,
         CallbacksAreBound, SessionsOfTheBound, LoginsSawThePassword,
         PasswordEndsSessions
<1>4. CASE UNCHANGED vars
  BY <1>4
     DEF vars, tables, request, history, Enabling, OpenedWith, AccountsInvariant,
         TypeOK, AdminIsThere, NamesAreDone,
         PlacesFit, OneAdministrator, UsedIsGone,
         UsedOnce, FactorHasSecret, EnablingIsConfirmed, FactorIsConfirmed,
         CallbacksAreBound, SessionsOfTheBound, LoginsSawThePassword,
         PasswordEndsSessions
<1> QED BY <1>1, <1>2, <1>3, <1>4 DEF Next

\* The invariant that the theorems below are read off: the properties and what
\* they need of places and names.
THEOREM AccountsInvariantHolds == Spec => []AccountsInvariant
PROOF
<1>1. Init => AccountsInvariant BY InitGood
<1>2. AccountsInvariant /\ [Next]_vars => AccountsInvariant' BY NextGood
<1> QED BY <1>1, <1>2, PTL DEF Spec

\* Every variable keeps its type, whatever requests overlap.
THEOREM AccountsTypeCorrect == Spec => []TypeOK
PROOF
  BY AccountsInvariantHolds, PTL DEF AccountsInvariant

\* However many set-ups run at once or after a restart, one administrator is made.
THEOREM AlwaysOneAdministrator == Spec => []OneAdministrator
PROOF
  BY AccountsInvariantHolds, PTL DEF AccountsInvariant

\* However many requests come with a recovery code or an OAuth state, it lets one
\* of them through.
THEOREM CodesAndStatesCountOnce == Spec => []UsedOnce
PROOF
  BY AccountsInvariantHolds, PTL DEF AccountsInvariant

\* No overlap of set-up, enabling and disabling leaves a second factor that is on
\* without a secret.
THEOREM FactorNeverLosesItsSecret == Spec => []FactorHasSecret
PROOF
  BY AccountsInvariantHolds, PTL DEF AccountsInvariant

\* A second factor that is on has a secret that was confirmed, or that was set
\* while another was being enabled.
THEOREM FactorStaysConfirmed == Spec => []FactorIsConfirmed
PROOF
  BY AccountsInvariantHolds, PTL DEF AccountsInvariant

\* Sessions opened through Pocket ID belong to the one identity that is bound.
THEOREM OnlyTheBoundHaveSessions == Spec => []SessionsOfTheBound
PROOF
  BY AccountsInvariantHolds, PTL DEF AccountsInvariant

\* A changed password leaves no session of the one before but the one that changed
\* it and those of logins that were under way.
THEOREM PasswordAlwaysEndsSessions == Spec => []PasswordEndsSessions
PROOF
  BY AccountsInvariantHolds, PTL DEF AccountsInvariant

================================================================================
