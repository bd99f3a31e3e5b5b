-------------------------- MODULE AdministrationProofs -------------------------
(* Theorems about Administration, for any number of requests.                 *)
EXTENDS Administration, TLAPS

\* What a request is going to write fits what it is for.
DraftsFit ==
    \A r \in Request :
        /\ pc[r] = "new" => seen[r] = None
        /\ pc[r] \in {"save", "cache", "flag"} => draft[r] \in Settings
        /\ pc[r] \in {"write", "answer"} =>
               /\ op[r] \in {"create", "edit", "rotate"}
               /\ draft[r] \in SourceRow /\ target[r] \in Name
               /\ op[r] \in {"edit", "rotate"} => seen[r] \in SourceRow

\* Nobody saves an enabled Pocket ID without a secret.
DraftsAreValid ==
    \A r \in Request : pc[r] \in {"save", "cache", "flag"} => Valid(draft[r])

\* While saves do not overlap, the three copies follow the one that is under way.
CopiesFollow ==
    ~mixed =>
        /\ \A q, r \in Request : Saving(q) /\ Saving(r) => q = r
        /\ \A r \in Request : pc[r] = "cache" => table = draft[r]
        /\ \A r \in Request : pc[r] = "flag" => table = draft[r] /\ cache = draft[r]

Known(c) ==
    c \in shown \cup cut \/ (c \in Request /\ pc[c] = "answer" /\ c \in Shows(c))

Credentials(s) == {s.token, s.hmac} \ {None}

\* What was stored or read is known or on its way; what is new will be shown by
\* the request that made it.
CredentialsKnown ==
    /\ \A n \in Name : source[n] # None =>
           \A c \in Credentials(source[n]) : Known(c)
    /\ \A r \in Request : pc[r] = "write" =>
           \A c \in Credentials(draft[r]) : Known(c) \/ (c = r /\ r \in Shows(r))

\* A token belongs to the source it was made for, and is in no row before the
\* request that made it has written.
Belongs(c, n) ==
    IF c = Earlier THEN n = Earlier
                   ELSE pc[c] \in {"answer", "done"} /\ target[c] = n

TokensBelong ==
    /\ \A n \in Name : source[n] # None => Belongs(source[n].token, n)
    /\ \A c \in void : c = Earlier \/ pc[c] \in {"answer", "done"}
    /\ \A r \in Request : pc[r] = "write" =>
           /\ op[r] = "create" => seen[r] = None /\ target[r] = r
           /\ op[r] # "create" => Belongs(seen[r].token, target[r])
           /\ draft[r].token = IF op[r] = "edit" THEN seen[r].token ELSE r

AdministrationInvariant ==
    /\ TypeOK /\ DraftsFit
    /\ DraftsAreValid /\ EnabledIsConfigured
    /\ CopiesFollow /\ SettingsAgree
    /\ CredentialsKnown
    /\ TokensBelong /\ VoidTokensStayVoid

--------------------------------------------------------------------------------

\* What requests before have left satisfies the invariant.
LEMMA InitGood == Init => AdministrationInvariant
PROOF
<1> SUFFICES ASSUME Init PROVE AdministrationInvariant
  OBVIOUS
<1> USE AdministrationAssumption, RecordAssumption DEF Name
<1>a. PICK h \in {Earlier, None} :
         source = [n \in Name |-> IF n = Earlier
                                 THEN [token |-> n, hmac |-> h, rest |-> n]
                                 ELSE None]
  BY DEF Init
<1>b. \A n \in Name : source[n] # None => n = Earlier /\ source[n].token = Earlier
                                       /\ source[n].hmac \in {Earlier, None}
  BY <1>a
<1>c. source \in [Name -> SourceRow \cup {None}]
  <2>1. [token |-> Earlier, hmac |-> h, rest |-> Earlier] \in SourceRow
    BY <1>a DEF SourceRow
  <2> QED BY <1>a, <2>1
<1> USE <1>b, <1>c DEF Init
<1>1. TypeOK BY DEF TypeOK, Places, Settings
<1>2. DraftsFit BY DEF DraftsFit
<1>3. DraftsAreValid BY DEF DraftsAreValid
<1>4. EnabledIsConfigured BY DEF EnabledIsConfigured
<1>5. CopiesFollow BY DEF CopiesFollow, Saving
<1>6. SettingsAgree BY DEF SettingsAgree, Saving
<1>7. CredentialsKnown BY DEF CredentialsKnown, Known, Credentials
<1>8. TokensBelong BY DEF TokensBelong, Belongs
<1>9. VoidTokensStayVoid BY DEF VoidTokensStayVoid
<1> QED
  BY <1>1, <1>2, <1>3, <1>4, <1>5, <1>6, <1>7, <1>8, <1>9
     DEF AdministrationInvariant

\* Every step of a request preserves the invariant.
LEMMA StepGood ==
    ASSUME AdministrationInvariant, NEW r \in Request, RequestStep(r)
    PROVE  AdministrationInvariant'
PROOF
<1> USE AdministrationAssumption, RecordAssumption
    DEF AdministrationInvariant, Goes, stores, request, history, Name, Places,
        Settings, SourceRow, Saving
<1>1. CASE ReadSettings(r)
  <2>1. TypeOK'
    BY <1>1 DEF ReadSettings, Requested, TypeOK, DraftsFit
  <2>2. DraftsFit'
    BY <1>1 DEF ReadSettings, Requested, DraftsFit, TypeOK
  <2>3. DraftsAreValid'
    BY <1>1 DEF ReadSettings, Requested, DraftsAreValid, TypeOK, Valid
  <2>4. EnabledIsConfigured'
    BY <1>1
       DEF ReadSettings, Requested, EnabledIsConfigured, TypeOK, DraftsAreValid,
           Valid
  <2>5. CopiesFollow'
    BY <1>1 DEF ReadSettings, Requested, CopiesFollow, TypeOK, SettingsAgree
  <2>6. SettingsAgree'
    BY <1>1 DEF ReadSettings, Requested, SettingsAgree, TypeOK, CopiesFollow
  <2>7. CredentialsKnown'
    BY <1>1
       DEF ReadSettings, Requested, CredentialsKnown, TypeOK, DraftsFit, Known,
           Credentials, Shows
  <2>8. TokensBelong'
    BY <1>1 DEF ReadSettings, Requested, TokensBelong, TypeOK, DraftsFit, Belongs
  <2>9. VoidTokensStayVoid'
    BY <1>1
       DEF ReadSettings, Requested, VoidTokensStayVoid, TypeOK, TokensBelong,
           Belongs, DraftsFit
  <2> QED BY <2>1, <2>2, <2>3, <2>4, <2>5, <2>6, <2>7, <2>8, <2>9
<1>2. CASE SaveTable(r)
  <2>1. TypeOK'
    BY <1>2 DEF SaveTable, Saved, TypeOK, DraftsFit
  <2>2. DraftsFit'
    BY <1>2 DEF SaveTable, Saved, DraftsFit, TypeOK
  <2>3. DraftsAreValid'
    BY <1>2 DEF SaveTable, Saved, DraftsAreValid, TypeOK, Valid
  <2>4. EnabledIsConfigured'
    <3>1. Valid(draft[r]) BY <1>2 DEF SaveTable, DraftsAreValid
    <3>2. table' = draft[r] /\ cache' = cache BY <1>2 DEF SaveTable, Saved
    <3> QED BY <3>1, <3>2 DEF EnabledIsConfigured, Valid
  <2>5. CopiesFollow'
    <3>1. /\ table' = draft[r] /\ cache' = cache /\ draft' = draft
          /\ pc' = [pc EXCEPT ![r] = "cache"] /\ pc \in [Request -> Places]
          /\ mixed' = (mixed \/ \E q \in Request : Saving(q))
      BY <1>2 DEF SaveTable, Saved, TypeOK
    <3>2. \A q \in Request : q # r => pc'[q] = pc[q]
      BY <3>1
    <3>3. pc'[r] = "cache"
      BY <3>1
    <3> QED BY <3>1, <3>2, <3>3 DEF CopiesFollow
  <2>6. SettingsAgree'
    BY <1>2 DEF SaveTable, Saved, SettingsAgree, TypeOK, CopiesFollow
  <2>7. CredentialsKnown'
    BY <1>2
       DEF SaveTable, Saved, CredentialsKnown, TypeOK, DraftsFit, Known,
           Credentials, Shows
  <2>8. TokensBelong'
    BY <1>2 DEF SaveTable, Saved, TokensBelong, TypeOK, DraftsFit, Belongs
  <2>9. VoidTokensStayVoid'
    BY <1>2
       DEF SaveTable, Saved, VoidTokensStayVoid, TypeOK, TokensBelong, Belongs,
           DraftsFit
  <2> QED BY <2>1, <2>2, <2>3, <2>4, <2>5, <2>6, <2>7, <2>8, <2>9
<1>3. CASE StoreCache(r)
  <2>1. TypeOK'
    BY <1>3 DEF StoreCache, TypeOK, DraftsFit
  <2>2. DraftsFit'
    BY <1>3 DEF StoreCache, DraftsFit, TypeOK
  <2>3. DraftsAreValid'
    BY <1>3 DEF StoreCache, DraftsAreValid, TypeOK, Valid
  <2>4. EnabledIsConfigured'
    BY <1>3 DEF StoreCache, EnabledIsConfigured, TypeOK, DraftsAreValid, Valid
  <2>5. CopiesFollow'
    BY <1>3 DEF StoreCache, CopiesFollow, TypeOK, SettingsAgree
  <2>6. SettingsAgree'
    BY <1>3 DEF StoreCache, SettingsAgree, TypeOK, CopiesFollow
  <2>7. CredentialsKnown'
    BY <1>3
       DEF StoreCache, CredentialsKnown, TypeOK, DraftsFit, Known, Credentials,
           Shows
  <2>8. TokensBelong'
    BY <1>3 DEF StoreCache, TokensBelong, TypeOK, DraftsFit, Belongs
  <2>9. VoidTokensStayVoid'
    BY <1>3
       DEF StoreCache, VoidTokensStayVoid, TypeOK, TokensBelong, Belongs,
           DraftsFit
  <2> QED BY <2>1, <2>2, <2>3, <2>4, <2>5, <2>6, <2>7, <2>8, <2>9
<1>4. CASE SetFlag(r)
  <2>1. TypeOK'
    BY <1>4 DEF SetFlag, TypeOK, DraftsFit
  <2>2. DraftsFit'
    BY <1>4 DEF SetFlag, DraftsFit, TypeOK
  <2>3. DraftsAreValid'
    BY <1>4 DEF SetFlag, DraftsAreValid, TypeOK, Valid
  <2>4. EnabledIsConfigured'
    BY <1>4 DEF SetFlag, EnabledIsConfigured, TypeOK, DraftsAreValid, Valid
  <2>5. CopiesFollow'
    BY <1>4 DEF SetFlag, CopiesFollow, TypeOK, SettingsAgree
  <2>6. SettingsAgree'
    BY <1>4 DEF SetFlag, SettingsAgree, TypeOK, CopiesFollow
  <2>7. CredentialsKnown'
    BY <1>4
       DEF SetFlag, CredentialsKnown, TypeOK, DraftsFit, Known, Credentials,
           Shows
  <2>8. TokensBelong'
    BY <1>4 DEF SetFlag, TokensBelong, TypeOK, DraftsFit, Belongs
  <2>9. VoidTokensStayVoid'
    BY <1>4
       DEF SetFlag, VoidTokensStayVoid, TypeOK, TokensBelong, Belongs, DraftsFit
  <2> QED BY <2>1, <2>2, <2>3, <2>4, <2>5, <2>6, <2>7, <2>8, <2>9
<1>5. CASE CreateSource(r)
  <2>1. TypeOK'
    BY <1>5 DEF CreateSource, TypeOK, DraftsFit
  <2>2. DraftsFit'
    BY <1>5 DEF CreateSource, DraftsFit, TypeOK
  <2>3. DraftsAreValid'
    BY <1>5 DEF CreateSource, DraftsAreValid, TypeOK, Valid
  <2>4. EnabledIsConfigured'
    BY <1>5 DEF CreateSource, EnabledIsConfigured, TypeOK, DraftsAreValid, Valid
  <2>5. CopiesFollow'
    BY <1>5 DEF CreateSource, CopiesFollow, TypeOK, SettingsAgree
  <2>6. SettingsAgree'
    BY <1>5 DEF CreateSource, SettingsAgree, TypeOK, CopiesFollow
  <2>7. CredentialsKnown'
    BY <1>5
       DEF CreateSource, CredentialsKnown, TypeOK, DraftsFit, Known, Credentials,
           Shows
  <2>8. TokensBelong'
    BY <1>5 DEF CreateSource, TokensBelong, TypeOK, DraftsFit, Belongs
  <2>9. VoidTokensStayVoid'
    BY <1>5
       DEF CreateSource, VoidTokensStayVoid, TypeOK, TokensBelong, Belongs,
           DraftsFit
  <2> QED BY <2>1, <2>2, <2>3, <2>4, <2>5, <2>6, <2>7, <2>8, <2>9
<1>6. ASSUME NEW n \in Name, ReadSource(r, n) PROVE AdministrationInvariant'
  <2>a. PICK d \in SourceRow :
            /\ draft' = [draft EXCEPT ![r] = d]
            /\ d.token = IF op[r] = "edit" THEN source[n].token ELSE r
            /\ op[r] = "rotate" => d.hmac = source[n].hmac
            /\ op[r] = "edit" =>
                 d.hmac \in {None, IF source[n].hmac = None THEN r ELSE source[n].hmac}
    <3>1. source[n] \in SourceRow BY <1>6 DEF ReadSource, TypeOK
    <3>2. CASE op[r] = "edit"
      <4>1. PICK d \in Edited(r, source[n]) : draft' = [draft EXCEPT ![r] = d]
        BY <1>6, <3>2 DEF ReadSource
      <4>2. PICK h \in Secrets(r, source[n]) :
                d = [source[n] EXCEPT !.hmac = h, !.rest = r]
        BY <4>1 DEF Edited
      <4>3. h \in {None, IF source[n].hmac = None THEN r ELSE source[n].hmac}
        BY <4>2 DEF Secrets
      <4>4. d \in SourceRow /\ d.token = source[n].token /\ d.hmac = h
        BY <3>1, <4>2, <4>3
      <4> QED BY <3>2, <4>1, <4>3, <4>4
    <3>3. CASE op[r] = "rotate"
      BY <1>6, <3>1, <3>3 DEF ReadSource, Rotated
    <3> QED BY <1>6, <3>2, <3>3 DEF ReadSource
  <2>b. /\ pc[r] = "new" /\ op[r] \in {"edit", "rotate"}
        /\ source[n] \in SourceRow /\ source[n] # None
        /\ target' = [target EXCEPT ![r] = n]
        /\ seen' = [seen EXCEPT ![r] = source[n]]
        /\ pc' = [pc EXCEPT ![r] = "write"]
        /\ UNCHANGED <<stores, op, history>>
    BY <1>6 DEF ReadSource, TypeOK
  <2>1. TypeOK'
    BY <2>a, <2>b DEF TypeOK, DraftsFit
  <2>2. DraftsFit'
    BY <2>a, <2>b DEF DraftsFit, TypeOK
  <2>3. DraftsAreValid'
    BY <2>a, <2>b DEF DraftsAreValid, TypeOK, Valid
  <2>4. EnabledIsConfigured'
    BY <2>a, <2>b DEF EnabledIsConfigured, TypeOK, DraftsAreValid, Valid
  <2>5. CopiesFollow'
    BY <2>a, <2>b DEF CopiesFollow, TypeOK, SettingsAgree
  <2>6. SettingsAgree'
    BY <2>a, <2>b DEF SettingsAgree, TypeOK, CopiesFollow
  <2>7. CredentialsKnown'
    BY <2>a, <2>b DEF CredentialsKnown, TypeOK, DraftsFit, Known, Credentials, Shows
  <2>8. TokensBelong'
    BY <2>a, <2>b DEF TokensBelong, TypeOK, DraftsFit, Belongs
  <2>9. VoidTokensStayVoid'
    BY <2>a, <2>b DEF VoidTokensStayVoid, TypeOK, TokensBelong, Belongs, DraftsFit
  <2> QED BY <2>1, <2>2, <2>3, <2>4, <2>5, <2>6, <2>7, <2>8, <2>9
<1>7. CASE WriteSource(r)
  <2>1. TypeOK'
    BY <1>7 DEF WriteSource, TypeOK, DraftsFit
  <2>2. DraftsFit'
    BY <1>7 DEF WriteSource, DraftsFit, TypeOK
  <2>3. DraftsAreValid'
    BY <1>7 DEF WriteSource, DraftsAreValid, TypeOK, Valid
  <2>4. EnabledIsConfigured'
    BY <1>7 DEF WriteSource, EnabledIsConfigured, TypeOK, DraftsAreValid, Valid
  <2>5. CopiesFollow'
    BY <1>7 DEF WriteSource, CopiesFollow, TypeOK, SettingsAgree
  <2>6. SettingsAgree'
    BY <1>7 DEF WriteSource, SettingsAgree, TypeOK, CopiesFollow
  <2>7. CredentialsKnown'
    BY <1>7
       DEF WriteSource, CredentialsKnown, TypeOK, DraftsFit, Known, Credentials,
           Shows
  <2>8. TokensBelong'
    BY <1>7 DEF WriteSource, TokensBelong, TypeOK, DraftsFit, Belongs
  <2>9. VoidTokensStayVoid'
    <3> SUFFICES ASSUME stale' = {}, NEW m \in Name, source'[m] # None
                 PROVE  source'[m].token \notin void'
      BY DEF VoidTokensStayVoid
    <3>1. /\ stale = {} /\ source[target[r]] = seen[r]
          /\ pc[r] = "write" /\ target[r] \in Name
          /\ source' = [source EXCEPT ![target[r]] = draft[r]]
          /\ void' = IF op[r] = "rotate" THEN void \cup {seen[r].token} ELSE void
      BY <1>7 DEF WriteSource, DraftsFit
    <3>2. r \notin void /\ (op[r] # "create" => r # seen[r].token)
      BY <3>1, <1>7 DEF TokensBelong, Belongs
    <3>3. CASE m = target[r]
      <4>1. source'[m] = draft[r] BY <3>1, <3>3 DEF TypeOK
      <4>2. CASE op[r] = "edit"
        <5>1. seen[r] # None BY <3>1, <4>2 DEF DraftsFit
        <5>2. seen[r].token \notin void BY <3>1, <5>1 DEF VoidTokensStayVoid
        <5> QED BY <3>1, <4>1, <4>2, <5>2 DEF TokensBelong
      <4>3. CASE op[r] # "edit"
        BY <3>1, <3>2, <4>1, <4>3 DEF TokensBelong
      <4> QED BY <4>2, <4>3
    <3>4. CASE m # target[r]
      <4>1. source'[m] = source[m] /\ source[m] # None
        BY <3>1, <3>4 DEF TypeOK
      <4>2. source[m].token \notin void /\ Belongs(source[m].token, m)
        BY <3>1, <4>1 DEF VoidTokensStayVoid, TokensBelong
      <4>3. op[r] # "create" => source[m].token # seen[r].token
        BY <3>1, <3>4, <4>2 DEF TokensBelong, Belongs
      <4> QED BY <3>1, <4>1, <4>2, <4>3
    <3> QED BY <3>3, <3>4
  <2> QED BY <2>1, <2>2, <2>3, <2>4, <2>5, <2>6, <2>7, <2>8, <2>9
<1>8. CASE Answer(r)
  <2>1. TypeOK'
    BY <1>8 DEF Answer, Shows, TypeOK, DraftsFit
  <2>2. DraftsFit'
    BY <1>8 DEF Answer, Shows, DraftsFit, TypeOK
  <2>3. DraftsAreValid'
    BY <1>8 DEF Answer, Shows, DraftsAreValid, TypeOK, Valid
  <2>4. EnabledIsConfigured'
    BY <1>8 DEF Answer, Shows, EnabledIsConfigured, TypeOK, DraftsAreValid, Valid
  <2>5. CopiesFollow'
    BY <1>8 DEF Answer, Shows, CopiesFollow, TypeOK, SettingsAgree
  <2>6. SettingsAgree'
    BY <1>8 DEF Answer, Shows, SettingsAgree, TypeOK, CopiesFollow
  <2>7. CredentialsKnown'
    BY <1>8
       DEF Answer, Shows, CredentialsKnown, TypeOK, DraftsFit, Known,
           Credentials, Shows
  <2>8. TokensBelong'
    BY <1>8 DEF Answer, Shows, TokensBelong, TypeOK, DraftsFit, Belongs
  <2>9. VoidTokensStayVoid'
    BY <1>8
       DEF Answer, Shows, VoidTokensStayVoid, TypeOK, TokensBelong, Belongs,
           DraftsFit
  <2> QED BY <2>1, <2>2, <2>3, <2>4, <2>5, <2>6, <2>7, <2>8, <2>9
<1>9. CASE LoseAnswer(r)
  <2>1. TypeOK'
    BY <1>9 DEF LoseAnswer, TypeOK, DraftsFit
  <2>2. DraftsFit'
    BY <1>9 DEF LoseAnswer, DraftsFit, TypeOK
  <2>3. DraftsAreValid'
    BY <1>9 DEF LoseAnswer, DraftsAreValid, TypeOK, Valid
  <2>4. EnabledIsConfigured'
    BY <1>9 DEF LoseAnswer, EnabledIsConfigured, TypeOK, DraftsAreValid, Valid
  <2>5. CopiesFollow'
    BY <1>9 DEF LoseAnswer, CopiesFollow, TypeOK, SettingsAgree
  <2>6. SettingsAgree'
    BY <1>9 DEF LoseAnswer, SettingsAgree, TypeOK, CopiesFollow
  <2>7. CredentialsKnown'
    BY <1>9
       DEF LoseAnswer, CredentialsKnown, TypeOK, DraftsFit, Known, Credentials,
           Shows
  <2>8. TokensBelong'
    BY <1>9 DEF LoseAnswer, TokensBelong, TypeOK, DraftsFit, Belongs
  <2>9. VoidTokensStayVoid'
    BY <1>9
       DEF LoseAnswer, VoidTokensStayVoid, TypeOK, TokensBelong, Belongs,
           DraftsFit
  <2> QED BY <2>1, <2>2, <2>3, <2>4, <2>5, <2>6, <2>7, <2>8, <2>9
<1>10. ASSUME NEW n \in Name, DeleteSource(r, n) PROVE AdministrationInvariant'
  <2>1. TypeOK'
    BY <1>10 DEF DeleteSource, TypeOK, DraftsFit
  <2>2. DraftsFit'
    BY <1>10 DEF DeleteSource, DraftsFit, TypeOK
  <2>3. DraftsAreValid'
    BY <1>10 DEF DeleteSource, DraftsAreValid, TypeOK, Valid
  <2>4. EnabledIsConfigured'
    BY <1>10 DEF DeleteSource, EnabledIsConfigured, TypeOK, DraftsAreValid, Valid
  <2>5. CopiesFollow'
    BY <1>10 DEF DeleteSource, CopiesFollow, TypeOK, SettingsAgree
  <2>6. SettingsAgree'
    BY <1>10 DEF DeleteSource, SettingsAgree, TypeOK, CopiesFollow
  <2>7. CredentialsKnown'
    BY <1>10
       DEF DeleteSource, CredentialsKnown, TypeOK, DraftsFit, Known, Credentials,
           Shows
  <2>8. TokensBelong'
    BY <1>10 DEF DeleteSource, TokensBelong, TypeOK, DraftsFit, Belongs
  <2>9. VoidTokensStayVoid'
    BY <1>10
       DEF DeleteSource, VoidTokensStayVoid, TypeOK, TokensBelong, Belongs,
           DraftsFit
  <2> QED BY <2>1, <2>2, <2>3, <2>4, <2>5, <2>6, <2>7, <2>8, <2>9
<1>11. CASE Refuse(r)
  <2>1. TypeOK'
    BY <1>11 DEF Refuse, TypeOK, DraftsFit
  <2>2. DraftsFit'
    BY <1>11 DEF Refuse, DraftsFit, TypeOK
  <2>3. DraftsAreValid'
    BY <1>11 DEF Refuse, DraftsAreValid, TypeOK, Valid
  <2>4. EnabledIsConfigured'
    BY <1>11 DEF Refuse, EnabledIsConfigured, TypeOK, DraftsAreValid, Valid
  <2>5. CopiesFollow'
    BY <1>11 DEF Refuse, CopiesFollow, TypeOK, SettingsAgree
  <2>6. SettingsAgree'
    BY <1>11 DEF Refuse, SettingsAgree, TypeOK, CopiesFollow
  <2>7. CredentialsKnown'
    BY <1>11
       DEF Refuse, CredentialsKnown, TypeOK, DraftsFit, Known, Credentials,
           Shows
  <2>8. TokensBelong'
    BY <1>11 DEF Refuse, TokensBelong, TypeOK, DraftsFit, Belongs
  <2>9. VoidTokensStayVoid'
    BY <1>11
       DEF Refuse, VoidTokensStayVoid, TypeOK, TokensBelong, Belongs, DraftsFit
  <2> QED BY <2>1, <2>2, <2>3, <2>4, <2>5, <2>6, <2>7, <2>8, <2>9
<1> QED BY <1>1, <1>2, <1>3, <1>4, <1>5, <1>6, <1>7, <1>8, <1>9, <1>10, <1>11
           DEF RequestStep

\* So does every step of the system: requests and a new start.
LEMMA NextGood == AdministrationInvariant /\ [Next]_vars => AdministrationInvariant'
PROOF
<1> SUFFICES ASSUME AdministrationInvariant, [Next]_vars
             PROVE  AdministrationInvariant'
  OBVIOUS
<1>1. CASE \E r \in Request : RequestStep(r)
  BY <1>1, StepGood
<1>2. CASE Restart
  <2> USE <1>2, AdministrationAssumption
      DEF Restart, Reloaded, Name, Saving, AdministrationInvariant, TypeOK
  <2>1. TypeOK' BY DEF Places, Settings
  <2>2. DraftsFit' BY DEF DraftsFit
  <2>3. DraftsAreValid' /\ EnabledIsConfigured'
    BY DEF DraftsAreValid, EnabledIsConfigured, Valid
  <2>4. CopiesFollow' /\ SettingsAgree' BY DEF CopiesFollow, SettingsAgree
  <2>5. CredentialsKnown'
    BY DEF CredentialsKnown, Known, Credentials, Shows
  <2>6. TokensBelong' BY DEF TokensBelong, Belongs, SourceRow
  <2>7. VoidTokensStayVoid' BY DEF VoidTokensStayVoid
  <2> QED BY <2>1, <2>2, <2>3, <2>4, <2>5, <2>6, <2>7
<1>3. CASE UNCHANGED vars
  BY <1>3
     DEF vars, stores, request, history, AdministrationInvariant, TypeOK,
         DraftsFit, DraftsAreValid, EnabledIsConfigured, CopiesFollow, SettingsAgree, CredentialsKnown, Known,
         Credentials, Shows, TokensBelong, Belongs, VoidTokensStayVoid, Valid, Saving
<1> QED BY <1>1, <1>2, <1>3 DEF Next

\* The invariant that the theorems below are read off: the properties and what
\* they need of the requests under way.
THEOREM AdministrationInvariantHolds == Spec => []AdministrationInvariant
PROOF
<1>1. Init => AdministrationInvariant BY InitGood
<1>2. AdministrationInvariant /\ [Next]_vars => AdministrationInvariant' BY NextGood
<1> QED BY <1>1, <1>2, PTL DEF Spec

\* Credentials that are stored were shown, or their answer is on its way or lost.
LEMMA KnownIsShown == AdministrationInvariant => CredentialsWereShown
PROOF
  BY DEF AdministrationInvariant, CredentialsKnown, Known, Credentials,
         CredentialsWereShown

\* Every variable keeps its type, whatever requests overlap.
THEOREM AdministrationTypeCorrect == Spec => []TypeOK
PROOF
  BY AdministrationInvariantHolds, PTL DEF AdministrationInvariant

\* Between saves that do not overlap, what is in force is what is stored.
THEOREM SettingsAlwaysAgree == Spec => []SettingsAgree
PROOF
  BY AdministrationInvariantHolds, PTL DEF AdministrationInvariant

\* However saves overlap, Pocket ID is on only with a client secret.
THEOREM EnabledIsAlwaysConfigured == Spec => []EnabledIsConfigured
PROOF
  BY AdministrationInvariantHolds, PTL DEF AdministrationInvariant

\* Without a write of a source that had changed since it was read, no rotated or
\* deleted token is accepted again.
THEOREM TokensStayVoid == Spec => []VoidTokensStayVoid
PROOF
  BY AdministrationInvariantHolds, PTL DEF AdministrationInvariant

\* No token or signing secret is in force that the administrator was not shown.
THEOREM CredentialsAreAlwaysShown == Spec => []CredentialsWereShown
PROOF
  BY AdministrationInvariantHolds, KnownIsShown, PTL

================================================================================
