---------------------------- MODULE CommunityProofs ----------------------------
(***************************************************************************)
(* Proofs about Credentials, Membership, Profile, Chat and Notices, each   *)
(* with an inductive invariant of its own, and about all of them together, *)
(* for any number of users, rooms, pages and overlapping handlers.         *)
(***************************************************************************)
EXTENDS Community, DataTheorems, FiniteSetTheorems, SequenceTheorems, TLAPS

-----------------------------------------------------------------------------
(* Credentials.                                                             *)

\* A handler that has a token in its hands and may yet use it.
Holding(f) == form[f].step \in {"user", "lookup", "store"}

\* A token is at one place only: in a map, in the hands of one handler, or used.
TokenInv ==
  /\ \A w \in Purposes, e \in Emails :
       /\ tempMap[w][e].number <= handedOut
       /\ tempMap[w][e].number # 0 => redeemedBy[tempMap[w][e].number] = 0
  /\ \A w, x \in Purposes, e, d \in Emails :
       tempMap[w][e].number = tempMap[x][d].number /\ tempMap[w][e].number # 0 => w = x /\ e = d
  /\ \A f \in Forms : Holding(f) =>
       /\ form[f].token <= handedOut
       /\ redeemedBy[form[f].token] = 0
       /\ \A w \in Purposes, e \in Emails : tempMap[w][e].number # form[f].token
       /\ \A g \in Forms : Holding(g) /\ form[g].token = form[f].token => g = f
  /\ \A n \in 1..MaxTokens : redeemedBy[n] <= 1 /\ (n > handedOut => redeemedBy[n] = 0)

\* Whoever is registered has agreed, is about to, or the statement failed; nobody
\* asked who came from a social login.
ConsentInv ==
  \A e \in Emails : Registered(e) =>
    \/ agreed[e] = Required \/ e \in halfway \cup social
    \/ \E f \in Forms : form[f].step = "consents" /\ form[f].email = e

\* What is stored is what was typed, after a reset in lower case.
PasswordInv ==
  \A e \in Emails : HasPassword(e) =>
    /\ typed[e].as \in Passwords
    /\ \/ typed[e].by = "signup" /\ password[e] = typed[e].as
       \/ password[e] = Lower[typed[e].as]

\* A new password is stored for who is registered.
StoreInv == \A f \in Forms : form[f].step = "store" => Registered(form[f].email)

CredInv == CredTypeOK /\ TokenInv /\ ConsentInv /\ PasswordInv /\ StoreInv
-----------------------------------------------------------------------------
\* What a running handler has in its hands.
LEMMA FormKinds ==
  ASSUME CredInv, NEW f \in Forms
  PROVE  /\ form[f].step = "mail" => form[f] \in MailForms
         /\ form[f].step \in {"user", "consents", "lookup", "store"} =>
              /\ form[f] \in UserForms /\ form[f].token \in 1..MaxTokens
              /\ form[f].email \in Emails /\ form[f].typed \in Passwords
PROOF
  <1>1. form[f] \in {IdleForm} \/ form[f] \in MailForms \/ form[f] \in UserForms
    BY DEF CredInv, CredTypeOK
  <1>2. CASE form[f] \in {IdleForm}
    BY <1>2 DEF IdleForm
  <1>3. CASE form[f] \in MailForms
    BY <1>3 DEF MailForms
  <1>4. CASE form[f] \in UserForms
    BY <1>4 DEF UserForms
  <1> QED BY <1>1, <1>2, <1>3, <1>4

LEMMA CredInitInv == CredInit => CredInv
PROOF
  BY CredentialsAssumption
  DEF CredentialsAssumption, CredInit, CredInv, CredTypeOK, TokenInv, ConsentInv, PasswordInv,
      StoreInv, Holding, Registered, HasPassword, IdleForm, NoToken0, Purposes

\* Codes are sent and mailed; no token, account or registration is touched.
LEMMA CodeStep ==
  ASSUME CredInv, NEW f \in Forms, NEW w \in Purposes, NEW e \in Emails, NEW c \in Codes,
         SendCode(f, w, e, c) \/ \E ok \in BOOLEAN : MailCode(f, ok)
  PROVE  CredInv'
PROOF
  <1>1. UNCHANGED <<accountVars, tempMap, handedOut>>
    BY DEF SendCode, MailCode
  <1>2. PICK r \in {IdleForm} \cup MailForms :
          /\ form' = [form EXCEPT ![f] = r] /\ ~ Holding(f) /\ form[f].step # "consents"
    BY DEF SendCode, MailCode, OpenForm, CloseForm, Holding, IdleForm, MailForms
  <1>3. r.step \in {"idle", "mail"}
    BY <1>2 DEF IdleForm, MailForms
  <1>4. form' \in [Forms -> {IdleForm} \cup MailForms \cup UserForms]
    BY <1>2 DEF CredInv, CredTypeOK
  <1>5. codeMap' \in [Purposes -> [Emails -> Codes \cup {NoCode}]]
    <2>1. CASE SendCode(f, w, e, c)
      BY <2>1 DEF SendCode, CredInv, CredTypeOK
    <2>2. CASE \E ok \in BOOLEAN : MailCode(f, ok)
      BY <2>2 DEF MailCode, CredInv, CredTypeOK
    <2> QED BY <2>1, <2>2
  <1>6. inbox' \in [Purposes -> [Emails -> SUBSET Codes]]
    <2>1. CASE SendCode(f, w, e, c)
      BY <2>1 DEF SendCode, CredInv, CredTypeOK
    <2>2. ASSUME NEW ok \in BOOLEAN, MailCode(f, ok)
          PROVE  inbox' \in [Purposes -> [Emails -> SUBSET Codes]]
      <3>1. form[f] \in MailForms
        BY <2>2, FormKinds DEF MailCode
      <3> QED BY <2>2, <3>1 DEF MailCode, MailForms, CredInv, CredTypeOK
    <2> QED BY <2>1, <2>2
  <1>7. CredTypeOK'
    BY <1>1, <1>4, <1>5, <1>6 DEF CredInv, CredTypeOK, accountVars
  <1>8. \A g \in Forms : form'[g].step \notin {"idle", "mail"} => form'[g] = form[g]
    BY <1>2, <1>3 DEF CredInv, CredTypeOK
  <1>9. \A g \in Forms : form[g].step = "consents" => form'[g] = form[g]
    BY <1>2 DEF CredInv, CredTypeOK
  <1>10. TokenInv'
    BY <1>1, <1>8 DEF CredInv, TokenInv, Holding, accountVars
  <1>11. ConsentInv' /\ PasswordInv' /\ StoreInv'
    BY <1>1, <1>8, <1>9 DEF CredInv, ConsentInv, PasswordInv, StoreInv, Registered, HasPassword, accountVars
  <1> QED BY <1>7, <1>10, <1>11 DEF CredInv

\* A code is exchanged for a token that nobody had before.
LEMMA TokenMade ==
  ASSUME CredInv, NEW w \in Purposes, NEW e \in Emails, NEW c \in Codes, EnterCode(w, e, c)
  PROVE  CredInv'
PROOF
  <1> USE CredentialsAssumption DEF CredentialsAssumption
  <1>1. UNCHANGED <<accountVars, inbox, form>> /\ handedOut' = handedOut + 1
        /\ handedOut < MaxTokens /\ handedOut \in Nat
    BY DEF EnterCode, PutToken, CredInv, CredTypeOK
  <1>2. PICK n \in 1..MaxTokens : n = handedOut + 1
    BY <1>1
  <1>3. tempMap' = [tempMap EXCEPT ![w][e] = [number |-> n, life |-> TempTTL]]
    BY <1>2 DEF EnterCode, PutToken
  <1>4. tempMap' \in [Purposes -> [Emails -> [number : 0..MaxTokens, life : 0..TempTTL]]]
    BY <1>3 DEF CredInv, CredTypeOK
  <1>5. /\ tempMap'[w][e].number = n
        /\ \A x \in Purposes, d \in Emails :
             ~ (x = w /\ d = e) => tempMap'[x][d] = tempMap[x][d]
    BY <1>3 DEF CredInv, CredTypeOK
  <1>6. codeMap' \in [Purposes -> [Emails -> Codes \cup {NoCode}]]
    BY DEF EnterCode, CredInv, CredTypeOK
  <1>7. CredTypeOK'
    BY <1>1, <1>4, <1>6 DEF CredInv, CredTypeOK, accountVars
  <1>8. \A x \in Purposes, d \in Emails : tempMap[x][d].number \in 0..MaxTokens
    BY DEF CredInv, CredTypeOK
  <1>9. TokenInv'
    <2>1. /\ \A x \in Purposes, d \in Emails :
               /\ tempMap'[x][d].number <= handedOut'
               /\ tempMap'[x][d].number # 0 => redeemedBy'[tempMap'[x][d].number] = 0
      BY <1>1, <1>2, <1>5, <1>8 DEF CredInv, TokenInv, accountVars
    <2>2. \A x, y \in Purposes, d, b \in Emails :
            tempMap'[x][d].number = tempMap'[y][b].number /\ tempMap'[x][d].number # 0
              => x = y /\ d = b
      BY <1>1, <1>2, <1>5, <1>8 DEF CredInv, TokenInv
    <2>3. \A g \in Forms : Holding(g) => form[g].token \in 1..MaxTokens
      BY FormKinds DEF Holding
    <2>4. \A g \in Forms : Holding(g) =>
            /\ form[g].token <= handedOut'
            /\ \A x \in Purposes, d \in Emails : tempMap'[x][d].number # form[g].token
      BY <1>1, <1>2, <1>5, <2>3 DEF CredInv, TokenInv
    <2> QED BY <1>1, <2>1, <2>2, <2>4 DEF CredInv, TokenInv, Holding, accountVars
  <1>10. ConsentInv' /\ PasswordInv' /\ StoreInv'
    BY <1>1 DEF CredInv, ConsentInv, PasswordInv, StoreInv, Registered, HasPassword, accountVars
  <1> QED BY <1>7, <1>9, <1>10 DEF CredInv

\* Time passes, or a handler takes the token of an address out of its map.
LEMMA TokensAgeStep == ASSUME CredInv, TokensAge PROVE CredInv'
PROOF
  <1>1. \A w \in Purposes, e \in Emails :
          /\ tempMap[w][e] \in [number : 0..MaxTokens, life : 0..TempTTL]
          /\ tempMap'[w][e] = IF tempMap[w][e].life = 0 THEN tempMap[w][e]
                              ELSE [tempMap[w][e] EXCEPT !.life = @ - 1]
    BY DEF TokensAge, CredInv, CredTypeOK
  <1>2. \A w \in Purposes, e \in Emails :
          /\ tempMap'[w][e] \in [number : 0..MaxTokens, life : 0..TempTTL]
          /\ tempMap'[w][e].number = tempMap[w][e].number
    <2> SUFFICES ASSUME NEW w \in Purposes, NEW e \in Emails
                 PROVE  /\ tempMap'[w][e] \in [number : 0..MaxTokens, life : 0..TempTTL]
                        /\ tempMap'[w][e].number = tempMap[w][e].number
      OBVIOUS
    <2>1. PICK t \in [number : 0..MaxTokens, life : 0..TempTTL] : t = tempMap[w][e]
      BY <1>1
    <2>2. tempMap'[w][e] = IF t.life = 0 THEN t ELSE [t EXCEPT !.life = t.life - 1]
      BY <1>1, <2>1
    <2>3. t.life # 0 => t.life - 1 \in 0..TempTTL
      BY CredentialsAssumption DEF CredentialsAssumption
    <2> QED BY <2>1, <2>2, <2>3
  <1>3. tempMap' \in [Purposes -> [Emails -> [number : 0..MaxTokens, life : 0..TempTTL]]]
    <2>1. tempMap' = [w \in Purposes |-> [e \in Emails |-> tempMap'[w][e]]]
      BY DEF TokensAge
    <2> QED BY <1>2, <2>1
  <1>4. UNCHANGED <<accountVars, codeMap, inbox, form, handedOut>>
    BY DEF TokensAge
  <1>5. CredTypeOK'
    BY <1>3, <1>4 DEF CredInv, CredTypeOK, accountVars
  <1>6. TokenInv'
    BY <1>2, <1>4 DEF CredInv, TokenInv, Holding, accountVars
  <1> QED BY <1>4, <1>5, <1>6 DEF CredInv, ConsentInv, PasswordInv, StoreInv, Registered, HasPassword, accountVars

\* A token goes from its map into the hands of a handler, or is lost.
LEMMA TokenTaken ==
  ASSUME CredInv, NEW f \in Forms, NEW w \in Purposes, NEW e \in Emails,
         NEW s \in {"user", "lookup"}, NEW p \in Passwords,
         form[f] = IdleForm, TokenLives(w, e), DropToken(w, e),
         OpenForm(f, FilledIn(s, e, p, w)) \/ UNCHANGED form,
         UNCHANGED <<accountVars, codeMap, inbox, handedOut>>
  PROVE  CredInv'
PROOF
  <1>1. PICK n \in 1..MaxTokens : n = tempMap[w][e].number
    BY CredentialsAssumption DEF TokenLives, CredInv, CredTypeOK, CredentialsAssumption
  <1>2. /\ n <= handedOut /\ redeemedBy[n] = 0 /\ handedOut \in Nat
        /\ \A x \in Purposes, d \in Emails : tempMap[x][d].number = n => x = w /\ d = e
        /\ \A g \in Forms : Holding(g) => form[g].token # n
    BY <1>1 DEF CredInv, TokenInv, CredTypeOK
  <1>3. /\ tempMap' \in [Purposes -> [Emails -> [number : 0..MaxTokens, life : 0..TempTTL]]]
        /\ tempMap'[w][e].number = 0
        /\ \A x \in Purposes, d \in Emails :
             ~ (x = w /\ d = e) => tempMap'[x][d] = tempMap[x][d]
    BY CredentialsAssumption DEF DropToken, NoToken0, CredInv, CredTypeOK, CredentialsAssumption
  <1>4. \A x \in Purposes, d \in Emails :
          tempMap'[x][d].number \in {0, tempMap[x][d].number} /\ tempMap'[x][d].number # n
    BY <1>1, <1>2, <1>3
  <1>5. ~ Holding(f) /\ form[f].step # "consents"
    BY DEF Holding, IdleForm
  <1>6. PICK r \in {IdleForm} \cup UserForms :
          /\ form' = [form EXCEPT ![f] = r]
          /\ r # IdleForm => r.step \in {"user", "lookup"} /\ r.token = n
    <2>1. CASE OpenForm(f, FilledIn(s, e, p, w))
      BY <1>1, <2>1 DEF OpenForm, FilledIn, UserForms
    <2>2. CASE UNCHANGED form
      BY <2>2 DEF CredInv, CredTypeOK
    <2> QED BY <2>1, <2>2
  <1>7. /\ form' \in [Forms -> {IdleForm} \cup MailForms \cup UserForms]
        /\ form'[f] = r /\ \A g \in Forms \ {f} : form'[g] = form[g]
    BY <1>6 DEF CredInv, CredTypeOK
  <1>8. CredTypeOK'
    BY <1>3, <1>7 DEF CredInv, CredTypeOK, accountVars
  <1>9. \A g \in Forms : Holding(g)' =>
          \/ g = f /\ form'[g].token = n
          \/ g # f /\ Holding(g) /\ form'[g] = form[g]
    BY <1>6, <1>7 DEF Holding, IdleForm
  <1>10. TokenInv'
    <2>1. \A x \in Purposes, d \in Emails : 0 <= handedOut /\ tempMap[x][d].number \in Nat
      BY <1>2 DEF CredInv, CredTypeOK
    <2>2. /\ \A x \in Purposes, d \in Emails :
               /\ tempMap'[x][d].number <= handedOut'
               /\ tempMap'[x][d].number # 0 => redeemedBy'[tempMap'[x][d].number] = 0
          /\ \A x, y \in Purposes, d, b \in Emails :
               tempMap'[x][d].number = tempMap'[y][b].number /\ tempMap'[x][d].number # 0
                 => x = y /\ d = b
      BY <1>4, <2>1 DEF CredInv, TokenInv, accountVars
    <2>3. \A g \in Forms : Holding(g) => form[g].token \in 1..MaxTokens
      BY FormKinds DEF Holding
    <2>4. \A g \in Forms : Holding(g)' =>
            /\ form'[g].token <= handedOut'
            /\ redeemedBy'[form'[g].token] = 0
            /\ \A x \in Purposes, d \in Emails : tempMap'[x][d].number # form'[g].token
            /\ \A h \in Forms : Holding(h)' /\ form'[h].token = form'[g].token => h = g
      BY <1>2, <1>4, <1>9, <2>3 DEF CredInv, TokenInv, accountVars
    <2> QED BY <2>2, <2>4 DEF CredInv, TokenInv, accountVars
  <1>11. \A g \in Forms : form[g].step = "consents" => form'[g] = form[g]
    BY <1>5, <1>7
  <1>12. StoreInv'
    BY <1>6, <1>7 DEF CredInv, StoreInv, Registered, HasPassword, accountVars, IdleForm
  <1> QED BY <1>8, <1>10, <1>11, <1>12 DEF CredInv, ConsentInv, PasswordInv, Registered, HasPassword, accountVars

\* A handler that has not got its token through goes on or ends.
LEMMA NothingWritten ==
  ASSUME CredInv, NEW f \in Forms, LookUpUser(f) \/ FormFails(f)
  PROVE  CredInv'
PROOF
  <1>1. Holding(f) /\ UNCHANGED <<accountVars, codeMap, tempMap, inbox, handedOut>>
    BY DEF LookUpUser, FormFails, Holding
  <1>2. form[f] \in UserForms
    BY <1>1, FormKinds DEF Holding
  <1>3. PICK r \in {IdleForm} \cup UserForms :
          /\ form' = [form EXCEPT ![f] = r]
          /\ r # IdleForm => /\ r.step = "store" /\ r.token = form[f].token
                             /\ r.email = form[f].email /\ Registered(r.email)
    <2>1. CASE form' = [form EXCEPT ![f].step = "store"] /\ Registered(form[f].email)
      <3>1. [form[f] EXCEPT !.step = "store"] \in UserForms
        BY <1>2 DEF UserForms
      <3>2. form' = [form EXCEPT ![f] = [form[f] EXCEPT !.step = "store"]]
        BY <2>1 DEF CredInv, CredTypeOK
      <3>3. [form[f] EXCEPT !.step = "store"].step = "store"
            /\ [form[f] EXCEPT !.step = "store"].token = form[f].token
            /\ [form[f] EXCEPT !.step = "store"].email = form[f].email
        BY <1>2 DEF UserForms
      <3> QED BY <2>1, <3>1, <3>2, <3>3
    <2>2. CASE CloseForm(f)
      BY <2>2 DEF CloseForm
    <2> QED BY <2>1, <2>2 DEF LookUpUser, FormFails, FormTo
  <1>4. /\ form' \in [Forms -> {IdleForm} \cup MailForms \cup UserForms]
        /\ form'[f] = r /\ \A g \in Forms \ {f} : form'[g] = form[g]
    BY <1>3 DEF CredInv, CredTypeOK
  <1>5. \A g \in Forms : Holding(g)' => Holding(g) /\ form'[g].token = form[g].token
    BY <1>1, <1>3, <1>4 DEF Holding, IdleForm
  <1>6. \A g \in Forms : form[g].step = "consents" => form'[g] = form[g]
    BY <1>1, <1>4 DEF Holding
  <1>7. CredTypeOK'
    BY <1>1, <1>4 DEF CredInv, CredTypeOK, accountVars
  <1>8. TokenInv'
    BY <1>1, <1>5 DEF CredInv, TokenInv, accountVars
  <1>9. StoreInv'
    BY <1>1, <1>3, <1>4 DEF CredInv, StoreInv, Registered, HasPassword, accountVars, IdleForm
  <1> QED BY <1>1, <1>6, <1>7, <1>8, <1>9 DEF CredInv, ConsentInv, PasswordInv, Registered, HasPassword, accountVars

\* A token is used by the handler that has it: it is nowhere else.
LEMMA TokenUsed ==
  ASSUME CredInv, NEW f \in Forms, NEW n \in 1..MaxTokens, Holding(f), n = form[f].token, Use(n),
         UNCHANGED <<tempMap, handedOut>>,
         ~ Holding(f)', \A g \in Forms \ {f} : form'[g] = form[g]
  PROVE  TokenInv' /\ redeemedBy' \in [1..MaxTokens -> Nat]
PROOF
  <1>1. /\ redeemedBy' \in [1..MaxTokens -> Nat] /\ redeemedBy'[n] = redeemedBy[n] + 1
        /\ \A m \in 1..MaxTokens \ {n} : redeemedBy'[m] = redeemedBy[m]
    BY DEF Use, CredInv, CredTypeOK
  <1>2. /\ n <= handedOut /\ redeemedBy[n] = 0 /\ handedOut \in Nat
        /\ \A w \in Purposes, e \in Emails : tempMap[w][e].number # n
        /\ \A g \in Forms : Holding(g) /\ form[g].token = n => g = f
    BY DEF CredInv, TokenInv, CredTypeOK
  <1>3. \A g \in Forms : Holding(g)' => /\ Holding(g) /\ form'[g] = form[g]
                                        /\ form[g].token \in 1..MaxTokens \ {n}
    BY <1>2, FormKinds DEF Holding
  <1>4. \A w \in Purposes, e \in Emails : tempMap[w][e].number \in 0..MaxTokens
    BY DEF CredInv, CredTypeOK
  <1>5. \A w \in Purposes, e \in Emails :
          tempMap[w][e].number # 0 => tempMap[w][e].number \in 1..MaxTokens \ {n}
    BY <1>2, <1>4
  <1>6. \A m \in 1..MaxTokens : redeemedBy'[m] <= 1 /\ (m > handedOut => redeemedBy'[m] = 0)
    BY <1>1, <1>2 DEF CredInv, TokenInv
  <1> QED BY <1>1, <1>3, <1>5, <1>6 DEF CredInv, TokenInv

\* A registration: the account is there before its consents are.
LEMMA CreateUserStep == ASSUME CredInv, NEW f \in Forms, CreateUser(f) PROVE CredInv'
PROOF
  <1>1. Holding(f) /\ form[f] \in UserForms /\ form[f].step = "user"
    BY FormKinds DEF CreateUser, Holding
  <1>2. PICK e \in Emails, p \in Passwords, n \in 1..MaxTokens :
          e = form[f].email /\ p = form[f].typed /\ n = form[f].token
    BY <1>1 DEF UserForms
  <1>3. UNCHANGED <<social, agreed, halfway, codeMap, tempMap, inbox, handedOut>>
    BY DEF CreateUser
  <1>4. CASE CloseForm(f) /\ UNCHANGED <<password, typed, redeemedBy>>
    <2>1. FormFails(f)
      BY <1>1, <1>3, <1>4 DEF FormFails, accountVars
    <2> QED BY <2>1, NothingWritten
  <1>5. CASE ~ Registered(e)
    <2>1. /\ password' = [password EXCEPT ![e] = p]
          /\ typed' = [typed EXCEPT ![e] = [by |-> "signup", as |-> p]]
          /\ Use(n) /\ FormTo(f, "consents")
      BY <1>2, <1>5 DEF CreateUser
    <2>2. PICK r \in UserForms :
            form' = [form EXCEPT ![f] = r] /\ r.step = "consents" /\ r.email = e
      <3>1. [form[f] EXCEPT !.step = "consents"] \in UserForms
        BY <1>1 DEF UserForms
      <3>2. /\ [form[f] EXCEPT !.step = "consents"].step = "consents"
            /\ [form[f] EXCEPT !.step = "consents"].email = e
        BY <1>1, <1>2 DEF UserForms
      <3>3. form' = [form EXCEPT ![f] = [form[f] EXCEPT !.step = "consents"]]
        BY <2>1 DEF FormTo, CredInv, CredTypeOK
      <3> QED BY <3>1, <3>2, <3>3
    <2>3. /\ form' \in [Forms -> {IdleForm} \cup MailForms \cup UserForms]
          /\ form'[f] = r /\ \A g \in Forms \ {f} : form'[g] = form[g]
      BY <2>2 DEF CredInv, CredTypeOK
    <2>4. TokenInv' /\ redeemedBy' \in [1..MaxTokens -> Nat]
      BY <1>1, <1>2, <1>3, <2>1, <2>2, <2>3, TokenUsed DEF Holding
    <2>5. /\ password' \in [Emails -> Passwords \cup {NoPassword}] /\ password'[e] = p
          /\ typed' \in [Emails -> [by : Purposes \cup {"none"}, as : Passwords \cup {NoPassword}]]
          /\ typed'[e].by = "signup" /\ typed'[e].as = p
          /\ \A d \in Emails \ {e} : password'[d] = password[d] /\ typed'[d] = typed[d]
      BY <2>1 DEF CredInv, CredTypeOK, Purposes
    <2>6. CredTypeOK'
      BY <1>3, <2>3, <2>4, <2>5 DEF CredInv, CredTypeOK
    <2>7. ConsentInv'
      <3> SUFFICES ASSUME NEW d \in Emails, Registered(d)'
                   PROVE  \/ agreed'[d] = Required \/ d \in (halfway \cup social)'
                          \/ \E g \in Forms : form'[g].step = "consents" /\ form'[g].email = d
        BY DEF ConsentInv
      <3>1. CASE d = e
        BY <2>2, <2>3, <3>1
      <3>2. CASE d # e
        BY <1>1, <1>3, <2>3, <2>5, <3>2 DEF CredInv, ConsentInv, Registered, HasPassword
      <3> QED BY <3>1, <3>2
    <2>8. PasswordInv'
      BY <2>5 DEF CredInv, PasswordInv, Registered, HasPassword
    <2>9. p # NoPassword
      BY CredentialsAssumption DEF CredentialsAssumption
    <2>10. StoreInv'
      <3> SUFFICES ASSUME NEW g \in Forms, form'[g].step = "store"
                   PROVE  password'[form'[g].email] # NoPassword \/ form'[g].email \in social'
        BY DEF StoreInv, Registered, HasPassword
      <3>1. g # f /\ form'[g] = form[g]
        BY <2>2, <2>3
      <3>2. Registered(form[g].email) /\ form[g].email \in Emails
        BY <3>1, FormKinds DEF CredInv, StoreInv
      <3> QED BY <1>3, <2>5, <2>9, <3>1, <3>2 DEF Registered, HasPassword
    <2> QED BY <2>4, <2>6, <2>7, <2>8, <2>10 DEF CredInv
  <1> QED BY <1>2, <1>4, <1>5 DEF CreateUser

\* A reset: the account of the address gets the password in lower case.
LEMMA StorePasswordStep == ASSUME CredInv, NEW f \in Forms, StorePassword(f) PROVE CredInv'
PROOF
  <1>1. Holding(f) /\ form[f] \in UserForms /\ form[f].step = "store"
    BY FormKinds DEF StorePassword, Holding
  <1>2. PICK e \in Emails, p \in Passwords, n \in 1..MaxTokens :
          e = form[f].email /\ p = form[f].typed /\ n = form[f].token
    BY <1>1 DEF UserForms
  <1>3. /\ password' = [password EXCEPT ![e] = Lower[p]]
        /\ typed' = [typed EXCEPT ![e] = [by |-> "reset", as |-> p]]
        /\ Use(n) /\ CloseForm(f)
        /\ UNCHANGED <<social, agreed, halfway, codeMap, tempMap, inbox, handedOut>>
    BY <1>2 DEF StorePassword, Stored
  <1>4. /\ form' \in [Forms -> {IdleForm} \cup MailForms \cup UserForms]
        /\ form'[f] = IdleForm /\ \A g \in Forms \ {f} : form'[g] = form[g]
    BY <1>3 DEF CloseForm, CredInv, CredTypeOK
  <1>5. TokenInv' /\ redeemedBy' \in [1..MaxTokens -> Nat]
    BY <1>1, <1>2, <1>3, <1>4, TokenUsed DEF Holding, IdleForm
  <1>6. Lower[p] \in Passwords
    BY CredentialsAssumption DEF CredentialsAssumption
  <1>7. /\ password' \in [Emails -> Passwords \cup {NoPassword}] /\ password'[e] = Lower[p]
        /\ typed' \in [Emails -> [by : Purposes \cup {"none"}, as : Passwords \cup {NoPassword}]]
        /\ typed'[e].by = "reset" /\ typed'[e].as = p
        /\ \A d \in Emails \ {e} : password'[d] = password[d] /\ typed'[d] = typed[d]
    BY <1>3, <1>6 DEF CredInv, CredTypeOK, Purposes
  <1>8. CredTypeOK'
    BY <1>3, <1>4, <1>5, <1>7 DEF CredInv, CredTypeOK
  <1>9. PasswordInv'
    BY <1>7 DEF CredInv, PasswordInv, Registered, HasPassword
  <1>10. Registered(e) /\ Lower[p] # NoPassword
    BY <1>1, <1>2, <1>6, CredentialsAssumption DEF CredentialsAssumption, CredInv, StoreInv
  <1>11. ConsentInv'
    <2> SUFFICES ASSUME NEW d \in Emails, Registered(d)'
                 PROVE  \/ agreed'[d] = Required \/ d \in (halfway \cup social)'
                        \/ \E g \in Forms : form'[g].step = "consents" /\ form'[g].email = d
      BY DEF ConsentInv
    <2>1. Registered(d)
      BY <1>3, <1>7, <1>10 DEF Registered, HasPassword
    <2> QED BY <1>1, <1>3, <1>4, <2>1 DEF CredInv, ConsentInv
  <1>12. StoreInv'
    <2> SUFFICES ASSUME NEW g \in Forms, form'[g].step = "store"
                 PROVE  password'[form'[g].email] # NoPassword \/ form'[g].email \in social'
      BY DEF StoreInv, Registered, HasPassword
    <2>1. g # f /\ form'[g] = form[g]
      BY <1>4 DEF IdleForm
    <2>2. Registered(form[g].email) /\ form[g].email \in Emails
      BY <2>1, FormKinds DEF CredInv, StoreInv
    <2> QED BY <1>3, <1>7, <1>10, <2>1, <2>2 DEF Registered, HasPassword
  <1> QED BY <1>5, <1>8, <1>9, <1>11, <1>12 DEF CredInv

LEMMA ConsentsStep ==
  ASSUME CredInv, NEW f \in Forms, NEW fails \in BOOLEAN, CreateConsents(f, fails)
  PROVE  CredInv'
PROOF
  <1>1. PICK e \in Emails : e = form[f].email
    BY FormKinds DEF CreateConsents
  <1>2. /\ form[f].step = "consents" /\ form' = [form EXCEPT ![f] = IdleForm]
        /\ agreed' = IF fails THEN agreed ELSE [agreed EXCEPT ![e] = Required]
        /\ halfway' = IF fails THEN halfway \cup {e} ELSE halfway
        /\ UNCHANGED <<password, social, typed, redeemedBy, codeMap, tempMap, inbox, handedOut>>
    BY <1>1 DEF CreateConsents, CloseForm
  <1>3. /\ form' \in [Forms -> {IdleForm} \cup MailForms \cup UserForms]
        /\ form'[f] = IdleForm /\ \A g \in Forms \ {f} : form'[g] = form[g]
    BY <1>2 DEF CredInv, CredTypeOK
  <1>4. /\ agreed' \in [Emails -> SUBSET Required] /\ halfway' \in SUBSET Emails
        /\ agreed'[e] = Required \/ e \in halfway'
        /\ \A d \in Emails \ {e} : agreed'[d] = agreed[d] /\ (d \in halfway => d \in halfway')
    BY <1>2 DEF CredInv, CredTypeOK
  <1>5. CredTypeOK'
    BY <1>2, <1>3, <1>4 DEF CredInv, CredTypeOK
  <1>6. \A g \in Forms : Holding(g)' => Holding(g) /\ form'[g] = form[g]
    BY <1>3 DEF Holding, IdleForm
  <1>7. TokenInv'
    BY <1>2, <1>6 DEF CredInv, TokenInv
  <1>8. ConsentInv'
    BY <1>1, <1>2, <1>3, <1>4 DEF CredInv, ConsentInv, Registered, HasPassword
  <1>9. PasswordInv' /\ StoreInv'
    BY <1>2, <1>3 DEF CredInv, PasswordInv, StoreInv, Registered, HasPassword, IdleForm
  <1> QED BY <1>5, <1>7, <1>8, <1>9 DEF CredInv

\* All maps and handlers are lost, and with them the tokens.
LEMMA RestartStep == ASSUME CredInv, ServerRestarts PROVE CredInv'
PROOF
  <1>1. /\ \A w \in Purposes, e \in Emails : tempMap'[w][e].number = 0
        /\ \A f \in Forms : form'[f].step = "idle"
        /\ UNCHANGED <<password, social, agreed, typed, redeemedBy, inbox, handedOut>>
    BY DEF ServerRestarts, NoToken0, IdleForm
  <1>2. tempMap' \in [Purposes -> [Emails -> [number : 0..MaxTokens, life : 0..TempTTL]]]
    BY CredentialsAssumption DEF ServerRestarts, NoToken0, CredentialsAssumption
  <1>3. CredTypeOK'
    BY <1>1, <1>2 DEF ServerRestarts, CredInv, CredTypeOK
  <1>4. TokenInv'
    BY <1>1 DEF CredInv, TokenInv, Holding, CredTypeOK
  <1>5. ConsentInv'
    BY <1>1 DEF ServerRestarts, CredInv, ConsentInv, Registered, HasPassword
  <1> QED BY <1>1, <1>3, <1>4, <1>5 DEF CredInv, PasswordInv, StoreInv, Registered, HasPassword
-----------------------------------------------------------------------------
LEMMA SocialStep == ASSUME CredInv, NEW e \in Emails, SocialAccount(e) PROVE CredInv'
PROOF
  <1>1. /\ social' = social \cup {e}
        /\ UNCHANGED <<password, agreed, typed, redeemedBy, halfway, codeMap, tempMap, inbox, form,
                       handedOut>>
    BY DEF SocialAccount
  <1>2. CredTypeOK'
    BY <1>1 DEF CredInv, CredTypeOK
  <1>3. TokenInv'
    BY <1>1 DEF CredInv, TokenInv, Holding
  <1>4. ConsentInv' /\ PasswordInv' /\ StoreInv'
    BY <1>1 DEF CredInv, ConsentInv, PasswordInv, StoreInv, Registered, HasPassword
  <1> QED BY <1>2, <1>3, <1>4 DEF CredInv

LEMMA CredNextStep == CredInv /\ [CredNext]_credVars => CredInv'
PROOF
  <1> SUFFICES ASSUME CredInv, [CredNext]_credVars PROVE CredInv'
    OBVIOUS
  <1>1. CASE UNCHANGED credVars
    <2>1. CredTypeOK'
      BY <1>1 DEF credVars, CredInv, CredTypeOK
    <2>2. TokenInv'
      BY <1>1 DEF credVars, CredInv, TokenInv, Holding
    <2>3. ConsentInv' /\ PasswordInv' /\ StoreInv'
      BY <1>1 DEF credVars, CredInv, ConsentInv, PasswordInv, StoreInv, Registered, HasPassword
    <2> QED BY <2>1, <2>2, <2>3 DEF CredInv
  <1>2. ASSUME NEW f \in Forms, NEW e \in Emails, NEW c \in Codes,
               SendSignupCode(f, e, c) \/ SendResetCode(f, e, c)
        PROVE  CredInv'
    BY <1>2, CodeStep DEF SendSignupCode, SendResetCode, Purposes
  <1>3. ASSUME NEW f \in Forms, NEW ok \in BOOLEAN, MailCode(f, ok) PROVE CredInv'
    <2>1. form[f] \in MailForms
      BY <1>3, FormKinds DEF MailCode
    <2>2. \E w \in Purposes, e \in Emails, c \in Codes : TRUE
      BY <2>1 DEF MailForms
    <2> QED BY <1>3, <2>2, CodeStep
  <1>4. ASSUME NEW f \in Forms, NEW ok \in BOOLEAN, CreateConsents(f, ok) PROVE CredInv'
    BY <1>4, ConsentsStep
  <1>5. ASSUME NEW e \in Emails, NEW c \in Codes, VerifySignupCode(e, c) \/ VerifyResetCode(e, c)
        PROVE  CredInv'
    BY <1>5, TokenMade DEF VerifySignupCode, VerifyResetCode, Purposes
  <1>6. ASSUME NEW f \in Forms, NEW e \in Emails, NEW p \in Passwords,
               NEW consents \in {Required, {}}, Register(f, e, p, consents)
        PROVE  CredInv'
    BY <1>6, TokenTaken DEF Register, Purposes
  <1>7. ASSUME NEW f \in Forms, NEW e \in Emails, NEW p \in Passwords,
               NEW confirmed \in Passwords, ResetRoute(f, e, p, confirmed)
        PROVE  CredInv'
    BY <1>7, TokenTaken DEF ResetRoute, ResetPassword, Purposes
  <1>8. ASSUME NEW f \in Forms, CreateUser(f) \/ LookUpUser(f) \/ StorePassword(f) \/ FormFails(f)
        PROVE  CredInv'
    BY <1>8, CreateUserStep, NothingWritten, StorePasswordStep
  <1>9. CASE TokensAge \/ ServerRestarts
    BY <1>9, TokensAgeStep, RestartStep
  <1>10. ASSUME NEW e \in Emails, SocialAccount(e) PROVE CredInv'
    BY <1>10, SocialStep
  <1> QED BY <1>1, <1>2, <1>3, <1>4, <1>5, <1>6, <1>7, <1>8, <1>9, <1>10 DEF CredNext

LEMMA CredAlways == CredSpec => []CredInv
PROOF
  BY CredInitInv, CredNextStep, PTL DEF CredSpec

\* No token gets two registrations or resets through, and who is registered has
\* agreed to the terms unless the statement after the insert failed.
THEOREM TokensUsedOnce == CredSpec => []TempTokenUsedOnce
PROOF
  <1>1. CredInv => TempTokenUsedOnce
    BY DEF CredInv, TokenInv, ConsentInv, TempTokenUsedOnce
  <1> QED BY <1>1, CredAlways, PTL

\* The only password that does not open is one with capitals from a registration.
THEOREM PasswordsOpen == CredSpec => []PasswordOpens
PROOF
  <1>1. CredInv => PasswordOpens
    BY DEF CredInv, PasswordInv, PasswordOpens, SignsInWith, HasPassword
  <1> QED BY <1>1, CredAlways, PTL
-----------------------------------------------------------------------------
(* Membership.                                                              *)

\* The row of whom an admin has expelled says so, in userstatus.
ExpelledInv == \A a \in expelled : member[a].userstatus \in {"banned", "deleted"}

\* A callback that was not overtaken has the row as it is, or has found its
\* member gone for a month.
Up2Date(v) ==
  LET r == visit[v] IN
    /\ r.step = "check" /\ ~ r.stale => r.read = member[r.acct]
    /\ r.step = "revive" /\ ~ r.stale => member[r.acct].gone = "month"

VisitInv == \A v \in Visits : Up2Date(v)

MemberInv == MemberTypeOK /\ ExpelledInv /\ VisitInv
-----------------------------------------------------------------------------
\* What a running request has in its hands.
LEMMA VisitKinds ==
  ASSUME MemberInv, NEW v \in Visits
  PROVE  /\ visit[v] = IdleVisit \/ visit[v] \in Busy
         /\ visit[v].step # "idle" => visit[v] \in Busy
         /\ visit[v] \in Busy => visit[v].acct \in Accounts /\ visit[v].read \in UserRows
PROOF
  <1>1. visit[v] = IdleVisit \/ visit[v] \in Busy
    BY DEF MemberInv, MemberTypeOK
  <1>2. IdleVisit.step = "idle"
    BY DEF IdleVisit
  <1>3. visit[v] \in Busy => visit[v].acct \in Accounts /\ visit[v].read \in UserRows
    BY DEF Busy
  <1> QED BY <1>1, <1>2, <1>3

LEMMA StandType ==
  ASSUME NEW s \in {"find", "mint", "set"}, NEW r \in {"callback", "token", "complete"} \cup Orders,
         NEW p \in Providers \cup {"site"}, NEW a \in Accounts
  PROVE  Stand(s, r, p, a) \in Busy /\ Stand(s, r, p, a).step = s
PROOF
  BY DEF Stand, Busy, UserRows, Absent, Ages

LEMMA MintType ==
  ASSUME NEW v, visit[v].acct \in Accounts
  PROVE  ToMint(v) \in Busy /\ ToMint(v).step = "mint"
PROOF
  <1>1. /\ "mint" \in {"find", "mint", "set"}
        /\ "complete" \in {"callback", "token", "complete"} \cup Orders
        /\ "site" \in Providers \cup {"site"}
    OBVIOUS
  <1>2. Stand("mint", "complete", "site", visit[v].acct) \in Busy
        /\ Stand("mint", "complete", "site", visit[v].acct).step = "mint"
    BY <1>1, StandType
  <1> QED BY <1>2 DEF ToMint

LEMMA RowTypes ==
  /\ Newcomer \in UserRows /\ Absent \in UserRows
  /\ Newcomer.gone = "never" /\ Newcomer.userstatus = "active"
PROOF
  BY DEF Newcomer, Absent, UserRows, Ages

\* A request moves on without a statement: to a step that has read nothing, or
\* with what it knows to be true.
LEMMA MoveStep ==
  ASSUME MemberInv, NEW v \in Visits, NEW r \in {IdleVisit} \cup Busy,
         visit' = [visit EXCEPT ![v] = r],
         r.step = "check" /\ ~ r.stale => r.read = member[r.acct],
         r.step = "revive" /\ ~ r.stale => member[r.acct].gone = "month",
         UNCHANGED <<member, expelled>>,
         session' \in [Accounts -> {"none", "old", "fresh"}]
  PROVE  MemberInv'
PROOF
  <1>1. visit \in [Visits -> {IdleVisit} \cup Busy]
    BY DEF MemberInv, MemberTypeOK
  <1>2. MemberTypeOK'
    BY <1>1 DEF MemberInv, MemberTypeOK
  <1>3. ExpelledInv'
    BY DEF MemberInv, ExpelledInv
  <1>4. ASSUME NEW w \in Visits PROVE Up2Date(w)'
    <2>1. visit'[w] = IF w = v THEN r ELSE visit[w]
      BY <1>1
    <2>2. Up2Date(w)
      BY DEF MemberInv, VisitInv
    <2> QED BY <2>1, <2>2 DEF Up2Date
  <1> QED BY <1>2, <1>3, <1>4 DEF MemberInv, VisitInv

\* A statement of v puts the row m; everyone who has read the old one is stale.
LEMMA PutStep ==
  ASSUME MemberInv, NEW v \in Visits, visit[v] \in Busy,
         NEW m \in UserRows, NEW next \in {IdleVisit} \cup Busy,
         PutRow(v, m, next),
         expelled' \in SUBSET Accounts,
         \A b \in Accounts \ {visit[v].acct} : b \in expelled' => b \in expelled,
         visit[v].acct \in expelled' => m.userstatus \in {"banned", "deleted"},
         next.step # "revive",
         next.step = "check" => next.read = m /\ next.acct = visit[v].acct,
         UNCHANGED session
  PROVE  MemberInv'
PROOF
  <1> DEFINE a == visit[v].acct
  <1>1. a \in Accounts
    BY VisitKinds
  <1>2. member' = [member EXCEPT ![a] = m] /\ member \in [Accounts -> UserRows]
    BY DEF PutRow, MemberInv, MemberTypeOK
  <1>3. ASSUME NEW w \in Visits
        PROVE  /\ visit'[w] = IF w = v THEN next
                    ELSE IF visit[w].step \in {"check", "revive"} /\ visit[w].acct = a
                      THEN [visit[w] EXCEPT !.stale = TRUE] ELSE visit[w]
               /\ visit'[w] \in {IdleVisit} \cup Busy
    <2>1. visit'[w] = IF w = v THEN next
                    ELSE IF visit[w].step \in {"check", "revive"} /\ visit[w].acct = a
                      THEN [visit[w] EXCEPT !.stale = TRUE] ELSE visit[w]
      BY DEF PutRow
    <2>2. visit[w] \in Busy => [visit[w] EXCEPT !.stale = TRUE] \in Busy
      BY DEF Busy
    <2> QED BY <2>1, <2>2, VisitKinds
  <1>4. visit' \in [Visits -> {IdleVisit} \cup Busy]
    <2>1. visit' = [w \in Visits |-> visit'[w]]
      BY DEF PutRow
    <2> QED BY <1>3, <2>1
  <1>6. MemberTypeOK'
    BY <1>1, <1>2, <1>4 DEF MemberInv, MemberTypeOK
  <1>7. ExpelledInv'
    BY <1>1, <1>2 DEF MemberInv, MemberTypeOK, ExpelledInv
  <1>8. ASSUME NEW w \in Visits PROVE Up2Date(w)'
    <2>1. CASE w = v
      BY <1>1, <1>2, <1>3, <2>1 DEF Up2Date
    <2>2. CASE w # v /\ visit[w].step \in {"check", "revive"} /\ visit[w].acct = a
      <3>1. visit[w] \in Busy
        BY <2>2, VisitKinds
      <3>2. visit'[w] = [visit[w] EXCEPT !.stale = TRUE] /\ visit'[w].stale
        BY <1>3, <2>2, <3>1 DEF Busy
      <3> QED BY <3>2 DEF Up2Date
    <2>3. CASE w # v /\ ~(visit[w].step \in {"check", "revive"} /\ visit[w].acct = a)
      <3>1. visit'[w] = visit[w] /\ Up2Date(w)
        BY <1>3, <2>3 DEF MemberInv, VisitInv
      <3>2. CASE visit[w].step \notin {"check", "revive"}
        BY <3>1, <3>2 DEF Up2Date
      <3>3. CASE visit[w].step \in {"check", "revive"}
        <4>1. visit[w].acct \in Accounts /\ visit[w].acct # a
          BY <3>3, <2>3, VisitKinds
        <4> QED BY <4>1, <3>1, <1>2 DEF Up2Date
      <3> QED BY <3>2, <3>3
    <2> QED BY <2>1, <2>2, <2>3
  <1> QED BY <1>6, <1>7, <1>8 DEF MemberInv, VisitInv

LEMMA MemberInitInv == MemberInit => MemberInv
PROOF
  <1> SUFFICES ASSUME MemberInit PROVE MemberInv
    OBVIOUS
  <1>1. [Newcomer EXCEPT !.status = FALSE, !.gone = "recent"] \in UserRows
    BY DEF Newcomer, UserRows, Ages
  <1>2. MemberTypeOK /\ ExpelledInv
    BY <1>1, RowTypes DEF MemberInit, MemberTypeOK, ExpelledInv
  <1>3. VisitInv
    BY DEF MemberInit, VisitInv, Up2Date, IdleVisit
  <1> QED BY <1>2, <1>3 DEF MemberInv

\* Whoever opens a visit has read nothing that he will write by.
LEMMA OpenStep ==
  ASSUME MemberInv, NEW v \in Visits, NEW s \in {"find", "mint", "set"},
         NEW r \in {"callback", "token", "complete"} \cup Orders,
         NEW p \in Providers \cup {"site"}, NEW a \in Accounts,
         OpenVisit(v, s, r, p, a), UNCHANGED <<member, session, expelled>>
  PROVE  MemberInv'
PROOF
  <1>1. Stand(s, r, p, a) \in Busy /\ Stand(s, r, p, a).step = s
    BY StandType
  <1>2. visit' = [visit EXCEPT ![v] = Stand(s, r, p, a)]
    BY DEF OpenVisit
  <1>3. session' \in [Accounts -> {"none", "old", "fresh"}]
    BY DEF MemberInv, MemberTypeOK
  <1> QED BY <1>1, <1>2, <1>3, MoveStep

LEMMA CloseStep ==
  ASSUME MemberInv, NEW v \in Visits, CloseVisit(v), UNCHANGED <<member, expelled>>,
         session' \in [Accounts -> {"none", "old", "fresh"}]
  PROVE  MemberInv'
PROOF
  <1>1. IdleVisit.step = "idle"
    BY DEF IdleVisit
  <1> QED BY <1>1, MoveStep DEF CloseVisit

LEMMA MintStep ==
  ASSUME MemberInv, NEW v \in Visits, visit[v] \in Busy, MintNext(v),
         UNCHANGED <<member, session, expelled>>
  PROVE  MemberInv'
PROOF
  <1>1. ToMint(v) \in Busy /\ ToMint(v).step = "mint"
    <2>1. visit[v].acct \in Accounts
      BY VisitKinds
    <2> QED BY <2>1, MintType
  <1>2. session' \in [Accounts -> {"none", "old", "fresh"}]
    BY DEF MemberInv, MemberTypeOK
  <1> QED BY <1>1, <1>2, MoveStep DEF MintNext

\* All the ways in, and the orders, begin with a visit.
LEMMA Opens ==
  ASSUME MemberInv, NEW v \in Visits, NEW a \in Accounts,
         \/ ComesIn(v, a) \/ Login(v, a)
         \/ \E q \in Requests(Accounts) : \/ CompleteRoute(q, v, a) \/ BanRoute(q, v, a)
                                          \/ UnBanRoute(q, v, a) \/ DeleteRoute(q, v, a)
                                          \/ WithdrawRoute(q, v)
  PROVE  MemberInv'
PROOF
  <1>1. CASE ComesIn(v, a)
    <2>1. \E r \in {"callback", "token"}, p \in Providers : OpenVisit(v, "find", r, p, a)
      BY <1>1 DEF ComesIn, GoogleStrategy, NaverStrategy, KakaoStrategy, GoogleToken, NaverToken,
                  KakaoToken, Providers
    <2>2. UNCHANGED <<member, session, expelled>>
      BY <1>1 DEF ComesIn
    <2> QED BY <2>1, <2>2, OpenStep
  <1>2. CASE Login(v, a)
    BY <1>2, OpenStep DEF Login
  <1>3. ASSUME NEW q \in Requests(Accounts), CompleteRoute(q, v, a) PROVE MemberInv'
    BY <1>3, OpenStep DEF CompleteRoute, CompleteSignup
  <1>4. ASSUME NEW q \in Requests(Accounts),
               BanRoute(q, v, a) \/ UnBanRoute(q, v, a) \/ DeleteRoute(q, v, a) \/ WithdrawRoute(q, v)
        PROVE  MemberInv'
    <2>1. WithdrawRoute(q, v) => q.user \in Accounts
      BY DEF WithdrawRoute, SignedIn, Requests
    <2>2. \E o \in Orders, b \in Accounts : Order(v, o, b)
      BY <1>4, <2>1 DEF BanRoute, UnBanRoute, DeleteRoute, WithdrawRoute, AdminBanUser, AdminUnBanUser,
                  AdminDeleteUser, WithdrawMember, Orders
    <2> QED BY <2>2, OpenStep DEF Order
  <1> QED BY <1>1, <1>2, <1>3, <1>4

\* A first look at the row; a first row.
LEMMA ProviderStep ==
  ASSUME MemberInv, NEW v \in Visits, FindUser(v) \/ CreateSocialUser(v)
  PROVE  MemberInv'
PROOF
  <1>1. visit[v] \in Busy /\ visit[v].acct \in Accounts
    BY VisitKinds DEF FindUser, CreateSocialUser
  <1>2. CASE FindUser(v)
    <2> DEFINE r == [visit[v] EXCEPT !.step = IF Exists(visit[v].acct) THEN "check" ELSE "create",
                                     !.read = member[visit[v].acct]]
    <2>1. member[visit[v].acct] \in UserRows
      BY <1>1 DEF MemberInv, MemberTypeOK
    <2>2. r \in Busy /\ r.read = member[r.acct] /\ r.step # "revive"
      BY <1>1, <2>1 DEF Busy
    <2>3. visit' = [visit EXCEPT ![v] = r]
      BY <1>2 DEF FindUser
    <2>4. UNCHANGED <<member, session, expelled>>
      BY <1>2 DEF FindUser
    <2>5. session' \in [Accounts -> {"none", "old", "fresh"}]
      BY <2>4 DEF MemberInv, MemberTypeOK
    <2> HIDE DEF r
    <2> QED BY <2>2, <2>3, <2>4, <2>5, MoveStep
  <1>3. CASE CreateSocialUser(v) /\ Exists(visit[v].acct)
    <2>1. session' \in [Accounts -> {"none", "old", "fresh"}]
      BY <1>3 DEF CreateSocialUser, MemberInv, MemberTypeOK
    <2> QED BY <1>3, <2>1, CloseStep DEF CreateSocialUser
  <1>4. CASE CreateSocialUser(v) /\ ~ Exists(visit[v].acct)
    <2> DEFINE r == [visit[v] EXCEPT !.step = "check", !.read = Newcomer]
               a == visit[v].acct
    <2>1. r \in Busy /\ r.step = "check" /\ r.read = Newcomer /\ r.acct = a
      BY <1>1, RowTypes DEF Busy
    <2>2. PutRow(v, Newcomer, r) /\ UNCHANGED <<session, expelled>>
      BY <1>4 DEF CreateSocialUser
    <2>3. a \notin expelled
      BY <1>1, <1>4 DEF Exists, MemberInv, ExpelledInv
    <2>4. expelled' \in SUBSET Accounts /\ a \notin expelled'
      BY <2>2, <2>3 DEF MemberInv, MemberTypeOK
    <2>7. r.step # "revive" /\ (r.step = "check" => r.read = Newcomer /\ r.acct = visit[v].acct)
      BY <2>1
    <2>8. r \in {IdleVisit} \cup Busy /\ PutRow(v, Newcomer, r)
      BY <2>1, <2>2
    <2> HIDE DEF r
    <2>9. Newcomer \in UserRows /\ visit[v] \in Busy
      BY <1>1, RowTypes
    <2> QED BY <2>2, <2>4, <2>7, <2>8, <2>9, PutStep
  <1> QED BY <1>2, <1>3, <1>4

\* What a callback or a token route does with the row it was given.
LEMMA ReviveStep ==
  ASSUME MemberInv, NEW v \in Visits, visit[v].step = "check", ReviveOrRefuse(v),
         UNCHANGED <<member, session, expelled>>
  PROVE  MemberInv'
PROOF
  <1>1. visit[v] \in Busy /\ visit[v].acct \in Accounts
    BY VisitKinds
  <1>2. session' \in [Accounts -> {"none", "old", "fresh"}]
    BY DEF MemberInv, MemberTypeOK
  <1>3. CASE ~ CanReactivate(visit[v].read)
    BY <1>2, <1>3, CloseStep DEF ReviveOrRefuse
  <1>4. CASE CanReactivate(visit[v].read)
    <2> DEFINE r == [visit[v] EXCEPT !.step = "revive", !.read = Absent, !.by = "site"]
    <2>1. r \in Busy /\ r.step = "revive" /\ r.stale = visit[v].stale /\ r.acct = visit[v].acct
      BY <1>1, RowTypes DEF Busy
    <2>2. ~ r.stale => member[r.acct].gone = "month"
      BY <1>1, <1>4, <2>1 DEF CanReactivate, MemberInv, VisitInv, Up2Date
    <2>3. visit' = [visit EXCEPT ![v] = r]
      BY <1>4 DEF ReviveOrRefuse
    <2> HIDE DEF r
    <2> QED BY <1>2, <2>1, <2>2, <2>3, MoveStep
  <1> QED BY <1>3, <1>4

LEMMA CheckStep ==
  ASSUME MemberInv, NEW v \in Visits, NEW p \in Providers,
         Callback(v, p) \/ ExchangeToken(v, p) \/ ExchangeKakaoToken(v)
  PROVE  MemberInv'
PROOF
  <1>1. visit[v].step = "check" /\ UNCHANGED <<member, session, expelled>>
    BY DEF Callback, ExchangeToken, ExchangeKakaoToken, At
  <1>2. visit[v] \in Busy
    BY <1>1, VisitKinds
  <1>3. session' \in [Accounts -> {"none", "old", "fresh"}]
    BY <1>1 DEF MemberInv, MemberTypeOK
  <1>4. ReviveOrRefuse(v) \/ CloseVisit(v) \/ MintNext(v)
    BY DEF Callback, ExchangeToken, ExchangeKakaoToken
  <1>5. CASE ReviveOrRefuse(v)
    BY <1>1, <1>5, ReviveStep
  <1>6. CASE CloseVisit(v)
    <2>1. UNCHANGED <<member, expelled>>
      BY <1>1
    <2> QED BY <1>3, <1>6, <2>1, CloseStep
  <1>7. CASE MintNext(v)
    BY <1>1, <1>2, <1>7, MintStep
  <1> QED BY <1>4, <1>5, <1>6, <1>7

\* The row of whom a callback takes back is a newcomer's; the token routes leave
\* its userstatus.
LEMMA ReactivateStep ==
  ASSUME MemberInv, NEW v \in Visits, Reactivate(v)
  PROVE  MemberInv'
PROOF
  <1> DEFINE a == visit[v].acct
  <1>1. visit[v] \in Busy /\ a \in Accounts
    BY VisitKinds DEF Reactivate
  <1>2. member[a] \in UserRows /\ expelled \in SUBSET Accounts
        /\ (a \in expelled => member[a].userstatus \in {"banned", "deleted"})
    BY <1>1 DEF MemberInv, MemberTypeOK, ExpelledInv
  <1>3. ToMint(v) \in Busy /\ ToMint(v).step = "mint"
    BY <1>1, MintType
  <1>4. PICK m \in UserRows :
          /\ PutRow(v, m, ToMint(v)) /\ expelled' \subseteq expelled
          /\ a \in expelled' => m.userstatus \in {"banned", "deleted"}
    <2>1. CASE visit[v].route = "callback"
      BY <2>1, RowTypes DEF Reactivate
    <2>2. CASE visit[v].route # "callback"
      <3> DEFINE m == [member[a] EXCEPT !.status = TRUE, !.gone = "never"]
      <3>1. m \in UserRows /\ m.userstatus = member[a].userstatus
        BY <1>2 DEF UserRows, Ages
      <3>2. PutRow(v, m, ToMint(v)) /\ expelled' = expelled
        BY <2>2 DEF Reactivate
      <3> HIDE DEF m
      <3> QED BY <1>2, <3>1, <3>2
    <2> QED BY <2>1, <2>2
  <1>5. UNCHANGED session
    BY DEF Reactivate
  <1> QED BY <1>1, <1>2, <1>3, <1>4, <1>5, PutStep

\* The statements of admins, and of who leaves.
LEMMA SetStep ==
  ASSUME MemberInv, NEW v \in Visits,
         \/ BanUser(v) \/ UnBanUser(v) \/ DeleteUser(v)
         \/ \E sold \in BOOLEAN : DeactivateUser(v, sold)
  PROVE  MemberInv'
PROOF
  <1> DEFINE a == visit[v].acct
  <1>1. visit[v] \in Busy /\ a \in Accounts
    BY VisitKinds DEF BanUser, UnBanUser, DeleteUser, SetUserstatus, DeactivateUser, At
  <1>2. member[a] \in UserRows /\ expelled \in SUBSET Accounts
    BY <1>1 DEF MemberInv, MemberTypeOK
  <1>3. IdleVisit.step = "idle"
    BY DEF IdleVisit
  <1>4. ASSUME NEW o \in Orders, NEW s \in {"active", "banned", "deleted"}, SetUserstatus(v, o, s)
        PROVE  MemberInv'
    <2> DEFINE m == [member[a] EXCEPT !.userstatus = s]
    <2>1. m \in UserRows /\ m.userstatus = s
      BY <1>2 DEF UserRows
    <2>2. PutRow(v, m, IdleVisit) /\ UNCHANGED session
          /\ expelled' = IF s = "active" THEN expelled \ {a} ELSE expelled \cup {a}
      BY <1>4 DEF SetUserstatus
    <2> HIDE DEF m
    <2> QED BY <1>1, <1>2, <1>3, <2>1, <2>2, PutStep
  <1>5. ASSUME NEW sold \in BOOLEAN, DeactivateUser(v, sold) PROVE MemberInv'
    <2>1. CASE sold
      <3>1. CloseVisit(v) /\ UNCHANGED <<member, session, expelled>>
        BY <1>5, <2>1 DEF DeactivateUser
      <3>2. session' \in [Accounts -> {"none", "old", "fresh"}]
        BY <3>1 DEF MemberInv, MemberTypeOK
      <3> QED BY <3>1, <3>2, CloseStep
    <2>2. CASE ~ sold
      <3> DEFINE m == [member[a] EXCEPT !.userstatus = "deleted", !.gone = "recent"]
      <3>1. m \in UserRows /\ m.userstatus = "deleted"
        BY <1>2 DEF UserRows, Ages
      <3>2. PutRow(v, m, IdleVisit) /\ UNCHANGED <<session, expelled>>
        BY <1>5, <2>2 DEF DeactivateUser
      <3> HIDE DEF m
      <3> QED BY <1>1, <1>2, <1>3, <3>1, <3>2, PutStep
    <2> QED BY <2>1, <2>2
  <1>6. SetUserstatus(v, "ban", "banned") \/ SetUserstatus(v, "unban", "active")
        \/ SetUserstatus(v, "delete", "deleted") \/ \E sold \in BOOLEAN : DeactivateUser(v, sold)
    BY DEF BanUser, UnBanUser, DeleteUser
  <1> QED BY <1>4, <1>5, <1>6 DEF Orders

\* Steps without a visit.
LEMMA TimeStep ==
  ASSUME MemberInv, SecondPasses \/ MonthPasses \/ \E q \in Requests(Accounts) : LogoutRoute(q)
  PROVE  MemberInv'
PROOF
  <1>1. CASE MonthPasses
    <2>1. \A a \in Accounts : member[a] \in UserRows
      BY DEF MemberInv, MemberTypeOK
    <2>2. \A a \in Accounts :
            \E age \in Ages : member'[a] = [member[a] EXCEPT !.gone = age]
      <3> SUFFICES ASSUME NEW a \in Accounts,
                          NEW age, age = (IF member[a].gone = "recent" THEN "month" ELSE member[a].gone)
                   PROVE  age \in Ages /\ member'[a] = [member[a] EXCEPT !.gone = age]
        OBVIOUS
      <3> QED BY <1>1, <2>1 DEF MonthPasses, UserRows, Ages
    <2>3. \A a \in Accounts : member'[a] \in UserRows /\ member'[a].userstatus = member[a].userstatus
      BY <2>1, <2>2 DEF UserRows
    <2>4. member' \in [Accounts -> UserRows]
      <3>1. member' = [b \in Accounts |-> member'[b]]
        BY <1>1 DEF MonthPasses
      <3> QED BY <2>3, <3>1
    <2>5. UNCHANGED <<session, visit, expelled>> /\ \A v \in Visits : visit[v] = IdleVisit
      BY <1>1 DEF MonthPasses
    <2>6. MemberTypeOK'
      BY <2>4, <2>5 DEF MemberInv, MemberTypeOK
    <2>7. ExpelledInv'
      BY <2>3, <2>5 DEF MemberInv, MemberTypeOK, ExpelledInv
    <2>8. VisitInv'
      BY <2>5 DEF MemberInv, VisitInv, Up2Date, IdleVisit
    <2> QED BY <2>6, <2>7, <2>8 DEF MemberInv
  <1>2. CASE SecondPasses \/ \E q \in Requests(Accounts) : LogoutRoute(q)
    <2>1. UNCHANGED <<member, visit, expelled>>
      BY <1>2 DEF SecondPasses, LogoutRoute, Logout
    <2>2. session' \in [Accounts -> {"none", "old", "fresh"}]
      BY <1>2 DEF SecondPasses, LogoutRoute, Logout, DeleteRefreshTokensByUserId, MemberInv, MemberTypeOK
    <2>3. MemberTypeOK'
      BY <2>1, <2>2 DEF MemberInv, MemberTypeOK
    <2>4. ExpelledInv' /\ VisitInv'
      BY <2>1 DEF MemberInv, ExpelledInv, VisitInv, Up2Date
    <2> QED BY <2>3, <2>4 DEF MemberInv
  <1> QED BY <1>1, <1>2

LEMMA MemberStep == MemberInv /\ [MemberNext]_memberVars => MemberInv'
PROOF
  <1> SUFFICES ASSUME MemberInv, [MemberNext]_memberVars PROVE MemberInv'
    OBVIOUS
  <1>1. CASE UNCHANGED memberVars
    BY <1>1 DEF memberVars, MemberInv, MemberTypeOK, ExpelledInv, VisitInv, Up2Date
  <1>2. ASSUME NEW v \in Visits,
               HandleGoogleUserFromCode(v) \/ HandleNaverUserFromCode(v) \/ HandleKakaoUserFromCode(v)
        PROVE  MemberInv'
    BY <1>2, ProviderStep DEF HandleGoogleUserFromCode, HandleNaverUserFromCode, HandleKakaoUserFromCode
  <1>3. ASSUME NEW v \in Visits,
               \/ GoogleCallback(v) \/ NaverCallback(v) \/ KakaoCallback(v)
               \/ ExchangeGoogleToken(v) \/ ExchangeNaverToken(v) \/ ExchangeKakaoToken(v)
        PROVE  MemberInv'
    <2>1. \E p \in Providers : Callback(v, p) \/ ExchangeToken(v, p) \/ ExchangeKakaoToken(v)
      BY <1>3 DEF GoogleCallback, NaverCallback, KakaoCallback, ExchangeGoogleToken, ExchangeNaverToken, Providers
    <2> QED BY <2>1, CheckStep
  <1>4. ASSUME NEW v \in Visits, GenerateTokens(v) \/ VisitFails(v) PROVE MemberInv'
    <2>1. session' \in [Accounts -> {"none", "old", "fresh"}]
      BY <1>4 DEF GenerateTokens, VisitFails, SaveRefreshToken, MemberInv, MemberTypeOK
    <2> QED BY <1>4, <2>1, CloseStep DEF GenerateTokens, VisitFails
  <1>5. ASSUME NEW v \in Visits, Reactivate(v) PROVE MemberInv'
    BY <1>5, ReactivateStep
  <1> QED
    BY <1>1, <1>2, <1>3, <1>4, <1>5, Opens, SetStep, TimeStep DEF MemberNext

LEMMA MemberAlways == MemberSpec => []MemberInv
PROOF
  BY MemberInitInv, MemberStep, PTL DEF MemberSpec

\* What a step of another visit does to v: at most it makes it stale.
LEMMA OtherVisit ==
  ASSUME MemberInv, NEW v \in Visits, NEW w \in Visits, v # w, NEW m, NEW next,
         \/ PutRow(w, m, next) \/ visit' = [visit EXCEPT ![w] = next]
  PROVE  visit'[v].step = visit[v].step
PROOF
  <1>1. visit \in [Visits -> {IdleVisit} \cup Busy]
    BY DEF MemberInv, MemberTypeOK
  <1>2. CASE PutRow(w, m, next)
    <2>1. visit'[v] = visit[v] \/ visit'[v] = [visit[v] EXCEPT !.stale = TRUE]
      BY <1>2 DEF PutRow
    <2>2. [visit[v] EXCEPT !.stale = TRUE].step = visit[v].step
      BY <1>1, VisitKinds DEF Busy, IdleVisit
    <2> QED BY <2>1, <2>2
  <1>3. CASE visit' = [visit EXCEPT ![w] = next]
    BY <1>1, <1>3
  <1> QED BY <1>2, <1>3

\* An expelled member who comes in from a social login was looked at, and let in
\* for what his row was.
LEMMA ComesInStep ==
  ASSUME MemberInv, MemberNext \/ UNCHANGED memberVars, NEW v \in Visits,
         visit[v].step \in {"check", "revive"}, visit'[v].step = "mint",
         visit[v].acct \in expelled, ~ visit[v].stale
  PROVE  LET a == visit[v].acct IN
           \/ member[a].gone = "month"
           \/ visit[v].route = "token" /\ (member[a].status \/ visit[v].by = "kakao")
PROOF
  <1> DEFINE a == visit[v].acct
  <1> USE DEF MemberInv
  <1>1. visit \in [Visits -> {IdleVisit} \cup Busy] /\ IdleVisit.step = "idle"
    BY DEF MemberTypeOK, IdleVisit
  <1>2. Up2Date(v) /\ member[a].userstatus \in {"banned", "deleted"}
    BY DEF VisitInv, ExpelledInv
  <1>3. ~ UNCHANGED memberVars
    BY DEF memberVars
  <1>4. ASSUME NEW w \in Visits, NEW s, NEW r, NEW p, NEW b, OpenVisit(w, s, r, p, b) PROVE FALSE
    <2>1. v # w
      BY <1>1, <1>4 DEF OpenVisit
    <2> QED BY <1>4, <2>1, OtherVisit DEF OpenVisit
  <1>5. ASSUME NEW w \in Visits, CloseVisit(w) PROVE FALSE
    <2>1. CASE v = w
      BY <1>1, <1>5, <2>1 DEF CloseVisit
    <2>2. CASE v # w
      BY <1>5, <2>2, OtherVisit DEF CloseVisit
    <2> QED BY <2>1, <2>2
  <1>6. ASSUME NEW w \in Visits, visit[w].step \notin {"check", "revive"}, NEW m, NEW next,
               PutRow(w, m, next) \/ visit' = [visit EXCEPT ![w] = next]
        PROVE  FALSE
    <2>1. v # w
      BY <1>6
    <2> QED BY <1>6, <2>1, OtherVisit
  <1>7. ASSUME NEW w \in Visits, NEW b \in Accounts,
               \/ ComesIn(w, b) \/ Login(w, b)
               \/ \E q \in Requests(Accounts) : \/ CompleteRoute(q, w, b) \/ BanRoute(q, w, b)
                                                \/ UnBanRoute(q, w, b) \/ DeleteRoute(q, w, b)
                                                \/ WithdrawRoute(q, w)
        PROVE  FALSE
    <2>1. \E s, r, p, c : OpenVisit(w, s, r, p, c)
      BY <1>7 DEF ComesIn, GoogleStrategy, NaverStrategy, KakaoStrategy, GoogleToken, NaverToken,
                  KakaoToken, Login, CompleteRoute, CompleteSignup, BanRoute, UnBanRoute, DeleteRoute,
                  WithdrawRoute, AdminBanUser, AdminUnBanUser, AdminDeleteUser, WithdrawMember, Order
    <2> QED BY <1>4, <2>1
  <1>8. ASSUME NEW w \in Visits,
               HandleGoogleUserFromCode(w) \/ HandleNaverUserFromCode(w) \/ HandleKakaoUserFromCode(w)
        PROVE  FALSE
    <2>1. CASE FindUser(w)
      <3> DEFINE next == [visit[w] EXCEPT !.step = IF Exists(visit[w].acct) THEN "check" ELSE "create",
                                          !.read = member[visit[w].acct]]
      <3>1. visit' = [visit EXCEPT ![w] = next] /\ visit[w].step \notin {"check", "revive"}
        BY <2>1 DEF FindUser
      <3> HIDE DEF next
      <3> QED BY <1>6, <3>1
    <2>2. CASE CreateSocialUser(w)
      BY <1>5, <1>6, <2>2 DEF CreateSocialUser
    <2> QED BY <1>8, <2>1, <2>2 DEF HandleGoogleUserFromCode, HandleNaverUserFromCode, HandleKakaoUserFromCode
  <1>9. ASSUME NEW w \in Visits, NEW p \in Providers, Callback(w, p)
        PROVE  member[a].gone = "month"
    <2>1. CASE v # w
      BY <1>9, <2>1, OtherVisit DEF Callback, ReviveOrRefuse, CloseVisit, MintNext
    <2>2. CASE v = w
      <3>1. visit[v].step = "check" /\ visit[v].read.userstatus \in {"banned", "deleted"}
        BY <1>2, <1>9, <2>2 DEF Callback, At, Up2Date
      <3>2. ReviveOrRefuse(v) \/ CloseVisit(v)
        BY <1>9, <2>2, <3>1 DEF Callback
      <3>3. ReviveOrRefuse(v) => visit'[v].step # "mint"
        BY <1>1, VisitKinds DEF ReviveOrRefuse, CloseVisit, Busy
      <3> QED BY <1>5, <3>2, <3>3
    <2> QED BY <2>1, <2>2
  <1>10. ASSUME NEW w \in Visits, NEW p \in Providers, ExchangeToken(w, p) \/ ExchangeKakaoToken(w)
         PROVE  visit[v].route = "token" /\ (member[a].status \/ visit[v].by = "kakao")
    <2>1. CASE v # w
      BY <1>10, <2>1, OtherVisit DEF ExchangeToken, ExchangeKakaoToken, ReviveOrRefuse, CloseVisit, MintNext
    <2>2. CASE v = w /\ ExchangeKakaoToken(w)
      BY <2>2 DEF ExchangeKakaoToken, At, By
    <2>3. CASE v = w /\ ExchangeToken(w, p)
      <3>1. visit[v].step = "check" /\ visit[v].route = "token" /\ visit[v].read = member[a]
        BY <1>2, <2>3 DEF ExchangeToken, At, Up2Date
      <3>2. ReviveOrRefuse(v) => visit'[v].step # "mint"
        BY <1>1, VisitKinds DEF ReviveOrRefuse, CloseVisit, Busy
      <3> QED BY <2>3, <3>1, <3>2 DEF ExchangeToken, IsActive
    <2> QED BY <1>10, <2>1, <2>2, <2>3
  <1>11. ASSUME NEW w \in Visits, Reactivate(w) PROVE member[a].gone = "month"
    <2>1. CASE v # w
      BY <1>11, <2>1, OtherVisit DEF Reactivate
    <2>2. CASE v = w
      BY <1>2, <1>11, <2>2 DEF Reactivate, Up2Date
    <2> QED BY <2>1, <2>2
  <1>12. ASSUME NEW w \in Visits,
                \/ GenerateTokens(w) \/ VisitFails(w)
                \/ BanUser(w) \/ UnBanUser(w) \/ DeleteUser(w)
                \/ \E sold \in BOOLEAN : DeactivateUser(w, sold)
         PROVE  FALSE
    <2>1. CASE GenerateTokens(w) \/ VisitFails(w)
      BY <1>5, <2>1 DEF GenerateTokens, VisitFails
    <2>2. ASSUME NEW o, NEW s, SetUserstatus(w, o, s) PROVE FALSE
      BY <1>6, <2>2 DEF SetUserstatus, At
    <2>3. ASSUME NEW sold \in BOOLEAN, DeactivateUser(w, sold) PROVE FALSE
      BY <1>5, <1>6, <2>3 DEF DeactivateUser, At
    <2> QED BY <1>12, <2>1, <2>2, <2>3 DEF BanUser, UnBanUser, DeleteUser
  <1>13. ASSUME SecondPasses \/ MonthPasses \/ \E q \in Requests(Accounts) : LogoutRoute(q)
         PROVE  FALSE
    BY <1>13 DEF SecondPasses, MonthPasses, LogoutRoute, Logout
  <1>14. \/ \E w \in Visits, p \in Providers : Callback(w, p) \/ ExchangeToken(w, p) \/ ExchangeKakaoToken(w)
         \/ \E w \in Visits : Reactivate(w)
    BY <1>3, <1>7, <1>8, <1>12, <1>13
    DEF MemberNext, GoogleCallback, NaverCallback, KakaoCallback, ExchangeGoogleToken, ExchangeNaverToken,
        Providers
  <1> QED BY <1>9, <1>10, <1>11, <1>14
-----------------------------------------------------------------------------
(* Profile.                                                                 *)

SamePair(f, w) == f.by = w.by /\ f.of = w.of

\* The rows of followers have ids of their own, and a handler that nobody
\* overtook is about to insert the first row of its pair.
FollowInv ==
  /\ \A f, g \in follows : f.id = g.id => f = g
  /\ \A f \in follows : f.id <= followed
  /\ \A f, g \in follows : f # g /\ f.by = g.by /\ f.of = g.of => <<f.by, f.of>> \in overlapped
  /\ \A c \in Slots : slot[c].act = "follow" /\ ~ slot[c].raced =>
       \A f \in follows : ~ SamePair(f, slot[c])

\* A nickname that is looked for and not yet set is nobody else's.
NameInv ==
  /\ NicknamesDistinct
  /\ \A c \in Slots : slot[c].act = "nick" /\ ~ slot[c].raced =>
       \A u \in People : nick[u] = slot[c].name =>
         u = slot[c].by \/ slot[c].name \in overlapped \cup unchecked

\* Rows have ids of their own, and no later row gets the id a handler has found.
EntryInv ==
  /\ \A k \in Kinds : \A d, e \in entries[k] : d.id = e.id => d = e
  /\ \A k \in Kinds : \A e \in entries[k] : e.id <= entered[k]
  /\ \A c \in Slots : slot[c].act \in {"edit", "drop"} => slot[c].id <= entered[slot[c].kind]
  /\ EntriesAreOwners

\* Of the users the reader is to see he has seen those on the pages he has read.
RosterInv ==
  /\ reader.due \subseteq ToSet(roster)
  /\ reader.page # 0 =>
       \A i \in 1..Len(roster) :
         roster[i] \in reader.due /\ Len(roster) - i < (reader.page - 1) * RosterLimit
           => roster[i] \in reader.seen

ProfileInv == ProfileTypeOK /\ FollowInv /\ NameInv /\ EntryInv /\ RosterInv
-----------------------------------------------------------------------------
LEMMA ProfileInitInv == ProfileInit => ProfileInv
PROOF
  <1> SUFFICES ASSUME ProfileInit PROVE ProfileInv
    OBVIOUS
  <1>1. Free.act = "none"
    BY DEF Free
  <1>2. roster \in Seq(People) /\ IsInjective(roster) /\ ToSet(roster) = {}
    BY DEF ProfileInit, IsInjective, ToSet
  <1>3. reader.page = 0 /\ reader.seen = {} /\ reader.due = {}
    BY DEF ProfileInit, NoReader
  <1>4. ProfileTypeOK
    BY <1>2, <1>3, ProfileAssumption DEF ProfileAssumption, ProfileInit, ProfileTypeOK
  <1>5. FollowInv /\ NameInv /\ EntryInv
    BY <1>1 DEF ProfileInit, FollowInv, NameInv, NicknamesDistinct, EntryInv, EntriesAreOwners
  <1>6. RosterInv
    BY <1>3 DEF RosterInv
  <1> QED BY <1>4, <1>5, <1>6 DEF ProfileInv

LEMMA SlotKinds ==
  ASSUME ProfileTypeOK, NEW c \in Slots
  PROVE  /\ slot[c] = Free \/ slot[c] \in Writes
         /\ slot[c].act = "follow" =>
              slot[c] \in [act : {"follow"}, by : People, of : People, raced : BOOLEAN]
         /\ slot[c].act = "nick" =>
              slot[c] \in [act : {"nick"}, by : People, name : Names, raced : BOOLEAN]
         /\ slot[c].act \in {"edit", "drop"} =>
              slot[c] \in [act : {"edit", "drop"}, by : People, kind : Kinds, id : 1..MaxEntries]
PROOF
  <1>1. slot[c] = Free \/ slot[c] \in Writes
    BY DEF ProfileTypeOK
  <1>2. CASE slot[c] = Free
    BY <1>2 DEF Free
  <1>3. CASE slot[c] \in Writes
    BY <1>3 DEF Writes
  <1> QED BY <1>1, <1>2, <1>3

\* A slot becomes free and nothing else changes that the invariant reads.
LEMMA SlotFreed ==
  ASSUME ProfileInv, NEW c \in Slots, Drop(c),
         UNCHANGED <<followed, nick, unchecked, entered, told, roster, reader, overlapped>>,
         follows' \subseteq follows,
         entries' \in [Kinds -> SUBSET [id : 1..MaxEntries, owner : People]],
         \A k \in Kinds : entries'[k] \subseteq entries[k]
  PROVE  ProfileInv'
PROOF
  <1>1. Free.act = "none"
    BY DEF Free
  <1>2. ProfileTypeOK'
    BY DEF ProfileInv, ProfileTypeOK, Drop
  <1>3. \A d \in Slots : slot'[d] = slot[d] \/ slot'[d] = Free
    BY DEF ProfileInv, ProfileTypeOK, Drop
  <1>4. FollowInv'
    BY <1>1, <1>3 DEF ProfileInv, FollowInv, SamePair
  <1>5. NameInv'
    BY <1>1, <1>3 DEF ProfileInv, NameInv, NicknamesDistinct
  <1>6. \A d \in Slots : slot[d].act \in {"edit", "drop"} => slot[d].kind \in Kinds
    BY SlotKinds DEF ProfileInv
  <1>7. EntryInv'
    BY <1>1, <1>3, <1>6 DEF ProfileInv, EntryInv, EntriesAreOwners
  <1>8. RosterInv'
    BY DEF ProfileInv, RosterInv
  <1> QED BY <1>2, <1>4, <1>5, <1>7, <1>8 DEF ProfileInv

\* A handler has looked and is going to write; nothing else changes.
LEMMA SlotTaken ==
  ASSUME ProfileInv, NEW c \in Slots, NEW w \in Writes, Take(c, w),
         UNCHANGED <<followVars, nameVars, entryVars, rosterVars, overlapped>>,
         w.act = "follow" => \A f \in follows : ~ SamePair(f, w),
         w.act = "nick" => \A u \in People : nick[u] = w.name =>
                              u = w.by \/ w.name \in overlapped \cup unchecked,
         w.act \in {"edit", "drop"} =>
           /\ w.id <= entered[w.kind]
           /\ \A e \in entries[w.kind] : e.id = w.id => e.owner = w.by
  PROVE  ProfileInv'
PROOF
  <1> USE DEF followVars, nameVars, entryVars, rosterVars
  <1>1. ProfileTypeOK'
    BY DEF ProfileInv, ProfileTypeOK, Take
  <1>2. \A d \in Slots : slot'[d] = IF d = c THEN w ELSE slot[d]
    BY DEF ProfileInv, ProfileTypeOK, Take
  <1>3. FollowInv'
    BY <1>2 DEF ProfileInv, FollowInv, SamePair
  <1>4. NameInv'
    BY <1>2 DEF ProfileInv, NameInv, NicknamesDistinct
  <1>5. EntryInv'
    BY <1>2 DEF ProfileInv, EntryInv, EntriesAreOwners
  <1>6. RosterInv'
    BY DEF ProfileInv, RosterInv
  <1> QED BY <1>1, <1>3, <1>4, <1>5, <1>6 DEF ProfileInv

\* The statement of c is done and has overtaken the handlers in S.
LEMMA Overtaken ==
  ASSUME ProfileTypeOK, NEW c \in Slots, NEW S \in SUBSET Slots, DoneBefore(c, S),
         \A d \in S : slot[d].act \in {"follow", "nick"}
  PROVE  /\ slot' \in [Slots -> {Free} \cup Writes]
         /\ \A d \in Slots \ (S \cup {c}) : slot'[d] = slot[d]
         /\ slot'[c] = Free /\ slot'[c].act = "none"
         /\ \A d \in S \ {c} : slot'[d].act \in {"follow", "nick"} /\ slot'[d].raced
PROOF
  <1>1. slot' = [d \in Slots |-> IF d = c THEN Free
                                 ELSE IF d \in S THEN [slot[d] EXCEPT !.raced = TRUE] ELSE slot[d]]
    BY DEF DoneBefore
  <1>2. \A d \in Slots : slot[d] \in {Free} \cup Writes
    BY DEF ProfileTypeOK
  <1>3. \A d \in S : /\ [slot[d] EXCEPT !.raced = TRUE] \in Writes
                     /\ [slot[d] EXCEPT !.raced = TRUE].act = slot[d].act
                     /\ [slot[d] EXCEPT !.raced = TRUE].raced
    <2> SUFFICES ASSUME NEW d \in S
                 PROVE  /\ [slot[d] EXCEPT !.raced = TRUE] \in Writes
                        /\ [slot[d] EXCEPT !.raced = TRUE].act = slot[d].act
                        /\ [slot[d] EXCEPT !.raced = TRUE].raced
      OBVIOUS
    <2>1. CASE slot[d].act = "follow"
      BY <2>1, SlotKinds DEF Writes
    <2>2. CASE slot[d].act = "nick"
      BY <2>2, SlotKinds DEF Writes
    <2> QED BY <2>1, <2>2
  <1>4. slot'[c] = Free /\ Free.act = "none"
    BY <1>1 DEF Free
  <1> QED BY <1>1, <1>2, <1>3, <1>4
-----------------------------------------------------------------------------
LEMMA FollowLooks ==
  ASSUME ProfileInv, NEW c \in Slots, NEW u \in People, NEW w \in People,
         FollowMember(c, u, w) \/ UnfollowMember(c, u, w)
  PROVE  ProfileInv'
PROOF
  <1>1. CASE FollowMember(c, u, w)
    <2> DEFINE p == [act |-> "follow", by |-> u, of |-> w, raced |-> FALSE]
    <2>1. p \in Writes /\ p.act = "follow" /\ p.by = u /\ p.of = w
      BY DEF Writes
    <2>2. \A f \in follows : ~ SamePair(f, p)
      BY <1>1, <2>1 DEF FollowMember, FindFollow, FollowingsOf, FollowersOf, SamePair
    <2>3. Take(c, p) /\ UNCHANGED <<followVars, nameVars, entryVars, rosterVars, overlapped>>
      BY <1>1 DEF FollowMember
    <2> HIDE DEF p
    <2> QED BY <2>1, <2>2, <2>3, SlotTaken
  <1>2. CASE UnfollowMember(c, u, w)
    <2>1. PICK f \in FindFollow(u, w) : Take(c, [act |-> "unfollow", by |-> u, id |-> f.id])
      BY <1>2 DEF UnfollowMember
    <2>2. f.id \in 1..MaxFollows
      BY <2>1 DEF FindFollow, FollowingsOf, ProfileInv, ProfileTypeOK
    <2> DEFINE p == [act |-> "unfollow", by |-> u, id |-> f.id]
    <2>3. p \in Writes /\ p.act = "unfollow"
      BY <2>2 DEF Writes
    <2>4. Take(c, p) /\ UNCHANGED <<followVars, nameVars, entryVars, rosterVars, overlapped>>
      BY <1>2, <2>1 DEF UnfollowMember
    <2> HIDE DEF p
    <2> QED BY <2>3, <2>4, SlotTaken
  <1> QED BY <1>1, <1>2

\* The new row is the pair's first, or its handler was overtaken.
LEMMA CreateFollowStep == ASSUME ProfileInv, NEW c \in Slots, CreateFollow(c) PROVE ProfileInv'
PROOF
  <1> DEFINE w == slot[c]
             S == {d \in Slots : slot[d].act = "follow" /\ slot[d].by = w.by /\ slot[d].of = w.of}
             f == [id |-> followed + 1, by |-> w.by, of |-> w.of]
  <1> USE DEF nameVars, entryVars, rosterVars
  <1>1. w.by \in People /\ w.of \in People /\ w.raced \in BOOLEAN /\ w.act = "follow"
    BY SlotKinds DEF CreateFollow, ProfileInv
  <1>2. followed \in Nat /\ followed + 1 \in 1..MaxFollows /\ followed' = followed + 1
    BY ProfileAssumption DEF CreateFollow, ProfileInv, ProfileTypeOK, ProfileAssumption
  <1>3. f \in [id : 1..MaxFollows, by : People, of : People] /\ f.id = followed + 1 /\ f.by = w.by /\ f.of = w.of
    BY <1>1, <1>2
  <1>4. follows' = follows \cup {f} /\ DoneBefore(c, S)
    BY DEF CreateFollow
  <1>5. /\ overlapped' = IF w.raced THEN overlapped \cup {<<w.by, w.of>>} ELSE overlapped
        /\ UNCHANGED <<nameVars, entryVars, rosterVars>>
    BY DEF CreateFollow
  <1>6. S \subseteq Slots /\ \A d \in S : slot[d].act = "follow"
    OBVIOUS
  <1>7. \A d \in Slots : slot[d].act = "follow" /\ slot[d].by = w.by /\ slot[d].of = w.of => d \in S
    OBVIOUS
  <1> HIDE DEF S, f
  <1>8. /\ slot' \in [Slots -> {Free} \cup Writes]
        /\ \A d \in Slots \ (S \cup {c}) : slot'[d] = slot[d]
        /\ slot'[c].act = "none"
        /\ \A d \in S \ {c} : slot'[d].act \in {"follow", "nick"} /\ slot'[d].raced
    BY <1>4, <1>6, Overtaken DEF ProfileInv
  <1>9. ProfileTypeOK'
    BY <1>1, <1>2, <1>3, <1>4, <1>5, <1>8 DEF ProfileInv, ProfileTypeOK
  <1>10. FollowInv'
    <2>1. /\ \A g, h \in follows' : g.id = h.id => g = h
          /\ \A g \in follows' : g.id <= followed'
      BY <1>2, <1>3, <1>4 DEF ProfileInv, FollowInv, ProfileTypeOK
    <2>2. w.raced \/ \A g \in follows : ~ SamePair(g, w)
      BY <1>1 DEF ProfileInv, FollowInv
    <2>3. \A g, h \in follows' : g # h /\ g.by = h.by /\ g.of = h.of => <<g.by, g.of>> \in overlapped'
      BY <1>3, <1>4, <1>5, <2>2 DEF ProfileInv, FollowInv, SamePair
    <2>4. \A d \in Slots : slot'[d].act = "follow" /\ ~ slot'[d].raced =>
            slot'[d] = slot[d] /\ d \notin S
      BY <1>8
    <2>5. \A d \in Slots : slot'[d].act = "follow" /\ ~ slot'[d].raced =>
            \A g \in follows' : ~ SamePair(g, slot'[d])
      BY <1>3, <1>4, <1>7, <2>4 DEF ProfileInv, FollowInv, SamePair
    <2> QED BY <2>1, <2>3, <2>5 DEF FollowInv
  <1>11. \A d \in Slots : slot'[d].act \in {"nick", "edit", "drop"} =>
           slot'[d] = slot[d] \/ (slot'[d].act = "nick" /\ slot'[d].raced)
    BY <1>8
  <1>12. NameInv'
    BY <1>5, <1>11 DEF ProfileInv, NameInv, NicknamesDistinct
  <1>13. EntryInv'
    BY <1>5, <1>11 DEF ProfileInv, EntryInv, EntriesAreOwners
  <1>14. RosterInv'
    BY <1>5 DEF ProfileInv, RosterInv
  <1> QED BY <1>9, <1>10, <1>12, <1>13, <1>14 DEF ProfileInv

LEMMA DeleteFollowStep == ASSUME ProfileInv, NEW c \in Slots, DeleteFollow(c) PROVE ProfileInv'
PROOF
  <1>1. /\ Drop(c) /\ follows' \subseteq follows
        /\ UNCHANGED <<followed, nick, unchecked, entries, entered, told, roster, reader, overlapped>>
    BY DEF DeleteFollow, nameVars, entryVars, rosterVars
  <1>2. entries' \in [Kinds -> SUBSET [id : 1..MaxEntries, owner : People]]
    BY <1>1 DEF ProfileInv, ProfileTypeOK
  <1> QED BY <1>1, <1>2, SlotFreed
-----------------------------------------------------------------------------
LEMMA NameLooks ==
  ASSUME ProfileInv, NEW c \in Slots, NEW u \in People, NEW n \in Names, UpdateMember(c, u, n)
  PROVE  ProfileInv'
PROOF
  <1> DEFINE p == [act |-> "nick", by |-> u, name |-> n, raced |-> FALSE]
  <1>1. p \in Writes /\ p.act = "nick" /\ p.name = n /\ p.by = u
    BY DEF Writes
  <1>2. \A w \in People : nick[w] = p.name => w = p.by \/ p.name \in overlapped \cup unchecked
    <2>1. FindUserByNickname(n) = {} \/ nick[u] = n
      BY DEF UpdateMember, FindUserByNickname
    <2>2. n # NoName
      BY ProfileAssumption DEF ProfileAssumption
    <2> QED BY <1>1, <2>1, <2>2 DEF FindUserByNickname, ProfileInv, NameInv, NicknamesDistinct
  <1>3. Take(c, p) /\ UNCHANGED <<followVars, nameVars, entryVars, rosterVars, overlapped>>
    BY DEF UpdateMember
  <1> HIDE DEF p
  <1> QED BY <1>1, <1>2, <1>3, SlotTaken

LEMMA UpdateUserStep == ASSUME ProfileInv, NEW c \in Slots, UpdateUser(c) PROVE ProfileInv'
PROOF
  <1> DEFINE w == slot[c]
             S == {d \in Slots : slot[d].act = "nick" /\ slot[d].name = w.name}
  <1> USE DEF followVars, entryVars, rosterVars
  <1>1. w.by \in People /\ w.name \in Names /\ w.raced \in BOOLEAN /\ w.act = "nick"
    BY SlotKinds DEF UpdateUser, ProfileInv
  <1>2. nick' = [nick EXCEPT ![w.by] = w.name] /\ DoneBefore(c, S)
    BY DEF UpdateUser
  <1>3. /\ overlapped' = IF w.raced THEN overlapped \cup {w.name} ELSE overlapped
        /\ UNCHANGED <<followVars, unchecked, entryVars, rosterVars>>
    BY DEF UpdateUser
  <1>4. S \subseteq Slots /\ \A d \in S : slot[d].act = "nick"
    OBVIOUS
  <1>5. \A d \in Slots : slot[d].act = "nick" /\ slot[d].name = w.name => d \in S
    OBVIOUS
  <1> HIDE DEF S
  <1>6. /\ slot' \in [Slots -> {Free} \cup Writes]
        /\ \A d \in Slots \ (S \cup {c}) : slot'[d] = slot[d]
        /\ slot'[c].act = "none"
        /\ \A d \in S \ {c} : slot'[d].act \in {"follow", "nick"} /\ slot'[d].raced
    BY <1>2, <1>4, Overtaken DEF ProfileInv
  <1>7. ProfileTypeOK'
    BY <1>1, <1>2, <1>3, <1>6 DEF ProfileInv, ProfileTypeOK
  <1>8. \A u \in People : nick'[u] = IF u = w.by THEN w.name ELSE nick[u]
    BY <1>2 DEF ProfileInv, ProfileTypeOK
  <1>9. \A d \in Slots : slot'[d].act \in {"follow", "edit", "drop"} =>
          slot'[d] = slot[d] \/ (slot'[d].act = "follow" /\ slot'[d].raced)
    BY <1>6
  <1>10. FollowInv'
    BY <1>3, <1>9 DEF ProfileInv, FollowInv, SamePair
  <1>11. NameInv'
    <2>1. w.raced \/ \A u \in People : nick[u] = w.name =>
                       u = w.by \/ w.name \in overlapped \cup unchecked
      BY <1>1 DEF ProfileInv, NameInv
    <2>2. overlapped \subseteq overlapped' /\ (w.raced => w.name \in overlapped')
      BY <1>3
    <2>3. NicknamesDistinct'
      BY <1>3, <1>8, <2>1, <2>2 DEF ProfileInv, NameInv, NicknamesDistinct
    <2>4. \A d \in Slots : slot'[d].act = "nick" /\ ~ slot'[d].raced =>
            slot'[d] = slot[d] /\ d \notin S
      BY <1>6
    <2>5. \A d \in Slots : slot'[d].act = "nick" /\ ~ slot'[d].raced => slot[d].name # w.name
      BY <1>5, <2>4
    <2>6. \A d \in Slots : slot'[d].act = "nick" /\ ~ slot'[d].raced =>
            \A u \in People : nick'[u] = slot'[d].name =>
              u = slot'[d].by \/ slot'[d].name \in (overlapped \cup unchecked)'
      BY <1>3, <1>8, <2>2, <2>4, <2>5 DEF ProfileInv, NameInv
    <2> QED BY <2>3, <2>6 DEF NameInv
  <1>12. EntryInv'
    BY <1>3, <1>9 DEF ProfileInv, EntryInv, EntriesAreOwners
  <1>13. RosterInv'
    BY <1>3 DEF ProfileInv, RosterInv
  <1> QED BY <1>7, <1>10, <1>11, <1>12, <1>13 DEF ProfileInv

\* A nickname that is given without a look, and was taken, counts as such.
LEMMA NicknameGiven ==
  ASSUME ProfileInv, NEW u \in People, NEW n \in Names, GiveNickname(u, n), UNCHANGED <<slot, overlapped>>
  PROVE  /\ nick' \in [People -> Names \cup {NoName}] /\ unchecked' \in SUBSET Names
         /\ NameInv'
PROOF
  <1>1. /\ nick' = [nick EXCEPT ![u] = n]
        /\ unchecked' = IF Taken(u, n) THEN unchecked \cup {n} ELSE unchecked
    BY DEF GiveNickname
  <1>2. nick' \in [People -> Names \cup {NoName}] /\ unchecked' \in SUBSET Names
    BY <1>1 DEF ProfileInv, ProfileTypeOK
  <1>3. \A w \in People : nick'[w] = IF w = u THEN n ELSE nick[w]
    BY <1>1 DEF ProfileInv, ProfileTypeOK
  <1>4. unchecked \subseteq unchecked' /\ (n \in unchecked' \/ ~ Taken(u, n))
    BY <1>1
  <1>5. NicknamesDistinct'
    BY <1>3, <1>4 DEF Taken, ProfileInv, NameInv, NicknamesDistinct
  <1>6. ASSUME NEW c \in Slots, slot[c].act = "nick", ~ slot[c].raced, NEW w \in People,
               nick'[w] = slot[c].name
        PROVE  w = slot[c].by \/ slot[c].name \in overlapped \cup unchecked'
    BY <1>3, <1>4, <1>6 DEF Taken, ProfileInv, NameInv
  <1> QED BY <1>2, <1>5, <1>6 DEF NameInv

LEMMA SetupStep ==
  ASSUME ProfileInv, NEW u \in People, NEW n \in Names, CompleteInitialSetup(u, n)
  PROVE  ProfileInv'
PROOF
  <1> USE DEF followVars, rosterVars
  <1>1. /\ GiveNickname(u, n) /\ told' = [told EXCEPT !["intro"] = @ \cup {u}]
        /\ UNCHANGED <<followVars, entries, entered, rosterVars, slot, overlapped>>
    BY DEF CompleteInitialSetup
  <1>2. ProfileTypeOK'
    BY <1>1, NicknameGiven DEF ProfileInv, ProfileTypeOK
  <1>3. NameInv'
    BY <1>1, NicknameGiven
  <1>4. FollowInv' /\ EntryInv' /\ RosterInv'
    BY <1>1 DEF ProfileInv, FollowInv, SamePair, EntryInv, EntriesAreOwners, RosterInv
  <1> QED BY <1>2, <1>3, <1>4 DEF ProfileInv

LEMMA SignupNameStep ==
  ASSUME ProfileInv, NEW u \in People, NEW n \in Names, NameAtSignup(u, n)
  PROVE  ProfileInv'
PROOF
  <1>1. GiveNickname(u, n) /\ UNCHANGED <<followVars, entryVars, rosterVars, slot, overlapped>>
    BY DEF NameAtSignup
  <1>2. ProfileTypeOK'
    BY <1>1, NicknameGiven DEF ProfileInv, ProfileTypeOK, followVars, entryVars, rosterVars
  <1>3. NameInv'
    BY <1>1, NicknameGiven
  <1>4. FollowInv' /\ EntryInv' /\ RosterInv'
    BY <1>1 DEF ProfileInv, FollowInv, SamePair, EntryInv, EntriesAreOwners, RosterInv,
                followVars, entryVars, rosterVars
  <1> QED BY <1>2, <1>3, <1>4 DEF ProfileInv
-----------------------------------------------------------------------------
LEMMA UpsertStep ==
  ASSUME ProfileInv, NEW u \in People, NEW t \in {"intro", "image"}, Upsert(t, u)
  PROVE  ProfileInv'
PROOF
  <1>1. /\ told' = [told EXCEPT ![t] = @ \cup {u}]
        /\ UNCHANGED <<follows, followed, nick, unchecked, entries, entered, roster, reader, slot, overlapped>>
    BY DEF Upsert, followVars, nameVars, rosterVars
  <1>2. ProfileTypeOK'
    BY <1>1 DEF ProfileInv, ProfileTypeOK
  <1>3. FollowInv' /\ NameInv' /\ EntryInv' /\ RosterInv'
    BY <1>1 DEF ProfileInv, FollowInv, SamePair, NameInv, NicknamesDistinct, EntryInv, EntriesAreOwners, RosterInv
  <1> QED BY <1>2, <1>3 DEF ProfileInv

LEMMA ReviseSteps ==
  ASSUME ProfileInv, NEW c \in Slots, NEW u \in People, FindIntro(c, u)
  PROVE  ProfileInv'
PROOF
  <1> DEFINE p == [act |-> "revise", by |-> u]
  <1>1. p \in Writes /\ p.act = "revise"
    BY DEF Writes
  <1>2. Take(c, p) /\ UNCHANGED <<followVars, nameVars, entryVars, rosterVars, overlapped>>
    BY DEF FindIntro
  <1> HIDE DEF p
  <1> QED BY <1>1, <1>2, SlotTaken

LEMMA CreateEntryStep ==
  ASSUME ProfileInv, NEW k \in Kinds, NEW u \in People, CreateEntry(k, u)
  PROVE  ProfileInv'
PROOF
  <1> DEFINE e == [id |-> entered[k] + 1, owner |-> u]
  <1> USE DEF followVars, nameVars, rosterVars
  <1>1. entered[k] \in Nat /\ entered[k] + 1 \in 1..MaxEntries
    BY ProfileAssumption DEF CreateEntry, ProfileInv, ProfileTypeOK, ProfileAssumption
  <1>2. e \in [id : 1..MaxEntries, owner : People] /\ e.id = entered[k] + 1 /\ e.owner = u
    BY <1>1
  <1>3. /\ entries' = [entries EXCEPT ![k] = @ \cup {e}] /\ entered' = [entered EXCEPT ![k] = @ + 1]
        /\ UNCHANGED <<followVars, nameVars, told, rosterVars, slot, overlapped>>
    BY DEF CreateEntry
  <1> HIDE DEF e
  <1>4. /\ entered' \in [Kinds -> 0..MaxEntries] /\ entered'[k] = entered[k] + 1
        /\ \A j \in Kinds : j # k => entered'[j] = entered[j]
        /\ entries' \in [Kinds -> SUBSET [id : 1..MaxEntries, owner : People]]
        /\ entries'[k] = entries[k] \cup {e}
        /\ \A j \in Kinds : j # k => entries'[j] = entries[j]
    BY <1>1, <1>2, <1>3 DEF ProfileInv, ProfileTypeOK
  <1>5. ProfileTypeOK'
    BY <1>3, <1>4 DEF ProfileInv, ProfileTypeOK
  <1>6. \A j \in Kinds : entered[j] \in Nat /\ entries[j] \subseteq [id : 1..MaxEntries, owner : People]
    BY DEF ProfileInv, ProfileTypeOK
  <1>7. \A c \in Slots : slot[c].act \in {"edit", "drop"} =>
          slot[c].kind \in Kinds /\ slot[c].id \in Nat /\ slot[c].id <= entered[slot[c].kind]
    BY SlotKinds DEF ProfileInv, EntryInv
  <1>8. EntryInv'
    <2>1. \A j \in Kinds : \A d, f \in entries'[j] : d.id = f.id => d = f
      BY <1>1, <1>2, <1>4, <1>6 DEF ProfileInv, EntryInv
    <2>2. \A j \in Kinds : \A f \in entries'[j] : f.id <= entered'[j]
      BY <1>1, <1>2, <1>4, <1>6 DEF ProfileInv, EntryInv
    <2>3. \A c \in Slots : slot[c].act \in {"edit", "drop"} => slot[c].id <= entered'[slot[c].kind]
      BY <1>4, <1>6, <1>7
    <2>4. \A c \in Slots : slot[c].act \in {"edit", "drop"} =>
            \A f \in entries'[slot[c].kind] : f.id = slot[c].id => f.owner = slot[c].by
      BY <1>1, <1>2, <1>4, <1>6, <1>7 DEF ProfileInv, EntryInv, EntriesAreOwners
    <2> QED BY <1>3, <2>1, <2>2, <2>3, <2>4 DEF EntryInv, EntriesAreOwners
  <1>9. FollowInv' /\ NameInv' /\ RosterInv'
    BY <1>3 DEF ProfileInv, FollowInv, SamePair, NameInv, NicknamesDistinct, RosterInv
  <1> QED BY <1>5, <1>8, <1>9 DEF ProfileInv

\* The row a handler has found is the only one with its id, and the user's.
LEMMA CheckEntryStep ==
  ASSUME ProfileInv, NEW c \in Slots, NEW act \in {"edit", "drop"}, NEW k \in Kinds,
         NEW u \in People, NEW id \in 1..MaxEntries, Check(c, act, k, u, id)
  PROVE  ProfileInv'
PROOF
  <1> DEFINE p == [act |-> act, by |-> u, kind |-> k, id |-> id]
  <1>1. p \in Writes /\ p.act = act /\ p.by = u /\ p.kind = k /\ p.id = id
    BY DEF Writes
  <1>2. Take(c, p) /\ UNCHANGED <<followVars, nameVars, entryVars, rosterVars, overlapped>>
    BY DEF Check
  <1>3. PICK e \in entries[k] : e.id = id /\ e.owner = u
    BY DEF Check, OwnEntry
  <1>4. id <= entered[k] /\ \A d \in entries[k] : d.id = id => d.owner = u
    BY <1>3 DEF ProfileInv, EntryInv
  <1> HIDE DEF p
  <1> QED BY <1>1, <1>2, <1>4, SlotTaken

LEMMA EntryWrites ==
  ASSUME ProfileInv, NEW c \in Slots,
         EditEntry(c) \/ DeleteEntry(c) \/ UpdateIntro(c) \/ SlotFails(c)
  PROVE  ProfileInv'
PROOF
  <1> USE DEF followVars, nameVars, entryVars, rosterVars
  <1>1. entries \in [Kinds -> SUBSET [id : 1..MaxEntries, owner : People]]
    BY DEF ProfileInv, ProfileTypeOK
  <1>2. CASE EditEntry(c) \/ UpdateIntro(c) \/ SlotFails(c)
    <2>1. /\ Drop(c) /\ follows' \subseteq follows /\ entries' = entries
          /\ UNCHANGED <<followed, nick, unchecked, entered, told, roster, reader, overlapped>>
      BY <1>2 DEF EditEntry, UpdateIntro, SlotFails
    <2> QED BY <1>1, <2>1, SlotFreed
  <1>3. CASE DeleteEntry(c)
    <2>1. /\ Drop(c) /\ follows' \subseteq follows
          /\ UNCHANGED <<followed, nick, unchecked, entered, told, roster, reader, overlapped>>
      BY <1>3 DEF DeleteEntry
    <2>2. slot[c].kind \in Kinds
      BY <1>3, SlotKinds DEF DeleteEntry, ProfileInv
    <2>3. entries' = [entries EXCEPT ![slot[c].kind] = {e \in entries[slot[c].kind] : e.id # slot[c].id}]
      BY <1>3 DEF DeleteEntry
    <2>4. /\ entries' \in [Kinds -> SUBSET [id : 1..MaxEntries, owner : People]]
          /\ \A k \in Kinds : entries'[k] \subseteq entries[k]
      BY <1>1, <2>2, <2>3
    <2> QED BY <2>1, <2>4, SlotFreed
  <1> QED BY <1>2, <1>3

LEMMA AdminDeleteStep ==
  ASSUME ProfileInv, NEW id \in 1..MaxEntries, AdminDeleteHistory(id)
  PROVE  ProfileInv'
PROOF
  <1> USE DEF followVars, nameVars, rosterVars
  <1>1. /\ entries' = [entries EXCEPT !["history"] = {e \in entries["history"] : e.id # id}]
        /\ UNCHANGED <<followVars, nameVars, entered, told, rosterVars, slot, overlapped>>
    BY DEF AdminDeleteHistory
  <1>2. /\ entries' \in [Kinds -> SUBSET [id : 1..MaxEntries, owner : People]]
        /\ \A k \in Kinds : entries'[k] \subseteq entries[k]
    BY <1>1 DEF ProfileInv, ProfileTypeOK, Kinds
  <1>3. ProfileTypeOK'
    BY <1>1, <1>2 DEF ProfileInv, ProfileTypeOK
  <1>4. \A c \in Slots : slot[c].act \in {"edit", "drop"} => slot[c].kind \in Kinds
    BY SlotKinds DEF ProfileInv
  <1>5. EntryInv'
    BY <1>1, <1>2, <1>4 DEF ProfileInv, EntryInv, EntriesAreOwners
  <1>6. FollowInv' /\ NameInv' /\ RosterInv'
    BY <1>1 DEF ProfileInv, FollowInv, SamePair, NameInv, NicknamesDistinct, RosterInv
  <1> QED BY <1>3, <1>5, <1>6 DEF ProfileInv
-----------------------------------------------------------------------------
LEMMA JoinRosterStep ==
  ASSUME ProfileInv, NEW u \in People, NEW n \in Names, JoinRoster(u, n)
  PROVE  ProfileInv'
PROOF
  <1> USE DEF followVars, entryVars
  <1>1. /\ roster' = Append(roster, u) /\ u \notin ToSet(roster)
        /\ GiveNickname(u, n) /\ UNCHANGED <<followVars, entryVars, reader, slot, overlapped>>
    BY DEF JoinRoster
  <1>2. roster \in Seq(People)
    BY DEF ProfileInv, ProfileTypeOK
  <1>3. /\ Len(roster) \in Nat /\ Len(roster') = Len(roster) + 1
        /\ DOMAIN roster = 1..Len(roster) /\ DOMAIN roster' = 1..Len(roster) + 1
        /\ roster'[Len(roster) + 1] = u
        /\ \A i \in 1..Len(roster) : roster'[i] = roster[i]
    BY <1>1, <1>2
  <1>4. ToSet(roster') = ToSet(roster) \cup {u}
    BY <1>3 DEF ToSet
  <1>5. IsInjective(roster')
    BY <1>1, <1>3 DEF ProfileInv, ProfileTypeOK, IsInjective, ToSet
  <1>6. ProfileTypeOK'
    BY <1>1, <1>2, <1>4, <1>5, NicknameGiven DEF ProfileInv, ProfileTypeOK
  <1>7. RosterInv'
    <2>1. reader.due \subseteq ToSet(roster')
      BY <1>4 DEF ProfileInv, RosterInv
    <2>2. ASSUME reader.page # 0, NEW i \in 1..Len(roster'), roster'[i] \in reader.due,
                 Len(roster') - i < (reader.page - 1) * RosterLimit
          PROVE  roster'[i] \in reader.seen
      <3>1. (reader.page - 1) * RosterLimit \in Nat
        BY <2>2, ProfileAssumption DEF ProfileAssumption, ProfileInv, ProfileTypeOK
      <3>2. u \notin reader.due
        BY <1>1 DEF ProfileInv, RosterInv
      <3>3. i \in 1..Len(roster) /\ roster'[i] = roster[i]
        BY <1>3, <2>2, <3>2
      <3>4. Len(roster) - i < (reader.page - 1) * RosterLimit
        BY <1>3, <2>2, <3>1, <3>3
      <3> QED BY <2>2, <3>3, <3>4 DEF ProfileInv, RosterInv
    <2> QED BY <1>1, <2>1, <2>2 DEF RosterInv
  <1>8. FollowInv' /\ EntryInv'
    BY <1>1 DEF ProfileInv, FollowInv, SamePair, EntryInv, EntriesAreOwners
  <1>9. NameInv'
    BY <1>1, NicknameGiven
  <1> QED BY <1>6, <1>7, <1>8, <1>9 DEF ProfileInv

\* A page number that is past the last one: all positions are on pages before it.
LEMMA PagesCover ==
  ASSUME NEW n \in Nat, NEW limit \in Nat \ {0}, NEW page \in Nat,
         page > (n + limit - 1) \div limit
  PROVE  n <= (page - 1) * limit
PROOF
  <1> DEFINE q == (n + limit - 1) \div limit
  <1>1. q \in Nat /\ n + limit - 1 < (q + 1) * limit
    OBVIOUS
  <1>2. (q + 1) * limit = q * limit + limit
    BY <1>1
  <1>3. n <= q * limit
    BY <1>1, <1>2
  <1>4. page - 1 \in Nat /\ q <= page - 1
    BY <1>1
  <1> HIDE DEF q
  <1>5. q * limit <= (page - 1) * limit
    BY <1>1, <1>4
  <1> QED BY <1>1, <1>3, <1>4, <1>5

\* A page has the users at its positions from the end of the list.
LEMMA PageHas ==
  ASSUME roster \in Seq(People), NEW page \in Nat \ {0}, NEW limit \in Nat \ {0}
  PROVE  /\ ToSet(FindAllMembers(page, limit)) \subseteq ToSet(roster)
         /\ \A i \in 1..Len(roster) :
              /\ (page - 1) * limit <= Len(roster) - i
              /\ Len(roster) - i < page * limit
              => roster[i] \in ToSet(FindAllMembers(page, limit))
PROOF
  <1> DEFINE R == Reverse(roster)
             m == (page - 1) * limit + 1
             n == IF page * limit < Len(roster) THEN page * limit ELSE Len(roster)
             P == SubSeq(R, m, n)
  <1>1. Len(roster) \in Nat /\ \A i \in 1..Len(roster) : roster[i] \in People
    OBVIOUS
  <1>2. R = [i \in 1..Len(roster) |-> roster[(Len(roster) - i) + 1]]
    BY DEF Reverse
  <1>3. R \in Seq(People) /\ Len(R) = Len(roster) /\ \A i \in 1..Len(roster) : R[i] = roster[Len(roster) - i + 1]
    BY <1>1, <1>2
  <1>4. (page - 1) * limit \in Nat /\ page * limit \in Nat
    OBVIOUS
  <1>5. m \in Nat \ {0} /\ n \in Nat /\ n <= Len(roster) /\ n <= page * limit
        /\ (n = page * limit \/ n = Len(roster))
    BY <1>1, <1>4
  <1>6. FindAllMembers(page, limit) = P
    BY DEF FindAllMembers
  <1> HIDE DEF R, m, n
  <1>7. \A i \in m..n : R[i] \in People
    BY <1>1, <1>3, <1>5
  <1>8. /\ P \in Seq(People) /\ Len(P) = IF m <= n THEN n - m + 1 ELSE 0
        /\ \A i \in 1..n - m + 1 : P[i] = R[m + i - 1]
    BY <1>5, <1>7, SubSeqProperties
  <1> HIDE DEF P
  <1>9. ToSet(P) \subseteq ToSet(roster)
    <2> SUFFICES ASSUME NEW j \in DOMAIN P PROVE P[j] \in ToSet(roster)
      BY DEF ToSet
    <2>1. j \in 1..n - m + 1 /\ m + j - 1 \in 1..Len(roster)
      <3>1. j \in 1..Len(P)
        BY <1>8
      <3>2. j \in 1..n - m + 1
        BY <1>5, <1>8, <3>1
      <3> QED BY <1>5, <3>2
    <2>2. P[j] = roster[Len(roster) - (m + j - 1) + 1] /\ Len(roster) - (m + j - 1) + 1 \in DOMAIN roster
      <3>1. P[j] = R[m + j - 1]
        BY <1>8, <2>1
      <3>2. R[m + j - 1] = roster[Len(roster) - (m + j - 1) + 1]
        BY <1>3, <2>1
      <3>3. ASSUME NEW k \in 1..Len(roster) PROVE Len(roster) - k + 1 \in DOMAIN roster
        BY <1>1
      <3> QED BY <2>1, <3>1, <3>2, <3>3
    <2> QED BY <2>2 DEF ToSet
  <1>10. ASSUME NEW i \in 1..Len(roster),
                (page - 1) * limit <= Len(roster) - i, Len(roster) - i < page * limit
         PROVE  roster[i] \in ToSet(P)
    <2> DEFINE j == Len(roster) - i + 1 - (m - 1)
    <2>1. m - 1 = (page - 1) * limit
      BY <1>4 DEF m
    <2>2. j \in 1..n - m + 1 /\ m + j - 1 = Len(roster) - i + 1
      BY <1>1, <1>4, <1>5, <1>10, <2>1
    <2>3. P[j] = R[Len(roster) - i + 1]
      BY <1>8, <2>2
    <2>4. Len(roster) - i + 1 \in 1..Len(roster) /\ Len(roster) - (Len(roster) - i + 1) + 1 = i
      BY <1>1
    <2>5. P[j] = roster[i]
      BY <1>3, <2>3, <2>4
    <2>6. Len(P) = n - m + 1
      BY <1>5, <1>8, <2>2
    <2>7. j \in DOMAIN P
      BY <1>8, <2>2, <2>6
    <2> QED BY <2>5, <2>7 DEF ToSet
  <1> QED BY <1>6, <1>9, <1>10

LEMMA ReadStep == ASSUME ProfileInv, GetAllMembers PROVE ProfileInv'
PROOF
  <1> DEFINE page == reader.page
             P == ToSet(FindAllMembers(page, RosterLimit))
  <1> USE DEF followVars, nameVars, entryVars
  <1>1. RosterLimit \in Nat \ {0} /\ page \in Nat /\ roster \in Seq(People)
    BY ProfileAssumption DEF ProfileAssumption, ProfileInv, ProfileTypeOK
  <1>2. /\ UNCHANGED <<followVars, nameVars, entryVars, roster, slot, overlapped>>
        /\ reader'.page = page + 1
        /\ reader'.seen = reader.seen \cup (IF page = 0 THEN {} ELSE P)
        /\ reader'.due = IF page = 0 THEN ToSet(roster) ELSE reader.due
    BY DEF GetAllMembers
  <1>3. ToSet(roster) \subseteq People
    BY <1>1 DEF ToSet
  <1>4. page # 0 => /\ P \subseteq ToSet(roster)
                    /\ \A i \in 1..Len(roster) :
                         /\ (page - 1) * RosterLimit <= Len(roster) - i
                         /\ Len(roster) - i < page * RosterLimit
                         => roster[i] \in P
    BY <1>1, PageHas
  <1> HIDE DEF P
  <1>5. ProfileTypeOK'
    BY <1>1, <1>2, <1>3, <1>4 DEF ProfileInv, ProfileTypeOK
  <1>6. RosterInv'
    <2>1. reader'.due \subseteq ToSet(roster')
      BY <1>2 DEF ProfileInv, RosterInv
    <2>2. reader'.page - 1 = page
      BY <1>1, <1>2
    <2>3. ASSUME NEW i \in 1..Len(roster), roster[i] \in reader'.due,
                 Len(roster) - i < page * RosterLimit
          PROVE  roster[i] \in reader'.seen
      <3>1. page # 0
        BY <1>1, <2>3
      <3>2. roster[i] \in reader.due
        BY <1>2, <2>3, <3>1
      <3>3. Len(roster) \in Nat /\ (page - 1) * RosterLimit \in Nat
        BY <1>1, <3>1
      <3>4. CASE Len(roster) - i < (page - 1) * RosterLimit
        BY <1>2, <3>1, <3>2, <3>4 DEF ProfileInv, RosterInv
      <3>5. CASE (page - 1) * RosterLimit <= Len(roster) - i
        BY <1>2, <1>4, <2>3, <3>1, <3>5
      <3> QED BY <1>1, <3>3, <3>4, <3>5
    <2> QED BY <1>2, <2>1, <2>2, <2>3 DEF RosterInv
  <1>7. FollowInv' /\ NameInv' /\ EntryInv'
    BY <1>2 DEF ProfileInv, FollowInv, SamePair, NameInv, NicknamesDistinct, EntryInv, EntriesAreOwners
  <1> QED BY <1>5, <1>6, <1>7 DEF ProfileInv
-----------------------------------------------------------------------------
LEMMA ProfileStep == ProfileInv /\ [ProfileNext]_profileVars => ProfileInv'
PROOF
  <1> SUFFICES ASSUME ProfileInv, [ProfileNext]_profileVars PROVE ProfileInv'
    OBVIOUS
  <1>1. \A q \in Requests(People) : SignedIn(q) => q.user \in People
    BY DEF Requests, SignedIn
  <1>2. \A q \in Requests(People) : WellFormed(q) => q.user \in People
    BY <1>1 DEF WellFormed
  <1>3. CASE FollowNext
    <2>1. ASSUME NEW q \in Requests(People), NEW c \in Slots, NEW w \in People,
                 FollowRoute(q, c, w) \/ UnfollowRoute(q, c, w)
          PROVE  ProfileInv'
      BY <1>1, <2>1, FollowLooks DEF FollowRoute, UnfollowRoute
    <2> QED BY <1>3, <2>1, CreateFollowStep, DeleteFollowStep, EntryWrites DEF FollowNext
  <1>4. CASE NameNext
    <2>1. ASSUME NEW q \in Requests(People), NEW c \in Slots, NEW n \in Names,
                 UpdateMemberRoute(q, c, n) \/ InitialSetupRoute(q, n)
          PROVE  ProfileInv'
      BY <1>2, <2>1, NameLooks, SetupStep DEF UpdateMemberRoute, InitialSetupRoute
    <2>2. ASSUME NEW q \in Requests(People), NEW u \in People, NEW n \in Names, SignupNameRoute(q, u, n)
          PROVE  ProfileInv'
      BY <2>2, SignupNameStep DEF SignupNameRoute
    <2> QED BY <1>4, <2>1, <2>2, UpdateUserStep, JoinRosterStep, EntryWrites DEF NameNext
  <1>5. CASE EntryNext
    <2>1. ASSUME NEW q \in Requests(People), NEW c \in Slots, NEW id \in 1..MaxEntries,
                 \/ UpdateHistoryRoute(q, c, id) \/ DeleteHistoryRoute(q, c, id) \/ AdminDeleteRoute(q, id)
                 \/ UpdateSnsRoute(q, c, id) \/ DeleteSnsRoute(q, c, id)
          PROVE  ProfileInv'
      BY <1>1, <1>2, <2>1, CheckEntryStep, AdminDeleteStep
         DEF UpdateHistoryRoute, DeleteHistoryRoute, AdminDeleteRoute, UpdateSnsRoute, DeleteSnsRoute, Kinds
    <2>2. ASSUME NEW q \in Requests(People),
                 CreateHistoryRoute(q) \/ CreateSnsRoute(q) \/ CreateIntroRoute(q) \/ UploadImageRoute(q)
          PROVE  ProfileInv'
      BY <1>2, <2>2, CreateEntryStep, UpsertStep
         DEF CreateHistoryRoute, CreateSnsRoute, CreateIntroRoute, UploadImageRoute, UpsertIntro,
             UpsertProfileImage, Kinds
    <2>3. ASSUME NEW q \in Requests(People), NEW c \in Slots, UpdateIntroRoute(q, c)
          PROVE  ProfileInv'
      BY <1>2, <2>3, ReviseSteps DEF UpdateIntroRoute
    <2> QED BY <1>5, <2>1, <2>2, <2>3, EntryWrites DEF EntryNext
  <1>6. CASE RosterNext
    BY <1>6, JoinRosterStep, ReadStep DEF RosterNext
  <1>7. CASE UNCHANGED profileVars
    BY <1>7 DEF profileVars, ProfileInv, ProfileTypeOK, FollowInv, SamePair, NameInv, NicknamesDistinct,
                EntryInv, EntriesAreOwners, RosterInv
  <1> QED BY <1>3, <1>4, <1>5, <1>6, <1>7 DEF ProfileNext

LEMMA ProfileAlways == ProfileSpec => []ProfileInv
PROOF
  BY ProfileInitInv, ProfileStep, PTL DEF ProfileSpec

\* As ids are unique, there are as many rows of followers as followers, if all
\* of these follow once.
LEMMA FollowersCounted ==
  ASSUME ProfileInv, NEW v \in People, \A w \in People : <<w, v>> \notin overlapped
  PROVE  Cardinality(FollowersOf(v)) = Cardinality({f.by : f \in FollowersOf(v)})
PROOF
  <1> DEFINE S == FollowersOf(v)
             T == {f.by : f \in S}
             ids == [f \in S |-> f.id]
             by == [f \in S |-> f.by]
  <1>1. \A f \in S : f \in follows /\ f.of = v /\ f.by \in People /\ f.id \in 1..MaxFollows
    BY DEF FollowersOf, ProfileInv, ProfileTypeOK
  <1>2. ids \in [S -> 1..MaxFollows] /\ by \in [S -> T]
    BY <1>1
  <1>3. \A f, g \in S : ids[f] = ids[g] => f = g
    BY <1>1 DEF ProfileInv, FollowInv
  <1>4. IsFiniteSet(1..MaxFollows)
    BY ProfileAssumption, FS_Interval DEF ProfileAssumption
  <1>5. \A f, g \in S : by[f] = by[g] => f = g
    BY <1>1 DEF ProfileInv, FollowInv
  <1>6. \A t \in T : \E f \in S : by[f] = t
    OBVIOUS
  <1> HIDE DEF S, T, ids, by
  <1>7. DOMAIN ids = S /\ DOMAIN by = S
    BY <1>2
  <1>8. ids \in Injection(S, 1..MaxFollows)
    BY <1>2, <1>3, <1>7 DEF Injection, IsInjective
  <1>9. IsFiniteSet(S)
    BY <1>4, <1>8, FS_Injection
  <1>10. by \in Bijection(S, T)
    BY <1>2, <1>5, <1>6, <1>7 DEF Bijection, Injection, Surjection, IsInjective
  <1>11. ExistsBijection(S, T)
    BY <1>10 DEF ExistsBijection
  <1>12. Cardinality(T) = Cardinality(S)
    BY <1>9, <1>11, FS_Bijection
  <1> QED BY <1>12 DEF S, T

LEMMA InvImpliesProfile == ProfileInv => ProfileTypeOK /\ ChecksHold /\ RosterMissesNobody
PROOF
  <1> SUFFICES ASSUME ProfileInv PROVE ProfileTypeOK /\ ChecksHold /\ RosterMissesNobody
    OBVIOUS
  <1>1. FollowedOnce
    <2>1. ASSUME NEW u \in People, NEW l \in GetFollowings(u),
                 \A w \in People : <<w, l.following_id>> \notin overlapped
          PROVE  l.following_cnt = Cardinality({r.follower_id : r \in GetFollowers(l.following_id)})
      <3>1. PICK f \in FollowingsOf(u) :
              l = [following_id |-> f.of, following_cnt |-> Cardinality(FollowersOf(f.of))]
        BY DEF GetFollowings
      <3>2. f.of \in People
        BY <3>1 DEF FollowingsOf, ProfileInv, ProfileTypeOK
      <3>3. l.following_id = f.of /\ l.following_cnt = Cardinality(FollowersOf(f.of))
        BY <3>1
      <3>4. {r.follower_id : r \in GetFollowers(f.of)} = {g.by : g \in FollowersOf(f.of)}
        <4>1. ASSUME NEW g \in FollowersOf(f.of)
              PROVE  \E r \in GetFollowers(f.of) : r.follower_id = g.by
          <5> DEFINE r == [follower_id |-> g.by, follower_cnt |-> Cardinality(FollowersOf(g.by))]
          <5>1. r \in GetFollowers(f.of)
            BY DEF GetFollowers
          <5>2. r.follower_id = g.by
            OBVIOUS
          <5> QED BY <5>1, <5>2
        <4>2. \A r \in GetFollowers(f.of) : \E g \in FollowersOf(f.of) : r.follower_id = g.by
          BY DEF GetFollowers
        <4> QED BY <4>1, <4>2
      <3> QED BY <2>1, <3>2, <3>3, <3>4, FollowersCounted
    <2> QED BY <2>1 DEF FollowedOnce, ProfileInv, FollowInv
  <1>2. RosterMissesNobody
    <2> SUFFICES ASSUME reader.page > TotalPages(RosterLimit), NEW u \in reader.due
                 PROVE  u \in reader.seen
      BY DEF RosterMissesNobody
    <2>1. RosterLimit \in Nat \ {0} /\ reader.page \in Nat /\ roster \in Seq(People) /\ Len(roster) \in Nat
      BY ProfileAssumption DEF ProfileAssumption, ProfileInv, ProfileTypeOK
    <2>2. Len(roster) <= (reader.page - 1) * RosterLimit
      BY <2>1, PagesCover DEF TotalPages
    <2>3. PICK i \in DOMAIN roster : roster[i] = u
      BY DEF ProfileInv, RosterInv, ToSet
    <2>4. i \in 1..Len(roster)
      BY <2>1, <2>3
    <2>5. reader.page # 0
      BY <2>1, <2>2, <2>4
    <2>6. (reader.page - 1) * RosterLimit \in Nat
      BY <2>1, <2>5
    <2>7. Len(roster) - i < (reader.page - 1) * RosterLimit
      BY <2>1, <2>2, <2>4, <2>6
    <2> QED BY <2>3, <2>4, <2>5, <2>7 DEF ProfileInv, RosterInv
  <1> QED BY <1>1, <1>2 DEF ProfileInv, NameInv, EntryInv, ChecksHold
-----------------------------------------------------------------------------
(* Chat.                                                                    *)

\* Ids are given once; a message under way is later than all that are in its room.
IdInv ==
  /\ \A m \in messages : m.id < nextId /\ m.room \in Made
  /\ \A m, n \in messages : m.id = n.id => m = n
  /\ \A h \in Senders : handler[h].step \in {"sent", "broadcast"} =>
       handler[h].id < nextId /\ handler[h].room \in Made
  /\ \A h \in Senders : handler[h].step = "sent" =>
       \A m \in messages : m.id # handler[h].id /\ (m.room = handler[h].room => m.id < handler[h].id)
  /\ \A g, h \in Senders : g # h /\ handler[g].step = "sent" /\ handler[h].step = "sent" =>
       handler[g].id # handler[h].id
  /\ \A h \in Senders : handler[h].step = "broadcast" =>
       \E m \in messages : m.id = handler[h].id /\ m.room = handler[h].room
  /\ \A r \in Rooms, u \in Chatters : leftAt[r][u] < nextId

LastInv ==
  \A r \in Made :
    /\ \A m \in InRoom(r) : m.id <= lastMessage[r]
    /\ (lastMessage[r] = 0 /\ InRoom(r) = {}) \/ \E m \in InRoom(r) : m.id = lastMessage[r]

\* The reader has a message, or it is still to come, by broadcast or on a page.
Reached(i) ==
  \/ i \in screen.shown \cup unsent
  \/ i <= leftAt[Watched][Reader]
  \/ \E h \in Senders : handler[h].step = "broadcast" /\ handler[h].id = i
  \/ screen.more /\ i < screen.page

ShownInv ==
  /\ screen.joined => Watched \in Made
  /\ screen.joined /\ (screen.page # 0 \/ ~ screen.more) => \A m \in InRoom(Watched) : Reached(m.id)

\* Read marks, set or about to be, name messages and are on the screen.
IsMark(x)  == x = 0 \/ \E m \in InRoom(Watched) : m.id = x
Covered(x) == x <= leftAt[Watched][Reader] \/ \E i \in screen.shown : x <= i

MarkInv ==
  /\ IsMark(lastRead) /\ IsMark(detail.last)
  /\ detail # NoDetail => screen.joined
  /\ screen.page # 0 => Covered(lastRead) /\ ("mark" \in detail.todo => Covered(detail.last))

ChatInv == ChatTypeOK /\ IdInv /\ LastInv /\ ShownInv /\ MarkInv
-----------------------------------------------------------------------------
LEMMA ChatInitInv == ChatInit => ChatInv
PROOF
  <1> SUFFICES ASSUME ChatInit PROVE ChatInv
    OBVIOUS
  <1> USE ChatAssumption DEF ChatAssumption
  <1>1. /\ Made \subseteq Rooms /\ \A r \in Made : lastMessage[r] = 0
        /\ messages = {} /\ nextId = 1 /\ unsent = {} /\ lastRead = 0 /\ Resting.step = "rest"
        /\ screen = Blank /\ detail = NoDetail
    BY DEF ChatInit, Made, Resting
  <1>2. /\ Blank \in [joined : BOOLEAN, page : 0..MaxMessages, more : BOOLEAN, shown : SUBSET Ids]
        /\ NoDetail \in [todo : SUBSET {"page", "mark"}, last : 0..MaxMessages]
        /\ Blank.page = 0 /\ Blank.more /\ ~ Blank.joined /\ NoDetail.last = 0
    BY DEF Blank, NoDetail
  <1>3. ChatTypeOK
    BY <1>1, <1>2 DEF ChatInit, ChatTypeOK
  <1>4. IdInv
    BY <1>1 DEF ChatInit, IdInv
  <1>5. LastInv /\ ShownInv /\ MarkInv
    BY <1>1, <1>2 DEF LastInv, InRoom, ShownInv, MarkInv, IsMark
  <1> QED BY <1>3, <1>4, <1>5 DEF ChatInv

LEMMA HandlerKinds ==
  ASSUME ChatTypeOK, NEW h \in Senders
  PROVE  /\ handler[h] = Resting \/ handler[h] \in Deliveries \/ handler[h] \in Errands
         /\ handler[h].step \in {"sent", "broadcast"} => handler[h] \in Deliveries
         /\ handler[h].step = "create" => handler[h].room \in Rooms
         /\ handler[h].step = "pin" =>
              handler[h].room \in Rooms /\ handler[h].by \in Chatters /\ handler[h].to \in BOOLEAN
         /\ handler[h].step = "block" => handler[h].by \in Chatters /\ handler[h].of \in Chatters
PROOF
  <1>1. handler[h] = Resting \/ handler[h] \in Deliveries \/ handler[h] \in Errands
    BY DEF ChatTypeOK
  <1>2. CASE handler[h] = Resting
    BY <1>2 DEF Resting
  <1>3. CASE handler[h] \in Deliveries
    BY <1>3 DEF Deliveries
  <1>4. CASE handler[h] \in Errands
    BY <1>4 DEF Errands
  <1> QED BY <1>1, <1>2, <1>3, <1>4

\* The numbers of the state.
LEMMA Numbers ==
  ASSUME ChatTypeOK
  PROVE  /\ nextId \in Nat /\ screen.page \in Nat /\ lastRead \in Nat /\ detail.last \in Nat
         /\ leftAt[Watched][Reader] \in Nat
         /\ \A m \in messages : m.id \in Nat \ {0} /\ m.id \in Ids /\ m.room \in Rooms
         /\ \A r \in Made : lastMessage[r] \in Nat
         /\ \A i \in screen.shown : i \in Nat
         /\ Watched \in Rooms /\ Reader \in Chatters
PROOF
  <1>1. MaxMessages \in Nat /\ Watched \in Rooms /\ Reader \in Chatters
    BY ChatAssumption DEF ChatAssumption
  <1>2. Ids \subseteq Nat \ {0}
    BY <1>1 DEF Ids
  <1>3. screen \in [joined : BOOLEAN, page : 0..MaxMessages, more : BOOLEAN, shown : SUBSET Ids]
    BY DEF ChatTypeOK
  <1>4. detail \in [todo : SUBSET {"page", "mark"}, last : 0..MaxMessages]
    BY DEF ChatTypeOK
  <1>5. leftAt[Watched][Reader] \in 0..MaxMessages
    BY <1>1 DEF ChatTypeOK
  <1>6. \A r \in Made : lastMessage[r] \in Nat
    BY <1>1 DEF ChatTypeOK
  <1>7. nextId \in Nat /\ lastRead \in Nat
    BY <1>1 DEF ChatTypeOK
  <1>8. \A m \in messages : m.id \in Ids /\ m.room \in Rooms
    BY DEF ChatTypeOK
  <1>9. screen.page \in Nat /\ \A i \in screen.shown : i \in Nat
    BY <1>1, <1>2, <1>3
  <1>10. detail.last \in Nat /\ leftAt[Watched][Reader] \in Nat
    BY <1>1, <1>4, <1>5
  <1>11. \A m \in messages : m.id \in Nat \ {0} /\ m.id \in Ids /\ m.room \in Rooms
    BY <1>2, <1>8
  <1> QED BY <1>1, <1>6, <1>7, <1>9, <1>10, <1>11
-----------------------------------------------------------------------------
\* A handler begins or ends something that is no insert of a message; whoever
\* ends a broadcast has shown its message or leaves it unsent.
LEMMA HandlerMoves ==
  ASSUME ChatInv, NEW h \in Senders, NEW p \in {Resting} \cup Errands,
         handler' = [handler EXCEPT ![h] = p],
         UNCHANGED <<lastMessage, leftAt, messages, nextId, detail, lastRead>>,
         pinned' \in [Rooms -> SUBSET Chatters], blocks' \in SUBSET (Chatters \X Chatters),
         screen' \in [joined : BOOLEAN, page : 0..MaxMessages, more : BOOLEAN, shown : SUBSET Ids],
         UNCHANGED <<screen.joined, screen.page, screen.more>>, screen.shown \subseteq screen'.shown,
         unsent \subseteq unsent', unsent' \subseteq Ids,
         handler[h].step = "broadcast" /\ handler[h].room = Watched /\ screen.joined =>
           handler[h].id \in screen'.shown \cup unsent'
  PROVE  ChatInv'
PROOF
  <1>1. p.step \notin {"sent", "broadcast"}
    BY DEF Resting, Errands
  <1>2. /\ Made' = Made /\ Ids' = Ids /\ Deliveries' = Deliveries /\ Errands' = Errands
        /\ \A r : InRoom(r)' = InRoom(r)
    BY DEF Made, Ids, Deliveries, Errands, InRoom
  <1>3. /\ handler' \in [Senders -> {Resting} \cup Deliveries \cup Errands]
        /\ \A g \in Senders : handler'[g] = IF g = h THEN p ELSE handler[g]
    BY DEF ChatInv, ChatTypeOK
  <1>4. ChatTypeOK'
    BY <1>2, <1>3 DEF ChatInv, ChatTypeOK
  <1>5. \A g \in Senders : handler'[g].step \in {"sent", "broadcast"} => handler'[g] = handler[g] /\ g # h
    BY <1>1, <1>3
  <1>6. IdInv'
    BY <1>2, <1>5 DEF ChatInv, IdInv
  <1>7. LastInv'
    BY <1>2 DEF ChatInv, LastInv
  <1>8. ShownInv'
    <2>1. ASSUME NEW m \in InRoom(Watched), screen.joined, Reached(m.id)
          PROVE  Reached(m.id)'
      <3>1. m \in messages /\ m.room = Watched
        BY DEF InRoom
      <3>2. ASSUME NEW g \in Senders, handler[g].step = "broadcast", handler[g].id = m.id
            PROVE  Reached(m.id)'
        <4>1. handler[g].room = Watched
          BY <3>1, <3>2 DEF ChatInv, IdInv
        <4>2. CASE g = h
          BY <2>1, <3>2, <4>1, <4>2 DEF Reached
        <4>3. CASE g # h
          BY <1>3, <3>2, <4>3 DEF Reached
        <4> QED BY <4>2, <4>3
      <3> QED BY <2>1, <3>2 DEF Reached
    <2> QED BY <1>2, <2>1 DEF ChatInv, ShownInv
  <1>9. MarkInv'
    BY <1>2 DEF ChatInv, MarkInv, IsMark, Covered
  <1> QED BY <1>4, <1>6, <1>7, <1>8, <1>9 DEF ChatInv

\* As above, and the screen stays as it is.
LEMMA HandlerOnly ==
  ASSUME ChatInv, NEW h \in Senders, NEW p \in {Resting} \cup Errands,
         handler' = [handler EXCEPT ![h] = p],
         UNCHANGED <<lastMessage, leftAt, messages, nextId, viewVars, unsent>>,
         pinned' \in [Rooms -> SUBSET Chatters], blocks' \in SUBSET (Chatters \X Chatters),
         handler[h].step # "broadcast"
  PROVE  ChatInv'
PROOF
  <1>1. screen \in [joined : BOOLEAN, page : 0..MaxMessages, more : BOOLEAN, shown : SUBSET Ids]
    BY DEF ChatInv, ChatTypeOK
  <1>2. unsent \subseteq Ids
    BY DEF ChatInv, ChatTypeOK
  <1>3. UNCHANGED <<lastMessage, leftAt, messages, nextId, detail, lastRead>> /\ screen' = screen /\ unsent' = unsent
    BY DEF viewVars
  <1>4. Ids' = Ids
    BY DEF Ids
  <1>5. UNCHANGED <<screen.joined, screen.page, screen.more>> /\ screen.shown \subseteq screen'.shown
    BY <1>3
  <1> QED BY <1>1, <1>2, <1>3, <1>5, HandlerMoves
-----------------------------------------------------------------------------
LEMMA RoomSteps ==
  ASSUME ChatInv, NEW h \in Senders, NEW r \in Rooms, NEW u \in Chatters, NEW w \in Chatters,
         \/ CreateOrGetChatRoom(h, r) \/ TogglePin(h, r, u) \/ BlockUserService(h, u, w)
         \/ TogglePinChatRoom(h) \/ BlockUser(h) \/ DeadlockVictim(h)
  PROVE  ChatInv'
PROOF
  <1> USE DEF roomVars
  <1>1. Resting.step = "rest" /\ Resting \in {Resting} \cup Errands
    BY DEF Resting
  <1>2. pinned \in [Rooms -> SUBSET Chatters] /\ blocks \in SUBSET (Chatters \X Chatters)
    BY DEF ChatInv, ChatTypeOK
  <1>3. CASE CreateOrGetChatRoom(h, r)
    <2> DEFINE p == [step |-> "create", room |-> r]
    <2>1. p \in {Resting} \cup Errands
      BY DEF Errands
    <2>2. /\ handler[h] = Resting /\ handler' = [handler EXCEPT ![h] = p] /\ pinned' = pinned /\ blocks' = blocks
          /\ UNCHANGED <<lastMessage, leftAt, messages, nextId, viewVars, unsent>>
      BY <1>3 DEF CreateOrGetChatRoom, Start
    <2> HIDE DEF p
    <2> QED BY <1>1, <1>2, <2>1, <2>2, HandlerOnly
  <1>4. CASE TogglePin(h, r, u)
    <2> DEFINE p == [step |-> "pin", room |-> r, by |-> u, to |-> u \notin pinned[r]]
    <2>1. p \in {Resting} \cup Errands
      BY DEF Errands
    <2>2. /\ handler[h] = Resting /\ handler' = [handler EXCEPT ![h] = p] /\ pinned' = pinned /\ blocks' = blocks
          /\ UNCHANGED <<lastMessage, leftAt, messages, nextId, viewVars, unsent>>
      BY <1>4 DEF TogglePin, Start
    <2> HIDE DEF p
    <2> QED BY <1>1, <1>2, <2>1, <2>2, HandlerOnly
  <1>5. CASE BlockUserService(h, u, w)
    <2> DEFINE p == [step |-> "block", by |-> u, of |-> w]
    <2>1. p \in {Resting} \cup Errands
      BY DEF Errands
    <2>2. /\ handler[h] = Resting /\ handler' = [handler EXCEPT ![h] = p] /\ pinned' = pinned /\ blocks' = blocks
          /\ UNCHANGED <<lastMessage, leftAt, messages, nextId, viewVars, unsent>>
      BY <1>5 DEF BlockUserService, Start
    <2> HIDE DEF p
    <2> QED BY <1>1, <1>2, <2>1, <2>2, HandlerOnly
  <1>6. CASE TogglePinChatRoom(h)
    <2>1. handler[h].step = "pin" /\ handler[h].by \in Chatters /\ handler[h].room \in Rooms
      BY <1>6, HandlerKinds DEF TogglePinChatRoom, ChatInv
    <2>2. pinned' = [pinned EXCEPT ![handler[h].room] =
                       IF handler[h].to THEN @ \cup {handler[h].by} ELSE @ \ {handler[h].by}]
      BY <1>6 DEF TogglePinChatRoom
    <2>3. pinned' \in [Rooms -> SUBSET Chatters]
      BY <1>2, <2>1, <2>2
    <2>4. /\ handler' = [handler EXCEPT ![h] = Resting] /\ blocks' = blocks
          /\ UNCHANGED <<lastMessage, leftAt, messages, nextId, viewVars, unsent>>
      BY <1>6 DEF TogglePinChatRoom, Finish
    <2> QED BY <1>1, <1>2, <2>1, <2>3, <2>4, HandlerOnly
  <1>7. CASE BlockUser(h)
    <2>1. handler[h].step = "block" /\ handler[h].by \in Chatters /\ handler[h].of \in Chatters
      BY <1>7, HandlerKinds DEF BlockUser, ChatInv
    <2>2. blocks' \in SUBSET (Chatters \X Chatters)
      BY <1>2, <1>7, <2>1 DEF BlockUser
    <2>3. /\ handler' = [handler EXCEPT ![h] = Resting] /\ pinned' = pinned
          /\ UNCHANGED <<lastMessage, leftAt, messages, nextId, viewVars, unsent>>
      BY <1>7 DEF BlockUser, Finish
    <2> QED BY <1>1, <1>2, <2>1, <2>2, <2>3, HandlerOnly
  <1>8. CASE DeadlockVictim(h)
    <2>1. handler[h].step = "sent"
      BY <1>8 DEF DeadlockVictim
    <2>2. /\ handler' = [handler EXCEPT ![h] = Resting] /\ pinned' = pinned /\ blocks' = blocks
          /\ UNCHANGED <<lastMessage, leftAt, messages, nextId, viewVars, unsent>>
      BY <1>8 DEF DeadlockVictim, Finish
    <2> QED BY <1>1, <1>2, <2>1, <2>2, HandlerOnly
  <1> QED BY <1>3, <1>4, <1>5, <1>6, <1>7, <1>8

LEMMA BroadcastStep == ASSUME ChatInv, NEW h \in Senders, Broadcast(h) PROVE ChatInv'
PROOF
  <1>1. Resting \in {Resting} \cup Errands /\ handler[h].id \in Ids
    BY HandlerKinds DEF ChatInv, Broadcast, Deliveries
  <1>2. screen \in [joined : BOOLEAN, page : 0..MaxMessages, more : BOOLEAN, shown : SUBSET Ids]
    BY DEF ChatInv, ChatTypeOK
  <1>3. screen' = IF screen.joined /\ handler[h].room = Watched
                    THEN [screen EXCEPT !.shown = @ \cup {handler[h].id}] ELSE screen
    BY DEF Broadcast
  <1>4. /\ screen' \in [joined : BOOLEAN, page : 0..MaxMessages, more : BOOLEAN, shown : SUBSET Ids]
        /\ UNCHANGED <<screen.joined, screen.page, screen.more>> /\ screen.shown \subseteq screen'.shown
        /\ handler[h].room = Watched /\ screen.joined => handler[h].id \in screen'.shown \cup unsent
    BY <1>1, <1>2, <1>3
  <1>5. /\ handler' = [handler EXCEPT ![h] = Resting] /\ unsent' = unsent
        /\ UNCHANGED <<lastMessage, leftAt, messages, nextId, detail, lastRead>>
        /\ pinned' = pinned /\ blocks' = blocks
    BY DEF Broadcast, Finish, roomVars
  <1>6. unsent \subseteq Ids /\ pinned \in [Rooms -> SUBSET Chatters] /\ blocks \in SUBSET (Chatters \X Chatters)
    BY DEF ChatInv, ChatTypeOK
  <1> QED BY <1>1, <1>4, <1>5, <1>6, HandlerMoves

LEMMA DiesStep == ASSUME ChatInv, NEW h \in Senders, HandlerDies(h) PROVE ChatInv'
PROOF
  <1>1. Resting \in {Resting} \cup Errands /\ (handler[h].step = "broadcast" => handler[h].id \in Ids)
    BY HandlerKinds DEF ChatInv, Deliveries
  <1>2. screen \in [joined : BOOLEAN, page : 0..MaxMessages, more : BOOLEAN, shown : SUBSET Ids]
    BY DEF ChatInv, ChatTypeOK
  <1>3. unsent' = IF handler[h].step = "broadcast" THEN unsent \cup {handler[h].id} ELSE unsent
    BY DEF HandlerDies
  <1>4. /\ handler' = [handler EXCEPT ![h] = Resting] /\ screen' = screen
        /\ UNCHANGED <<lastMessage, leftAt, messages, nextId, detail, lastRead>>
        /\ pinned' = pinned /\ blocks' = blocks
    BY DEF HandlerDies, Finish, roomVars, viewVars
  <1>5. unsent \subseteq Ids /\ pinned \in [Rooms -> SUBSET Chatters] /\ blocks \in SUBSET (Chatters \X Chatters)
    BY DEF ChatInv, ChatTypeOK
  <1>6. /\ unsent \subseteq unsent' /\ unsent' \subseteq Ids
        /\ handler[h].step = "broadcast" => handler[h].id \in screen'.shown \cup unsent'
    BY <1>1, <1>3, <1>5
  <1>7. UNCHANGED <<screen.joined, screen.page, screen.more>> /\ screen.shown \subseteq screen'.shown
    BY <1>4
  <1> QED BY <1>1, <1>2, <1>4, <1>5, <1>6, <1>7, HandlerMoves
-----------------------------------------------------------------------------
LEMMA CreateRoomStep == ASSUME ChatInv, NEW h \in Senders, CreateChatRoom(h) PROVE ChatInv'
PROOF
  <1> DEFINE r == handler[h].room
  <1>1. handler[h].step = "create" /\ r \in Rooms
    BY HandlerKinds DEF ChatInv, CreateChatRoom
  <1>2. /\ handler' = [handler EXCEPT ![h] = Resting] /\ pinned' = pinned /\ blocks' = blocks
        /\ UNCHANGED <<leftAt, messages, nextId, viewVars, unsent>>
    BY DEF CreateChatRoom, Finish
  <1>3. lastMessage' = IF r \in Made THEN lastMessage
                       ELSE [q \in Made \cup {r} |-> IF q = r THEN 0 ELSE lastMessage[q]]
    BY DEF CreateChatRoom
  <1> HIDE DEF r
  <1>4. /\ Made' = Made \cup {r} /\ \A q \in Made : lastMessage'[q] = lastMessage[q]
        /\ r \notin Made => lastMessage'[r] = 0
    BY <1>3 DEF Made
  <1>5. /\ Ids' = Ids /\ Deliveries' = Deliveries /\ Errands' = Errands
        /\ \A q : InRoom(q)' = InRoom(q)
    BY <1>2 DEF Ids, Deliveries, Errands, InRoom
  <1>6. /\ handler' \in [Senders -> {Resting} \cup Deliveries \cup Errands]
        /\ \A g \in Senders : handler'[g] = IF g = h THEN Resting ELSE handler[g]
    BY <1>2 DEF ChatInv, ChatTypeOK
  <1>7. \A q \in Made' : lastMessage'[q] \in 0..MaxMessages
    BY <1>4, ChatAssumption DEF ChatAssumption, ChatInv, ChatTypeOK
  <1>8. ChatTypeOK'
    BY <1>1, <1>2, <1>4, <1>5, <1>6, <1>7 DEF ChatInv, ChatTypeOK, viewVars
  <1>9. \A g \in Senders : handler'[g].step \in {"sent", "broadcast"} => handler'[g] = handler[g] /\ g # h
    BY <1>6 DEF Resting
  <1>10. IdInv'
    BY <1>2, <1>4, <1>9 DEF ChatInv, IdInv
  <1>11. LastInv'
    <2>1. r \notin Made => InRoom(r) = {}
      BY DEF InRoom, ChatInv, IdInv
    <2> QED BY <1>4, <1>5, <2>1 DEF ChatInv, LastInv
  <1>12. ShownInv'
    <2>1. \A g \in Senders : handler[g].step = "broadcast" => handler'[g] = handler[g]
      BY <1>1, <1>6
    <2> QED BY <1>2, <1>4, <1>5, <2>1 DEF ChatInv, ShownInv, Reached, viewVars
  <1>13. MarkInv'
    BY <1>2, <1>5 DEF ChatInv, MarkInv, IsMark, Covered, viewVars
  <1> QED BY <1>8, <1>10, <1>11, <1>12, <1>13 DEF ChatInv

LEMMA LeaveChatStep ==
  ASSUME ChatInv, NEW r \in Rooms, NEW u \in Chatters, LeaveChatRoom(r, u)
  PROVE  ChatInv'
PROOF
  <1>1. /\ leftAt' = [leftAt EXCEPT ![r][u] = nextId - 1]
        /\ UNCHANGED <<lastMessage, pinned, blocks, messages, nextId, handler, viewVars, unsent>>
    BY DEF LeaveChatRoom
  <1>2. nextId \in Nat /\ nextId - 1 \in 0..MaxMessages
    BY ChatAssumption DEF ChatAssumption, ChatInv, ChatTypeOK
  <1>3. /\ leftAt' \in [Rooms -> [Chatters -> 0..MaxMessages]]
        /\ \A q \in Rooms, w \in Chatters :
             leftAt'[q][w] = leftAt[q][w] \/ leftAt'[q][w] = nextId - 1
    BY <1>1, <1>2 DEF ChatInv, ChatTypeOK
  <1>4. /\ Made' = Made /\ Ids' = Ids /\ Deliveries' = Deliveries /\ Errands' = Errands
        /\ \A q : InRoom(q)' = InRoom(q)
    BY <1>1 DEF Made, Ids, Deliveries, Errands, InRoom
  <1>5. ChatTypeOK'
    BY <1>1, <1>3, <1>4 DEF ChatInv, ChatTypeOK, viewVars
  <1>6. \A q \in Rooms, w \in Chatters : leftAt'[q][w] < nextId /\ leftAt[q][w] \in Nat
    <2>1. \A q \in Rooms, w \in Chatters : leftAt[q][w] \in 0..MaxMessages
      BY DEF ChatInv, ChatTypeOK
    <2>2. \A q \in Rooms, w \in Chatters : leftAt[q][w] < nextId
      BY DEF ChatInv, IdInv
    <2> QED BY <1>2, <1>3, <2>1, <2>2
  <1>7. IdInv'
    BY <1>1, <1>4, <1>6 DEF ChatInv, IdInv
  <1>8. LastInv'
    BY <1>1, <1>4 DEF ChatInv, LastInv
  <1>9. leftAt[Watched][Reader] \in Nat /\ leftAt'[Watched][Reader] \in Nat
        /\ leftAt[Watched][Reader] <= leftAt'[Watched][Reader]
    <2>1. leftAt[Watched][Reader] < nextId
      BY Numbers DEF ChatInv, IdInv
    <2>2. leftAt'[Watched][Reader] = leftAt[Watched][Reader] \/ leftAt'[Watched][Reader] = nextId - 1
      BY <1>3, Numbers DEF ChatInv
    <2> QED BY <1>2, <2>1, <2>2, Numbers DEF ChatInv
  <1>10. \A i \in Nat : Reached(i) => Reached(i)'
    BY <1>1, <1>9 DEF Reached, viewVars
  <1>11. ShownInv'
    <2>1. \A m \in InRoom(Watched) : m.id \in Nat
      BY Numbers DEF InRoom, ChatInv
    <2> QED BY <1>1, <1>4, <1>10, <2>1 DEF ChatInv, ShownInv, viewVars
  <1>12. \A i \in Nat : Covered(i) => Covered(i)'
    BY <1>1, <1>9 DEF Covered, viewVars
  <1>13. MarkInv'
    <2>1. lastRead \in Nat /\ detail.last \in Nat
      BY Numbers DEF ChatInv
    <2> QED BY <1>1, <1>4, <1>12, <2>1 DEF ChatInv, MarkInv, IsMark, viewVars
  <1> QED BY <1>5, <1>7, <1>8, <1>11, <1>13 DEF ChatInv

\* A new id is later than all there are.
LEMMA SendStep ==
  ASSUME ChatInv, NEW h \in Senders, NEW r \in Rooms, SendMessage(h, r)
  PROVE  ChatInv'
PROOF
  <1> DEFINE p == [step |-> "sent", room |-> r, id |-> nextId]
  <1>1. nextId \in Ids /\ nextId \in Nat /\ nextId + 1 \in 1..MaxMessages + 1 /\ nextId' = nextId + 1 /\ r \in Made
    BY ChatAssumption DEF ChatAssumption, SendMessage, ChatInv, ChatTypeOK, Ids
  <1>2. p \in Deliveries /\ p.step = "sent" /\ p.room = r /\ p.id = nextId
    BY <1>1 DEF Deliveries
  <1>3. /\ handler[h] = Resting /\ handler' = [handler EXCEPT ![h] = p]
        /\ UNCHANGED <<roomVars, messages, viewVars, unsent>>
    BY DEF SendMessage, Start
  <1> HIDE DEF p
  <1>4. /\ Made' = Made /\ Ids' = Ids /\ Deliveries' = Deliveries /\ Errands' = Errands
        /\ \A q : InRoom(q)' = InRoom(q)
    BY <1>3 DEF Made, Ids, Deliveries, Errands, InRoom, roomVars
  <1>5. /\ handler' \in [Senders -> {Resting} \cup Deliveries \cup Errands]
        /\ \A g \in Senders : handler'[g] = IF g = h THEN p ELSE handler[g]
    BY <1>2, <1>3 DEF ChatInv, ChatTypeOK
  <1>6. ChatTypeOK'
    BY <1>1, <1>3, <1>4, <1>5 DEF ChatInv, ChatTypeOK, viewVars, roomVars
  <1>7. /\ \A m \in messages : m.id \in Nat /\ m.id < nextId
        /\ \A g \in Senders : handler[g].step \in {"sent", "broadcast"} => handler[g].id \in Nat /\ handler[g].id < nextId
        /\ \A q \in Rooms, w \in Chatters : leftAt[q][w] \in Nat /\ leftAt[q][w] < nextId
    BY ChatAssumption, HandlerKinds DEF ChatAssumption, ChatInv, ChatTypeOK, IdInv, Deliveries, Ids
  <1>8. IdInv'
    <2>1. \A g \in Senders : handler'[g].step \in {"sent", "broadcast"} =>
            handler'[g].id < nextId' /\ handler'[g].room \in Made'
      BY <1>1, <1>2, <1>4, <1>5, <1>7 DEF ChatInv, IdInv
    <2>2. \A g \in Senders : handler'[g].step = "sent" =>
            \A m \in messages : m.id # handler'[g].id /\ (m.room = handler'[g].room => m.id < handler'[g].id)
      BY <1>1, <1>2, <1>5, <1>7 DEF ChatInv, IdInv
    <2>3. \A f, g \in Senders : f # g /\ handler'[f].step = "sent" /\ handler'[g].step = "sent" =>
            handler'[f].id # handler'[g].id
      BY <1>1, <1>2, <1>5, <1>7 DEF ChatInv, IdInv
    <2>4. \A g \in Senders : handler'[g].step = "broadcast" =>
            \E m \in messages : m.id = handler'[g].id /\ m.room = handler'[g].room
      BY <1>2, <1>5 DEF ChatInv, IdInv
    <2>5. \A q \in Rooms, w \in Chatters : leftAt[q][w] < nextId'
      BY <1>1, <1>7
    <2>6. \A m \in messages : m.id < nextId' /\ m.room \in Made
      BY <1>1, <1>7 DEF ChatInv, IdInv
    <2>7. \A m, n \in messages : m.id = n.id => m = n
      BY DEF ChatInv, IdInv
    <2>8. messages' = messages /\ leftAt' = leftAt
      BY <1>3 DEF roomVars
    <2> QED BY <1>4, <2>1, <2>2, <2>3, <2>4, <2>5, <2>6, <2>7, <2>8 DEF IdInv
  <1>9. LastInv'
    BY <1>3, <1>4 DEF ChatInv, LastInv, roomVars
  <1>10. ShownInv'
    <2>1. \A g \in Senders : handler[g].step = "broadcast" => handler'[g] = handler[g]
      BY <1>3, <1>5 DEF Resting
    <2> QED BY <1>3, <1>4, <2>1 DEF ChatInv, ShownInv, Reached, viewVars, roomVars
  <1>11. MarkInv'
    BY <1>3, <1>4 DEF ChatInv, MarkInv, IsMark, Covered, viewVars, roomVars
  <1> QED BY <1>6, <1>8, <1>9, <1>10, <1>11 DEF ChatInv

\* No other insert of the room is open, so this message is its latest.
LEMMA UpdateRoomStep == ASSUME ChatInv, NEW h \in Senders, UpdateRoom(h) PROVE ChatInv'
PROOF
  <1> DEFINE w == handler[h]
             n == [id |-> w.id, room |-> w.room]
  <1>1. w.step = "sent" /\ w \in Deliveries /\ w.room \in Rooms /\ w.id \in Ids
    BY HandlerKinds DEF ChatInv, UpdateRoom, Deliveries
  <1>2. /\ w.room \in Made /\ w.id < nextId /\ w.id \in Nat \ {0}
        /\ \A m \in messages : m.id # w.id /\ (m.room = w.room => m.id < w.id)
        /\ \A g \in Senders : g # h /\ handler[g].step = "sent" => handler[g].id # w.id
    BY <1>1, ChatAssumption DEF ChatAssumption, ChatInv, IdInv, Ids
  <1>3. \A g \in Senders : g # h /\ handler[g].step = "sent" => handler[g].room # w.room
    BY DEF UpdateRoom, Locked
  <1>4. /\ lastMessage' = [lastMessage EXCEPT ![w.room] = w.id] /\ messages' = messages \cup {n}
        /\ handler' = [handler EXCEPT ![h].step = "broadcast"]
        /\ UNCHANGED <<leftAt, pinned, blocks, nextId, viewVars, unsent>>
    BY DEF UpdateRoom, Committed
  <1>5. n \in [id : Ids, room : Rooms] /\ n.id = w.id /\ n.room = w.room
    BY <1>1
  <1> HIDE DEF n
  <1>6. /\ handler' \in [Senders -> {Resting} \cup Deliveries \cup Errands]
        /\ \A g \in Senders : g # h => handler'[g] = handler[g]
        /\ handler'[h].step = "broadcast" /\ handler'[h].id = w.id /\ handler'[h].room = w.room
    <2>1. [w EXCEPT !.step = "broadcast"] \in Deliveries /\ [w EXCEPT !.step = "broadcast"].step = "broadcast"
          /\ [w EXCEPT !.step = "broadcast"].id = w.id /\ [w EXCEPT !.step = "broadcast"].room = w.room
      BY <1>1 DEF Deliveries
    <2>2. handler' = [handler EXCEPT ![h] = [w EXCEPT !.step = "broadcast"]]
      BY <1>4
    <2> QED BY <2>1, <2>2 DEF ChatInv, ChatTypeOK
  <1>7. /\ Made' = Made /\ Ids' = Ids /\ Deliveries' = Deliveries /\ Errands' = Errands
        /\ \A r \in Made : lastMessage'[r] = IF r = w.room THEN w.id ELSE lastMessage[r]
    BY <1>2, <1>4 DEF Made, Ids, Deliveries, Errands
  <1>8. \A r : InRoom(r)' = IF r = w.room THEN InRoom(r) \cup {n} ELSE InRoom(r)
    BY <1>4, <1>5 DEF InRoom
  <1>9. ChatTypeOK'
    <2>1. \A r \in Made : lastMessage'[r] \in 0..MaxMessages
      BY <1>1, <1>7, ChatAssumption DEF ChatAssumption, ChatInv, ChatTypeOK, Ids
    <2> QED BY <1>4, <1>5, <1>6, <1>7, <2>1 DEF ChatInv, ChatTypeOK, viewVars
  <1>10. IdInv'
    <2>1. /\ \A m \in messages' : m.id < nextId /\ m.room \in Made
          /\ \A l, m \in messages' : l.id = m.id => l = m
      BY <1>2, <1>4, <1>5 DEF ChatInv, IdInv
    <2>2. \A g \in Senders : handler'[g].step \in {"sent", "broadcast"} =>
            handler'[g].id < nextId /\ handler'[g].room \in Made
      BY <1>2, <1>6 DEF ChatInv, IdInv
    <2>3. ASSUME NEW g \in Senders, handler'[g].step = "sent", NEW m \in messages'
          PROVE  m.id # handler'[g].id /\ (m.room = handler'[g].room => m.id < handler'[g].id)
      <3>1. g # h /\ handler'[g] = handler[g]
        BY <1>6, <2>3
      <3> QED BY <1>2, <1>3, <1>4, <1>5, <2>3, <3>1 DEF ChatInv, IdInv
    <2>4. \A f, g \in Senders : f # g /\ handler'[f].step = "sent" /\ handler'[g].step = "sent" =>
            handler'[f].id # handler'[g].id
      BY <1>6 DEF ChatInv, IdInv
    <2>5. \A g \in Senders : handler'[g].step = "broadcast" =>
            \E m \in messages' : m.id = handler'[g].id /\ m.room = handler'[g].room
      BY <1>4, <1>5, <1>6 DEF ChatInv, IdInv
    <2>6. \A q \in Rooms, u \in Chatters : leftAt'[q][u] < nextId
      BY <1>4 DEF ChatInv, IdInv
    <2> QED BY <1>4, <1>7, <2>1, <2>2, <2>3, <2>4, <2>5, <2>6 DEF IdInv
  <1>11. LastInv'
    <2>1. \A m \in messages : m.id \in Nat
      BY Numbers DEF ChatInv
    <2>2. ASSUME NEW r \in Made
          PROVE  /\ \A m \in InRoom(r)' : m.id <= lastMessage'[r]
                 /\ (lastMessage'[r] = 0 /\ InRoom(r)' = {}) \/ \E m \in InRoom(r)' : m.id = lastMessage'[r]
      <3>1. CASE r = w.room
        <4>1. lastMessage'[r] = w.id /\ InRoom(r)' = InRoom(r) \cup {n}
          BY <1>7, <1>8, <3>1
        <4>2. \A m \in InRoom(r) : m.id <= w.id
          BY <1>2, <2>1, <3>1 DEF InRoom
        <4> QED BY <1>2, <1>5, <4>1, <4>2
      <3>2. CASE r # w.room
        BY <1>7, <1>8, <3>2 DEF ChatInv, LastInv
      <3> QED BY <3>1, <3>2
    <2> QED BY <1>7, <2>2 DEF LastInv
  <1>12. ShownInv'
    <2>1. \A i : Reached(i) => Reached(i)'
      BY <1>1, <1>4, <1>6 DEF Reached, viewVars
    <2>2. Reached(w.id)'
      BY <1>6 DEF Reached
    <2> QED BY <1>4, <1>5, <1>7, <1>8, <2>1, <2>2 DEF ChatInv, ShownInv, viewVars
  <1>13. MarkInv'
    BY <1>4, <1>8 DEF ChatInv, MarkInv, IsMark, Covered, viewVars
  <1> QED BY <1>9, <1>10, <1>11, <1>12, <1>13 DEF ChatInv
-----------------------------------------------------------------------------
\* The screen is blank, or all there is on it was there before.
LEMMA JoinSteps == ASSUME ChatInv, JoinRoom \/ LeaveRoom PROVE ChatInv'
PROOF
  <1>1. /\ UNCHANGED <<roomVars, messages, nextId, handler, detail, lastRead, unsent>> /\ detail = NoDetail
        /\ screen' = Blank \/ screen' = [Blank EXCEPT !.joined = TRUE]
        /\ screen'.joined => Watched \in Made
    BY DEF JoinRoom, LeaveRoom, Blank
  <1>2. /\ screen' \in [joined : BOOLEAN, page : 0..MaxMessages, more : BOOLEAN, shown : SUBSET Ids]
        /\ screen'.page = 0 /\ screen'.more
    <2>1. 0 \in 0..MaxMessages
      BY ChatAssumption DEF ChatAssumption
    <2>2. /\ Blank \in [joined : BOOLEAN, page : 0..MaxMessages, more : BOOLEAN, shown : SUBSET Ids]
          /\ Blank.page = 0 /\ Blank.more
      BY <2>1 DEF Blank
    <2> QED BY <1>1, <2>2
  <1>3. /\ Made' = Made /\ Ids' = Ids /\ Deliveries' = Deliveries /\ Errands' = Errands
        /\ \A q : InRoom(q)' = InRoom(q)
    BY <1>1 DEF Made, Ids, Deliveries, Errands, InRoom, roomVars
  <1>4. ChatTypeOK'
    BY <1>1, <1>2, <1>3 DEF ChatInv, ChatTypeOK, roomVars
  <1>5. IdInv' /\ LastInv'
    BY <1>1, <1>3 DEF ChatInv, IdInv, LastInv, roomVars
  <1>6. ShownInv' /\ MarkInv'
    BY <1>1, <1>2, <1>3 DEF ChatInv, ShownInv, MarkInv, IsMark
  <1> QED BY <1>4, <1>5, <1>6 DEF ChatInv

\* Messages, rooms and handlers stay, and so does what is on the screen.
LEMMA DetailStep ==
  ASSUME ChatInv, UNCHANGED <<roomVars, messages, nextId, handler, screen, unsent>>,
         detail' \in [todo : SUBSET {"page", "mark"}, last : 0..MaxMessages],
         lastRead' \in 0..MaxMessages,
         IsMark(lastRead'), IsMark(detail'.last), detail' # NoDetail => screen.joined,
         screen.page # 0 => Covered(lastRead') /\ ("mark" \in detail'.todo => Covered(detail'.last))
  PROVE  ChatInv'
PROOF
  <1>1. /\ Made' = Made /\ Ids' = Ids /\ Deliveries' = Deliveries /\ Errands' = Errands
        /\ \A q : InRoom(q)' = InRoom(q)
    BY DEF Made, Ids, Deliveries, Errands, InRoom, roomVars
  <1>2. ChatTypeOK'
    BY <1>1 DEF ChatInv, ChatTypeOK, roomVars
  <1>3. IdInv' /\ LastInv'
    BY <1>1 DEF ChatInv, IdInv, LastInv, roomVars
  <1>4. ShownInv'
    BY <1>1 DEF ChatInv, ShownInv, Reached, roomVars
  <1>5. \A x : Covered(x) => x <= leftAt'[Watched][Reader] \/ \E i \in screen'.shown : x <= i
    BY DEF Covered, roomVars
  <1>6. MarkInv'
    BY <1>1, <1>5 DEF ChatInv, MarkInv, IsMark, Covered, roomVars
  <1> QED BY <1>2, <1>3, <1>4, <1>6 DEF ChatInv

LEMMA AskDetailStep == ASSUME ChatInv, GetChatRoomDetail PROVE ChatInv'
PROOF
  <1>1. /\ screen.joined /\ Watched \in Made
        /\ UNCHANGED <<roomVars, messages, nextId, handler, screen, lastRead, unsent>>
    BY DEF ChatInv, ShownInv, GetChatRoomDetail
  <1>2. /\ detail'.todo = (IF screen.page = 0 THEN {"page", "mark"} ELSE {"page"})
        /\ detail'.last = lastMessage[Watched]
        /\ detail' \in [todo : SUBSET {"page", "mark"}, last : 0..MaxMessages]
    BY <1>1 DEF GetChatRoomDetail, ChatInv, ChatTypeOK
  <1>3. IsMark(detail'.last)
    BY <1>1, <1>2 DEF IsMark, ChatInv, LastInv
  <1>4. lastRead' \in 0..MaxMessages /\ IsMark(lastRead') /\ (screen.page # 0 => Covered(lastRead'))
    BY <1>1 DEF ChatInv, ChatTypeOK, MarkInv
  <1> QED BY <1>1, <1>2, <1>3, <1>4, DetailStep

LEMMA DoneWithTodo ==
  ASSUME ChatInv, NEW t \in {"page", "mark"}, DoneWith(t)
  PROVE  /\ detail' \in [todo : SUBSET {"page", "mark"}, last : 0..MaxMessages]
         /\ detail'.todo \subseteq detail.todo \ {t}
         /\ detail' = NoDetail \/ detail'.last = detail.last
         /\ NoDetail.last = 0
PROOF
  <1>1. detail \in [todo : SUBSET {"page", "mark"}, last : 0..MaxMessages]
    BY DEF ChatInv, ChatTypeOK
  <1>2. NoDetail \in [todo : SUBSET {"page", "mark"}, last : 0..MaxMessages] /\ NoDetail.last = 0 /\ NoDetail.todo = {}
    BY ChatAssumption DEF ChatAssumption, NoDetail
  <1>3. detail' = NoDetail \/ detail' = [detail EXCEPT !.todo = @ \ {t}]
    BY DEF DoneWith
  <1> QED BY <1>1, <1>2, <1>3

LEMMA MarkStep == ASSUME ChatInv, ResetUnreadCount PROVE ChatInv'
PROOF
  <1>1. /\ UNCHANGED <<roomVars, messages, nextId, handler, screen, unsent>> /\ lastRead' = detail.last
        /\ "mark" \in detail.todo /\ DoneWith("mark")
    BY DEF ResetUnreadCount, Marked
  <1>2. /\ detail' \in [todo : SUBSET {"page", "mark"}, last : 0..MaxMessages]
        /\ detail'.todo \subseteq detail.todo \ {"mark"}
        /\ detail' = NoDetail \/ detail'.last = detail.last
        /\ NoDetail.last = 0
    BY <1>1, DoneWithTodo
  <1>3. detail # NoDetail /\ screen.joined
    BY <1>1 DEF NoDetail, ChatInv, MarkInv
  <1>4. IsMark(lastRead') /\ IsMark(detail'.last)
    BY <1>1, <1>2 DEF ChatInv, MarkInv, IsMark
  <1>5. lastRead' \in 0..MaxMessages
    BY <1>1 DEF ChatInv, ChatTypeOK
  <1>6. screen.page # 0 => Covered(lastRead')
    BY <1>1 DEF ChatInv, MarkInv
  <1> QED BY <1>1, <1>2, <1>3, <1>4, <1>5, <1>6, DetailStep

LEMMA DetailFailsStep == ASSUME ChatInv, DetailFails PROVE ChatInv'
PROOF
  <1>1. /\ UNCHANGED <<roomVars, messages, nextId, handler, screen, unsent>> /\ detail' = NoDetail
        /\ lastRead' = lastRead \/ ("mark" \in detail.todo /\ lastRead' = detail.last)
    BY DEF DetailFails, Marked
  <1>2. /\ NoDetail \in [todo : SUBSET {"page", "mark"}, last : 0..MaxMessages]
        /\ NoDetail.last = 0 /\ NoDetail.todo = {}
    BY ChatAssumption DEF ChatAssumption, NoDetail
  <1>3. IsMark(lastRead') /\ IsMark(detail'.last)
    BY <1>1, <1>2 DEF ChatInv, MarkInv, IsMark
  <1>4. lastRead' \in 0..MaxMessages
    BY <1>1 DEF ChatInv, ChatTypeOK
  <1>5. screen.page # 0 => Covered(lastRead')
    BY <1>1 DEF ChatInv, MarkInv
  <1> QED BY <1>1, <1>2, <1>3, <1>4, <1>5, DetailStep
-----------------------------------------------------------------------------
LEMMA IdsFinite == IsFiniteSet(Ids) /\ Ids \subseteq Nat
PROOF
  BY ChatAssumption, FS_Interval DEF ChatAssumption, Ids

\* A page has the latest ids: what is not on it is earlier than all on it; it is
\* empty only if there are none; and it has them all unless there are too many.
LEMMA PageOf ==
  ASSUME NEW S \in SUBSET Ids, NEW limit \in Nat \ {0}
  PROVE  /\ LatestOf(S, limit) \subseteq S
         /\ \A i \in S \ LatestOf(S, limit), j \in LatestOf(S, limit) : i < j
         /\ \A i \in S : \E j \in LatestOf(S, limit) : i <= j
         /\ Cardinality(S) <= limit => LatestOf(S, limit) = S
PROOF
  <1>1. MaxMessages \in Nat /\ S \in SUBSET (0..MaxMessages)
    BY ChatAssumption DEF ChatAssumption, Ids
  <1> QED BY <1>1, LatestRows

LEMMA MinOf == ASSUME NEW S \in SUBSET Ids, S # {} PROVE Min(S) \in S /\ \A i \in S : Min(S) <= i
PROOF
  BY SmallestOf, IdsFinite DEF Min

LEMMA MaxOf == ASSUME NEW S \in SUBSET Ids, S # {} PROVE Max(S) \in S /\ \A i \in S : i <= Max(S)
PROOF
  <1>1. MaxMessages \in Nat /\ S \in SUBSET (0..MaxMessages) /\ S \subseteq Nat
    BY ChatAssumption DEF ChatAssumption, Ids
  <1>2. PICK m \in S : \A i \in S : i <= m
    BY <1>1, GreatestOf
  <1>3. \A i \in S : m >= i
    BY <1>1, <1>2
  <1>4. Max(S) \in S /\ \A i \in S : Max(S) >= i
    BY <1>3 DEF Max
  <1> QED BY <1>1, <1>4

LEMMA LoadStep == ASSUME ChatInv, LoadPage PROVE ChatInv'
PROOF
  <1> DEFINE S == Older(Visible, screen.page)
             rows == LatestOf(S, MessageLimit)
             more == Cardinality(S) > MessageLimit
             page == IF rows = {} THEN screen.page ELSE Min(rows)
             from == leftAt[Watched][Reader]
  <1>1. MessageLimit \in Nat \ {0}
    BY ChatAssumption DEF ChatAssumption
  <1>2. \A i : i \in Visible <=> \E m \in InRoom(Watched) : m.id = i /\ m.id > from
    BY DEF Visible
  <1>3. \A i : i \in S <=> i \in Visible /\ (screen.page # 0 => i < screen.page)
    BY DEF Older
  <1>4. Visible \subseteq Ids /\ S \subseteq Ids
    BY <1>2, <1>3, Numbers DEF InRoom, ChatInv
  <1>5. screen' = [screen EXCEPT !.shown = @ \cup rows, !.more = more, !.page = page]
    BY DEF LoadPage, FindMessagesByRoomId
  <1>6. UNCHANGED <<roomVars, messages, nextId, handler, lastRead, unsent>> /\ DoneWith("page")
    BY DEF LoadPage
  <1>7. /\ rows \subseteq S
        /\ \A i \in S \ rows, j \in rows : i < j
        /\ \A i \in S : \E j \in rows : i <= j
        /\ ~ more => rows = S
    <2>1. /\ LatestOf(S, MessageLimit) \subseteq S
          /\ \A i \in S \ LatestOf(S, MessageLimit), j \in LatestOf(S, MessageLimit) : i < j
          /\ \A i \in S : \E j \in LatestOf(S, MessageLimit) : i <= j
          /\ Cardinality(S) <= MessageLimit => LatestOf(S, MessageLimit) = S
      BY <1>1, <1>4, PageOf
    <2>2. ~ more => Cardinality(S) <= MessageLimit
      <3>1. Cardinality(S) \in Nat
        BY <1>4, IdsFinite, FS_Subset, FS_CardinalityType
      <3> QED BY <1>1, <3>1
    <2> QED BY <2>1, <2>2
  <1>8. rows # {} => page \in rows /\ \A i \in rows : page <= i
    BY <1>4, <1>7, MinOf
  <1>9. rows = {} => page = screen.page /\ S = {}
    BY <1>7
  <1>10. more \in BOOLEAN
    OBVIOUS
  <1> HIDE DEF S, rows, more, page
  <1>11. screen \in [joined : BOOLEAN, page : 0..MaxMessages, more : BOOLEAN, shown : SUBSET Ids]
    BY DEF ChatInv, ChatTypeOK
  <1>12. page \in 0..MaxMessages /\ (page = 0 => screen.page = 0 /\ rows = {}) /\ Ids \subseteq Nat \ {0}
    <2>1. Ids = 1..MaxMessages /\ MaxMessages \in Nat
      BY ChatAssumption DEF ChatAssumption, Ids
    <2>2. screen.page \in 0..MaxMessages
      BY <1>11
    <2>3. CASE rows = {}
      BY <1>9, <2>1, <2>2, <2>3
    <2>4. CASE rows # {}
      <3>1. page \in Ids
        BY <1>4, <1>7, <1>8, <2>4
      <3> QED BY <2>1, <3>1
    <2> QED BY <2>3, <2>4
  <1>13. /\ screen' \in [joined : BOOLEAN, page : 0..MaxMessages, more : BOOLEAN, shown : SUBSET Ids]
         /\ screen'.joined = screen.joined /\ screen'.page = page /\ screen'.more = more
         /\ screen'.shown = screen.shown \cup rows
    BY <1>4, <1>5, <1>7, <1>10, <1>11, <1>12
  <1>14. /\ detail' \in [todo : SUBSET {"page", "mark"}, last : 0..MaxMessages]
         /\ detail'.todo \subseteq detail.todo \ {"page"}
         /\ detail' = NoDetail \/ detail'.last = detail.last
         /\ NoDetail.last = 0
    BY <1>6, DoneWithTodo
  <1>15. /\ Made' = Made /\ Ids' = Ids /\ Deliveries' = Deliveries /\ Errands' = Errands
         /\ \A q : InRoom(q)' = InRoom(q)
    BY <1>6 DEF Made, Ids, Deliveries, Errands, InRoom, roomVars
  <1>16. ChatTypeOK'
    BY <1>6, <1>13, <1>14, <1>15 DEF ChatInv, ChatTypeOK, roomVars
  <1>17. IdInv' /\ LastInv'
    BY <1>6, <1>15 DEF ChatInv, IdInv, LastInv, roomVars
  <1>18. from \in Nat /\ from' = from /\ \A m \in InRoom(Watched) : m.id \in Nat \ {0} /\ m.id \in Ids
    BY <1>6, Numbers DEF ChatInv, InRoom, roomVars
  <1>19. ASSUME NEW m \in InRoom(Watched), m.id \in S
         PROVE  m.id \in rows \/ (more /\ m.id < page)
    BY <1>7, <1>8, <1>9, <1>19
  <1>20. ShownInv'
    <2>1. ASSUME screen.joined, NEW m \in InRoom(Watched)
          PROVE  Reached(m.id)'
      <3>1. \/ m.id \in screen'.shown
            \/ more /\ m.id < page
            \/ m.id <= from
            \/ m.id \in unsent
            \/ \E h \in Senders : handler[h].step = "broadcast" /\ handler[h].id = m.id
        <4>1. CASE m.id \in S
          BY <1>13, <1>19, <4>1
        <4>2. CASE m.id <= from
          BY <4>2
        <4>3. CASE m.id \notin S /\ ~ (m.id <= from)
          <5>1. m.id \in Visible
            BY <1>2, <1>18, <4>3
          <5>2. screen.page # 0 /\ ~ (m.id < screen.page)
            BY <1>3, <4>3, <5>1
          <5>3. Reached(m.id)
            BY <2>1, <5>2 DEF ChatInv, ShownInv
          <5> QED BY <1>13, <5>2, <5>3, <4>3 DEF Reached
        <4> QED BY <4>1, <4>2, <4>3
      <3> QED BY <1>6, <1>13, <1>18, <3>1 DEF Reached
    <2> QED BY <1>13, <1>15, <2>1 DEF ChatInv, ShownInv
  <1>21. MarkInv'
    <2>1. ASSUME NEW x \in Nat, IsMark(x), screen.page # 0 => Covered(x), page # 0
          PROVE  x <= from \/ \E i \in screen'.shown : x <= i
      <3>1. CASE screen.page # 0
        BY <1>13, <2>1, <3>1 DEF Covered
      <3>2. CASE screen.page = 0 /\ ~ (x <= from)
        <4>1. x \in Visible
          BY <1>2, <1>18, <2>1, <3>2 DEF IsMark
        <4>2. x \in S
          BY <1>3, <3>2, <4>1
        <4> QED BY <1>7, <1>13, <4>2
      <3> QED BY <3>1, <3>2
    <2>2. lastRead \in Nat /\ detail.last \in Nat /\ lastRead' = lastRead
      BY <1>6, Numbers DEF ChatInv
    <2>3. IsMark(lastRead) /\ IsMark(detail.last) /\ IsMark(detail'.last)
      BY <1>14 DEF ChatInv, MarkInv, IsMark
    <2>4. page # 0 => lastRead <= from \/ \E i \in screen'.shown : lastRead <= i
      BY <2>1, <2>2, <2>3 DEF ChatInv, MarkInv
    <2>5. ASSUME "mark" \in detail'.todo, page # 0
          PROVE  detail'.last <= from \/ \E i \in screen'.shown : detail'.last <= i
      <3>1. "mark" \in detail.todo /\ detail' # NoDetail
        BY <1>14, <2>5 DEF NoDetail
      <3>2. detail'.last = detail.last
        BY <1>14, <3>1
      <3>3. screen.page # 0 => Covered(detail.last)
        BY <3>1 DEF ChatInv, MarkInv
      <3>4. detail.last <= from \/ \E i \in screen'.shown : detail.last <= i
        BY <2>1, <2>2, <2>3, <2>5, <3>3
      <3> QED BY <3>2, <3>4
    <2>6. screen'.joined
      <3>1. detail # NoDetail
        BY DEF LoadPage, NoDetail
      <3> QED BY <1>13, <3>1 DEF ChatInv, MarkInv
    <2>7. IsMark(lastRead)' /\ IsMark(detail.last)'
      BY <1>15, <2>2, <2>3 DEF IsMark
    <2>8. screen'.page # 0 => Covered(lastRead)' /\ ("mark" \in detail'.todo => Covered(detail.last)')
      BY <1>13, <1>18, <2>2, <2>4, <2>5 DEF Covered
    <2> QED BY <2>6, <2>7, <2>8 DEF MarkInv
  <1> QED BY <1>16, <1>17, <1>20, <1>21 DEF ChatInv
-----------------------------------------------------------------------------
LEMMA ChatStep == ChatInv /\ [ChatNext]_chatVars => ChatInv'
PROOF
  <1> SUFFICES ASSUME ChatInv, [ChatNext]_chatVars PROVE ChatInv'
    OBVIOUS
  <1>1. Watched \in Rooms /\ Reader \in Chatters
    BY ChatAssumption DEF ChatAssumption
  <1>2. \A q \in Requests({Reader}) : WellFormed(q) => q.user = Reader
    BY DEF Requests, WellFormed, SignedIn
  <1>3. CASE RoomNext
    <2>1. ASSUME NEW q \in Requests({Reader}), NEW h \in Senders, NEW r \in Rooms,
                 CreateRoomRoute(q, h, r) \/ TogglePinRoute(q, h, r)
          PROVE  ChatInv'
      BY <1>1, <1>2, <2>1, RoomSteps DEF CreateRoomRoute, TogglePinRoute
    <2>2. ASSUME NEW q \in Requests({Reader}), NEW h \in Senders, NEW u \in Chatters, BlockUserRoute(q, h, u)
          PROVE  ChatInv'
      BY <1>1, <1>2, <2>2, RoomSteps DEF BlockUserRoute
    <2>3. ASSUME NEW h \in Senders, CreateChatRoom(h) \/ TogglePinChatRoom(h) \/ BlockUser(h)
          PROVE  ChatInv'
      BY <1>1, <2>3, RoomSteps, CreateRoomStep
    <2> QED BY <1>3, <2>1, <2>2, <2>3 DEF RoomNext
  <1>4. CASE TalkNext
    <2>1. ASSUME NEW h \in Senders, UpdateRoom(h) \/ DeadlockVictim(h) \/ Broadcast(h)
          PROVE  ChatInv'
      BY <1>1, <2>1, RoomSteps, UpdateRoomStep, BroadcastStep
    <2>2. ASSUME NEW q \in Requests({Reader}), LeaveRoomRoute(q, Watched) \/ DetailRoute(q)
          PROVE  ChatInv'
      BY <1>1, <1>2, <2>2, LeaveChatStep, AskDetailStep DEF LeaveRoomRoute, DetailRoute
    <2> QED BY <1>4, <2>1, <2>2, SendStep, JoinSteps, LoadStep, MarkStep, DetailFailsStep DEF TalkNext
  <1>5. CASE UNCHANGED chatVars
    BY <1>5 DEF chatVars, ChatInv, ChatTypeOK, Made, Ids, Deliveries, Errands, IdInv, LastInv, InRoom, ShownInv,
                Reached, MarkInv, IsMark, Covered
  <1> QED BY <1>3, <1>4, <1>5, DiesStep DEF ChatNext

LEMMA ChatAlways == ChatSpec => []ChatInv
PROOF
  BY ChatInitInv, ChatStep, PTL DEF ChatSpec

LEMMA InvImpliesChat == ChatInv => ChatTypeOK /\ LastMessageIsLatest /\ NothingMissed /\ ReadMarkWasShown
PROOF
  <1> SUFFICES ASSUME ChatInv PROVE ChatTypeOK /\ LastMessageIsLatest /\ NothingMissed /\ ReadMarkWasShown
    OBVIOUS
  <1>1. \A r : InRoom(r) \subseteq messages /\ {m.id : m \in InRoom(r)} \subseteq Ids
    BY Numbers DEF InRoom, ChatInv
  <1>2. ASSUME NEW r \in Made
        PROVE  lastMessage[r] = (IF InRoom(r) = {} THEN 0 ELSE Max({m.id : m \in InRoom(r)}))
    <2> DEFINE S == {m.id : m \in InRoom(r)}
    <2>1. CASE InRoom(r) = {}
      BY <2>1 DEF ChatInv, LastInv
    <2>2. CASE InRoom(r) # {}
      <3>1. lastMessage[r] \in S /\ \A i \in S : i <= lastMessage[r]
        BY <2>2 DEF ChatInv, LastInv
      <3>2. S \in SUBSET Ids /\ S # {}
        BY <1>1, <2>2
      <3> HIDE DEF S
      <3>3. Max(S) \in S /\ \A i \in S : i <= Max(S)
        BY <3>2, MaxOf
      <3>4. Max(S) <= lastMessage[r] /\ lastMessage[r] <= Max(S) /\ Max(S) \in Nat /\ lastMessage[r] \in Nat
        BY <3>1, <3>2, <3>3, IdsFinite
      <3>5. Max(S) = lastMessage[r]
        BY <3>4
      <3> QED BY <2>2, <3>5 DEF S
    <2> QED BY <2>1, <2>2
  <1>3. ASSUME NEW u \in Chatters, NEW filter \in {"all", "pinned"},
               NEW r \in FindRoomListByUserId(u, filter), NEW q \in FindRoomListByUserId(u, filter), r # q
        PROVE  /\ ListedAbove(r, q) \/ ListedAbove(q, r)
               /\ ListedAbove(r, q) => \A m \in InRoom(q) : \E n \in InRoom(r) : n.id > m.id
    <2>1. r \in Made /\ q \in Made /\ lastMessage[r] # 0 /\ lastMessage[q] # 0
      BY DEF FindRoomListByUserId
    <2>2. PICK m \in InRoom(r) : m.id = lastMessage[r]
      BY <2>1 DEF ChatInv, LastInv
    <2>3. PICK n \in InRoom(q) : n.id = lastMessage[q]
      BY <2>1 DEF ChatInv, LastInv
    <2>4. m \in messages /\ n \in messages /\ m.room = r /\ n.room = q
      BY <2>2, <2>3 DEF InRoom
    <2>5. lastMessage[r] # lastMessage[q]
      BY <1>3, <2>2, <2>3, <2>4 DEF ChatInv, IdInv
    <2>6. lastMessage[r] \in Nat /\ lastMessage[q] \in Nat /\ \A l \in InRoom(q) : l.id \in Nat /\ l.id <= lastMessage[q]
      BY <2>1, Numbers DEF ChatInv, LastInv, InRoom
    <2>7. ListedAbove(r, q) \/ ListedAbove(q, r)
      BY <2>5, <2>6 DEF ListedAbove
    <2>8. ASSUME ListedAbove(r, q), NEW l \in InRoom(q) PROVE m.id > l.id
      BY <2>2, <2>6, <2>8 DEF ListedAbove
    <2> QED BY <2>2, <2>7, <2>8
  <1>4. LastMessageIsLatest
    BY <1>2, <1>3 DEF LastMessageIsLatest
  <1>5. NothingMissed
    BY DEF NothingMissed, ChatInv, ShownInv, Reached
  <1>6. ReadMarkWasShown
    <2> SUFFICES ASSUME screen.page # 0, NEW i \in screen.shown, lastRead <= i
                 PROVE  lastRead <= Max(screen.shown)
      BY DEF ReadMarkWasShown, ChatInv, MarkInv, Covered
    <2>1. screen.shown \in SUBSET Ids /\ screen.shown # {}
      BY DEF ChatInv, ChatTypeOK
    <2>2. Max(screen.shown) \in screen.shown /\ i <= Max(screen.shown)
      BY <2>1, MaxOf
    <2>3. lastRead \in Nat /\ i \in Nat /\ Max(screen.shown) \in Nat
      BY <2>2, Numbers DEF ChatInv
    <2> QED BY <2>2, <2>3
  <1> QED BY <1>4, <1>5, <1>6 DEF ChatInv
-----------------------------------------------------------------------------
(* Notices.                                                                 *)

\* What a user has not been shown is newer than his last check.
NewInv ==
  \A u \in Audience : \A n \in NoticesOf(u) :
    n \in seen \cup slipped \cup buried \/ n > GetLastNotificationCheckTime(u)

\* A list under way has, on its page or accounted for, everything of its user.
ListingInv ==
  \A q \in Readers : asking[q].step \in {"setting", "write"} =>
    NoticesOf(asking[q].user) \subseteq asking[q].rows \cup seen \cup slipped \cup buried

\* Who is about to subscribe follows, or let go meanwhile.
ToggleInv ==
  \A q \in Readers : asking[q].step = "subscribe" => asking[q].pair \in following \cup letGo

NoticeInv == NoticeTypeOK /\ NewInv /\ ListingInv /\ ToggleInv /\ SubscribersFollow
-----------------------------------------------------------------------------
LEMMA NoticeInitInv == NoticeInit => NoticeInv
PROOF
  <1> SUFFICES ASSUME NoticeInit PROVE NoticeInv
    OBVIOUS
  <1>1. DOMAIN checkTime = {} /\ DOMAIN notices = {} /\ notices \in Seq(Recipients)
    BY DEF NoticeInit
  <1>2. NoticeTypeOK
    BY <1>1, NoticesAssumption DEF NoticesAssumption, NoticeInit, NoticeTypeOK, Pairs
  <1>3. NewInv /\ ListingInv /\ ToggleInv
    BY <1>1 DEF NoticeInit, NewInv, ListingInv, ToggleInv, NoticesOf, NotAsking
  <1>4. SubscribersFollow
    BY DEF NoticeInit, SubscribersFollow
  <1> QED BY <1>2, <1>3, <1>4 DEF NoticeInv

LEMMA AskingKinds ==
  ASSUME NoticeInv, NEW q \in Readers
  PROVE  /\ asking[q] = NotAsking \/ asking[q] \in Listings \/ asking[q] \in Toggles
         /\ asking[q].step \in {"setting", "write"} =>
              asking[q] \in Listings /\ asking[q].user \in Audience /\ asking[q].rows \subseteq DOMAIN notices
         /\ asking[q].step \in {"subscribe", "unsubscribe"} => asking[q].pair \in Pairs
PROOF
  <1>1. asking[q] = NotAsking \/ asking[q] \in Listings \/ asking[q] \in Toggles
    BY DEF NoticeInv, NoticeTypeOK
  <1>2. CASE asking[q] = NotAsking
    BY <1>2 DEF NotAsking
  <1>3. CASE asking[q] \in Listings
    BY <1>3 DEF Listings
  <1>4. CASE asking[q] \in Toggles
    BY <1>4 DEF Toggles
  <1> QED BY <1>1, <1>2, <1>3, <1>4

\* Events come and go: nobody is told anything yet.
LEMMA EventStep ==
  ASSUME NoticeInv,
         UNCHANGED <<subscribed, notices, askVars, slipped, letGo>>,
         following \subseteq following', following' \subseteq Pairs,
         emitted' \in 0..MaxEvents,
         listening' \subseteq [number : 1..MaxEvents, by : Recipients, to : SUBSET Recipients],
         asking' = asking \/ asking' = [q \in Readers |-> NotAsking]
  PROVE  NoticeInv'
PROOF
  <1>1. \A q \in Readers : asking'[q] = asking[q] \/ asking'[q] = NotAsking
    OBVIOUS
  <1>2. Listings' = Listings /\ Toggles' = Toggles
    BY DEF Listings, Toggles
  <1>3. asking' \in [Readers -> {NotAsking} \cup Listings \cup Toggles]
    BY DEF NoticeInv, NoticeTypeOK
  <1>4. NoticeTypeOK'
    BY <1>2, <1>3 DEF NoticeInv, NoticeTypeOK, askVars
  <1>5. NewInv'
    BY DEF NoticeInv, NewInv, NoticesOf, GetLastNotificationCheckTime, askVars
  <1>6. NotAsking.step = "none"
    BY DEF NotAsking
  <1>7. ListingInv' /\ ToggleInv'
    BY <1>1, <1>6 DEF NoticeInv, ListingInv, ToggleInv, NoticesOf, askVars
  <1>8. SubscribersFollow'
    BY DEF NoticeInv, SubscribersFollow
  <1> QED BY <1>4, <1>5, <1>7, <1>8 DEF NoticeInv

LEMMA EmitType ==
  ASSUME NoticeInv, NEW by \in Recipients, NEW to \in SUBSET Recipients, Emit(by, to)
  PROVE  /\ emitted' \in 0..MaxEvents
         /\ listening' \subseteq [number : 1..MaxEvents, by : Recipients, to : SUBSET Recipients]
PROOF
  <1>1. emitted + 1 \in 1..MaxEvents
    BY NoticesAssumption DEF NoticesAssumption, Emit, NoticeInv, NoticeTypeOK
  <1> QED BY <1>1 DEF Emit, NoticeInv, NoticeTypeOK

LEMMA Events ==
  ASSUME NoticeInv,
         \/ \E u, w \in Audience : Follow(u, w)
         \/ \E u \in Audience : SomethingHappens(u)
         \/ \E e \in listening : FindUsersSubscribed(e) \/ ListenerFails(e)
         \/ ProcessRestarts
  PROVE  NoticeInv'
PROOF
  <1>1. listening \subseteq [number : 1..MaxEvents, by : Recipients, to : SUBSET Recipients]
        /\ emitted \in 0..MaxEvents /\ following \subseteq Pairs
    BY DEF NoticeInv, NoticeTypeOK
  <1>2. ASSUME NEW u \in Audience, NEW w \in Audience, Follow(u, w) PROVE NoticeInv'
    <2>1. Emit(Everyone, {w}) /\ following' = following \cup {<<u, w>>} /\ Quiet
      BY <1>2 DEF Follow, CreateFollowNotification
    <2>2. following' \subseteq Pairs
      BY <1>1, <2>1 DEF Pairs
    <2>3. Everyone \in Recipients /\ {w} \in SUBSET Recipients
      BY DEF Recipients
    <2> QED BY <2>1, <2>2, <2>3, EmitType, EventStep DEF Quiet
  <1>3. ASSUME NEW u \in Audience, SomethingHappens(u) PROVE NoticeInv'
    <2>1. \E by \in Recipients, to \in SUBSET Recipients : Emit(by, to)
      BY <1>3 DEF SomethingHappens, CreateReportNotification, CreateAnnouncementNotification,
              CreateInquiryNotification, CreatePromptNotification, CreateAdminMessageNotification, Recipients
    <2>2. Quiet /\ following' = following
      BY <1>3 DEF SomethingHappens
    <2> QED BY <1>1, <2>1, <2>2, EmitType, EventStep DEF Quiet
  <1>4. ASSUME NEW e \in listening, FindUsersSubscribed(e) \/ ListenerFails(e) PROVE NoticeInv'
    <2>1. UNCHANGED <<following, subscribed, emitted, notices, asking, askVars, slipped, letGo>>
      BY <1>4 DEF FindUsersSubscribed, ListenerFails
    <2> DEFINE fans == {u \in Audience : <<u, e.by>> \in subscribed}
    <2>2. fans \subseteq Recipients /\ Everyone \in Recipients
      BY DEF Recipients
    <2>3. [e EXCEPT !.to = fans, !.by = Everyone] \in [number : 1..MaxEvents, by : Recipients, to : SUBSET Recipients]
      BY <1>1, <2>2
    <2>4. listening' \subseteq listening \cup {[e EXCEPT !.to = fans, !.by = Everyone]}
      BY <1>4 DEF FindUsersSubscribed, ListenerFails
    <2> HIDE DEF fans
    <2> QED BY <1>1, <2>1, <2>3, <2>4, EventStep
  <1>5. CASE ProcessRestarts
    BY <1>1, <1>5, EventStep DEF ProcessRestarts
  <1> QED BY <1>2, <1>3, <1>4, <1>5

\* A notification is the latest of all; a list of its user that is under way slips.
LEMMA TellStep ==
  ASSUME NoticeInv, NEW e \in listening, NEW u \in e.to, CreateNotification(e, u)
  PROVE  NoticeInv'
PROOF
  <1> DEFINE new == Len(notices) + 1
  <1>1. notices \in Seq(Recipients) /\ e.to \subseteq Recipients
        /\ e \in [number : 1..MaxEvents, by : Recipients, to : SUBSET Recipients]
    BY DEF NoticeInv, NoticeTypeOK
  <1>2. /\ notices' = Append(notices, u) /\ notices' \in Seq(Recipients)
        /\ DOMAIN notices = 1..Len(notices) /\ DOMAIN notices' = 1..new /\ Len(notices') = new
        /\ Len(notices) \in Nat /\ DOMAIN notices' = DOMAIN notices \cup {new}
        /\ \A n \in DOMAIN notices : notices'[n] = notices[n]
        /\ notices'[new] = u
    BY <1>1 DEF CreateNotification
  <1>3. UNCHANGED <<following, subscribed, emitted, asking, checkTime, seen, buried, letGo>>
    BY DEF CreateNotification, askVars
  <1>4. slipped \subseteq slipped' /\ slipped' \subseteq slipped \cup {new}
        /\ (ListUnderWay(u) => new \in slipped')
    BY DEF CreateNotification
  <1>5. \A w \in Audience : /\ NoticesOf(w) \subseteq DOMAIN notices
                            /\ NoticesOf(w)' \subseteq NoticesOf(w) \cup {new}
                            /\ new \in NoticesOf(w)' => w = u
    BY <1>2 DEF NoticesOf
  <1>6. NoticeTypeOK'
    <2>1. listening' \subseteq [number : 1..MaxEvents, by : Recipients, to : SUBSET Recipients]
      <3>1. [e EXCEPT !.to = @ \ {u}] \in [number : 1..MaxEvents, by : Recipients, to : SUBSET Recipients]
        BY <1>1
      <3>2. listening' \subseteq listening \cup {[e EXCEPT !.to = @ \ {u}]}
        BY DEF CreateNotification
      <3> QED BY <3>1, <3>2 DEF NoticeInv, NoticeTypeOK
    <2>2. Listings \subseteq Listings' /\ Toggles' = Toggles
      BY <1>2 DEF Listings, Toggles
    <2>3. asking' \in [Readers -> {NotAsking} \cup Listings' \cup Toggles']
      BY <1>3, <2>2 DEF NoticeInv, NoticeTypeOK
    <2>4. \A w \in DOMAIN checkTime : checkTime[w] \in 0..new
      BY <1>2 DEF NoticeInv, NoticeTypeOK
    <2>5. (seen \cup slipped \cup buried)' \subseteq DOMAIN notices'
      BY <1>2, <1>3, <1>4 DEF NoticeInv, NoticeTypeOK
    <2> QED BY <1>2, <1>3, <2>1, <2>3, <2>4, <2>5 DEF NoticeInv, NoticeTypeOK
  <1>7. NewInv'
    <2>1. \A w \in Audience : GetLastNotificationCheckTime(w)' = GetLastNotificationCheckTime(w)
             /\ GetLastNotificationCheckTime(w) < new
      BY <1>2, <1>3 DEF GetLastNotificationCheckTime, NoticeInv, NoticeTypeOK
    <2> QED BY <1>3, <1>4, <1>5, <2>1 DEF NoticeInv, NewInv
  <1>8. ListingInv'
    <2> SUFFICES ASSUME NEW q \in Readers, asking[q].step \in {"setting", "write"}
                 PROVE  NoticesOf(asking[q].user)' \subseteq asking[q].rows \cup (seen \cup slipped \cup buried)'
      BY <1>3 DEF ListingInv
    <2>1. asking[q].user \in Audience
      BY AskingKinds
    <2>2. asking[q].user = u => new \in slipped'
      BY <1>4 DEF ListUnderWay
    <2>3. NoticesOf(asking[q].user) \subseteq asking[q].rows \cup seen \cup slipped \cup buried
      BY DEF NoticeInv, ListingInv
    <2>4. NoticesOf(asking[q].user)' \subseteq NoticesOf(asking[q].user) \cup {new}
          /\ (new \in NoticesOf(asking[q].user)' => asking[q].user = u)
      BY <1>3, <1>5, <2>1
    <2> QED BY <1>3, <1>4, <2>2, <2>3, <2>4
  <1>9. ToggleInv' /\ SubscribersFollow'
    BY <1>3 DEF NoticeInv, ToggleInv, SubscribersFollow
  <1> QED BY <1>6, <1>7, <1>8, <1>9 DEF NoticeInv

\* A reader's request moves on: as a toggle whose pair he follows, a list that
\* has or accounts for everything, or none.
LEMMA AskStep ==
  ASSUME NoticeInv, NEW q \in Readers, NEW r \in {NotAsking} \cup Listings \cup Toggles,
         asking' = [asking EXCEPT ![q] = r],
         UNCHANGED <<following, tellVars, letGo>>,
         r.step = "subscribe" => r.pair \in following \cup letGo,
         r.step \in {"setting", "write"} =>
           NoticesOf(r.user) \subseteq r.rows \cup (seen \cup slipped \cup buried)',
         seen \subseteq seen', buried \subseteq buried',
         (seen \cup buried)' \subseteq DOMAIN notices,
         DOMAIN checkTime' \subseteq Audience,
         \A w \in DOMAIN checkTime' : checkTime'[w] \in 0..Len(notices),
         NewInv', subscribed' \subseteq Pairs, SubscribersFollow'
  PROVE  NoticeInv'
PROOF
  <1>1. UNCHANGED <<emitted, listening, notices, slipped>>
    BY DEF tellVars
  <1>2. Listings' = Listings /\ Toggles' = Toggles
    BY <1>1 DEF Listings, Toggles
  <1>3. asking' \in [Readers -> {NotAsking} \cup Listings \cup Toggles]
        /\ \A p \in Readers : asking'[p] = IF p = q THEN r ELSE asking[p]
    BY DEF NoticeInv, NoticeTypeOK
  <1>4. NoticeTypeOK'
    BY <1>1, <1>2, <1>3 DEF NoticeInv, NoticeTypeOK
  <1>5. ListingInv'
    <2> SUFFICES ASSUME NEW p \in Readers, asking'[p].step \in {"setting", "write"}
                 PROVE  NoticesOf(asking'[p].user) \subseteq asking'[p].rows \cup (seen \cup slipped \cup buried)'
      BY <1>1 DEF ListingInv, NoticesOf
    <2>1. CASE p = q
      BY <1>3, <2>1
    <2>2. CASE p # q
      BY <1>1, <1>3, <2>2 DEF NoticeInv, ListingInv
    <2> QED BY <2>1, <2>2
  <1>6. ToggleInv'
    BY <1>3 DEF NoticeInv, ToggleInv
  <1> QED BY <1>4, <1>5, <1>6 DEF NoticeInv

LEMMA SameNews ==
  ASSUME NoticeInv, UNCHANGED <<notices, slipped, checkTime, seen>>, buried \subseteq buried'
  PROVE  NewInv'
PROOF
  BY DEF NoticeInv, NewInv, NoticesOf, GetLastNotificationCheckTime

LEMMA ToggleSteps ==
  ASSUME NoticeInv, NEW q \in Readers,
         \/ \E r \in Requests(Audience), w \in Audience : ToggleRoute(q, r, w)
         \/ CreateSubscription(q) \/ DeleteSubscription(q)
  PROVE  NoticeInv'
PROOF
  <1>1. UNCHANGED <<following, tellVars, askVars, letGo>>
    BY DEF ToggleRoute, ToggleSubscription, CreateSubscription, DeleteSubscription
  <1>2. UNCHANGED <<emitted, listening, notices, slipped, checkTime, seen, buried>>
    BY <1>1 DEF tellVars, askVars
  <1>3. NewInv'
    BY <1>2, SameNews
  <1>4. /\ (seen \cup buried)' \subseteq DOMAIN notices /\ DOMAIN checkTime' \subseteq Audience
        /\ \A w \in DOMAIN checkTime' : checkTime'[w] \in 0..Len(notices)
        /\ subscribed \subseteq Pairs
    BY <1>2 DEF NoticeInv, NoticeTypeOK
  <1>5. NotAsking.step = "none"
    BY DEF NotAsking
  <1>6. ASSUME NEW r \in Requests(Audience), NEW w \in Audience, ToggleRoute(q, r, w)
        PROVE  NoticeInv'
    <2>1. r.user \in Audience
      BY <1>6 DEF ToggleRoute, WellFormed, SignedIn, Requests
    <2>2. ToggleSubscription(q, r.user, w)
      BY <1>6 DEF ToggleRoute
    <2>3. subscribed' = subscribed /\ SubscribersFollow'
      BY <1>1, <2>2 DEF ToggleSubscription, NoticeInv, SubscribersFollow
    <2>4. PICK p \in Toggles : /\ asking' = [asking EXCEPT ![q] = p]
                               /\ p.step \in {"subscribe", "unsubscribe"}
                               /\ p.step = "subscribe" => p.pair \in following
      <3>1. <<r.user, w>> \in Pairs
        BY <2>1 DEF Pairs
      <3>2. CASE <<r.user, w>> \in subscribed
        <4> DEFINE p == [step |-> "unsubscribe", pair |-> <<r.user, w>>]
        <4>1. p \in Toggles /\ p.step = "unsubscribe"
          BY <3>1 DEF Toggles
        <4>2. asking' = [asking EXCEPT ![q] = p]
          BY <2>2, <3>2 DEF ToggleSubscription, Ask
        <4> HIDE DEF p
        <4> QED BY <4>1, <4>2
      <3>3. CASE <<r.user, w>> \notin subscribed
        <4> DEFINE p == [step |-> "subscribe", pair |-> <<r.user, w>>]
        <4>1. p \in Toggles /\ p.step = "subscribe" /\ p.pair = <<r.user, w>>
          BY <3>1 DEF Toggles
        <4>2. asking' = [asking EXCEPT ![q] = p] /\ <<r.user, w>> \in following
          BY <2>2, <3>3 DEF ToggleSubscription, Ask, IsFollowing
        <4> HIDE DEF p
        <4> QED BY <4>1, <4>2
      <3> QED BY <3>2, <3>3
    <2> QED BY <1>1, <1>2, <1>3, <1>4, <2>3, <2>4, AskStep
  <1>7. CASE CreateSubscription(q) \/ DeleteSubscription(q)
    <2>1. asking[q].pair \in Pairs /\ (asking[q].step = "subscribe" => asking[q].pair \in following \cup letGo)
      BY <1>7, AskingKinds DEF CreateSubscription, DeleteSubscription, NoticeInv, ToggleInv
    <2>2. subscribed' \subseteq Pairs /\ SubscribersFollow'
      BY <1>1, <1>4, <1>7, <2>1 DEF CreateSubscription, DeleteSubscription, NoticeInv, SubscribersFollow
    <2>3. asking' = [asking EXCEPT ![q] = NotAsking]
      BY <1>7 DEF CreateSubscription, DeleteSubscription, Answer
    <2> QED BY <1>1, <1>2, <1>3, <1>4, <1>5, <2>2, <2>3, AskStep
  <1> QED BY <1>6, <1>7

\* Whoever lets go while subscribed, or about to be, is marked.
LEMMA UnfollowStep ==
  ASSUME NoticeInv, NEW u \in Audience, NEW w \in Audience, Unfollow(u, w)
  PROVE  NoticeInv'
PROOF
  <1> DEFINE p == <<u, w>>
  <1>1. /\ following' = following \ {p} /\ letGo \subseteq letGo' /\ letGo' \subseteq letGo \cup {p}
        /\ p \in subscribed => p \in letGo'
        /\ \A q \in Readers : asking[q].step = "subscribe" /\ asking[q].pair = p => p \in letGo'
    BY DEF Unfollow
  <1>2. UNCHANGED <<subscribed, emitted, listening, notices, slipped, asking, checkTime, seen, buried>>
    BY DEF Unfollow, tellVars, askVars
  <1>3. p \in Pairs
    BY DEF Pairs
  <1>4. Listings' = Listings /\ Toggles' = Toggles
    BY <1>2 DEF Listings, Toggles
  <1>5. NoticeTypeOK'
    BY <1>1, <1>2, <1>3, <1>4 DEF NoticeInv, NoticeTypeOK
  <1>6. NewInv' /\ ListingInv'
    BY <1>2 DEF NoticeInv, NewInv, ListingInv, NoticesOf, GetLastNotificationCheckTime
  <1>7. ToggleInv'
    BY <1>1, <1>2 DEF NoticeInv, ToggleInv
  <1>8. SubscribersFollow'
    BY <1>1, <1>2 DEF NoticeInv, SubscribersFollow
  <1> QED BY <1>5, <1>6, <1>7, <1>8 DEF NoticeInv

\* The page that is read, and all that is on other pages.
LEMMA ListStep ==
  ASSUME NoticeInv, NEW q \in Readers, NEW u \in Audience, NEW cursor, FindUserNotifications(q, u, cursor)
  PROVE  NoticeInv'
PROOF
  <1> DEFINE page == FindNotificationsByUserId(u, cursor)
             r == [step |-> "setting", user |-> u, rows |-> page, first |-> FALSE]
  <1>1. page \subseteq NoticesOf(u) /\ NoticesOf(u) \subseteq DOMAIN notices
    BY DEF FindNotificationsByUserId, LatestOf, Older, NoticesOf
  <1>2. r \in Listings /\ r.step = "setting" /\ r.user = u /\ r.rows = page
    BY <1>1 DEF Listings
  <1>3. asking' = [asking EXCEPT ![q] = r] /\ buried' = buried \cup (NoticesOf(u) \ page)
        /\ UNCHANGED <<following, subscribed, tellVars, checkTime, seen, letGo>>
    BY DEF FindUserNotifications, Ask
  <1>4. UNCHANGED <<notices, slipped>>
    BY <1>3 DEF tellVars
  <1>5. NewInv' /\ SubscribersFollow'
    BY <1>3, <1>4, SameNews DEF NoticeInv, SubscribersFollow
  <1>6. /\ (seen \cup buried)' \subseteq DOMAIN notices /\ DOMAIN checkTime' \subseteq Audience
        /\ \A w \in DOMAIN checkTime' : checkTime'[w] \in 0..Len(notices)
        /\ subscribed \subseteq Pairs
    BY <1>1, <1>3 DEF NoticeInv, NoticeTypeOK
  <1>7. NoticesOf(r.user) \subseteq r.rows \cup (seen \cup slipped \cup buried)'
    BY <1>2, <1>3
  <1> HIDE DEF page, r
  <1> QED BY <1>2, <1>3, <1>5, <1>6, <1>7, AskStep

LEMMA SettingStep ==
  ASSUME NoticeInv, NEW q \in Readers, GetUserNotificationSetting(q)
  PROVE  NoticeInv'
PROOF
  <1> DEFINE r == [asking[q] EXCEPT !.step = "write", !.first = asking[q].user \notin DOMAIN checkTime]
  <1>1. asking[q].step = "setting" /\ asking[q] \in Listings
    BY AskingKinds DEF GetUserNotificationSetting
  <1>2. r \in Listings /\ r.step = "write" /\ r.user = asking[q].user /\ r.rows = asking[q].rows
    BY <1>1 DEF Listings
  <1>3. asking' = [asking EXCEPT ![q] = r] /\ UNCHANGED <<following, subscribed, tellVars, askVars, letGo>>
    BY DEF GetUserNotificationSetting
  <1>4. UNCHANGED <<notices, slipped, checkTime, seen, buried>>
    BY <1>3 DEF tellVars, askVars
  <1>5. NewInv' /\ SubscribersFollow'
    BY <1>3, <1>4, SameNews DEF NoticeInv, SubscribersFollow
  <1>6. /\ (seen \cup buried)' \subseteq DOMAIN notices /\ DOMAIN checkTime' \subseteq Audience
        /\ \A w \in DOMAIN checkTime' : checkTime'[w] \in 0..Len(notices)
        /\ subscribed \subseteq Pairs
    BY <1>4 DEF NoticeInv, NoticeTypeOK
  <1>7. NoticesOf(r.user) \subseteq r.rows \cup (seen \cup slipped \cup buried)'
    BY <1>1, <1>2, <1>4 DEF NoticeInv, ListingInv
  <1> HIDE DEF r
  <1> QED BY <1>2, <1>3, <1>4, <1>5, <1>6, <1>7, AskStep

\* The check is now; whatever there is was listed, or is accounted for.
LEMMA CheckTimeStep ==
  ASSUME NoticeInv, NEW q \in Readers,
         UpdateNotificationCheckTime(q) \/ CreateNotificationCheckTime(q)
  PROVE  NoticeInv'
PROOF
  <1> DEFINE u == asking[q].user
  <1>1. asking[q].step = "write" /\ u \in Audience /\ asking[q].rows \subseteq DOMAIN notices
    BY AskingKinds DEF UpdateNotificationCheckTime, CreateNotificationCheckTime
  <1>2. asking' = [asking EXCEPT ![q] = NotAsking] /\ UNCHANGED <<following, subscribed, tellVars, buried, letGo>>
    BY DEF UpdateNotificationCheckTime, CreateNotificationCheckTime, Answer
  <1>3. UNCHANGED <<notices, slipped>> /\ Len(notices) \in Nat
    BY <1>2 DEF tellVars, NoticeInv, NoticeTypeOK
  <1>4. \/ UNCHANGED <<checkTime, seen>>
        \/ /\ seen' = seen \cup asking[q].rows
           /\ DOMAIN checkTime' \subseteq DOMAIN checkTime \cup {u}
           /\ DOMAIN checkTime \subseteq DOMAIN checkTime'
           /\ \A w \in DOMAIN checkTime' : checkTime'[w] = IF w = u THEN Len(notices) ELSE checkTime[w]
    BY DEF UpdateNotificationCheckTime, CreateNotificationCheckTime, Listed
  <1>5. seen \subseteq seen' /\ (seen \cup buried)' \subseteq DOMAIN notices
        /\ DOMAIN checkTime' \subseteq Audience
        /\ \A w \in DOMAIN checkTime' : checkTime'[w] \in 0..Len(notices)
    BY <1>1, <1>2, <1>3, <1>4 DEF NoticeInv, NoticeTypeOK
  <1>6. NewInv'
    <2>1. CASE UNCHANGED <<checkTime, seen>>
      BY <1>2, <1>3, <2>1, SameNews
    <2>2. CASE ~ UNCHANGED <<checkTime, seen>>
      <3> SUFFICES ASSUME NEW w \in Audience, NEW n \in NoticesOf(w)
                   PROVE  n \in seen' \cup slipped \cup buried \/ n > GetLastNotificationCheckTime(w)'
        BY <1>2, <1>3 DEF NewInv, NoticesOf
      <3>1. CASE w = u
        BY <1>1, <1>4, <2>2, <3>1 DEF NoticeInv, ListingInv
      <3>2. CASE w # u
        BY <1>4, <2>2, <3>2 DEF NoticeInv, NewInv, GetLastNotificationCheckTime
      <3> QED BY <3>1, <3>2
    <2> QED BY <2>1, <2>2
  <1>7. SubscribersFollow' /\ subscribed' \subseteq Pairs
    BY <1>2 DEF NoticeInv, NoticeTypeOK, SubscribersFollow
  <1>8. NotAsking.step = "none"
    BY DEF NotAsking
  <1> QED BY <1>2, <1>5, <1>6, <1>7, <1>8, AskStep

LEMMA NoticeStep == NoticeInv /\ [NoticeNext]_noticeVars => NoticeInv'
PROOF
  <1> SUFFICES ASSUME NoticeInv, [NoticeNext]_noticeVars PROVE NoticeInv'
    OBVIOUS
  <1>1. CASE UNCHANGED noticeVars
    BY <1>1 DEF noticeVars, NoticeInv, NoticeTypeOK, NewInv, ListingInv, ToggleInv, SubscribersFollow,
                NoticesOf, GetLastNotificationCheckTime, Listings, Toggles
  <1>2. CASE SubscribeNext
    BY <1>2, Events, UnfollowStep, ToggleSteps DEF SubscribeNext
  <1>3. ASSUME NEW q \in Readers, NEW r \in Requests({Onlooker}), NEW cursor, ListRoute(q, r, cursor)
        PROVE  NoticeInv'
    <2>1. r.user \in Audience
      BY <1>3, NoticesAssumption DEF NoticesAssumption, ListRoute, WellFormed, SignedIn, Requests
    <2> QED BY <1>3, <2>1, ListStep DEF ListRoute
  <1>4. CASE TellNext
    BY <1>3, <1>4, Events, TellStep, SettingStep, CheckTimeStep DEF TellNext
  <1> QED BY <1>1, <1>2, <1>4 DEF NoticeNext
LEMMA NoticeAlways == NoticeSpec => []NoticeInv
PROOF
  BY NoticeInitInv, NoticeStep, PTL DEF NoticeSpec
-----------------------------------------------------------------------------
(* All together.                                                             *)

\* A social login, a profile, a room, a notification: all that the handlers keep
\* in the database and in their hands has its shape, whatever requests overlap.
THEOREM CommunityTypes == CommunitySpec => []TypeOK
PROOF
  <1>1. CredInv => CredTypeOK
    BY DEF CredInv
  <1>2. MemberInv => MemberTypeOK
    BY DEF MemberInv
  <1>3. ProfileInv => ProfileTypeOK
    BY DEF ProfileInv
  <1>4. ChatInv => ChatTypeOK
    BY DEF ChatInv
  <1>5. NoticeInv => NoticeTypeOK
    BY DEF NoticeInv
  <1> QED
    BY <1>1, <1>2, <1>3, <1>4, <1>5, CredAlways, MemberAlways, ProfileAlways, ChatAlways, NoticeAlways, PTL
    DEF CommunitySpec, TypeOK

\* Of whom an admin has expelled the web login lets in only who had also left by
\* himself, a month ago or longer; the token routes, whose status is set, after
\* that month, or, Kakao's, anybody; or the row changed under the visit.
THEOREM StaysOutAlways == MemberSpec => StaysOut
PROOF
  <1> DEFINE Inv == MemberInv
             InBy(v) == LET a == visit[v].acct
                            comesIn == visit[v].step \in {"check", "revive"} /\ visit'[v].step = "mint"
                        IN comesIn /\ a \in expelled =>
                             \/ visit[v].stale
                             \/ member[a].gone = "month"
                             \/ visit[v].route = "token"
                                  /\ (member[a].status \/ visit[v].by = "kakao")
  <1>1. ASSUME Inv, [MemberNext]_memberVars, NEW v \in Visits PROVE InBy(v)
    BY <1>1, ComesInStep DEF memberVars
  <1>2. Inv /\ [MemberNext]_memberVars => [\A v \in Visits : InBy(v)]_memberVars
    BY <1>1
  <1> HIDE DEF Inv, InBy
  <1>3. MemberSpec => []Inv
    BY MemberAlways DEF Inv
  <1>4. MemberSpec => [][\A v \in Visits : InBy(v)]_memberVars
    BY <1>2, <1>3, PTL DEF MemberSpec
  <1> QED BY <1>4 DEF StaysOut, InBy

\* Rows of followers, nicknames, careers, links and subscriptions satisfy what was
\* looked up before they were written, but for the overlaps named at each.
THEOREM WritesAlwaysHold == ProfileSpec /\ NoticeSpec => []WritesHold
PROOF
  <1>1. NoticeInv => SubscribersFollow
    BY DEF NoticeInv
  <1> QED BY <1>1, InvImpliesProfile, ProfileAlways, NoticeAlways, PTL DEF WritesHold

\* Pages of members and of messages, read to the last one, leave nobody and no
\* message out, and no message counts as read that was not on the screen.
THEOREM PagesNeverMiss == ProfileSpec /\ ChatSpec => []PagesMissNothing
PROOF
  BY InvImpliesProfile, InvImpliesChat, ProfileAlways, ChatAlways, PTL DEF PagesMissNothing

\* The lock on the room's row keeps last_message_id on the room's latest message,
\* however many messages are sent at once.
THEOREM LastAlwaysLatest == ChatSpec => []LastMessageIsLatest
PROOF
  BY InvImpliesChat, ChatAlways, PTL

\* Whatever a user was sent and was not shown is news to him, whatever requests
\* and listeners overlap; but for what was inserted while a list of his was under
\* way, or lay on another page of it.
THEOREM NewAlwaysNoticed == NoticeSpec => []NewIsNoticed
PROOF
  <1>1. NoticeInv => NewIsNoticed
    <2> SUFFICES ASSUME NoticeInv, NEW u \in Audience, ~ (NoticesOf(u) \subseteq seen \cup slipped \cup buried)
                 PROVE  HasNew(u)
      BY DEF NewIsNoticed
    <2>1. PICK n \in NoticesOf(u) : n > GetLastNotificationCheckTime(u)
      BY DEF NoticeInv, NewInv
    <2>2. Len(notices) \in Nat /\ NoticesOf(u) \in SUBSET (0..Len(notices))
      BY DEF NoticeInv, NoticeTypeOK, NoticesOf
    <2>3. \E m \in NoticesOf(u) : \A k \in NoticesOf(u) : k <= m
      BY <2>1, <2>2, GreatestOf
    <2>4. GetLatestNotificationTime(u) \in NoticesOf(u) /\ GetLatestNotificationTime(u) >= n
      BY <2>1, <2>2, <2>3 DEF GetLatestNotificationTime
    <2>5. GetLastNotificationCheckTime(u) \in Nat
      BY DEF GetLastNotificationCheckTime, NoticeInv, NoticeTypeOK
    <2> QED BY <2>1, <2>2, <2>4, <2>5 DEF HasNew
  <1> QED BY <1>1, NoticeAlways, PTL
==============================================================================
