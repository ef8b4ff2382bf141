------------------------------ MODULE Credentials ------------------------------
(***************************************************************************)
(* Sign-up by e-mail, the forgotten password and what a sign-in compares   *)
(* (src/signup, src/password, src/signin).  A code is mailed to the        *)
(* address; entering it yields a temporary token, and the token allows one *)
(* registration or one new password.  Codes and tokens are kept in maps of *)
(* the server process, one entry per address, and are gone when it         *)
(* restarts.  A handler is split at its awaits.                            *)
(***************************************************************************)
EXTENDS Naturals

CONSTANTS
  Emails,
  Passwords,   \* as they are typed
  Lower,       \* toLowerCase
  Acceptable,  \* passwords that validatePasswordPolicy accepts
  Codes,       \* six-digit codes
  Forms,       \* slots for running handlers
  NoPassword, NoCode,
  TempTTL,     \* a temporary token lives ten minutes
  MaxTokens    \* bound on the tokens handed out

ASSUME CredentialsAssumption ==
  /\ Lower \in [Passwords -> Passwords]
  /\ \A p \in Passwords : Lower[Lower[p]] = Lower[p]
  /\ Acceptable \subseteq Passwords
  /\ TempTTL \in Nat \ {0} /\ MaxTokens \in Nat
  /\ NoPassword \notin Passwords /\ NoCode \notin Codes

Purposes == {"signup", "reset"}
Required == {"SERVICE_TERMS_REQUIRED", "PRIVACY_POLICY_REQUIRED", "OVER_14_REQUIRED"}
NoToken0 == [number |-> 0, life |-> 0]

VARIABLES
  password,  \* User.password of the account at an address: what was hashed
  social,    \* addresses whose account a social login made: it starts without a password
  agreed,    \* UserConsent rows of that account
  codeMap,   \* emailCodeMap and resetCodeMap
  tempMap,   \* emailTempTokenMap and resetTokenMap: a token's number, its minutes left
  inbox,     \* codes that were mailed to an address, by purpose
  form,      \* a running handler: the await before which it stands, and its locals
  handedOut, \* tokens so far
  \* for the properties only
  typed,     \* the password last set at an address: where, and as it was typed
  redeemedBy,\* how often a token got a registration or a new password through
  halfway    \* accounts whose consents could not be written

credVars  == <<password, social, agreed, codeMap, tempMap, inbox, form, handedOut, typed,
               redeemedBy, halfway>>
accountVars == <<password, social, agreed, typed, redeemedBy, halfway>>

IdleForm  == [step |-> "idle"]
MailForms == [step : {"mail"}, w : Purposes, email : Emails, code : Codes]
UserForms == [step : {"user", "consents", "lookup", "store"},
              email : Emails, typed : Passwords, token : 1..MaxTokens]

CredTypeOK ==
  /\ password \in [Emails -> Passwords \cup {NoPassword}]
  /\ social \in SUBSET Emails
  /\ agreed \in [Emails -> SUBSET Required]
  /\ codeMap \in [Purposes -> [Emails -> Codes \cup {NoCode}]]
  /\ tempMap \in [Purposes -> [Emails -> [number : 0..MaxTokens, life : 0..TempTTL]]]
  /\ inbox \in [Purposes -> [Emails -> SUBSET Codes]]
  /\ form \in [Forms -> {IdleForm} \cup MailForms \cup UserForms]
  /\ handedOut \in 0..MaxTokens
  /\ typed \in [Emails -> [by : Purposes \cup {"none"}, as : Passwords \cup {NoPassword}]]
  /\ redeemedBy \in [1..MaxTokens -> Nat]
  /\ halfway \in SUBSET Emails

CredInit ==
  /\ password = [e \in Emails |-> NoPassword]
  /\ social = {}
  /\ agreed = [e \in Emails |-> {}]
  /\ codeMap = [w \in Purposes |-> [e \in Emails |-> NoCode]]
  /\ tempMap = [w \in Purposes |-> [e \in Emails |-> NoToken0]]
  /\ inbox = [w \in Purposes |-> [e \in Emails |-> {}]]
  /\ form = [f \in Forms |-> IdleForm]
  /\ handedOut = 0
  /\ typed = [e \in Emails |-> [by |-> "none", as |-> NoPassword]]
  /\ redeemedBy = [n \in 1..MaxTokens |-> 0]
  /\ halfway = {}

HasPassword(e) == password[e] # NoPassword
Registered(e)  == HasPassword(e) \/ e \in social

OpenForm(f, r) == form[f] = IdleForm /\ form' = [form EXCEPT ![f] = r]
FormTo(f, s)   == form' = [form EXCEPT ![f].step = s]
CloseForm(f)   == form' = [form EXCEPT ![f] = IdleForm]
-----------------------------------------------------------------------------
(* Codes and temporary tokens.                                              *)

\* A new code takes the place of the one before it; then it is mailed.
SendCode(f, w, e, c) ==
  /\ codeMap' = [codeMap EXCEPT ![w][e] = c]
  /\ OpenForm(f, [step |-> "mail", w |-> w, email |-> e, code |-> c])
  /\ UNCHANGED <<accountVars, tempMap, inbox, handedOut>>

\* sendVerificationCode, for an address that has no account yet ...
SendSignupCode(f, e, c) == ~ Registered(e) /\ SendCode(f, "signup", e, c)

\* ... and sendResetCode for one that has.
SendResetCode(f, e, c) == Registered(e) /\ SendCode(f, "reset", e, c)

\* sendVerificationEmail; when the mail fails the code stays in the map.
MailCode(f, arrives) ==
  /\ form[f].step = "mail"
  /\ LET m == form[f] IN
       inbox' = IF arrives THEN [inbox EXCEPT ![m.w][m.email] = @ \cup {m.code}] ELSE inbox
  /\ CloseForm(f)
  /\ UNCHANGED <<accountVars, codeMap, tempMap, handedOut>>

\* generateTempToken
PutToken(w, e) ==
  /\ handedOut < MaxTokens
  /\ handedOut' = handedOut + 1
  /\ tempMap' = [tempMap EXCEPT ![w][e] = [number |-> handedOut + 1, life |-> TempTTL]]

\* The owner of the address enters a code that was mailed to him.  Nothing is
\* awaited from the lookup to the token.
EnterCode(w, e, c) ==
  /\ c \in inbox[w][e]
  /\ codeMap[w][e] = c
  /\ codeMap' = [codeMap EXCEPT ![w][e] = NoCode]
  /\ PutToken(w, e)
  /\ UNCHANGED <<accountVars, inbox, form>>

VerifySignupCode(e, c) == EnterCode("signup", e, c)
VerifyResetCode(e, c)  == EnterCode("reset", e, c)

TokenLives(w, e) == tempMap[w][e].number # 0 /\ tempMap[w][e].life > 0
DropToken(w, e)  == tempMap' = [tempMap EXCEPT ![w][e] = NoToken0]

\* A minute passes for the tokens.
TokensAge ==
  /\ \E w \in Purposes, e \in Emails : tempMap[w][e].life > 0
  /\ tempMap' = [w \in Purposes |-> [e \in Emails |->
       IF tempMap[w][e].life = 0 THEN tempMap[w][e]
       ELSE [tempMap[w][e] EXCEPT !.life = @ - 1]]]
  /\ UNCHANGED <<accountVars, codeMap, inbox, form, handedOut>>
-----------------------------------------------------------------------------
(* Registration.                                                            *)

FilledIn(s, e, p, w) == [step |-> s, email |-> e, typed |-> p, token |-> tempMap[w][e].number]

\* registerUser up to the hash: the token goes first, whatever the rest is.
Register(f, e, p, consents) ==
  /\ form[f] = IdleForm
  /\ TokenLives("signup", e)
  /\ DropToken("signup", e)
  /\ IF Required \subseteq consents /\ p \in Acceptable
       THEN OpenForm(f, FilledIn("user", e, p, "signup")) ELSE UNCHANGED form
  /\ UNCHANGED <<accountVars, codeMap, inbox, handedOut>>

Use(n) == redeemedBy' = [redeemedBy EXCEPT ![n] = @ + 1]

\* createUser: the password is hashed as it was typed; the address is unique.
CreateUser(f) ==
  /\ form[f].step = "user"
  /\ LET u == form[f] IN
       IF Registered(u.email)
         THEN CloseForm(f) /\ UNCHANGED <<password, typed, redeemedBy>>
         ELSE /\ password' = [password EXCEPT ![u.email] = u.typed]
              /\ typed' = [typed EXCEPT ![u.email] = [by |-> "signup", as |-> u.typed]]
              /\ Use(u.token)
              /\ FormTo(f, "consents")
  /\ UNCHANGED <<social, agreed, halfway, codeMap, tempMap, inbox, handedOut>>

\* The consents are a statement of their own, which may fail.
CreateConsents(f, fails) ==
  /\ form[f].step = "consents"
  /\ agreed' = IF fails THEN agreed ELSE [agreed EXCEPT ![form[f].email] = Required]
  /\ halfway' = IF fails THEN halfway \cup {form[f].email} ELSE halfway
  /\ CloseForm(f)
  /\ UNCHANGED <<password, social, typed, redeemedBy, codeMap, tempMap, inbox, handedOut>>

\* The first social login with an address: an account with no password, for
\* which nobody asks for consents.
SocialAccount(e) ==
  /\ ~ Registered(e)
  /\ social' = social \cup {e}
  /\ UNCHANGED <<password, agreed, typed, redeemedBy, halfway, codeMap, tempMap, inbox, form,
                 handedOut>>
-----------------------------------------------------------------------------
(* A new password, for an account from a social login its first.            *)

\* Mutant: the token is given up when the new password is stored.
ResetPasswordLate(f, e, p) ==
  /\ TokenLives("reset", e)
  /\ Lower[p] \in Acceptable
  /\ OpenForm(f, FilledIn("lookup", e, p, "reset"))
  /\ UNCHANGED <<accountVars, codeMap, tempMap, inbox, handedOut>>

\* resetPassword up to its first await.
ResetPassword(f, e, p) ==
  /\ form[f] = IdleForm
  /\ TokenLives("reset", e)
  /\ DropToken("reset", e)
  /\ IF Lower[p] \in Acceptable
       THEN OpenForm(f, FilledIn("lookup", e, p, "reset")) ELSE UNCHANGED form
  /\ UNCHANGED <<accountVars, codeMap, inbox, handedOut>>

\* findUserByEmail, with the hash that follows it.
LookUpUser(f) ==
  /\ form[f].step = "lookup"
  /\ IF Registered(form[f].email) THEN FormTo(f, "store") ELSE CloseForm(f)
  /\ UNCHANGED <<accountVars, codeMap, tempMap, inbox, handedOut>>

\* Mutant: the new password is not brought to lower case.
StoredAsTyped(p) == p

\* cleanPassword
Stored(p) == Lower[p]

\* updatePassword
StorePassword(f) ==
  /\ form[f].step = "store"
  /\ LET u == form[f] IN
       /\ password' = [password EXCEPT ![u.email] = Stored(u.typed)]
       /\ typed' = [typed EXCEPT ![u.email] = [by |-> "reset", as |-> u.typed]]
       /\ Use(u.token)
  /\ CloseForm(f)
  /\ UNCHANGED <<social, agreed, halfway, codeMap, tempMap, inbox, handedOut>>

\* A statement fails.
FormFails(f) ==
  /\ form[f].step \in {"user", "lookup", "store"}
  /\ CloseForm(f)
  /\ UNCHANGED <<accountVars, codeMap, tempMap, inbox, handedOut>>

\* The server is deployed anew: the maps are empty, its handlers gone.
ServerRestarts ==
  /\ codeMap' = [w \in Purposes |-> [e \in Emails |-> NoCode]]
  /\ tempMap' = [w \in Purposes |-> [e \in Emails |-> NoToken0]]
  /\ form' = [f \in Forms |-> IdleForm]
  /\ halfway' = halfway \cup
       {e \in Emails : \E f \in Forms : form[f].step = "consents" /\ form[f].email = e}
  /\ UNCHANGED <<password, social, agreed, typed, redeemedBy, inbox, handedOut>>

ResetRoute(f, e, p, confirmed) == p = confirmed /\ ResetPassword(f, e, p)

CredNext ==
  \/ \E f \in Forms, e \in Emails, c \in Codes : SendSignupCode(f, e, c) \/ SendResetCode(f, e, c)
  \/ \E f \in Forms, ok \in BOOLEAN : MailCode(f, ok) \/ CreateConsents(f, ok)
  \/ \E e \in Emails, c \in Codes : VerifySignupCode(e, c) \/ VerifyResetCode(e, c)
  \/ \E f \in Forms, e \in Emails, p \in Passwords :
       \/ \E consents \in {Required, {}} : Register(f, e, p, consents)
       \/ \E confirmed \in Passwords : ResetRoute(f, e, p, confirmed)
  \/ \E f \in Forms : CreateUser(f) \/ LookUpUser(f) \/ StorePassword(f) \/ FormFails(f)
  \/ \E e \in Emails : SocialAccount(e)
  \/ TokensAge \/ ServerRestarts

CredSpec == CredInit /\ [][CredNext]_credVars
-----------------------------------------------------------------------------
(* Properties.                                                              *)

\* login: what is typed is brought to lower case and compared; a null password
\* is nobody's.
SignsInWith(e, p) == HasPassword(e) /\ password[e] = Lower[p]

\* One code, one account or one new password: no token gets two overlapping
\* handlers through, and no account is without the consents it needs unless
\* the statement after its insert failed, or a social login made it.
TempTokenUsedOnce ==
  /\ \A n \in 1..MaxTokens : redeemedBy[n] <= 1
  /\ \A e \in Emails : Registered(e) =>
       \/ agreed[e] = Required \/ e \in halfway \cup social
       \/ \E f \in Forms : form[f].step = "consents" /\ form[f].email = e

\* Whoever sets a password signs in with it, unless it has capitals and was set
\* at the registration, which hashes it as it is while the sign-in does not.
PasswordOpens ==
  \A e \in Emails : HasPassword(e) =>
    \/ SignsInWith(e, typed[e].as)
    \/ typed[e].by = "signup" /\ Lower[typed[e].as] # typed[e].as
=============================================================================
