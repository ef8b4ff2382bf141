-------------------------- MODULE SellerVerification --------------------------
(***************************************************************************)
(* The bank account check before a seller registers (src/settlements).     *)
(* A user has Payple look up his bank account, at most so many times a     *)
(* day, and gets a register token that is good for one registration within *)
(* five minutes.  The counter of the day and the tokens that were used are *)
(* keys in Redis with a time to live.  A handler is split at its awaits    *)
(* and may fail at any of them.                                            *)
(***************************************************************************)
EXTENDS Naturals, FiniteSets

CONSTANTS
  Applicants,  \* users
  Checks,      \* slots for running verify-account handlers
  Jtis,        \* register tokens
  NoApplicant,
  DailyLimit,  \* RATE_LIMIT_PER_DAY
  TokenTTL,    \* minutes a register token is valid
  MaxNights    \* bound on the midnights of the model

ASSUME VerificationAssumption ==
  /\ DailyLimit \in Nat \ {0} /\ TokenTTL \in Nat \ {0} /\ MaxNights \in Nat
  /\ NoApplicant \notin Applicants
  /\ IsFiniteSet(Checks)

VARIABLES
  consented,  \* users with a UserConsent row for the registration
  limitKey,   \* the counter in Redis: value, and whether it has a time to live
  holder,     \* whom a token was issued to
  life,       \* minutes the token is still valid
  black,      \* minutes its entry in the blacklist still lives
  step, who,  \* the await before which a handler stands, and its user
  nights,
  \* for the properties only
  inquired,   \* Payple inquiries sent for a user since midnight
  overdue,    \* calls that had been let through and not sent yet at midnight
  redeemed,   \* how often a token got through consumeRegisterToken
  stranded    \* users whose counter was incremented after it had expired

verifyVars == <<consented, limitKey, holder, life, black, step, who, nights,
                inquired, overdue, redeemed, stranded>>
tokenVars == <<holder, life, black, redeemed>>

\* The blacklist outlives every token in it: TTL + 60 seconds.
UsedTTL == TokenTTL + 1
NoCounter == [value |-> 0, ttl |-> FALSE]

VerifyTypeOK ==
  /\ consented \in SUBSET Applicants
  /\ limitKey \in [Applicants -> [value : 0..(DailyLimit + 1), ttl : BOOLEAN]]
  /\ holder \in [Jtis -> Applicants \cup {NoApplicant}]
  /\ life \in [Jtis -> 0..TokenTTL]
  /\ black \in [Jtis -> 0..UsedTTL]
  /\ step \in [Checks -> {"idle", "limit", "count", "inquire", "consent", "issue"}]
  /\ who \in [Checks -> Applicants \cup {NoApplicant}]
  /\ \A c \in Checks : step[c] # "idle" => who[c] \in Applicants
  /\ nights \in 0..MaxNights
  /\ inquired \in [Applicants -> Nat]
  /\ overdue \in [Applicants -> Nat]
  /\ redeemed \in [Jtis -> Nat]
  /\ stranded \in SUBSET Applicants

VerifyInit ==
  /\ consented = {}
  /\ limitKey = [u \in Applicants |-> NoCounter]
  /\ holder = [t \in Jtis |-> NoApplicant]
  /\ life = [t \in Jtis |-> 0]
  /\ black = [t \in Jtis |-> 0]
  /\ step = [c \in Checks |-> "idle"]
  /\ who = [c \in Checks |-> NoApplicant]
  /\ nights = 0
  /\ inquired = [u \in Applicants |-> 0]
  /\ overdue = [u \in Applicants |-> 0]
  /\ redeemed = [t \in Jtis |-> 0]
  /\ stranded = {}

-----------------------------------------------------------------------------
(* The clock.                                                               *)

\* The handlers that the limit has let through, before the call of Payple.
Waiting(u) == {c \in Checks : step[c] = "inquire" /\ who[c] = u}

Less(n) == IF n = 0 THEN 0 ELSE n - 1

Minute ==
  /\ \E t \in Jtis : life[t] > 0 \/ black[t] > 0
  /\ life' = [t \in Jtis |-> Less(life[t])]
  /\ black' = [t \in Jtis |-> Less(black[t])]
  /\ UNCHANGED <<consented, limitKey, holder, step, who, nights, inquired, overdue,
                 redeemed, stranded>>

\* Counters with a time to live until midnight are gone, the others stay: the
\* day is the counter's, whose whole seconds may end it just before the clock's.
Midnight ==
  /\ nights < MaxNights
  /\ nights' = nights + 1
  /\ limitKey' = [u \in Applicants |-> IF limitKey[u].ttl THEN NoCounter ELSE limitKey[u]]
  /\ inquired' = [u \in Applicants |-> 0]
  /\ overdue' = [u \in Applicants |-> Cardinality(Waiting(u))]
  /\ UNCHANGED <<consented, tokenVars, step, who, stranded>>

-----------------------------------------------------------------------------
(* verify-account: rate limit, Payple, consent, token.                      *)

AwaitCheck(c, s) == step' = [step EXCEPT ![c] = s] /\ UNCHANGED who

EndCheck(c) == step' = [step EXCEPT ![c] = "idle"] /\ who' = [who EXCEPT ![c] = NoApplicant]

\* An input that does not parse, Redis, Payple's access token or the database
\* fails, or the process dies.
CheckBreaks(c) ==
  /\ step[c] # "idle"
  /\ EndCheck(c)
  /\ UNCHANGED <<consented, limitKey, tokenVars, nights, inquired, overdue, stranded>>

\* The handler, its body well-formed by validateDto.
VerifyAccount(c, u) ==
  /\ step[c] = "idle"
  /\ step' = [step EXCEPT ![c] = "limit"]
  /\ who' = [who EXCEPT ![c] = u]
  /\ UNCHANGED <<consented, limitKey, tokenVars, nights, inquired, overdue, stranded>>

\* consumePaypleRateLimit: SET NX EX first, so that the counter has a TTL ...
StartCounter(c) ==
  /\ step[c] = "limit"
  /\ limitKey' = [limitKey EXCEPT ![who[c]] = IF @ = NoCounter THEN [value |-> 0, ttl |-> TRUE]
                                                             ELSE @]
  /\ AwaitCheck(c, "count")
  /\ UNCHANGED <<consented, tokenVars, nights, inquired, overdue, stranded>>

\* Bound: beyond the limit the counter stands still.
OneMore(n) == IF n > DailyLimit THEN n ELSE n + 1

\* Mutant: the value before the increment is compared.
OverLimitLate(n) == n > DailyLimit

OverLimit(n) == n + 1 > DailyLimit

\* ... then INCR, which makes a key without one when it has expired since.
CountInquiry(c) ==
  /\ step[c] = "count"
  /\ LET key == limitKey[who[c]] IN
       /\ limitKey' = [limitKey EXCEPT ![who[c]].value = OneMore(@)]
       /\ stranded' = IF key = NoCounter THEN stranded \cup {who[c]} ELSE stranded
       /\ IF OverLimit(key.value) THEN EndCheck(c) ELSE AwaitCheck(c, "inquire")
  /\ UNCHANGED <<consented, tokenVars, nights, inquired, overdue>>

\* verifyRealNameWithPayple asks Payple, however late after the count: the
\* account is the applicant's, or the answer is another one or none.
Inquire(c) ==
  /\ step[c] = "inquire"
  /\ AwaitCheck(c, "consent") \/ EndCheck(c)
  /\ inquired' = [inquired EXCEPT ![who[c]] = @ + 1]
  /\ UNCHANGED <<consented, limitKey, tokenVars, nights, overdue, stranded>>

\* recordSellerRegistrationConsent, kept whatever becomes of the registration.
RecordConsent(c) ==
  /\ step[c] = "consent"
  /\ consented' = consented \cup {who[c]}
  /\ AwaitCheck(c, "issue")
  /\ UNCHANGED <<limitKey, tokenVars, nights, inquired, overdue, stranded>>

\* issueRegisterToken: a fresh jti.
IssueToken(c, t) ==
  /\ step[c] = "issue"
  /\ holder[t] = NoApplicant
  /\ holder' = [holder EXCEPT ![t] = who[c]]
  /\ life' = [life EXCEPT ![t] = TokenTTL]
  /\ EndCheck(c)
  /\ UNCHANGED <<consented, limitKey, black, nights, inquired, overdue, redeemed,
                 stranded>>

-----------------------------------------------------------------------------
(* The other end: a registration presents the token.                        *)

\* Mutant: the mark is gone while the token is still valid.
ConsumeTokenShort(t) ==
  /\ life[t] > 0
  /\ black[t] = 0
  /\ black' = [black EXCEPT ![t] = TokenTTL - 1]
  /\ redeemed' = [redeemed EXCEPT ![t] = @ + 1]
  /\ UNCHANGED <<consented, limitKey, holder, life, step, who, nights, inquired, overdue,
                 stranded>>

\* consumeRegisterToken: jwt.verify, then SET NX of its jti.  The two are one
\* step: the extra minute of the mark covers the moment between them.
ConsumeToken(t) ==
  /\ life[t] > 0
  /\ black[t] = 0
  /\ black' = [black EXCEPT ![t] = UsedTTL]
  /\ redeemed' = [redeemed EXCEPT ![t] = @ + 1]
  /\ UNCHANGED <<consented, limitKey, holder, life, step, who, nights, inquired, overdue,
                 stranded>>

CheckStep(c) ==
  \/ StartCounter(c) \/ CountInquiry(c) \/ Inquire(c) \/ RecordConsent(c)
  \/ \E t \in Jtis : IssueToken(c, t)

VerifyNext ==
  \/ Minute \/ Midnight
  \/ \E c \in Checks : CheckBreaks(c) \/ CheckStep(c) \/ \E u \in Applicants : VerifyAccount(c, u)
  \/ \E t \in Jtis : ConsumeToken(t)

VerifySpec == VerifyInit /\ [][VerifyNext]_verifyVars
-----------------------------------------------------------------------------
(* Properties.                                                              *)

\* A register token is redeemed at most once, and only of a user who gave his
\* consent: its jti is remembered for longer than the token is valid.
TokenRedeemedOnce ==
  \A t \in Jtis : redeemed[t] <= 1 /\ (redeemed[t] = 1 => holder[t] \in consented)

\* In a day Payple is asked at most DailyLimit times for one user, not counting
\* the calls that midnight overtook between the count and the inquiry: those are
\* sent in a day that did not count them.  And nobody is locked out for good,
\* since his counter has a time to live, unless it expires between the SET and
\* the INCR of a call around midnight.
LimitIsDaily ==
  \A u \in Applicants :
    /\ inquired[u] <= DailyLimit + overdue[u]
    /\ limitKey[u].value > 0 => limitKey[u].ttl \/ u \in stranded
=============================================================================
