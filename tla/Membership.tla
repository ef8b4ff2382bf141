------------------------------ MODULE Membership ------------------------------
(***************************************************************************)
(* Who is a member and how he comes in (src/auth, src/config/social, the   *)
(* sign-in and the account part of src/members).  A User row has two marks *)
(* that were meant for the same: status, which only rows from before       *)
(* userstatus have cleared, and userstatus.  The callbacks of the web      *)
(* login look at userstatus, the token routes, the sign-in and the JWT     *)
(* check at status.  All of them read the row first and update it by its   *)
(* id later.                                                               *)
(***************************************************************************)
EXTENDS Naturals, Requests

CONSTANTS
  Accounts,  \* e-mail addresses
  Visits     \* slots for running requests

Providers == {"google", "naver", "kakao"}
Orders    == {"ban", "unban", "delete", "leave"}
Uris      == {"none", "listed", "unlisted"}
Ages      == {"never", "recent", "month"}  \* of inactive_date: null, under 30 days, 30 days

\* A User row: status, userstatus, inactive_date.
Absent    == [status |-> FALSE, userstatus |-> "absent", gone |-> "never"]
Newcomer  == [status |-> TRUE, userstatus |-> "active", gone |-> "never"]
UserRows  == [status : BOOLEAN, userstatus : {"absent", "active", "banned", "deleted"}, gone : Ages]

VARIABLES
  member,    \* User rows by address
  session,   \* RefreshToken rows: none, old ones, or one of this very second
  visit,     \* a running request: where it stands, and the row it has read
  \* for the property only
  expelled   \* whom an admin banned or deleted, till an admin or a callback takes him back

memberVars == <<member, session, visit, expelled>>

IdleVisit == [step |-> "idle"]
Busy      == [step : {"find", "create", "check", "revive", "mint", "set"}, acct : Accounts,
              route : {"callback", "token", "complete"} \cup Orders,
              by : Providers \cup {"site"}, read : UserRows, stale : BOOLEAN]

MemberTypeOK ==
  /\ member \in [Accounts -> UserRows]
  /\ session \in [Accounts -> {"none", "old", "fresh"}]
  /\ visit \in [Visits -> {IdleVisit} \cup Busy]
  /\ expelled \in SUBSET Accounts

\* Nobody, a member, or one who left before there was a userstatus.
MemberInit ==
  /\ member \in [Accounts -> {Absent, Newcomer,
                   [Newcomer EXCEPT !.status = FALSE, !.gone = "recent"]}]
  /\ session = [a \in Accounts |-> "none"]
  /\ visit = [v \in Visits |-> IdleVisit]
  /\ expelled = {}

Exists(a)   == member[a].userstatus # "absent"
IsActive(m) == m.status

By(v, p) == visit[v] # IdleVisit /\ visit[v].by = p
At(v, s, r, p) == By(v, p) /\ visit[v].step = s /\ visit[v].route = r
Stand(s, r, p, a) ==
  [step |-> s, acct |-> a, route |-> r, by |-> p, read |-> Absent, stale |-> FALSE]
OpenVisit(v, s, r, p, a) == visit[v] = IdleVisit /\ visit' = [visit EXCEPT ![v] = Stand(s, r, p, a)]
ToMint(v)      == Stand("mint", "complete", "site", visit[v].acct)
MintNext(v)    == visit' = [visit EXCEPT ![v] = ToMint(v)]
CloseVisit(v)  == visit' = [visit EXCEPT ![v] = IdleVisit]

\* Statement of v: the row of its address becomes m; whoever read it before is stale.
PutRow(v, m, next) ==
  LET a == visit[v].acct IN
    /\ member' = [member EXCEPT ![a] = m]
    /\ visit' = [w \in Visits |->
         IF w = v THEN next
         ELSE IF visit[w].step \in {"check", "revive"} /\ visit[w].acct = a
           THEN [visit[w] EXCEPT !.stale = TRUE]
         ELSE visit[w]]
-----------------------------------------------------------------------------
(* Coming in through Google, Naver or Kakao.                                *)

\* passport's strategies, and the token routes with their redirect URI.
GoogleStrategy(v, a) == OpenVisit(v, "find", "callback", "google", a)
NaverStrategy(v, a)  == OpenVisit(v, "find", "callback", "naver", a)
KakaoStrategy(v, a)  == OpenVisit(v, "find", "callback", "kakao", a)

AssertAllowedRedirectUri(uri) == uri = "listed"
ResolveRedirectUri(uri)       == uri = "none" \/ AssertAllowedRedirectUri(uri)

GoogleToken(v, a, uri) == ResolveRedirectUri(uri) /\ OpenVisit(v, "find", "token", "google", a)
NaverToken(v, a, uri)  == ResolveRedirectUri(uri) /\ OpenVisit(v, "find", "token", "naver", a)
KakaoToken(v, a, uri)  == ResolveRedirectUri(uri) /\ OpenVisit(v, "find", "token", "kakao", a)

ComesIn(v, a) ==
  /\ \/ GoogleStrategy(v, a) \/ NaverStrategy(v, a) \/ KakaoStrategy(v, a)
     \/ \E uri \in Uris : GoogleToken(v, a, uri) \/ NaverToken(v, a, uri) \/ KakaoToken(v, a, uri)
  /\ UNCHANGED <<member, session, expelled>>

\* The row at the address the provider vouches for.
FindUser(v) ==
  /\ visit[v].step = "find"
  /\ visit' = [visit EXCEPT ![v].step = IF Exists(visit[v].acct) THEN "check" ELSE "create",
                            ![v].read = member[visit[v].acct]]
  /\ UNCHANGED <<member, session, expelled>>

\* The address is unique: of two first visits the second fails.
CreateSocialUser(v) ==
  /\ visit[v].step = "create"
  /\ IF Exists(visit[v].acct)
       THEN CloseVisit(v) /\ UNCHANGED member
       ELSE PutRow(v, Newcomer, [visit[v] EXCEPT !.step = "check", !.read = Newcomer])
  /\ UNCHANGED <<session, expelled>>

HandleGoogleUserFromCode(v) == By(v, "google") /\ (FindUser(v) \/ CreateSocialUser(v))
HandleNaverUserFromCode(v)  == By(v, "naver") /\ (FindUser(v) \/ CreateSocialUser(v))
HandleKakaoUserFromCode(v)  == By(v, "kakao") /\ (FindUser(v) \/ CreateSocialUser(v))

\* Mutant: inactive_date is not looked at.
CanReactivateAlways(m) == m.userstatus = m.userstatus

\* Gone for thirty days; nobody is whose inactive_date is null.
CanReactivate(m) == m.gone = "month"

ReviveOrRefuse(v) ==
  IF CanReactivate(visit[v].read)
    THEN visit' = [visit EXCEPT ![v].step = "revive", ![v].read = Absent, ![v].by = "site"]
    ELSE CloseVisit(v)

\* The callbacks ask the row they were given for its userstatus ...
Callback(v, p) ==
  /\ At(v, "check", "callback", p)
  /\ \/ visit[v].read.userstatus = "deleted" /\ ReviveOrRefuse(v)
     \/ visit[v].read.userstatus = "banned" /\ CloseVisit(v)
     \/ visit[v].read.userstatus = "active" /\ MintNext(v)
  /\ UNCHANGED <<member, session, expelled>>

GoogleCallback(v) == Callback(v, "google")
NaverCallback(v)  == Callback(v, "naver")
KakaoCallback(v)  == Callback(v, "kakao")

\* ... the token routes of Google and Naver for its status, Kakao's for nothing.
ExchangeToken(v, p) ==
  /\ At(v, "check", "token", p)
  /\ IF IsActive(visit[v].read) THEN MintNext(v) ELSE ReviveOrRefuse(v)
  /\ UNCHANGED <<member, session, expelled>>

ExchangeGoogleToken(v) == ExchangeToken(v, "google")
ExchangeNaverToken(v)  == ExchangeToken(v, "naver")
ExchangeKakaoToken(v)  ==
  /\ At(v, "check", "token", "kakao") /\ MintNext(v)
  /\ UNCHANGED <<member, session, expelled>>

\* The row is updated by its id, whatever has become of it; the token routes
\* leave its userstatus alone.
Reactivate(v) ==
  LET a == visit[v].acct IN
    /\ visit[v].step = "revive"
    /\ \/ /\ visit[v].route = "callback"
          /\ PutRow(v, Newcomer, ToMint(v))
          /\ expelled' = expelled \ {a}
       \/ /\ visit[v].route = "token"
          /\ PutRow(v, [member[a] EXCEPT !.status = TRUE, !.gone = "never"], ToMint(v))
          /\ UNCHANGED expelled
    /\ UNCHANGED session
-----------------------------------------------------------------------------
(* Coming in by password, the rest of a social sign-up, tokens.             *)

\* login, once the password was right (Credentials has that part).
Login(v, a) ==
  /\ Exists(a) /\ IsActive(member[a])
  /\ OpenVisit(v, "mint", "complete", "site", a)
  /\ UNCHANGED <<member, session, expelled>>

\* completeSignup sets name and nickname of whoever has the address (the latter
\* in Profile) and looks at nothing else.
CompleteSignup(v, a) ==
  /\ Exists(a)
  /\ OpenVisit(v, "mint", "complete", "site", a)
  /\ UNCHANGED <<member, session, expelled>>

\* Two refresh tokens of one second are the same string, and the column is unique.
SaveRefreshToken(a) == session[a] # "fresh" /\ session' = [session EXCEPT ![a] = "fresh"]

GenerateTokens(v) ==
  /\ visit[v].step = "mint"
  /\ SaveRefreshToken(visit[v].acct)
  /\ CloseVisit(v)
  /\ UNCHANGED <<member, expelled>>

\* A call or statement fails, or the request is refused at a unique column.
VisitFails(v) ==
  /\ visit[v].step \in {"find", "create", "revive", "mint", "set"}
  /\ CloseVisit(v)
  /\ UNCHANGED <<member, session, expelled>>

\* The strategy "jwt" in front of every other request.
AuthenticateJwt(a) == Exists(a) /\ IsActive(member[a])

DeleteRefreshTokensByUserId(a) == session' = [session EXCEPT ![a] = "none"]

Logout(a) ==
  /\ AuthenticateJwt(a)
  /\ DeleteRefreshTokensByUserId(a)
  /\ UNCHANGED <<member, visit, expelled>>

SecondPasses ==
  /\ \E a \in Accounts : session[a] = "fresh"
  /\ session' = [a \in Accounts |-> IF session[a] = "fresh" THEN "old" ELSE session[a]]
  /\ UNCHANGED <<member, visit, expelled>>
-----------------------------------------------------------------------------
(* Leaving, and what admins do.  Every one reads, then writes.              *)

Order(v, o, a) ==
  /\ OpenVisit(v, "set", o, "site", a)
  /\ UNCHANGED <<member, session, expelled>>

AdminBanUser(v, a)    == Exists(a) /\ member[a].userstatus # "banned" /\ Order(v, "ban", a)
AdminUnBanUser(v, a)  == Exists(a) /\ member[a].userstatus # "active" /\ Order(v, "unban", a)
AdminDeleteUser(v, a) == Exists(a) /\ member[a].userstatus # "deleted" /\ Order(v, "delete", a)
WithdrawMember(v, a)  == AuthenticateJwt(a) /\ Order(v, "leave", a)

BanRoute(q, v, a)      == ByAdmin(q) /\ AdminBanUser(v, a)
UnBanRoute(q, v, a)    == ByAdmin(q) /\ AdminUnBanUser(v, a)
DeleteRoute(q, v, a)   == ByAdmin(q) /\ AdminDeleteUser(v, a)
WithdrawRoute(q, v)    == SignedIn(q) /\ WithdrawMember(v, q.user)
LogoutRoute(q)         == SignedIn(q) /\ Logout(q.user)
CompleteRoute(q, v, a) == q.valid /\ CompleteSignup(v, a)

SetUserstatus(v, o, s) ==
  /\ At(v, "set", o, "site")
  /\ PutRow(v, [member[visit[v].acct] EXCEPT !.userstatus = s], IdleVisit)
  /\ expelled' = IF s = "active" THEN expelled \ {visit[v].acct} ELSE expelled \cup {visit[v].acct}
  /\ UNCHANGED session

\* None of them touches status, nor inactive_date.
BanUser(v)    == SetUserstatus(v, "ban", "banned")
UnBanUser(v)  == SetUserstatus(v, "unban", "active")
DeleteUser(v) == SetUserstatus(v, "delete", "deleted")

\* deactivateUser does nothing, and says nothing, for one who has sold prompts.
DeactivateUser(v, sold) ==
  /\ At(v, "set", "leave", "site")
  /\ IF sold
       THEN CloseVisit(v) /\ UNCHANGED member
       ELSE PutRow(v, [member[visit[v].acct] EXCEPT !.userstatus = "deleted", !.gone = "recent"],
                   IdleVisit)
  /\ UNCHANGED <<session, expelled>>

\* Thirty days go by for everyone who left.
MonthPasses ==
  LET Older(age) == IF age = "recent" THEN "month" ELSE age IN
    /\ \E a \in Accounts : member[a].gone = "recent"
    /\ \A v \in Visits : visit[v] = IdleVisit
    /\ member' = [a \in Accounts |-> [member[a] EXCEPT !.gone = Older(@)]]
    /\ UNCHANGED <<session, visit, expelled>>

MemberNext ==
  \/ \E v \in Visits, a \in Accounts :
       \/ ComesIn(v, a) \/ Login(v, a)
       \/ \E q \in Requests(Accounts) : \/ CompleteRoute(q, v, a) \/ BanRoute(q, v, a)
                                        \/ UnBanRoute(q, v, a) \/ DeleteRoute(q, v, a)
                                        \/ WithdrawRoute(q, v)
  \/ \E v \in Visits :
       \/ HandleGoogleUserFromCode(v) \/ HandleNaverUserFromCode(v) \/ HandleKakaoUserFromCode(v)
       \/ GoogleCallback(v) \/ NaverCallback(v) \/ KakaoCallback(v)
       \/ ExchangeGoogleToken(v) \/ ExchangeNaverToken(v) \/ ExchangeKakaoToken(v)
       \/ Reactivate(v) \/ GenerateTokens(v) \/ VisitFails(v)
       \/ BanUser(v) \/ UnBanUser(v) \/ DeleteUser(v)
       \/ \E sold \in BOOLEAN : DeactivateUser(v, sold)
  \/ \E q \in Requests(Accounts) : LogoutRoute(q)
  \/ SecondPasses \/ MonthPasses

MemberSpec == MemberInit /\ [][MemberNext]_memberVars
-----------------------------------------------------------------------------
(* Properties.                                                              *)

\* Whom an admin has banned or deleted stays out of the web login of a provider,
\* which lets him in only if he had also left by himself, a month ago or longer:
\* that replaces the admin's mark.  The token routes look at another one, his
\* status, which no order of an admin clears: Google's and Naver's let him in as
\* long as it is set, and then after the month; Kakao's looks at nothing.  Excused
\* is a row that changed between the read and its use.  Nothing is said of the
\* ways in without a provider: Login asks for the status alone, completeSignup for
\* no more than a row.
StaysOut ==
  [][\A v \in Visits :
       LET a == visit[v].acct
           comesIn == visit[v].step \in {"check", "revive"} /\ visit'[v].step = "mint"
       IN comesIn /\ a \in expelled =>
            \/ visit[v].stale
            \/ member[a].gone = "month"
            \/ visit[v].route = "token" /\ (member[a].status \/ visit[v].by = "kakao")]_memberVars
=============================================================================
