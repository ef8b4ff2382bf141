------------------------------- MODULE Community -------------------------------
(***************************************************************************)
(* Accounts, profiles, chat and notifications beside each other.  They     *)
(* share no row but User's, of which each has other columns, and the       *)
(* middlewares in front of their routes (Requests).                        *)
(***************************************************************************)
EXTENDS Credentials, Membership, Profile, Chat, Notices

communityVars == <<credVars, memberVars, profileVars, chatVars, noticeVars>>

TypeOK == CredTypeOK /\ MemberTypeOK /\ ProfileTypeOK /\ ChatTypeOK /\ NoticeTypeOK

CommunitySpec == CredSpec /\ MemberSpec /\ ProfileSpec /\ ChatSpec /\ NoticeSpec
-----------------------------------------------------------------------------
(* Properties.                                                              *)

\* Whoever reads a list of members or a chat room to its end has read all of it,
\* and nothing counts as read that was not on his screen.
PagesMissNothing == RosterMissesNobody /\ NothingMissed /\ ReadMarkWasShown

\* What handlers look up before they write holds for what they have written:
\* nobody follows twice, no two nicknames are the same, careers and links are
\* their owner's, subscribers follow; each with the exceptions named at it.
WritesHold == ChecksHold /\ SubscribersFollow
=============================================================================
