------------------------------ MODULE MCCommunity ------------------------------
(***************************************************************************)
(* Community for TLC.  "part" picks in the initial state which component   *)
(* moves, and in Profile, Chat and Notices which group of its operations.  *)
(***************************************************************************)
EXTENDS Community, TLC

CONSTANTS pa, pb, u1, u2, u3

\* pa is typed with capitals, pb without.
MCLower   == pa :> pb @@ pb :> pb
MCRooms   == {{u1, u2}, {u1, u3}}
MCWatched == {u1, u2}

VARIABLE part

Parts == {"credentials", "membership", "follow", "name", "entry", "roster", "room", "talk",
          "subscribe", "tell"}

MCMember == part = "membership" \/ \A a \in Accounts : member[a] = Absent
MCRoom   == part \in {"room", "talk"} \/ Made = {}
MCFans   == part \in {"subscribe", "tell"} \/ following = {}

Init ==
  /\ part \in Parts
  /\ CredInit /\ MemberInit /\ ProfileInit /\ ChatInit /\ NoticeInit
  /\ MCMember /\ MCRoom /\ MCFans

Sender == \E h \in Senders : HandlerDies(h)

Next ==
  \/ /\ part = "credentials" /\ CredNext
     /\ UNCHANGED <<part, memberVars, profileVars, chatVars, noticeVars>>
  \/ /\ part = "membership" /\ MemberNext
     /\ UNCHANGED <<part, credVars, profileVars, chatVars, noticeVars>>
  \/ /\ \/ part = "follow" /\ FollowNext
        \/ part = "name" /\ NameNext
        \/ part = "entry" /\ EntryNext
        \/ part = "roster" /\ RosterNext
     /\ UNCHANGED <<part, credVars, memberVars, chatVars, noticeVars>>
  \/ /\ \/ part = "room" /\ RoomNext
        \/ part = "talk" /\ TalkNext
        \/ part \in {"room", "talk"} /\ Sender
     /\ UNCHANGED <<part, credVars, memberVars, profileVars, noticeVars>>
  \/ /\ \/ part = "subscribe" /\ SubscribeNext
        \/ part = "tell" /\ TellNext
     /\ UNCHANGED <<part, credVars, memberVars, profileVars, chatVars>>

vars == <<part, communityVars>>
Spec == Init /\ [][Next]_vars
=============================================================================
