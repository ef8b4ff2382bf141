------------------------------ MODULE Marketplace ------------------------------
(***************************************************************************)
(* Prompts, lists, inquiries, reviews and statistics.  The modules share   *)
(* no variable, so "part" picks in the initial state which one moves, and  *)
(* in Catalogue, Desk and Statistics which group of its operations.        *)
(***************************************************************************)
EXTENDS Catalogue, Lists, Desk, Statistics

VARIABLE part

Parts == {"sales", "downloads", "pictures", "likes", "lists", "inquiries", "reviews",
          "snapshots", "visits", "activity"}

TypeOK ==
  /\ part \in Parts
  /\ CatalogueTypeOK /\ ListTypeOK /\ DeskTypeOK /\ StatTypeOK

\* The lists are told apart only where one of them moves.
OneList == part = "lists" \/ list = "messages"

Init ==
  /\ part \in Parts
  /\ CatalogueInit /\ ListInit /\ DeskInit /\ StatInit
  /\ OneList

Catalogues ==
  \/ part = "sales"     /\ (SaleNext \/ OfferNext \/ DeleteNext)
  \/ part = "downloads" /\ (DownloadNext \/ SaleNext \/ OfferNext)
  \/ part = "pictures"  /\ (PictureNext \/ OfferNext \/ DeleteNext)
  \/ part = "likes"     /\ (LikeNext \/ OfferNext \/ DeleteNext)

Desks == \/ part = "inquiries" /\ InquiryNext
         \/ part = "reviews"   /\ ReviewNext

Stats == \/ part = "snapshots" /\ SnapshotNext
         \/ part = "visits"    /\ VisitNext
         \/ part = "activity"  /\ ActivityNext

Next ==
  \/ Catalogues /\ UNCHANGED <<part, listVars, deskVars, statVars>>
  \/ part = "lists" /\ ListNext /\ UNCHANGED <<part, catalogueVars, deskVars, statVars>>
  \/ Desks /\ UNCHANGED <<part, catalogueVars, listVars, statVars>>
  \/ Stats /\ UNCHANGED <<part, catalogueVars, listVars, deskVars>>

vars == <<part, catalogueVars, listVars, deskVars, statVars>>
Spec == Init /\ [][Next]_vars
-----------------------------------------------------------------------------
(* Properties.                                                              *)

\* Nothing is lost on the way to its reader: pages of a list skip nothing, replies
\* to inquiries reach who asked.
NothingGetsLost == ListsMissNothing /\ AnswersReachAskers

\* The statistics tell what happened: the popular prompts count the period, every
\* day has its snapshot, last_active_at follows the requests, windows abut.
StatsTell == PopularCountsPeriod /\ SnapshotsAreTaken /\ ActivityLags /\ WindowsAbut
=============================================================================
