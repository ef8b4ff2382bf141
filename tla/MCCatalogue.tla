------------------------------ MODULE MCCatalogue ------------------------------
(***************************************************************************)
(* Marketplace for TLC: one prompt with two users, lists of four rows read *)
(* two at a time, two handlers at the desk, a month of one day.            *)
(***************************************************************************)
EXTENDS Marketplace, TLC
=============================================================================
