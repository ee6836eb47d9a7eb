----------------------------- MODULE MCListing -----------------------------
(***************************************************************************)
(* Listing for TLC: one dot name and two others, two indices.              *)
(***************************************************************************)
EXTENDS Listing
=============================================================================
