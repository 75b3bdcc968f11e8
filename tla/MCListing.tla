----------------------------- MODULE MCListing -----------------------------
(* The instance of MCRamdisk with two processes, with the history of what  *)
(* each of them was shown.                                                 *)
EXTENDS MCRamdisk, Listing
=============================================================================
