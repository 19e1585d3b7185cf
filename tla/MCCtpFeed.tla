------------------------------- MODULE MCCtpFeed -------------------------------
(***************************************************************************)
(* Small instances of CtpFeed.                                             *)
(***************************************************************************)
EXTENDS CtpFeed

CONSTANTS k1, k2  \* two contracts
=============================================================================
