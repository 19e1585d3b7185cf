------------------------------- MODULE MCTqFeed -------------------------------
(***************************************************************************)
(* Small instances of TqFeed.                                              *)
(***************************************************************************)
EXTENDS TqFeed

CONSTANTS s1, s2  \* two symbols
=============================================================================
