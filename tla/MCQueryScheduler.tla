--------------------------- MODULE MCQueryScheduler ---------------------------
(***************************************************************************)
(* Small instances of QueryScheduler.                                      *)
(***************************************************************************)
EXTENDS QueryScheduler

CONSTANTS i1, c1  \* an idle loop, a client
=============================================================================
