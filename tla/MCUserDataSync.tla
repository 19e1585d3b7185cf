---------------------------- MODULE MCUserDataSync ----------------------------
(***************************************************************************)
(* Small instances of UserDataSync.                                        *)
(***************************************************************************)
EXTENDS UserDataSync, TLC

CONSTANTS c1, c2,          \* two connections
          pos, acct, bank  \* one record of each kind that is treated apart

\* The clients behave alike.
Swap == Permutations(Clients)
=============================================================================
