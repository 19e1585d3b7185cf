---------------------------- MODULE MCOrderTracking ----------------------------
(***************************************************************************)
(* Small instances of OrderTracking.                                       *)
(***************************************************************************)
EXTENDS OrderTracking

CONSTANTS
    first,  \* an order of two lots of the first session
    other   \* an order of another terminal, with the same reference

Sessions == [o \in Orders |-> IF o = first THEN 1 ELSE 0]
TheRefs  == [o \in Orders |-> 1]
Volumes  == [o \in Orders |-> IF o = first THEN 2 ELSE 1]
=============================================================================
