--------------------------- MODULE ConditionLedger ---------------------------
(***************************************************************************)
(* What the condition order manager promises about the status of each      *)
(* order, without saying when one fires: a volatile copy, a durable copy,  *)
(* and the few ways in which an order's status may move.                   *)
(***************************************************************************)
EXTENDS FiniteSets

CONSTANTS OrderIDs, DiskMayFail

VARIABLES mem,  \* the status of every order in the manager
          dur   \* the status of every order in the file

vars == <<mem, dur>>

Status == {"None", "Live", "Suspend", "Cancel", "Discard", "Touched"}

Nothing == [id \in OrderIDs |-> "None"]

\* A request of a client moves one order along one of these edges.
Edges == {<<"None", "Live">>, <<"Live", "Suspend">>, <<"Suspend", "Live">>,
          <<"Live", "Cancel">>, <<"Suspend", "Cancel">>}

\* The durable copy follows, unless the disk fails.
Persist == dur' = mem' \/ (DiskMayFail /\ dur' = dur)

Serve(id, t) ==
    /\ <<mem[id], t>> \in Edges
    /\ mem' = [mem EXCEPT ![id] = t]
    /\ Persist

\* A check fires any number of live orders at once; only then is that saved.
Fire(ids) ==
    /\ \A id \in ids : mem[id] = "Live"
    /\ mem' = [id \in OrderIDs |-> IF id \in ids THEN "Touched" ELSE mem[id]]
    /\ dur' = dur

Save == mem' = mem /\ Persist

Crash == mem' = Nothing /\ dur' = dur

\* A new manager starts from the durable copy, or from nothing when it cannot
\* read it.
Restart == mem' = dur /\ dur' = dur

\* On a new trading day every order leaves the ledger.
NewDay == mem' = Nothing /\ Persist

Init == mem = Nothing /\ dur = Nothing

Next ==
    \/ \E id \in OrderIDs, t \in Status : Serve(id, t)
    \/ \E ids \in SUBSET OrderIDs : Fire(ids)
    \/ Save
    \/ Crash
    \/ Restart
    \/ NewDay

Spec == Init /\ [][Next]_vars
=============================================================================
