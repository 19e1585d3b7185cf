--------------------------- MODULE MCPositionTracking ---------------------------
(***************************************************************************)
(* Small instances of PositionTracking.                                    *)
(***************************************************************************)
EXTENDS PositionTracking

T(i, d, b, o) == [id |-> i, day |-> d, direction |-> b, offset |-> o, volume |-> 1]

\* One lot of yesterday's, long.  The first day's trades open a lot, close one of
\* today's, and close one of yesterday's by an offset that updateTrade does not know;
\* the second day's closes what is left.
OneLot  == [s \in Sides |-> IF s = "long" THEN 1 ELSE 0]
TwoDays == {T(1, 1, "buy", "open"), T(2, 1, "sell", "closetoday"), T(3, 1, "sell", "other"),
            T(4, 2, "sell", "close")}
=============================================================================
