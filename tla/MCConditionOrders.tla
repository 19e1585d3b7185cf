-------------------------- MODULE MCConditionOrders --------------------------
(***************************************************************************)
(* Small instances of ConditionOrders: the requests the clients of each    *)
(* run send.                                                               *)
(***************************************************************************)
EXTENDS ConditionOrders

CONSTANTS a, b,   \* two instruments; b is a combination
          o1, o2  \* two order ids

ProductOfAB == [i \in {a, b} |-> IF i = a THEN "pa" ELSE "pb"]
ProductOfA  == [i \in {a} |-> "pa"]

Base(type, inst) == [type |-> type, inst |-> inst, lo |-> 1, hi |-> 1,
                     rel |-> "GT", dir |-> "BUY", at |-> 1]

Above1(i)   == Base("price", i)
Below2(i)   == [Base("price", i) EXCEPT !.lo = 2, !.rel = "LT"]
AtMost1(i)  == [Base("price", i) EXCEPT !.rel = "LE"]
In1(i)      == Base("range", i)
Even1(i)    == Base("breakEven", i)
At1(i)      == Base("time", i)
Open(i)     == Base("marketOpen", i)

Req(conds, oper, tif) == [conds |-> conds, oper |-> oper, tif |-> tif,
                          gtd |-> 1, ordersOk |-> TRUE]

\* Conditions on two symbols, in both logics; one of them a break-even condition,
\* another the opening of a combination together with the clock.
MixedRequests == {Req(<<Even1(a), Below2(b)>>, "AND", "GFD"),
                  Req(<<AtMost1(b), Above1(a)>>, "OR", "GFD"),
                  Req(<<Open(b), At1(a)>>, "AND", "GFD")}

\* One order for each period of validity.
DayRequests   == {Req(<<Above1(a)>>, "OR", tif) : tif \in {"GFD", "GTD", "GTC"}}

\* The same, and an order that fires inside a range of prices.
DiskRequests  == DayRequests \cup {Req(<<In1(a)>>, "AND", "GFD")}

Report(p, st, ready) == [product |-> p, phase |-> st, isDataReady |-> ready]

NoReports    == {}
MixedReports == {Report("pa", "closed", TRUE), Report("pa", "continuous", FALSE),
                 Report("pb", "auction", TRUE)}
=============================================================================
