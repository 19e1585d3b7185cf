----------------------------- MODULE AccountProfit -----------------------------
(***************************************************************************)
(* What recalculateAccountProfit makes of an account, between two answers  *)
(* of CTP to the account query.  Money is in integers here, floats in the  *)
(* code; no amount is NaN.                                                 *)
(***************************************************************************)
EXTENDS Integers

Algorithms == {"all", "lost", "gain", "none"}

Account == [profit : Int, float : Int, balance : Int, value : Int, available : Int]

\* The share of a profit that counts as available, by algorithmType; any other
\* type counts as "all".
Counting(alg, profit) ==
    CASE alg = "lost" -> IF profit < 0 THEN profit ELSE 0
      [] alg = "gain" -> IF profit > 0 THEN profit ELSE 0
      [] alg = "none" -> 0
      [] OTHER        -> profit

\* The totals are those of the positions flagged Changed.
Recalculated(acc, alg, total, float, option) ==
    LET balance == acc.balance + (total - acc.profit) IN
    [profit |-> total, float |-> float, balance |-> balance, value |-> balance + option,
     available |-> acc.available + (Counting(alg, total) - Counting(alg, acc.profit))]
=============================================================================
