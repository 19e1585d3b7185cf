--------------------------- MODULE PositionTracking ----------------------------
(***************************************************************************)
(* How the trades reach the position of an instrument: replayed when the   *)
(* first queries of a day are through, and then, as they are reported, by  *)
(* a goroutine each.  Every later query reports the trades of the day      *)
(* again.  Returns and the rows of an answer may overtake each other.      *)
(*                                                                         *)
(* A position that is not in the map reads as one of no lots: NewPosition  *)
(* is what the code puts there.                                            *)
(***************************************************************************)
EXTENDS PositionVolumes, FiniteSets, Functions

CONSTANTS
    Trades,      \* the trades of all days, with a day and an id besides IsTrade's fields
    Yesterday,   \* the lots at the start, by side
    MaxDay,      \* bound: trading days
    MaxQueries   \* bound: queries of the positions

ASSUME PositionTrackingAssumption ==
    /\ IsFiniteSet(Trades)
    /\ \A t \in Trades : IsTrade(t) /\ t.day \in Nat
    /\ Yesterday \in [Sides -> Nat]
    /\ MaxDay \in Nat \ {0} /\ MaxQueries \in Nat \ {0}

VARIABLES
    (* CTP.                                                                *)
    day,        \* the trading day
    yd,         \* yesterday's lots
    held,       \* the position, every trade applied once and as it happened
    happened,   \* the trades of the day
    onWay,      \* trades whose return is on its way
    (* The gateway.                                                        *)
    link,       \* is the front connected and logged in?
    query,      \* what was queried last
    rows,       \* rows still to come of the trades queried
    queries,    \* how often the positions were queried
    spi,        \* the SPI thread: in the callback of the last row, or idle
    left,       \* trades still to be replayed
    inited,     \* positionInited
    trades,     \* t.user.Trades
    ydRec,      \* VolumeLongYd and VolumeShortYd
    pos,        \* PosLongToday, PosLongHis, PosShortToday, PosShortHis
    adjusting,  \* goroutines in adjustPositionByTrade
    (* What the properties go by.                                          *)
    counted,    \* how often a trade was applied to pos as it now is
    reported,   \* how often a trade was reported
    basis,      \* was pos set to yesterday's lots since it was emptied?
    under       \* was a total below zero since then?

ctp    == <<day, yd, held, happened>>
answer == <<query, rows, queries>>
spiVars == <<spi, left, inited>>
ghosts == <<counted, reported, basis, under>>
vars   == <<ctp, onWay, link, answer, spiVars, trades, ydRec, pos, adjusting, ghosts>>

Nothing == [s \in Sides |-> 0]
Never   == [t \in Trades |-> 0]

TypeOK ==
    /\ day \in 1..MaxDay /\ yd \in [Sides -> Nat] /\ held \in Volumes
    /\ {happened, onWay, rows, left, trades} \subseteq SUBSET Trades
    /\ query \in {"none", "positions", "trades"} /\ queries \in 0..MaxQueries
    /\ ~link => query = "none" /\ onWay = {}
    /\ spi \in {"idle", "last", "init", "replay"}
    /\ query # "trades" => rows = {}
    /\ spi # "idle" => query = "trades" /\ rows = {}
    /\ left # {} => spi = "replay"
    /\ {link, inited, basis, under} \subseteq BOOLEAN
    /\ spi \in {"init", "replay"} => ~inited
    /\ ydRec \in [Sides -> Nat] /\ pos \in Volumes
    /\ adjusting \in [Trades -> Nat]
    /\ counted \in [Trades -> Nat] /\ reported \in [Trades -> Nat]

Init ==
    /\ day = 1 /\ yd = Yesterday /\ held = InitVolume(Yesterday)
    /\ happened = {} /\ onWay = {}
    /\ link = TRUE /\ query = "positions" /\ rows = {} /\ queries = 1
    /\ spi = "idle" /\ left = {} /\ inited = FALSE
    /\ trades = {} /\ ydRec = Nothing /\ pos = Empty
    /\ adjusting = Never /\ counted = Never /\ reported = Never
    /\ basis = FALSE /\ under = FALSE

-----------------------------------------------------------------------------
\* CTP lets nobody close more than is held.  The return sets out, or is lost.
Happens(t) ==
    /\ t.day = day /\ t \notin happened
    /\ happened' = happened \cup {t}
    /\ held' = Adjust(held, t) /\ ~Short(held')
    /\ onWay' = IF link THEN onWay \cup {t} ELSE onWay
    /\ UNCHANGED <<day, yd, link, answer, spiVars, trades, ydRec, pos, adjusting, ghosts>>

-----------------------------------------------------------------------------
(* The SPI thread, and the goroutines of updateTrade.                      *)

\* The replay as much as a goroutine applies a trade, as it was recorded, under userMu.
Apply(t) ==
    /\ pos' = Adjust(pos, Booked(t))
    /\ counted' = [counted EXCEPT ![t] = @ + 1]
    /\ under' = (under \/ Short(pos'))

\* Mutant: a trade that is recorded already does not adjust.
UpdateTrade_NewOnly(t) ==
    /\ trades' = trades \cup {t}
    /\ reported' = [reported EXCEPT ![t] = @ + 1]
    /\ adjusting' = [adjusting EXCEPT ![t] = IF inited /\ t \in trades THEN @ + 1 ELSE @]

\* updateTrade: a goroutine adjusts the position once positionInited.
UpdateTrade(t) ==
    /\ trades' = trades \cup {t}
    /\ reported' = [reported EXCEPT ![t] = @ + 1]
    /\ adjusting' = [adjusting EXCEPT ![t] = IF inited THEN @ + 1 ELSE @]

OnRtnTrade(t) ==
    /\ t \in onWay /\ spi = "idle"
    /\ onWay' = onWay \ {t}
    /\ UpdateTrade(t)
    /\ UNCHANGED <<ctp, link, answer, spiVars, ydRec, pos, counted, basis, under>>

\* adjustPositionByTrade waits for userMu, which the replay holds throughout.
AdjustPosition(t) ==
    /\ adjusting[t] > 0 /\ spi # "replay"
    /\ adjusting' = [adjusting EXCEPT ![t] = @ - 1]
    /\ Apply(t)
    /\ UNCHANGED <<ctp, onWay, link, answer, spiVars, trades, ydRec, reported, basis>>

\* The idle loop queries the positions once any report has asked for it, and
\* then again and again (see QueryScheduler).
ReqQryInvestorPosition ==
    /\ link /\ query = "none" /\ queries < MaxQueries
    /\ \E t \in Trades : reported[t] > 0
    /\ query' = "positions" /\ queries' = queries + 1
    /\ UNCHANGED <<ctp, onWay, link, rows, spiVars, trades, ydRec, pos, adjusting, ghosts>>

\* updatePosition for every row; with the last the chain goes on, by the orders,
\* to the trades.
OnRspQryInvestorPosition ==
    /\ query = "positions" /\ spi = "idle"
    /\ ydRec' = yd
    /\ query' = "trades" /\ rows' = happened
    /\ spi' = IF happened = {} THEN "last" ELSE "idle"
    /\ UNCHANGED <<ctp, onWay, link, queries, left, inited, trades, pos, adjusting, ghosts>>

OnRspQryTrade(t) ==
    /\ query = "trades" /\ spi = "idle" /\ t \in rows
    /\ rows' = rows \ {t}
    /\ spi' = IF rows' = {} THEN "last" ELSE "idle"
    /\ UpdateTrade(t)
    /\ UNCHANGED <<ctp, onWay, link, query, queries, left, inited, ydRec, pos, counted, basis,
                   under>>

\* Mutant: every query of the trades inits the position anew.
InitPositionVolume_Always ==
    /\ spi = "last"
    /\ spi' = "init"
    /\ pos' = InitVolume(ydRec)
    /\ counted' = Never /\ basis' = TRUE /\ under' = Short(pos')
    /\ UNCHANGED <<ctp, onWay, link, answer, left, inited, trades, ydRec, adjusting, reported>>

\* The rest of the last row's callback, when the position is not inited yet ...
InitPositionVolume ==
    /\ spi = "last" /\ ~inited
    /\ spi' = "init"
    /\ pos' = InitVolume(ydRec)
    /\ counted' = Never /\ basis' = TRUE /\ under' = Short(pos')
    /\ UNCHANGED <<ctp, onWay, link, answer, left, inited, trades, ydRec, adjusting, reported>>

\* ... which goes on to the replay ...
ReplayTradesBySeqno ==
    /\ spi = "init" /\ spi' = "replay"
    /\ left' = trades
    /\ UNCHANGED <<ctp, onWay, link, answer, inited, trades, ydRec, pos, adjusting, ghosts>>

\* ... in the order of a Go map, Seqno being zero in all of them ...
ReplayTrade(t) ==
    /\ spi = "replay" /\ t \in left
    /\ left' = left \ {t}
    /\ Apply(t)
    /\ UNCHANGED <<ctp, onWay, link, answer, spi, inited, trades, ydRec, adjusting, reported,
                   basis>>

\* ... and when it is.
QueryCompleted ==
    /\ \/ spi = "last" /\ inited
       \/ spi = "replay" /\ left = {}
    /\ spi' = "idle" /\ query' = "none" /\ inited' = TRUE
    /\ UNCHANGED <<ctp, onWay, link, rows, queries, left, trades, ydRec, pos, adjusting, ghosts>>

-----------------------------------------------------------------------------
(* The front.                                                              *)

OnFrontDisconnected ==
    /\ link /\ spi = "idle" /\ queries < MaxQueries
    /\ link' = FALSE /\ onWay' = {} /\ query' = "none" /\ rows' = {}
    /\ UNCHANGED <<ctp, queries, spiVars, trades, ydRec, pos, adjusting, ghosts>>

Emptied ==
    /\ trades' = {} /\ ydRec' = Nothing /\ pos' = Empty
    /\ counted' = Never /\ basis' = FALSE /\ under' = FALSE
    /\ link' = TRUE /\ query' = "positions" /\ queries' = queries + 1

\* initUserData empties the maps and leaves positionInited as it is.
OnRspUserLogin ==
    /\ ~link
    /\ Emptied
    /\ UNCHANGED <<ctp, onWay, rows, spiVars, adjusting, reported>>

\* clearOldDataForNewTradingDay resets it.  Goroutines of yesterday's trades are
\* not waited for.
OnRspUserLoginNewDay ==
    /\ ~link /\ day < MaxDay
    /\ day' = day + 1 /\ happened' = {}
    /\ yd' = [s \in Sides |-> Total(held[s])] /\ held' = InitVolume(yd')
    /\ Emptied
    /\ inited' = FALSE
    /\ UNCHANGED <<onWay, rows, spi, left, adjusting, reported>>

-----------------------------------------------------------------------------
Next ==
    \/ \E t \in Trades : \/ Happens(t) \/ OnRtnTrade(t) \/ AdjustPosition(t)
                         \/ OnRspQryTrade(t) \/ ReplayTrade(t)
    \/ ReqQryInvestorPosition \/ OnRspQryInvestorPosition
    \/ InitPositionVolume \/ ReplayTradesBySeqno \/ QueryCompleted
    \/ OnFrontDisconnected \/ OnRspUserLogin \/ OnRspUserLoginNewDay

Spec == Init /\ [][Next]_vars

-----------------------------------------------------------------------------
(*                               Properties                                *)

Once(b) == IF b THEN 1 ELSE 0

\* A position that was started from yesterday's lots is off CTP's by what was
\* counted more or less than once, and by the closes that updateTrade takes for
\* opened lots, whatever the order of the trades and the borrowing between today's
\* lots and yesterday's (adjustPositionByTradeInternal).
TotalsExact ==
    basis => \A s \in Sides :
        Total(pos[s]) - Total(held[s]) =
            SumFunction([t \in Trades |->
                counted[t] * Effect(Booked(t), s) - Once(t \in happened) * Effect(t, s)])

\* No part of a side falls below zero before a total does.
PartsSane == under \/ \A s \in Sides : pos[s].today >= 0 /\ pos[s].his >= 0

\* Once positionInited, a recorded trade has been applied or is about to be,
\* however the replay, the rows and the returns fall; and never more often than
\* it was reported.
EveryTradeCounted ==
    /\ inited => \A t \in trades : counted[t] + adjusting[t] > 0
    /\ \A t \in Trades : counted[t] + adjusting[t] + Once(t \in left) <= reported[t]

(* What does not hold, see the README.                                     *)

Quiet == inited /\ link /\ query = "none" /\ onWay = {} /\ adjusting = Never

\* Every trade is counted once.
CountedOnce == Quiet => \A t \in happened : counted[t] = 1

\* What was counted once leaves the totals as CTP has them: not so where updateTrade
\* takes a close for an opening.
TotalsMeet == Quiet /\ basis /\ CountedOnce => \A s \in Sides : Total(pos[s]) = Total(held[s])

\* "按 seqno 排序重放成交调整持仓": replayed in order, today's and yesterday's lots
\* are what they are had every trade been seen as it happened.
SplitExact == Quiet /\ basis /\ CountedOnce => pos = held

\* A position is inited over a reconnection.
BasisKept == Quiet => basis
=============================================================================
