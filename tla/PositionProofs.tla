----------------------------- MODULE PositionProofs -----------------------------
(***************************************************************************)
(* Proofs about PositionVolumes and PositionTracking, for every set of     *)
(* trades, every position of yesterday and every bound, and about the      *)
(* account's formulas in AccountProfit.                                    *)
(***************************************************************************)
EXTENDS PositionTracking, AccountProfit, FiniteSetTheorems, TLAPS

-----------------------------------------------------------------------------
(* What a trade does to a position.                                        *)

Sane(v) == \A s \in Sides : v[s].today >= 0 /\ v[s].his >= 0

(* Borrowing moves lots between the parts and adds none; with a total of   *)
(* at least zero both parts end there too.                                 *)
LEMMA BorrowedFacts ==
    ASSUME NEW p \in Parts
    PROVE  /\ Borrowed(p) \in Parts
           /\ Total(Borrowed(p)) = Total(p)
           /\ Total(p) >= 0 => Borrowed(p).today >= 0 /\ Borrowed(p).his >= 0
  BY DEF Borrowed, Total, Parts

(* A recorded trade is one, whatever offset CTP gave it.                   *)
LEMMA BookedType == ASSUME NEW t, IsTrade(t) PROVE IsTrade(Booked(t))
  BY DEF IsTrade, Booked, Offsets

(* A trade changes one side.                                               *)
LEMMA SideType == ASSUME NEW t PROVE Side(t) \in Sides
  BY DEF Side, Sides

LEMMA OpenedFacts ==
    ASSUME NEW v \in Volumes, NEW t, IsTrade(t)
    PROVE  /\ Opened(v, t) \in Volumes
           /\ \A s \in Sides : Total(Opened(v, t)[s]) = Total(v[s]) + (IF s = Side(t) THEN t.volume ELSE 0)
           /\ Sane(v) => Sane(Opened(v, t))
  BY SideType DEF Opened, Volumes, Parts, Total, Sane, IsTrade

LEMMA ClosedFacts ==
    ASSUME NEW v \in Volumes, NEW t, IsTrade(t)
    PROVE  /\ Closed(v, t) \in Volumes
           /\ \A s \in Sides : Total(Closed(v, t)[s]) = Total(v[s]) - (IF s = Side(t) THEN t.volume ELSE 0)
  BY SideType DEF Closed, Volumes, Parts, Total, IsTrade

(* adjustPositionByTradeInternal keeps the types, changes each total by    *)
(* the trade's effect, and leaves a part below zero only where it leaves a *)
(* total there.                                                            *)
LEMMA AdjustFacts ==
    ASSUME NEW v \in Volumes, NEW t, IsTrade(t)
    PROVE  /\ Adjust(v, t) \in Volumes
           /\ \A s \in Sides : Total(Adjust(v, t)[s]) = Total(v[s]) + Effect(t, s)
           /\ Sane(v) /\ ~Short(Adjust(v, t)) => Sane(Adjust(v, t))
  <1>0. t.volume \in Nat \ {0} /\ \A s \in Sides : Total(v[s]) \in Int
    BY DEF IsTrade, Total, Volumes, Parts
  <1>1. CASE t.offset = "open"
    BY <1>0, <1>1, OpenedFacts DEF Adjust, Effect
  <1>2. CASE t.offset # "open"
    <2> DEFINE w == Closed(v, t)
               b == [s \in Sides |-> Borrowed(w[s])]
    <2>1. w \in Volumes /\ \A s \in Sides : Total(w[s]) = Total(v[s]) + Effect(t, s)
      BY <1>0, <1>2, ClosedFacts DEF Effect
    <2>2. \A s \in Sides : w[s] \in Parts
      BY <2>1 DEF Volumes
    <2> HIDE DEF w
    <2>3. CASE Short(w)
      BY <1>2, <2>1, <2>3 DEF Adjust, w
    <2>4. CASE ~Short(w)
      <3>1. Adjust(v, t) = b
        BY <1>2, <2>4 DEF Adjust, w
      <3>2. b \in Volumes /\ \A s \in Sides : Total(b[s]) = Total(w[s])
        BY <2>2, BorrowedFacts DEF Volumes
      <3>3. \A s \in Sides : Total(w[s]) >= 0
        BY <2>2, <2>4 DEF Short, Total, Parts
      <3>4. Sane(b)
        BY <2>2, <3>3, BorrowedFacts DEF Sane
      <3>5. QED
        BY <2>1, <3>1, <3>2, <3>4
    <2>5. QED
      BY <2>3, <2>4
  <1>3. QED
    BY <1>1, <1>2

(* The totals do not depend on the order in which two trades are applied,  *)
(* nor, step by step, on that of any number of them: replayTradesBySeqno   *)
(* and the goroutines of updateTrade may run in any order as far as the    *)
(* totals go.  The split between today's lots and yesterday's does depend  *)
(* on it.                                                                  *)
THEOREM TotalsCommute ==
    ASSUME NEW v \in Volumes, NEW t, IsTrade(t), NEW u, IsTrade(u), NEW s \in Sides
    PROVE  Total(Adjust(Adjust(v, t), u)[s]) = Total(Adjust(Adjust(v, u), t)[s])
  <1>1. Adjust(v, t) \in Volumes /\ Adjust(v, u) \in Volumes
    BY AdjustFacts
  <1>2. /\ Total(Adjust(Adjust(v, t), u)[s]) = (Total(v[s]) + Effect(t, s)) + Effect(u, s)
        /\ Total(Adjust(Adjust(v, u), t)[s]) = (Total(v[s]) + Effect(u, s)) + Effect(t, s)
    BY <1>1, AdjustFacts
  <1>3. Total(v[s]) \in Int /\ Effect(t, s) \in Int /\ Effect(u, s) \in Int
    BY DEF IsTrade, Total, Volumes, Parts, Effect
  <1>4. QED
    BY <1>2, <1>3

-----------------------------------------------------------------------------
(* Type correctness.  A query needs room within the bound when the front   *)
(* comes back, and the lots of tomorrow's yesterday are those CTP holds,   *)
(* which it never lets fall below zero.                                    *)
Room    == ~link => queries < MaxQueries
TypeInv == TypeOK /\ Room /\ ~Short(held)

LEMMA InitVolumeType ==
    ASSUME NEW y \in [Sides -> Nat]
    PROVE  InitVolume(y) \in Volumes /\ ~Short(InitVolume(y)) /\ Sane(InitVolume(y))
  <1> DEFINE v == InitVolume(y)
  <1>1. v \in Volumes
    BY DEF InitVolume, Volumes, Parts
  <1>2. \A s \in Sides : v[s].today = 0 /\ v[s].his = y[s] /\ y[s] \in Nat
    BY DEF InitVolume
  <1> HIDE DEF v
  <1>3. ~Short(v) /\ Sane(v)
    BY <1>2 DEF Short, Total, Sane
  <1>4. QED
    BY <1>1, <1>3 DEF v

LEMMA EmptyType == Nothing \in [Sides -> Nat] /\ Empty \in Volumes /\ ~Short(Empty) /\ Sane(Empty)
  <1>1. Nothing \in [Sides -> Nat]
    BY DEF Nothing
  <1>2. Empty = InitVolume(Nothing)
    BY DEF Empty, Nothing
  <1>3. QED
    BY <1>1, <1>2, InitVolumeType

LEMMA InitType == Init => TypeInv
  <1> SUFFICES ASSUME Init PROVE TypeInv
    OBVIOUS
  <1> USE PositionTrackingAssumption
  <1>1. held \in Volumes /\ ~Short(held) /\ yd \in [Sides -> Nat]
    BY InitVolumeType DEF Init
  <1>2. ydRec \in [Sides -> Nat] /\ pos \in Volumes
    BY EmptyType DEF Init
  <1>3. Never \in [Trades -> Nat]
    BY DEF Never
  <1>4. {happened, onWay, rows, left, trades} \subseteq SUBSET Trades
    BY DEF Init
  <1>5. {link, inited, basis, under} \subseteq BOOLEAN
    BY DEF Init
  <1>6. QED
    BY <1>1, <1>2, <1>3, <1>4, <1>5 DEF Init, TypeInv, TypeOK, Room

(* A trade applied to the position, by the replay or by a goroutine.       *)
LEMMA ApplyType ==
    ASSUME TypeInv, NEW t \in Trades, Apply(t)
    PROVE  pos' \in Volumes /\ counted' \in [Trades -> Nat] /\ under' \in BOOLEAN
  <1>1. IsTrade(Booked(t))
    BY BookedType, PositionTrackingAssumption
  <1>2. pos' \in Volumes
    BY <1>1, AdjustFacts DEF Apply, TypeInv, TypeOK
  <1>3. counted' \in [Trades -> Nat]
    BY DEF Apply, TypeInv, TypeOK
  <1>4. under' \in BOOLEAN
    BY DEF Apply, TypeInv, TypeOK, Short
  <1>5. QED
    BY <1>2, <1>3, <1>4

LEMMA UpdateTradeType ==
    ASSUME TypeInv, NEW t \in Trades, UpdateTrade(t)
    PROVE  trades' \subseteq Trades /\ reported' \in [Trades -> Nat] /\ adjusting' \in [Trades -> Nat]
  BY DEF UpdateTrade, TypeInv, TypeOK

LEMMA EmptiedType ==
    ASSUME TypeInv, ~link, Emptied
    PROVE  /\ trades' = {} /\ ydRec' \in [Sides -> Nat] /\ pos' \in Volumes
           /\ counted' \in [Trades -> Nat] /\ basis' = FALSE /\ under' = FALSE
           /\ link' = TRUE /\ query' = "positions" /\ queries' \in 0..MaxQueries
           /\ spi = "idle" /\ left = {}
  <1>1. queries' \in 0..MaxQueries
    BY PositionTrackingAssumption DEF Emptied, TypeInv, TypeOK, Room
  <1>2. spi = "idle" /\ left = {}
    BY DEF TypeInv, TypeOK
  <1>3. ydRec' \in [Sides -> Nat] /\ pos' \in Volumes
    BY EmptyType DEF Emptied
  <1>4. counted' \in [Trades -> Nat]
    BY DEF Emptied, Never
  <1>5. QED
    BY <1>1, <1>2, <1>3, <1>4 DEF Emptied

LEMMA NextType == TypeInv /\ [Next]_vars => TypeInv'
  <1> SUFFICES ASSUME TypeInv, [Next]_vars PROVE TypeInv'
    OBVIOUS
  <1> USE PositionTrackingAssumption
  <1>1. ASSUME NEW t \in Trades, Happens(t) PROVE TypeInv'
    <2>1. held' \in Volumes /\ ~Short(held')
      BY <1>1, AdjustFacts DEF Happens, TypeInv, TypeOK
    <2>2. {happened', onWay'} \subseteq SUBSET Trades
      BY <1>1 DEF Happens, TypeInv, TypeOK
    <2>3. ~link => onWay' = {}
      BY <1>1 DEF Happens, TypeInv, TypeOK
    <2>4. QED
      BY <1>1, <2>1, <2>2, <2>3
      DEF Happens, TypeInv, TypeOK, Room, answer, spiVars, ghosts
  <1>2. ASSUME NEW t \in Trades, OnRtnTrade(t) PROVE TypeInv'
    <2>1. trades' \subseteq Trades /\ reported' \in [Trades -> Nat] /\ adjusting' \in [Trades -> Nat]
      BY <1>2, UpdateTradeType DEF OnRtnTrade
    <2>2. QED
      BY <1>2, <2>1 DEF OnRtnTrade, TypeInv, TypeOK, Room, ctp, answer, spiVars
  <1>3. ASSUME NEW t \in Trades, AdjustPosition(t) PROVE TypeInv'
    <2>1. pos' \in Volumes /\ counted' \in [Trades -> Nat] /\ under' \in BOOLEAN
      BY <1>3, ApplyType DEF AdjustPosition
    <2>2. adjusting' \in [Trades -> Nat]
      BY <1>3 DEF AdjustPosition, TypeInv, TypeOK
    <2>3. QED
      BY <1>3, <2>1, <2>2 DEF AdjustPosition, TypeInv, TypeOK, Room, ctp, answer, spiVars
  <1>4. ASSUME NEW t \in Trades, OnRspQryTrade(t) PROVE TypeInv'
    <2>1. trades' \subseteq Trades /\ reported' \in [Trades -> Nat] /\ adjusting' \in [Trades -> Nat]
      BY <1>4, UpdateTradeType DEF OnRspQryTrade
    <2>2. /\ rows' \subseteq Trades /\ spi' \in {"idle", "last"}
          /\ spi' # "idle" => rows' = {}
      BY <1>4 DEF OnRspQryTrade, TypeInv, TypeOK
    <2>3. QED
      BY <1>4, <2>1, <2>2 DEF OnRspQryTrade, TypeInv, TypeOK, Room, ctp
  <1>5. ASSUME NEW t \in Trades, ReplayTrade(t) PROVE TypeInv'
    <2>1. pos' \in Volumes /\ counted' \in [Trades -> Nat] /\ under' \in BOOLEAN
      BY <1>5, ApplyType DEF ReplayTrade
    <2>2. QED
      BY <1>5, <2>1 DEF ReplayTrade, TypeInv, TypeOK, Room, ctp, answer
  <1>6. CASE ReqQryInvestorPosition
    BY <1>6 DEF ReqQryInvestorPosition, TypeInv, TypeOK, Room, ctp, spiVars, ghosts
  <1>7. CASE OnRspQryInvestorPosition
    <2>1. link
      BY <1>7 DEF OnRspQryInvestorPosition, TypeInv, TypeOK
    <2>2. QED
      BY <1>7, <2>1 DEF OnRspQryInvestorPosition, TypeInv, TypeOK, Room, ctp, ghosts
  <1>8. CASE InitPositionVolume
    <2>1. pos' \in Volumes
      BY <1>8, InitVolumeType DEF InitPositionVolume, TypeInv, TypeOK
    <2>2. counted' \in [Trades -> Nat] /\ under' \in BOOLEAN
      BY <1>8 DEF InitPositionVolume, Never, Short
    <2>3. QED
      BY <1>8, <2>1, <2>2 DEF InitPositionVolume, TypeInv, TypeOK, Room, ctp, answer
  <1>9. CASE ReplayTradesBySeqno
    BY <1>9 DEF ReplayTradesBySeqno, TypeInv, TypeOK, Room, ctp, answer, ghosts
  <1>10. CASE QueryCompleted
    <2>1. left = {}
      BY <1>10 DEF QueryCompleted, TypeInv, TypeOK
    <2>2. QED
      BY <1>10, <2>1 DEF QueryCompleted, TypeInv, TypeOK, Room, ctp, ghosts
  <1>11. CASE OnFrontDisconnected
    BY <1>11 DEF OnFrontDisconnected, TypeInv, TypeOK, Room, ctp, spiVars, ghosts
  <1>12. CASE OnRspUserLogin
    BY <1>12, EmptiedType DEF OnRspUserLogin, TypeInv, TypeOK, Room, ctp, spiVars
  <1>13. CASE OnRspUserLoginNewDay
    <2>1. yd' \in [Sides -> Nat]
      BY <1>13 DEF OnRspUserLoginNewDay, TypeInv, TypeOK, Short, Total, Volumes, Parts
    <2>2. held' \in Volumes /\ ~Short(held')
      BY <1>13, <2>1, InitVolumeType DEF OnRspUserLoginNewDay
    <2>3. day' \in 1..MaxDay
      BY <1>13 DEF OnRspUserLoginNewDay, TypeInv, TypeOK
    <2>4. QED
      BY <1>13, <2>1, <2>2, <2>3, EmptiedType DEF OnRspUserLoginNewDay, TypeInv, TypeOK, Room
  <1>14. CASE UNCHANGED vars
    BY <1>14 DEF vars, TypeInv, TypeOK, Room, ctp, answer, spiVars, ghosts, Short
  <1>15. QED
    BY <1>1, <1>2, <1>3, <1>4, <1>5, <1>6, <1>7, <1>8, <1>9, <1>10, <1>11, <1>12, <1>13, <1>14 DEF Next

LEMMA TypeAlways == Spec => []TypeInv
  BY InitType, NextType, PTL DEF Spec

(* Every variable keeps its range, for every set of trades.                *)
THEOREM TypeCorrect == Spec => []TypeOK
  <1>1. TypeInv => TypeOK
    BY DEF TypeInv
  <1>2. QED
    BY <1>1, TypeAlways, PTL

-----------------------------------------------------------------------------
(* No part of a side falls below zero before a total does                  *)
(* (adjustPositionByTradeInternal borrows).                                *)

(* under is TRUE as soon as a total is below zero.                         *)
LEMMA NextSane == TypeInv /\ PartsSane /\ [Next]_vars => PartsSane'
  <1> SUFFICES ASSUME TypeInv, PartsSane, [Next]_vars PROVE PartsSane'
    OBVIOUS
  <1>1. ASSUME NEW t \in Trades, Apply(t) PROVE PartsSane'
    <2>1. IsTrade(Booked(t)) /\ pos \in Volumes
      BY BookedType, PositionTrackingAssumption DEF TypeInv, TypeOK
    <2>2. under' \/ Sane(pos')
      BY <1>1, <2>1, AdjustFacts DEF Apply, PartsSane, Sane
    <2>3. QED
      BY <2>2 DEF PartsSane, Sane
  <1>2. CASE UNCHANGED <<pos, under>>
    BY <1>2 DEF PartsSane
  <1>3. CASE Emptied
    BY <1>3, EmptyType DEF Emptied, PartsSane, Sane
  <1>4. CASE InitPositionVolume
    <2>1. Sane(pos')
      BY <1>4, InitVolumeType DEF InitPositionVolume, TypeInv, TypeOK
    <2>2. QED
      BY <2>1 DEF PartsSane, Sane
  <1>5. QED
    BY <1>1, <1>2, <1>3, <1>4
    DEF Next, Happens, OnRtnTrade, AdjustPosition, OnRspQryTrade, ReplayTrade, ReqQryInvestorPosition,
        OnRspQryInvestorPosition, ReplayTradesBySeqno, QueryCompleted, OnFrontDisconnected,
        OnRspUserLogin, OnRspUserLoginNewDay, vars, ghosts

THEOREM PartsCorrect == Spec => []PartsSane
  <1>1. Init => PartsSane
    BY EmptyType DEF Init, PartsSane, Sane
  <1>2. QED
    BY <1>1, NextSane, TypeAlways, PTL DEF Spec

-----------------------------------------------------------------------------
(* Once positionInited no recorded trade is left out, and none is counted  *)
(* more often than it was reported.  The day of a trade tells the          *)
(* goroutines of yesterday from those of today: before positionInited      *)
(* there are none of today's trades.                                       *)

Today == {t \in Trades : t.day = day}

OfToday    == happened \subseteq Today /\ onWay \subseteq Today /\ rows \subseteq Today /\ trades \subseteq Today
NoneFuture == \A t \in Trades : reported[t] > 0 => t.day <= day
Recorded   == \A t \in trades : reported[t] > 0
NotYet     == ~inited => \A t \in Today : adjusting[t] = 0 /\ (spi # "replay" => counted[t] = 0)
Replaying  == /\ left \subseteq trades
              /\ spi = "replay" => \A t \in trades : t \in left \/ counted[t] > 0

CountInv == OfToday /\ NoneFuture /\ Recorded /\ NotYet /\ Replaying /\ EveryTradeCounted

(* A report of a trade of today.                                           *)
LEMMA UpdateTradeCounts ==
    ASSUME TypeInv, CountInv, NEW t \in Today, UpdateTrade(t), spi # "replay",
           UNCHANGED <<day, inited, left, counted>>
    PROVE  /\ trades' \subseteq Today /\ NoneFuture' /\ Recorded' /\ EveryTradeCounted'
           /\ ~inited => \A u \in Today : adjusting'[u] = 0
  <1>1. t \in Trades /\ t.day = day
    BY DEF Today
  <1>2. /\ reported \in [Trades -> Nat] /\ adjusting \in [Trades -> Nat] /\ counted \in [Trades -> Nat]
        /\ trades \subseteq Trades /\ inited \in BOOLEAN /\ left = {}
    BY DEF TypeInv, TypeOK
  <1>3. day \in Int
    BY PositionTrackingAssumption DEF TypeInv, TypeOK
  <1>4. trades' \subseteq Today
    BY DEF UpdateTrade, CountInv, OfToday
  <1>5. NoneFuture'
    BY <1>1, <1>2, <1>3 DEF UpdateTrade, CountInv, NoneFuture
  <1>6. Recorded'
    BY <1>1, <1>2 DEF UpdateTrade, CountInv, Recorded
  <1>7. ~inited => \A u \in Today : adjusting'[u] = 0
    BY <1>1, <1>2 DEF UpdateTrade, CountInv, NotYet, Today
  <1>8. \A u \in Trades : counted[u] + adjusting'[u] <= reported'[u]
    BY <1>1, <1>2 DEF UpdateTrade, CountInv, EveryTradeCounted, Once
  <1>9. inited => \A u \in trades' : counted[u] + adjusting'[u] > 0
    BY <1>1, <1>2 DEF UpdateTrade, CountInv, EveryTradeCounted
  <1>10. \A u \in Trades : counted[u] + adjusting'[u] + 0 <= reported'[u]
    BY <1>2, <1>8 DEF UpdateTrade
  <1>11. EveryTradeCounted'
    BY <1>2, <1>9, <1>10 DEF EveryTradeCounted, Once
  <1>12. QED
    BY <1>4, <1>5, <1>6, <1>7, <1>11

(* Logins leave nothing of what was counted.                               *)
LEMMA EmptiedCounts ==
    ASSUME TypeInv, CountInv, ~link, Emptied, UNCHANGED <<adjusting, reported, left, spi>>
    PROVE  Recorded' /\ Replaying' /\ EveryTradeCounted' /\ \A t \in Trades : counted'[t] = 0
  <1>1. spi = "idle" /\ left = {} /\ trades' = {}
    BY EmptiedType
  <1>2. \A t \in Trades : counted'[t] = 0
    BY DEF Emptied, Never
  <1>3. \A t \in Trades : adjusting[t] <= reported[t]
    BY <1>1 DEF CountInv, EveryTradeCounted, Once, TypeInv, TypeOK
  <1>4. EveryTradeCounted'
    <2>1. \A t \in Trades : counted'[t] + adjusting'[t] + 0 <= reported'[t]
      BY <1>2, <1>3 DEF TypeInv, TypeOK
    <2>2. QED
      BY <1>1, <2>1 DEF EveryTradeCounted, Once
  <1>5. QED
    BY <1>1, <1>2, <1>4 DEF Recorded, Replaying

LEMMA NextCounts == TypeInv /\ CountInv /\ [Next]_vars => CountInv'
  <1> SUFFICES ASSUME TypeInv, CountInv, [Next]_vars PROVE CountInv'
    OBVIOUS
  <1> USE DEF Today
  <1>0. /\ counted \in [Trades -> Nat] /\ adjusting \in [Trades -> Nat] /\ reported \in [Trades -> Nat]
        /\ day \in Int /\ trades \subseteq Trades /\ left \subseteq Trades
        /\ inited \in BOOLEAN /\ \A t \in Trades : t.day \in Int
    BY PositionTrackingAssumption DEF TypeInv, TypeOK
  <1>1. ASSUME NEW t \in Trades, Happens(t) PROVE CountInv'
    <2>1. OfToday'
      BY <1>1 DEF Happens, CountInv, OfToday, answer
    <2>2. QED
      BY <1>1, <2>1 DEF Happens, CountInv, NoneFuture, Recorded, NotYet, Replaying, EveryTradeCounted,
         spiVars, ghosts
  <1>2. ASSUME NEW t \in Trades, OnRtnTrade(t) PROVE CountInv'
    <2>1. t \in Today /\ spi = "idle" /\ UNCHANGED <<day, inited, left, counted, spi, happened, rows>>
      BY <1>2 DEF OnRtnTrade, CountInv, OfToday, ctp, spiVars, answer
    <2>2. /\ trades' \subseteq Today /\ NoneFuture' /\ Recorded' /\ EveryTradeCounted'
          /\ ~inited => \A u \in Today : adjusting'[u] = 0
      BY <1>2, <2>1, UpdateTradeCounts DEF OnRtnTrade
    <2>3. OfToday'
      BY <1>2, <2>1, <2>2 DEF OnRtnTrade, CountInv, OfToday
    <2>4. NotYet'
      BY <2>1, <2>2 DEF CountInv, NotYet
    <2>5. Replaying'
      BY <2>1 DEF CountInv, Replaying, TypeInv, TypeOK
    <2>6. QED
      BY <2>2, <2>3, <2>4, <2>5 DEF CountInv
  <1>3. ASSUME NEW t \in Trades, AdjustPosition(t) PROVE CountInv'
    <2>1. /\ counted' = [counted EXCEPT ![t] = @ + 1] /\ adjusting' = [adjusting EXCEPT ![t] = @ - 1]
          /\ adjusting[t] > 0 /\ spi # "replay"
          /\ UNCHANGED <<day, happened, onWay, rows, spi, left, inited, trades, reported>>
      BY <1>3 DEF AdjustPosition, Apply, ctp, answer, spiVars
    <2>2. OfToday' /\ NoneFuture' /\ Recorded' /\ Replaying'
      BY <2>1 DEF CountInv, OfToday, NoneFuture, Recorded, Replaying
    <2>3. NotYet'
      BY <1>0, <2>1 DEF CountInv, NotYet
    <2>4. EveryTradeCounted'
      <3>1. \A u \in Trades : counted'[u] + adjusting'[u] = counted[u] + adjusting[u]
        BY <1>0, <2>1
      <3>2. \A u \in Trades : counted'[u] \in Int /\ adjusting'[u] \in Int
        BY <1>0, <2>1
      <3>3. inited' => \A u \in trades' : counted'[u] + adjusting'[u] > 0
        BY <1>0, <2>1, <3>1 DEF CountInv, EveryTradeCounted
      <3>4. \A u \in Trades : counted'[u] + adjusting'[u] + Once(u \in left') <= reported'[u]
        BY <1>0, <2>1, <3>1, <3>2 DEF CountInv, EveryTradeCounted, Once
      <3>5. QED
        BY <3>3, <3>4 DEF EveryTradeCounted
    <2>5. QED
      BY <2>2, <2>3, <2>4 DEF CountInv
  <1>4. ASSUME NEW t \in Trades, OnRspQryTrade(t) PROVE CountInv'
    <2>1. /\ t \in Today /\ spi = "idle" /\ spi' # "replay"
          /\ UNCHANGED <<day, inited, left, counted, happened, onWay>>
      BY <1>4 DEF OnRspQryTrade, CountInv, OfToday, ctp
    <2>2. /\ trades' \subseteq Today /\ NoneFuture' /\ Recorded' /\ EveryTradeCounted'
          /\ ~inited => \A u \in Today : adjusting'[u] = 0
      BY <1>4, <2>1, UpdateTradeCounts DEF OnRspQryTrade
    <2>3. OfToday'
      BY <1>4, <2>1, <2>2 DEF OnRspQryTrade, CountInv, OfToday
    <2>4. NotYet'
      BY <2>1, <2>2 DEF CountInv, NotYet
    <2>5. Replaying'
      BY <2>1 DEF CountInv, Replaying, TypeInv, TypeOK
    <2>6. QED
      BY <2>2, <2>3, <2>4, <2>5 DEF CountInv
  <1>5. ASSUME NEW t \in Trades, ReplayTrade(t) PROVE CountInv'
    <2>1. /\ counted' = [counted EXCEPT ![t] = @ + 1] /\ left' = left \ {t}
          /\ t \in left /\ spi = "replay"
          /\ UNCHANGED <<day, happened, onWay, rows, spi, inited, trades, reported, adjusting>>
      BY <1>5 DEF ReplayTrade, Apply, ctp, answer
    <2>2. ~inited
      BY <2>1 DEF TypeInv, TypeOK
    <2>3. OfToday' /\ NoneFuture' /\ Recorded' /\ NotYet'
      BY <2>1 DEF CountInv, OfToday, NoneFuture, Recorded, NotYet
    <2>4. Replaying'
      BY <1>0, <2>1 DEF CountInv, Replaying
    <2>5. EveryTradeCounted'
      <3>1. \A u \in Trades : counted'[u] + adjusting'[u] + Once(u \in left')
                                = counted[u] + adjusting[u] + Once(u \in left)
        BY <1>0, <2>1 DEF Once
      <3>2. QED
        BY <2>1, <2>2, <3>1 DEF CountInv, EveryTradeCounted
    <2>6. QED
      BY <2>3, <2>4, <2>5 DEF CountInv
  <1>6. CASE ReqQryInvestorPosition
    BY <1>6 DEF ReqQryInvestorPosition, CountInv, OfToday, NoneFuture, Recorded, NotYet, Replaying,
       EveryTradeCounted, ctp, spiVars, ghosts
  <1>7. CASE OnRspQryInvestorPosition
    <2>1. spi = "idle" /\ spi' # "replay" /\ rows' = happened
      BY <1>7 DEF OnRspQryInvestorPosition
    <2>2. UNCHANGED <<day, happened, onWay, left, inited, trades, adjusting, counted, reported>>
      BY <1>7 DEF OnRspQryInvestorPosition, ctp, ghosts
    <2>3. QED
      BY <2>1, <2>2 DEF CountInv, OfToday, NoneFuture, Recorded, NotYet, Replaying, EveryTradeCounted
  <1>8. CASE InitPositionVolume
    <2>1. /\ spi = "last" /\ ~inited /\ spi' = "init" /\ left = {}
          /\ UNCHANGED <<day, happened, onWay, rows, left, inited, trades, adjusting, reported>>
      BY <1>8 DEF InitPositionVolume, ctp, answer, TypeInv, TypeOK
    <2>2. \A u \in Trades : counted'[u] = 0
      BY <1>8 DEF InitPositionVolume, Never
    <2>3. OfToday' /\ NoneFuture' /\ Recorded' /\ Replaying'
      BY <2>1 DEF CountInv, OfToday, NoneFuture, Recorded, Replaying
    <2>4. NotYet'
      BY <2>1, <2>2 DEF CountInv, NotYet
    <2>5. \A u \in Trades : adjusting[u] <= reported[u]
      BY <1>0, <2>1 DEF CountInv, EveryTradeCounted, Once
    <2>6. \A u \in Trades : counted'[u] + adjusting'[u] + 0 <= reported'[u]
      BY <1>0, <2>1, <2>2, <2>5
    <2>7. EveryTradeCounted'
      BY <2>1, <2>6 DEF EveryTradeCounted, Once
    <2>8. QED
      BY <2>3, <2>4, <2>7 DEF CountInv
  <1>9. CASE ReplayTradesBySeqno
    <2>1. /\ spi = "init" /\ spi' = "replay" /\ left' = trades
          /\ UNCHANGED <<day, happened, onWay, rows, inited, trades, adjusting, counted, reported>>
      BY <1>9 DEF ReplayTradesBySeqno, ctp, answer, ghosts
    <2>2. ~inited
      BY <2>1 DEF TypeInv, TypeOK
    <2>3. OfToday' /\ NoneFuture' /\ Recorded' /\ NotYet' /\ Replaying'
      BY <2>1 DEF CountInv, OfToday, NoneFuture, Recorded, NotYet, Replaying
    <2>4. \A u \in trades : u \in Today /\ counted[u] = 0 /\ adjusting[u] = 0 /\ reported[u] > 0
      BY <1>0, <2>1, <2>2 DEF CountInv, OfToday, NotYet, Recorded
    <2>5. \A u \in Trades : counted[u] + adjusting[u] <= reported[u]
      BY <1>0 DEF CountInv, EveryTradeCounted, Once
    <2>6. \A u \in Trades : counted[u] + adjusting[u] + Once(u \in trades) <= reported[u]
      BY <1>0, <2>4, <2>5 DEF Once
    <2>7. EveryTradeCounted'
      BY <2>1, <2>2, <2>6 DEF EveryTradeCounted
    <2>8. QED
      BY <2>3, <2>7 DEF CountInv
  <1>10. CASE QueryCompleted
    <2>1. /\ spi' = "idle" /\ inited' = TRUE
          /\ UNCHANGED <<day, happened, onWay, rows, left, trades, adjusting, counted, reported>>
      BY <1>10 DEF QueryCompleted, ctp, ghosts
    <2>2. \A u \in trades : counted[u] + adjusting[u] > 0
      <3>1. CASE inited
        BY <3>1 DEF CountInv, EveryTradeCounted
      <3>2. CASE ~inited
        BY <1>0, <1>10, <3>2 DEF QueryCompleted, CountInv, Replaying
      <3>3. QED
        BY <3>1, <3>2
    <2>3. EveryTradeCounted'
      BY <2>1, <2>2 DEF CountInv, EveryTradeCounted
    <2>4. QED
      BY <2>1, <2>3 DEF CountInv, OfToday, NoneFuture, Recorded, NotYet, Replaying
  <1>11. CASE OnFrontDisconnected
    <2>1. /\ onWay' = {} /\ rows' = {}
          /\ UNCHANGED <<day, happened, spi, inited, left, trades, adjusting, counted, reported>>
      BY <1>11 DEF OnFrontDisconnected, ctp, spiVars, ghosts
    <2>2. QED
      BY <2>1 DEF CountInv, OfToday, NoneFuture, Recorded, NotYet, Replaying, EveryTradeCounted
  <1>12. CASE OnRspUserLogin
    <2>1. /\ ~link /\ Emptied
          /\ UNCHANGED <<day, happened, onWay, rows, spi, left, inited, adjusting, reported>>
      BY <1>12 DEF OnRspUserLogin, ctp, spiVars
    <2>2. Recorded' /\ Replaying' /\ EveryTradeCounted' /\ \A t \in Trades : counted'[t] = 0
      BY <2>1, EmptiedCounts
    <2>3. OfToday' /\ NoneFuture' /\ NotYet'
      BY <2>1, <2>2, EmptiedType DEF CountInv, OfToday, NoneFuture, NotYet
    <2>4. QED
      BY <2>2, <2>3 DEF CountInv
  <1>13. CASE OnRspUserLoginNewDay
    <2>1. /\ ~link /\ Emptied /\ day' = day + 1 /\ happened' = {} /\ inited' = FALSE
          /\ UNCHANGED <<onWay, rows, spi, left, adjusting, reported>>
      BY <1>13 DEF OnRspUserLoginNewDay
    <2>2. Recorded' /\ Replaying' /\ EveryTradeCounted' /\ \A t \in Trades : counted'[t] = 0
      BY <2>1, EmptiedCounts
    <2>3. onWay = {} /\ rows = {} /\ trades' = {}
      BY <2>1, EmptiedType DEF TypeInv, TypeOK, Room
    <2>4. \A t \in Trades : reported[t] > 0 => t.day <= day
      BY DEF CountInv, NoneFuture
    <2>5. \A t \in Trades : t.day = day + 1 => adjusting[t] = 0
      BY <1>0, <2>4 DEF CountInv, EveryTradeCounted, Once
    <2>6. OfToday' /\ NoneFuture' /\ NotYet'
      BY <1>0, <2>1, <2>2, <2>3, <2>4, <2>5 DEF OfToday, NoneFuture, NotYet
    <2>7. QED
      BY <2>2, <2>6 DEF CountInv
  <1>14. CASE UNCHANGED vars
    BY <1>14 DEF vars, CountInv, OfToday, NoneFuture, Recorded, NotYet, Replaying, EveryTradeCounted,
       ctp, answer, spiVars, ghosts
  <1>15. QED
    BY <1>1, <1>2, <1>3, <1>4, <1>5, <1>6, <1>7, <1>8, <1>9, <1>10, <1>11, <1>12, <1>13, <1>14 DEF Next

LEMMA InitCounts == Init => CountInv
  <1> SUFFICES ASSUME Init PROVE CountInv
    OBVIOUS
  <1>1. \A t \in Trades : counted[t] = 0 /\ adjusting[t] = 0 /\ reported[t] = 0
    BY DEF Init, Never
  <1>2. happened = {} /\ onWay = {} /\ rows = {} /\ trades = {} /\ left = {} /\ ~inited /\ spi = "idle"
    BY DEF Init
  <1>3. EveryTradeCounted
    BY <1>1, <1>2 DEF EveryTradeCounted, Once
  <1>4. QED
    BY <1>1, <1>2, <1>3 DEF CountInv, OfToday, NoneFuture, Recorded, NotYet, Replaying, Today

THEOREM CountedCorrect == Spec => []EveryTradeCounted
  <1>1. CountInv => EveryTradeCounted
    BY DEF CountInv
  <1>2. QED
    BY <1>1, InitCounts, NextCounts, TypeAlways, PTL DEF Spec

-----------------------------------------------------------------------------
(* Sums over finite sets.  The library's sum is a recursive function on    *)
(* the subsets of a set.  That it exists and what it adds up to is shown   *)
(* without induction: were there a counterexample there would be a         *)
(* smallest one.                                                           *)

One(u) == CHOOSE x \in u : TRUE

\* g is the sum of f over u, if it is that of the rest of u over that rest.
SumsAt(f, g, u) == g[u] = IF u = {} THEN 0 ELSE f[One(u)] + g[u \ {One(u)}]

LEMMA OneIn == ASSUME NEW u, u # {} PROVE One(u) \in u
  BY DEF One

(* Any set of numbers has a least one, and among subsets of a finite set   *)
(* one is minimal.                                                         *)
LEMMA NatMinimum ==
    ASSUME NEW N \in SUBSET Nat, N # {}
    PROVE  \E n \in N : \A m \in N : ~(m < n)
  <1>1. \E n \in N : \A m \in N : ~(<<m, n>> \in OpToRel(<, Nat))
    BY NatLessThanWellFounded, WFMin
  <1>2. QED
    BY <1>1 DEF OpToRel

LEMMA SetMinimum ==
    ASSUME NEW S, IsFiniteSet(S), NEW U \in SUBSET (SUBSET S), U # {}
    PROVE  \E u \in U : \A x \in u : u \ {x} \notin U
  <1>1. FiniteSubsetsOf(S) = SUBSET S
    BY FS_Subset DEF FiniteSubsetsOf
  <1>2. IsWellFoundedOn(StrictSubsetOrdering(S), SUBSET S)
    BY <1>1, FS_StrictSubsetOrderingWellFounded
  <1>3. PICK u \in U : \A v \in U : ~(<<v, u>> \in StrictSubsetOrdering(S))
    BY <1>2, WFMin
  <1>4. ASSUME NEW x \in u PROVE u \ {x} \notin U
    BY <1>3, <1>4 DEF StrictSubsetOrdering
  <1>5. QED
    BY <1>3, <1>4

(* The equation has a solution on all subsets up to any size ...           *)
LEMMA SumsUpTo ==
    ASSUME NEW f, NEW S, IsFiniteSet(S), NEW n \in Nat
    PROVE  \E g : \A u \in SUBSET S : Cardinality(u) <= n => SumsAt(f, g, u)
  <1> DEFINE Has(m) == \E g : \A u \in SUBSET S : Cardinality(u) <= m => SumsAt(f, g, u)
             Bad    == {m \in Nat : ~Has(m)}
  <1> SUFFICES ASSUME Bad # {} PROVE FALSE
    OBVIOUS
  <1>1. PICK m \in Bad : \A k \in Bad : ~(k < m)
    BY NatMinimum
  <1>2. m \in Nat /\ ~Has(m)
    OBVIOUS
  <1>3. \A u \in SUBSET S : IsFiniteSet(u) /\ Cardinality(u) \in Nat
    BY FS_Subset, FS_CardinalityType
  <1>4. m # 0
    <2> DEFINE zero == [u \in SUBSET S |-> 0]
    <2>1. \A u \in SUBSET S : Cardinality(u) <= 0 => u = {}
      BY <1>3, FS_EmptySet
    <2>2. \A u \in SUBSET S : Cardinality(u) <= 0 => SumsAt(f, zero, u)
      BY <2>1 DEF SumsAt
    <2> HIDE DEF zero
    <2>3. Has(0)
      BY <2>2
    <2>4. QED
      BY <1>2, <2>3
  <1>5. m - 1 \in Nat /\ m - 1 < m
    BY <1>2, <1>4
  <1>6. Has(m - 1)
    BY <1>1, <1>5
  <1>7. PICK g : \A u \in SUBSET S : Cardinality(u) <= m - 1 => SumsAt(f, g, u)
    BY <1>6
  <1> DEFINE next == [u \in SUBSET S |-> IF u = {} THEN 0
                                         ELSE f[One(u)] + g[u \ {One(u)}]]
  <1>8. ASSUME NEW u \in SUBSET S, Cardinality(u) <= m
        PROVE  SumsAt(f, next, u)
    <2>1. CASE u = {}
      BY <2>1 DEF SumsAt
    <2>2. CASE u # {}
      <3>1. One(u) \in u
        BY <2>2, OneIn
      <3>2. Cardinality(u \ {One(u)}) = Cardinality(u) - 1
        BY <1>3, <3>1, FS_RemoveElement
      <3>3. u \ {One(u)} \in SUBSET S /\ Cardinality(u \ {One(u)}) <= m - 1
        BY <1>2, <1>3, <1>8, <3>2
      <3>4. SumsAt(f, g, u \ {One(u)})
        BY <1>7, <3>3
      <3>5. g[u \ {One(u)}] = next[u \ {One(u)}]
        BY <3>3, <3>4 DEF SumsAt
      <3>6. QED
        BY <2>2, <3>5 DEF SumsAt
    <2>3. QED
      BY <2>1, <2>2
  <1> HIDE DEF next
  <1>9. Has(m)
    BY <1>8
  <1>10. QED
    BY <1>2, <1>9

(* ... and so the library's sum solves it on all subsets.                  *)
LEMMA SumSolves ==
    ASSUME NEW f, NEW S, IsFiniteSet(S)
    PROVE  \E g : /\ g[S] = SumFunctionOnSet(f, S)
                  /\ \A u \in SUBSET S : SumsAt(f, g, u)
  <1> DEFINE Eq(g) == g = [u \in SUBSET S |->
                             IF u = {} THEN 0
                             ELSE f[CHOOSE x \in u : TRUE] + g[u \ {CHOOSE x \in u : TRUE}]]
  <1>1. SumFunctionOnSet(f, S) = (CHOOSE g : Eq(g))[S]
    BY DEF SumFunctionOnSet, FoldFunctionOnSet, MapThenFoldSet
  <1>2. Cardinality(S) \in Nat
    BY FS_CardinalityType
  <1>3. PICK h : \A u \in SUBSET S : Cardinality(u) <= Cardinality(S) => SumsAt(f, h, u)
    BY <1>2, SumsUpTo
  <1>4. \A u \in SUBSET S : SumsAt(f, h, u)
    <2>1. \A u \in SUBSET S : Cardinality(u) <= Cardinality(S)
      BY FS_Subset
    <2>2. QED
      BY <1>3, <2>1
  <1> DEFINE g == [u \in SUBSET S |-> h[u]]
  <1>5. \A u \in SUBSET S : g[u] = h[u] /\ (u # {} => u \ {One(u)} \in SUBSET S)
    OBVIOUS
  <1>6. \A u \in SUBSET S : g[u] = IF u = {} THEN 0
                                   ELSE f[One(u)] + g[u \ {One(u)}]
    BY <1>4, <1>5 DEF SumsAt
  <1>7. Eq(g)
    BY <1>6 DEF One
  <1>8. Eq(CHOOSE x : Eq(x))
    <2> HIDE DEF Eq, g
    <2>1. QED
      BY <1>7
  <1> DEFINE c == CHOOSE x : Eq(x)
  <1>9. \A u \in SUBSET S : SumsAt(f, c, u)
    <2>1. Eq(c)
      BY <1>8
    <2> HIDE DEF c
    <2>2. QED
      BY <2>1 DEF SumsAt, One
  <1>10. c[S] = SumFunctionOnSet(f, S)
    BY <1>1
  <1> HIDE DEF c
  <1>11. QED
    BY <1>9, <1>10

(* A sum of integers is one.                                               *)
LEMMA SumType ==
    ASSUME NEW S, IsFiniteSet(S), NEW f \in [S -> Int]
    PROVE  SumFunction(f) \in Int
  <1>1. SumFunction(f) = SumFunctionOnSet(f, S)
    BY DEF SumFunction
  <1>2. PICK g : g[S] = SumFunctionOnSet(f, S) /\ \A u \in SUBSET S : SumsAt(f, g, u)
    BY SumSolves
  <1> DEFINE Bad == {u \in SUBSET S : g[u] \notin Int}
  <1>3. Bad = {}
    <2> SUFFICES ASSUME Bad # {} PROVE FALSE
      OBVIOUS
    <2>1. PICK u \in Bad : \A x \in u : u \ {x} \notin Bad
      BY SetMinimum
    <2>2. SumsAt(f, g, u) /\ u \in SUBSET S /\ g[u] \notin Int
      BY <1>2
    <2>3. u # {} /\ One(u) \in u
      BY <2>2, OneIn DEF SumsAt
    <2>4. g[u \ {One(u)}] \in Int
      BY <2>1, <2>2, <2>3
    <2>5. f[One(u)] \in Int
      BY <2>2, <2>3
    <2>6. QED
      BY <2>2, <2>3, <2>4, <2>5 DEF SumsAt
  <1>4. QED
    BY <1>1, <1>2, <1>3

(* The sum of negated terms is the sum negated.                            *)
LEMMA SumNegated ==
    ASSUME NEW S, IsFiniteSet(S), NEW f1 \in [S -> Int], NEW f2 \in [S -> Int],
           \A x \in S : f2[x] = -f1[x]
    PROVE  SumFunction(f2) = -SumFunction(f1)
  <1>1. SumFunction(f1) = SumFunctionOnSet(f1, S) /\ SumFunction(f2) = SumFunctionOnSet(f2, S)
    BY DEF SumFunction
  <1>2. PICK g1 : g1[S] = SumFunctionOnSet(f1, S) /\ \A u \in SUBSET S : SumsAt(f1, g1, u)
    BY SumSolves
  <1>3. PICK g2 : g2[S] = SumFunctionOnSet(f2, S) /\ \A u \in SUBSET S : SumsAt(f2, g2, u)
    BY SumSolves
  <1> DEFINE Bad == {u \in SUBSET S : ~(g1[u] \in Int /\ g2[u] = -g1[u])}
  <1>4. Bad = {}
    <2> SUFFICES ASSUME Bad # {} PROVE FALSE
      OBVIOUS
    <2>1. PICK u \in Bad : \A x \in u : u \ {x} \notin Bad
      BY SetMinimum
    <2>2. SumsAt(f1, g1, u) /\ SumsAt(f2, g2, u) /\ u \in SUBSET S
          /\ ~(g1[u] \in Int /\ g2[u] = -g1[u])
      BY <1>2, <1>3
    <2>3. u # {} /\ One(u) \in u
      BY <2>2, OneIn DEF SumsAt
    <2>4. g1[u \ {One(u)}] \in Int /\ g2[u \ {One(u)}] = -g1[u \ {One(u)}]
      BY <2>1, <2>2, <2>3
    <2>5. f1[One(u)] \in Int /\ f2[One(u)] = -f1[One(u)]
      BY <2>2, <2>3
    <2>6. QED
      BY <2>2, <2>3, <2>4, <2>5 DEF SumsAt
  <1>5. QED
    BY <1>1, <1>2, <1>3, <1>4

(* A term that grows by d makes the sum grow by d.                         *)
LEMMA SumChanged ==
    ASSUME NEW S, IsFiniteSet(S), NEW f1 \in [S -> Int], NEW f2 \in [S -> Int],
           NEW y \in S, NEW d \in Int, f2[y] = f1[y] + d,
           \A x \in S : x # y => f2[x] = f1[x]
    PROVE  SumFunction(f2) = SumFunction(f1) + d
  <1>1. SumFunction(f1) = SumFunctionOnSet(f1, S) /\ SumFunction(f2) = SumFunctionOnSet(f2, S)
    BY DEF SumFunction
  <1>2. PICK g1 : g1[S] = SumFunctionOnSet(f1, S) /\ \A u \in SUBSET S : SumsAt(f1, g1, u)
    BY SumSolves
  <1>3. PICK g2 : g2[S] = SumFunctionOnSet(f2, S) /\ \A u \in SUBSET S : SumsAt(f2, g2, u)
    BY SumSolves
  <1> DEFINE Good(u) == g1[u] \in Int /\ g2[u] = IF y \in u THEN g1[u] + d ELSE g1[u]
             Bad == {u \in SUBSET S : ~Good(u)}
  <1>4. Bad = {}
    <2> SUFFICES ASSUME Bad # {} PROVE FALSE
      OBVIOUS
    <2>1. PICK u \in Bad : \A x \in u : u \ {x} \notin Bad
      BY SetMinimum
    <2>2. SumsAt(f1, g1, u) /\ SumsAt(f2, g2, u) /\ u \in SUBSET S /\ ~Good(u)
      BY <1>2, <1>3
    <2>3. u # {} /\ One(u) \in u
      BY <2>2, OneIn DEF SumsAt
    <2>4. Good(u \ {One(u)})
      BY <2>1, <2>2, <2>3
    <2>5. f1[One(u)] \in Int /\ f2[One(u)] = IF One(u) = y THEN f1[One(u)] + d ELSE f1[One(u)]
      BY <2>2, <2>3
    <2>6. y \in u <=> y = One(u) \/ y \in u \ {One(u)}
      BY <2>3
    <2>7. QED
      BY <2>2, <2>3, <2>4, <2>5, <2>6 DEF SumsAt
  <1>5. QED
    BY <1>1, <1>2, <1>3, <1>4

-----------------------------------------------------------------------------
(* A position that was started from yesterday's lots is off CTP's by what  *)
(* was counted more or less than once, and by closes recorded as openings. *)

(* The lots n[t] occurrences of each trade add to side s at CTP.           *)
Weighted(n, s) == SumFunction([t \in Trades |-> n[t] * Effect(t, s)])

(* The lots the gateway is ahead of CTP on side s, when each trade was     *)
(* counted n[t] times and happened b[t] times.                             *)
Gap(n, b, s) ==
    SumFunction([t \in Trades |-> n[t] * Effect(Booked(t), s) - b[t] * Effect(t, s)])

LEMMA EffectType ==
    ASSUME NEW t \in Trades, NEW s \in Sides
    PROVE  Effect(t, s) \in Int /\ Effect(Booked(t), s) \in Int
  BY BookedType, PositionTrackingAssumption DEF Effect, IsTrade

LEMMA TermsType ==
    ASSUME NEW n \in [Trades -> Int], NEW s \in Sides
    PROVE  [t \in Trades |-> n[t] * Effect(t, s)] \in [Trades -> Int]
  BY EffectType

LEMMA WeightedType ==
    ASSUME NEW n \in [Trades -> Int], NEW s \in Sides
    PROVE  Weighted(n, s) \in Int
  <1> DEFINE f == [t \in Trades |-> n[t] * Effect(t, s)]
  <1>1. f \in [Trades -> Int] /\ IsFiniteSet(Trades)
    BY TermsType, PositionTrackingAssumption
  <1> HIDE DEF f
  <1>2. SumFunction(f) \in Int
    BY <1>1, SumType
  <1>3. QED
    BY <1>2 DEF Weighted, f

(* One application more of one trade adds its effect.                      *)
LEMMA WeightedMore ==
    ASSUME NEW n \in [Trades -> Int], NEW m \in [Trades -> Int], NEW s \in Sides,
           NEW t \in Trades, m[t] = n[t] + 1, \A u \in Trades : u # t => m[u] = n[u]
    PROVE  Weighted(m, s) = Weighted(n, s) + Effect(t, s)
  <1> DEFINE f == [u \in Trades |-> n[u] * Effect(u, s)]
             g == [u \in Trades |-> m[u] * Effect(u, s)]
  <1>1. f \in [Trades -> Int] /\ g \in [Trades -> Int] /\ IsFiniteSet(Trades)
        /\ Effect(t, s) \in Int
    BY TermsType, EffectType, PositionTrackingAssumption
  <1>2. g[t] = f[t] + Effect(t, s)
    <2>1. \A a, e \in Int : (a + 1) * e = a * e + e
      OBVIOUS
    <2>2. n[t] \in Int /\ Effect(t, s) \in Int
      BY <1>1
    <2>3. (n[t] + 1) * Effect(t, s) = n[t] * Effect(t, s) + Effect(t, s)
      BY <2>1, <2>2
    <2>4. g[t] = (n[t] + 1) * Effect(t, s) /\ f[t] = n[t] * Effect(t, s)
      OBVIOUS
    <2>5. QED
      BY <2>3, <2>4
  <1>3. \A u \in Trades : t # u => g[u] = f[u]
    OBVIOUS
  <1> HIDE DEF f, g
  <1>4. SumFunction(g) = SumFunction(f) + Effect(t, s)
    BY <1>1, <1>2, <1>3, SumChanged
  <1>5. QED
    BY <1>4 DEF Weighted, f, g

LEMMA WeightedNegated ==
    ASSUME NEW n \in [Trades -> Int], NEW m \in [Trades -> Int], NEW s \in Sides,
           \A t \in Trades : m[t] = -n[t]
    PROVE  Weighted(m, s) = -Weighted(n, s)
  <1> DEFINE f == [u \in Trades |-> n[u] * Effect(u, s)]
             g == [u \in Trades |-> m[u] * Effect(u, s)]
  <1>1. f \in [Trades -> Int] /\ g \in [Trades -> Int] /\ IsFiniteSet(Trades)
    BY TermsType, PositionTrackingAssumption
  <1>2. ASSUME NEW u \in Trades PROVE g[u] = -f[u]
    <2>1. \A a, e \in Int : (-a) * e = -(a * e)
      OBVIOUS
    <2>2. n[u] \in Int /\ Effect(u, s) \in Int
      BY EffectType
    <2>3. QED
      BY <2>1, <2>2
  <1> HIDE DEF f, g
  <1>3. SumFunction(g) = -SumFunction(f)
    BY <1>1, <1>2, SumNegated
  <1>4. QED
    BY <1>3 DEF Weighted, f, g

(* Nothing applied, nothing added: such a sum is its own negation.         *)
LEMMA WeightedNone ==
    ASSUME NEW n \in [Trades -> Int], NEW s \in Sides, \A t \in Trades : n[t] = 0
    PROVE  Weighted(n, s) = 0
  <1>1. Weighted(n, s) = -Weighted(n, s)
    BY WeightedNegated
  <1>2. QED
    BY <1>1, WeightedType

LEMMA GapTerms ==
    ASSUME NEW n \in [Trades -> Int], NEW b \in [Trades -> Int], NEW s \in Sides
    PROVE  [t \in Trades |-> n[t] * Effect(Booked(t), s) - b[t] * Effect(t, s)] \in [Trades -> Int]
  BY EffectType

LEMMA GapType ==
    ASSUME NEW n \in [Trades -> Int], NEW b \in [Trades -> Int], NEW s \in Sides
    PROVE  Gap(n, b, s) \in Int
  <1> DEFINE f == [t \in Trades |-> n[t] * Effect(Booked(t), s) - b[t] * Effect(t, s)]
  <1>1. f \in [Trades -> Int] /\ IsFiniteSet(Trades)
    BY GapTerms, PositionTrackingAssumption
  <1> HIDE DEF f
  <1>2. SumFunction(f) \in Int
    BY <1>1, SumType
  <1>3. QED
    BY <1>2 DEF Gap, f

(* A trade counted once more adds what was recorded of it.                 *)
LEMMA GapCounted ==
    ASSUME NEW n \in [Trades -> Int], NEW m \in [Trades -> Int], NEW b \in [Trades -> Int],
           NEW s \in Sides, NEW t \in Trades,
           m[t] = n[t] + 1, \A u \in Trades : u # t => m[u] = n[u]
    PROVE  Gap(m, b, s) = Gap(n, b, s) + Effect(Booked(t), s)
  <1> DEFINE f == [u \in Trades |-> n[u] * Effect(Booked(u), s) - b[u] * Effect(u, s)]
             g == [u \in Trades |-> m[u] * Effect(Booked(u), s) - b[u] * Effect(u, s)]
             e == Effect(Booked(t), s)
             h == b[t] * Effect(t, s)
  <1>1. f \in [Trades -> Int] /\ g \in [Trades -> Int] /\ IsFiniteSet(Trades) /\ e \in Int /\ h \in Int
    BY GapTerms, EffectType, PositionTrackingAssumption
  <1>2. g[t] = f[t] + e
    <2>1. \A x, y, z \in Int : (x + 1) * y - z = (x * y - z) + y
      OBVIOUS
    <2>2. n[t] \in Int
      OBVIOUS
    <2>3. g[t] = (n[t] + 1) * e - h /\ f[t] = n[t] * e - h
      OBVIOUS
    <2> HIDE DEF f, g, e, h
    <2>4. QED
      BY <1>1, <2>1, <2>2, <2>3
  <1>3. \A u \in Trades : u # t => g[u] = f[u]
    OBVIOUS
  <1> HIDE DEF f, g, e
  <1>4. SumFunction(g) = SumFunction(f) + e
    BY <1>1, <1>2, <1>3, SumChanged
  <1>5. QED
    BY <1>4 DEF Gap, f, g, e

(* A trade that happens takes away its effect at CTP.                      *)
LEMMA GapHappened ==
    ASSUME NEW n \in [Trades -> Int], NEW b \in [Trades -> Int], NEW c \in [Trades -> Int],
           NEW s \in Sides, NEW t \in Trades,
           c[t] = b[t] + 1, \A u \in Trades : u # t => c[u] = b[u]
    PROVE  Gap(n, c, s) = Gap(n, b, s) - Effect(t, s)
  <1> DEFINE f == [u \in Trades |-> n[u] * Effect(Booked(u), s) - b[u] * Effect(u, s)]
             g == [u \in Trades |-> n[u] * Effect(Booked(u), s) - c[u] * Effect(u, s)]
             e == Effect(t, s)
             h == n[t] * Effect(Booked(t), s)
  <1>1. f \in [Trades -> Int] /\ g \in [Trades -> Int] /\ IsFiniteSet(Trades)
        /\ e \in Int /\ -e \in Int /\ h \in Int
    BY GapTerms, EffectType, PositionTrackingAssumption
  <1>2. g[t] = f[t] + (-e)
    <2>1. \A x, y, z \in Int : z - (x + 1) * y = (z - x * y) + (-y)
      OBVIOUS
    <2>2. b[t] \in Int
      OBVIOUS
    <2>3. g[t] = h - (b[t] + 1) * e /\ f[t] = h - b[t] * e
      OBVIOUS
    <2> HIDE DEF f, g, e, h
    <2>4. QED
      BY <1>1, <2>1, <2>2, <2>3
  <1>3. \A u \in Trades : u # t => g[u] = f[u]
    OBVIOUS
  <1> HIDE DEF f, g, e
  <1>4. SumFunction(g) = SumFunction(f) + (-e)
    BY <1>1, <1>2, <1>3, SumChanged
  <1>5. SumFunction(f) \in Int
    BY <1>1, SumType
  <1>6. QED
    BY <1>1, <1>4, <1>5 DEF Gap, f, g, e

(* Nothing counted: what happened is missing.                              *)
LEMMA GapNone ==
    ASSUME NEW n \in [Trades -> Int], NEW b \in [Trades -> Int], NEW s \in Sides,
           \A t \in Trades : n[t] = 0
    PROVE  Gap(n, b, s) = -Weighted(b, s)
  <1> DEFINE f == [u \in Trades |-> b[u] * Effect(u, s)]
             g == [u \in Trades |-> n[u] * Effect(Booked(u), s) - b[u] * Effect(u, s)]
  <1>1. f \in [Trades -> Int] /\ g \in [Trades -> Int] /\ IsFiniteSet(Trades)
    BY TermsType, GapTerms, PositionTrackingAssumption
  <1>2. ASSUME NEW u \in Trades PROVE g[u] = -f[u]
    <2>1. \A x, y \in Int : 0 * y - x = -x
      OBVIOUS
    <2>2. f[u] \in Int /\ Effect(Booked(u), s) \in Int
      BY <1>1, EffectType
    <2>3. g[u] = 0 * Effect(Booked(u), s) - f[u]
      OBVIOUS
    <2>4. QED
      BY <2>1, <2>2, <2>3
  <1> HIDE DEF f, g
  <1>3. SumFunction(g) = -SumFunction(f)
    BY <1>1, <1>2, SumNegated
  <1>4. QED
    BY <1>3 DEF Weighted, Gap, f, g

\* How often each trade happened.
Been == [t \in Trades |-> Once(t \in happened)]

(* What CTP holds are yesterday's lots and the day's trades, and those lots *)
(* are what the gateway's query was told.                                  *)
HeldInv  == \A s \in Sides : Total(held[s]) = yd[s] + Weighted(Been, s)
ToldYd   == query = "trades" => ydRec = yd
ExactInv == HeldInv /\ ToldYd /\ TotalsExact

LEMMA ExactIs ==
    TotalsExact <=> (basis => \A s \in Sides :
                       Total(pos[s]) - Total(held[s]) = Gap(counted, Been, s))
  <1>1. ASSUME NEW s \in Sides
        PROVE  [t \in Trades |-> counted[t] * Effect(Booked(t), s) - Once(t \in happened) * Effect(t, s)]
                 = [t \in Trades |-> counted[t] * Effect(Booked(t), s) - Been[t] * Effect(t, s)]
    BY DEF Been
  <1>2. QED
    BY <1>1 DEF TotalsExact, Gap

LEMMA CountsType ==
    ASSUME TypeInv
    PROVE  /\ Been \in [Trades -> Int] /\ counted \in [Trades -> Int]
           /\ \A s \in Sides : /\ Total(pos[s]) \in Int /\ Total(held[s]) \in Int
                               /\ yd[s] \in Nat /\ ydRec[s] \in Nat
           /\ pos \in Volumes /\ held \in Volumes
  BY DEF Been, Once, TypeInv, TypeOK, Total, Volumes, Parts

LEMMA InitVolumeTotal ==
    ASSUME NEW y \in [Sides -> Nat], NEW s \in Sides PROVE Total(InitVolume(y)[s]) = y[s]
  BY DEF InitVolume, Total

LEMMA InitExact == Init => ExactInv
  <1> SUFFICES ASSUME Init PROVE ExactInv
    OBVIOUS
  <1>1. TypeInv
    BY InitType
  <1>2. \A t \in Trades : Been[t] = 0
    BY DEF Init, Been, Once
  <1>3. \A s \in Sides : Weighted(Been, s) = 0
    BY <1>1, <1>2, CountsType, WeightedNone
  <1>4. \A s \in Sides : Total(held[s]) = yd[s]
    BY <1>1, InitVolumeTotal DEF Init, TypeInv, TypeOK
  <1>5. HeldInv
    BY <1>1, <1>3, <1>4, CountsType DEF HeldInv
  <1>6. ToldYd /\ TotalsExact
    BY DEF Init, ToldYd, TotalsExact
  <1>7. QED
    BY <1>5, <1>6 DEF ExactInv

LEMMA NextExact == TypeInv /\ ExactInv /\ [Next]_vars => ExactInv'
  <1> SUFFICES ASSUME TypeInv, ExactInv, [Next]_vars PROVE ExactInv'
    OBVIOUS
  <1>0. TypeInv'
    BY NextType
  <1>1. /\ Been \in [Trades -> Int] /\ counted \in [Trades -> Int]
        /\ Been' \in [Trades -> Int] /\ counted' \in [Trades -> Int]
        /\ \A s \in Sides : /\ Total(pos[s]) \in Int /\ Total(held[s]) \in Int
                            /\ yd[s] \in Nat /\ ydRec[s] \in Nat
                            /\ Weighted(Been, s) \in Int /\ Gap(counted, Been, s) \in Int
                            /\ \A t \in Trades : /\ Effect(t, s) \in Int
                                                 /\ Effect(Booked(t), s) \in Int
        /\ pos \in Volumes /\ held \in Volumes
    <2>1. /\ Been \in [Trades -> Int] /\ counted \in [Trades -> Int]
          /\ \A s \in Sides : /\ Total(pos[s]) \in Int /\ Total(held[s]) \in Int
                              /\ yd[s] \in Nat /\ ydRec[s] \in Nat
          /\ pos \in Volumes /\ held \in Volumes
      BY CountsType
    <2>2. Been' \in [Trades -> Int] /\ counted' \in [Trades -> Int]
      BY <1>0 DEF Been, Once, TypeInv, TypeOK
    <2>3. \A s \in Sides : Weighted(Been, s) \in Int /\ Gap(counted, Been, s) \in Int
      BY <2>1, WeightedType, GapType
    <2>4. QED
      BY <2>1, <2>2, <2>3, EffectType
  <1>2. HeldInv /\ ToldYd
        /\ (basis => \A s \in Sides :
              Total(pos[s]) - Total(held[s]) = Gap(counted, Been, s))
    BY ExactIs DEF ExactInv
  \* The invariant of the next state, in terms of Gap.
  <1>3. ASSUME HeldInv', ToldYd',
               basis' => \A s \in Sides :
                  Total(pos'[s]) - Total(held'[s]) = Gap(counted', Been', s)
        PROVE  ExactInv'
    <2>1. ASSUME NEW s \in Sides
          PROVE  [t \in Trades |-> counted'[t] * Effect(Booked(t), s) - Once(t \in happened') * Effect(t, s)]
                   = [t \in Trades |-> counted'[t] * Effect(Booked(t), s) - Been'[t] * Effect(t, s)]
      BY DEF Been
    <2>2. TotalsExact'
      BY <1>3, <2>1 DEF TotalsExact, Gap
    <2>3. QED
      BY <1>3, <2>2 DEF ExactInv
  \* Nothing that the sums are about changes.
  <1>4. ASSUME UNCHANGED <<yd, held, happened, ydRec>>, query' = "trades" => query = "trades",
               ~basis' \/ UNCHANGED <<pos, counted, basis>>
        PROVE  ExactInv'
    <2>1. Been' = Been
      BY <1>4 DEF Been
    <2>2. HeldInv'
      BY <1>2, <1>4, <2>1 DEF HeldInv
    <2>3. ToldYd'
      BY <1>2, <1>4 DEF ToldYd
    <2>4. basis' => \A s \in Sides :
             Total(pos'[s]) - Total(held'[s]) = Gap(counted', Been', s)
      BY <1>2, <1>4, <2>1
    <2>5. QED
      BY <1>3, <2>2, <2>3, <2>4
  <1>5. ASSUME NEW t \in Trades, Happens(t) PROVE ExactInv'
    <2>1. /\ happened' = happened \cup {t} /\ t \notin happened /\ held' = Adjust(held, t)
          /\ UNCHANGED <<yd, query, ydRec, pos, counted, basis>>
      BY <1>5 DEF Happens, answer, ghosts
    <2>2. IsTrade(t)
      BY PositionTrackingAssumption
    <2>3. \A s \in Sides : Total(held'[s]) = Total(held[s]) + Effect(t, s)
      BY <1>1, <2>1, <2>2, AdjustFacts
    <2>4. Been'[t] = Been[t] + 1 /\ \A u \in Trades : u # t => Been'[u] = Been[u]
      BY <2>1 DEF Been, Once
    <2>6. \A s \in Sides : Weighted(Been', s) = Weighted(Been, s) + Effect(t, s)
      BY <1>1, <2>4, WeightedMore
    <2>7. \A s \in Sides : Gap(counted', Been', s) = Gap(counted, Been, s) - Effect(t, s)
      BY <1>1, <2>1, <2>4, GapHappened
    <2>8. \A s \in Sides : Gap(counted', Been', s) \in Int
      BY <1>1, GapType
    <2>9. \A s \in Sides : Total(held'[s]) = yd'[s] + Weighted(Been', s)
      BY <1>1, <1>2, <2>1, <2>3, <2>6 DEF HeldInv
    <2>10. HeldInv'
      BY <2>9 DEF HeldInv
    <2>11. ToldYd'
      BY <1>2, <2>1 DEF ToldYd
    <2>12. basis' => \A s \in Sides :
             Total(pos'[s]) - Total(held'[s]) = Gap(counted', Been', s)
      BY <1>1, <1>2, <2>1, <2>3, <2>7, <2>8
    <2>13. QED
      BY <1>3, <2>10, <2>11, <2>12
  <1>6. ASSUME NEW t \in Trades, Apply(t), UNCHANGED <<yd, held, happened, ydRec, query, basis>>
        PROVE  ExactInv'
    <2>1. /\ IsTrade(Booked(t)) /\ pos' = Adjust(pos, Booked(t))
          /\ counted' = [counted EXCEPT ![t] = @ + 1] /\ counted \in [Trades -> Nat]
      BY <1>6, BookedType, PositionTrackingAssumption DEF Apply, TypeInv, TypeOK
    <2>2. \A s \in Sides : Total(pos'[s]) = Total(pos[s]) + Effect(Booked(t), s)
      BY <1>1, <2>1, AdjustFacts
    <2>3. counted'[t] = counted[t] + 1 /\ \A u \in Trades : u # t => counted'[u] = counted[u]
      BY <2>1
    <2>5. Been' = Been
      BY <1>6 DEF Been
    <2>4. \A s \in Sides : Gap(counted', Been', s) = Gap(counted, Been, s) + Effect(Booked(t), s)
      BY <1>1, <2>3, <2>5, GapCounted
    <2>6. HeldInv' /\ ToldYd'
      BY <1>2, <1>6, <2>5 DEF HeldInv, ToldYd
    <2>7. basis' => \A s \in Sides :
             Total(pos'[s]) - Total(held'[s]) = Gap(counted', Been', s)
      BY <1>1, <1>2, <1>6, <2>2, <2>4
    <2>8. QED
      BY <1>3, <2>6, <2>7
  <1>7. ASSUME NEW t \in Trades, AdjustPosition(t) \/ ReplayTrade(t) PROVE ExactInv'
    BY <1>6, <1>7 DEF AdjustPosition, ReplayTrade, ctp, answer
  <1>8. ASSUME NEW t \in Trades, OnRtnTrade(t) \/ OnRspQryTrade(t) PROVE ExactInv'
    BY <1>4, <1>8 DEF OnRtnTrade, OnRspQryTrade, ctp, answer
  <1>9. CASE ReqQryInvestorPosition
    BY <1>4, <1>9 DEF ReqQryInvestorPosition, ctp, ghosts
  <1>10. CASE OnRspQryInvestorPosition
    <2>1. UNCHANGED <<yd, held, happened, pos, counted, basis>> /\ ydRec' = yd
      BY <1>10 DEF OnRspQryInvestorPosition, ctp, ghosts
    <2>2. Been' = Been /\ counted' = counted
      BY <2>1 DEF Been
    <2>3. HeldInv' /\ ToldYd'
      BY <1>2, <2>1, <2>2 DEF HeldInv, ToldYd
    <2>4. QED
      BY <1>2, <1>3, <2>1, <2>2, <2>3
  <1>11. CASE InitPositionVolume
    <2>1. /\ pos' = InitVolume(ydRec) /\ counted' = Never /\ query = "trades"
          /\ UNCHANGED <<yd, held, happened, query, ydRec>>
      BY <1>11 DEF InitPositionVolume, ctp, answer, TypeInv, TypeOK
    <2>2. \A s \in Sides : Total(pos'[s]) = yd[s]
      BY <1>2, <2>1, InitVolumeTotal DEF ToldYd, TypeInv, TypeOK
    <2>3. \A t \in Trades : counted'[t] = 0
      BY <2>1 DEF Never
    <2>5. Been' = Been
      BY <2>1 DEF Been
    <2>4. \A s \in Sides : Gap(counted', Been', s) = -Weighted(Been, s)
      BY <1>1, <2>3, <2>5, GapNone
    <2>6. HeldInv' /\ ToldYd'
      BY <1>2, <2>1, <2>5 DEF HeldInv, ToldYd
    <2>7. \A s \in Sides : Total(pos'[s]) - Total(held'[s]) = Gap(counted', Been', s)
      BY <1>1, <1>2, <2>1, <2>2, <2>4 DEF HeldInv
    <2>8. QED
      BY <1>3, <2>6, <2>7
  <1>12. CASE ReplayTradesBySeqno \/ QueryCompleted \/ OnFrontDisconnected
    BY <1>4, <1>12 DEF ReplayTradesBySeqno, QueryCompleted, OnFrontDisconnected, ctp, answer, ghosts
  <1>13. CASE OnRspUserLogin
    <2>1. UNCHANGED <<yd, held, happened>> /\ ~basis' /\ query' = "positions"
      BY <1>13 DEF OnRspUserLogin, Emptied, ctp
    <2>2. Been' = Been
      BY <2>1 DEF Been
    <2>3. HeldInv' /\ ToldYd'
      BY <1>2, <2>1, <2>2 DEF HeldInv, ToldYd
    <2>4. QED
      BY <1>3, <2>1, <2>3
  <1>14. CASE OnRspUserLoginNewDay
    <2>1. /\ yd' = [s \in Sides |-> Total(held[s])] /\ held' = InitVolume(yd') /\ happened' = {}
          /\ ~basis' /\ query' = "positions"
      BY <1>14 DEF OnRspUserLoginNewDay, Emptied
    <2>2. \A t \in Trades : Been'[t] = 0
      BY <2>1 DEF Been, Once
    <2>3. \A s \in Sides : Weighted(Been', s) = 0
      BY <1>1, <2>2, WeightedNone
    <2>4. yd' \in [Sides -> Nat]
      BY <1>0 DEF TypeInv, TypeOK
    <2>5. \A s \in Sides : Total(held'[s]) = yd'[s] /\ yd'[s] \in Nat
      BY <2>1, <2>4, InitVolumeTotal
    <2>6. \A s \in Sides : Total(held'[s]) = yd'[s] + Weighted(Been', s)
      BY <2>3, <2>5
    <2>7. HeldInv'
      BY <2>6 DEF HeldInv
    <2>8. ToldYd'
      BY <2>1 DEF ToldYd
    <2>9. QED
      BY <1>3, <2>1, <2>7, <2>8
  <1>15. CASE UNCHANGED vars
    BY <1>4, <1>15 DEF vars, ctp, answer, ghosts
  <1>16. QED
    BY <1>5, <1>7, <1>8, <1>9, <1>10, <1>11, <1>12, <1>13, <1>14, <1>15 DEF Next

(* Whatever the order of the trades, the replays and the goroutines, and   *)
(* whatever is borrowed: the totals of a position that was started from    *)
(* yesterday's lots differ from CTP's by the trades that were counted more *)
(* or less than once, and by those whose close was recorded as an opening, *)
(* each with its own effect.                                               *)
THEOREM TotalsCorrect == Spec => []TotalsExact
  <1>1. ExactInv => TotalsExact
    BY DEF ExactInv
  <1>2. QED
    BY <1>1, InitExact, NextExact, TypeAlways, PTL DEF Spec

-----------------------------------------------------------------------------
(* The account.                                                            *)

LEMMA CountingType ==
    ASSUME NEW alg, NEW p \in Int PROVE Counting(alg, p) \in Int
  BY DEF Counting

(* Whatever total is taken up, the balance without the profit and the      *)
(* available money without the counted part of it stay as CTP reported     *)
(* them (dv and avDiff in recalculateAccountProfit).                       *)
THEOREM MoneyKept ==
    ASSUME NEW acc \in Account, NEW alg, NEW total \in Int, NEW float \in Int, NEW option \in Int
    PROVE  LET new == Recalculated(acc, alg, total, float, option) IN
           /\ new \in Account
           /\ new.balance - new.profit = acc.balance - acc.profit
           /\ new.available - Counting(alg, new.profit) = acc.available - Counting(alg, acc.profit)
  <1>1. acc.balance \in Int /\ acc.profit \in Int /\ acc.available \in Int
    BY DEF Account
  <1>2. Counting(alg, total) \in Int /\ Counting(alg, acc.profit) \in Int
    BY <1>1, CountingType
  <1>3. QED
    BY <1>1, <1>2 DEF Recalculated, Account

(* A wrong total does no lasting harm: the next one, taken up under the    *)
(* same algorithm, leaves the account as if it had never been.  Under      *)
(* another algorithm it would not (OnRspQryBrokerTradingParams changes     *)
(* algorithmType and leaves Available).                                    *)
THEOREM LastTotalDecides ==
    ASSUME NEW acc \in Account, NEW alg,
           NEW t1 \in Int, NEW f1 \in Int, NEW o1 \in Int, NEW t2 \in Int, NEW f2 \in Int, NEW o2 \in Int
    PROVE  Recalculated(Recalculated(acc, alg, t1, f1, o1), alg, t2, f2, o2)
             = Recalculated(acc, alg, t2, f2, o2)
  <1> DEFINE mid == Recalculated(acc, alg, t1, f1, o1)
  <1>1. acc.balance \in Int /\ acc.profit \in Int /\ acc.available \in Int
    BY DEF Account
  <1>2. Counting(alg, t1) \in Int /\ Counting(alg, t2) \in Int /\ Counting(alg, acc.profit) \in Int
    BY <1>1, CountingType
  <1>3. /\ mid.profit = t1
        /\ mid.balance = acc.balance + (t1 - acc.profit)
        /\ mid.available = acc.available + (Counting(alg, t1) - Counting(alg, acc.profit))
    BY DEF Recalculated
  <1> HIDE DEF mid
  <1>4. mid.balance + (t2 - mid.profit) = acc.balance + (t2 - acc.profit)
    BY <1>1, <1>3
  <1>5. mid.available + (Counting(alg, t2) - Counting(alg, mid.profit))
          = acc.available + (Counting(alg, t2) - Counting(alg, acc.profit))
    BY <1>1, <1>2, <1>3
  <1>6. Recalculated(mid, alg, t2, f2, o2) = Recalculated(acc, alg, t2, f2, o2)
    BY <1>4, <1>5 DEF Recalculated
  <1>7. QED
    BY <1>6 DEF mid
=============================================================================
