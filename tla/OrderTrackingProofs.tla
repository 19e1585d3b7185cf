-------------------------- MODULE OrderTrackingProofs --------------------------
(***************************************************************************)
(* Proofs about OrderTracking, for any orders, volumes, references and     *)
(* bounds.                                                                 *)
(***************************************************************************)
EXTENDS OrderTracking, SequenceTheorems, TLAPS

USE DEF queries

-----------------------------------------------------------------------------
(* Types.  TypeOK is inductive once an order that may still be traded and  *)
(* an entry of inputOrderKeyMap are known to have lots left.               *)

Rows == AnyOrderRow \cup AnyTradeRow

\* CTP's side.
WireType ==
    /\ \A o \in Orders : book[o] \in State(o)
    /\ \A o \in Orders : Live(o) => book[o].left > 0
    /\ DOMAIN book = Orders
    /\ line \in Seq(Rows) /\ Len(line) <= MaxLine
    /\ ~link => line = <<>> /\ query = Quiet
    /\ session \in 1..MaxSessions
    /\ ~link => session < MaxSessions
    /\ link \in BOOLEAN
    /\ taken \subseteq Orders

QueryType ==
    \/ query = Quiet
    \/ query.at = "orders" /\ query.rows # {} /\ query.rows \subseteq AnyOrderRow
    \/ query.at = "trades" /\ query.rows # {} /\ query.rows \subseteq AnyTradeRow

KeyType ==
    /\ DOMAIN keys = Orders
    /\ \A o \in Orders : keys[o].left \in 0..VolumeOf[o] /\ keys[o].sys \in BOOLEAN
    /\ \A o \in Orders : keys[o] # NoKey => keys[o].left > 0
    /\ \A o \in Orders : DOMAIN keys[o] = {"left", "sys"}
    /\ \A o \in Orders \ Own : keys[o] = NoKey

\* The user's records, the tables of pending orders and the notices.
TableType ==
    /\ \A o \in Orders : rec[o] \in State(o)
    /\ DOMAIN rec = Orders
    /\ trades \subseteq Trades
    /\ insertSet \subseteq Refs /\ cancelSet \subseteq Orders
    /\ notes \in [Orders -> [inserted : Nat, failed : Nat]]
    /\ told \in [Orders -> Seq(Trades)]
    /\ dropped \subseteq Orders
    /\ due \in BOOLEAN

RestType == returned \subseteq Trades /\ asked \in 0..MaxCancels

\* Apart from the others: no other variable's type rests on these.
ChainType == chain \in {"login", "ready", "broken"} /\ errors \in 0..MaxErrors

TypeInv == WireType /\ QueryType /\ KeyType /\ TableType /\ RestType

LEMMA TypeInvImplies == TypeInv /\ ChainType => TypeOK
  <1> USE DEF TypeInv
  <1>1. ASSUME TypeInv
        PROVE  /\ \A o \in Orders : book[o] \in State(o) /\ rec[o] \in State(o)
               /\ DOMAIN book = Orders /\ DOMAIN rec = Orders
               /\ line \in Seq(AnyOrderRow \cup AnyTradeRow) /\ Len(line) <= MaxLine
               /\ ~link => line = <<>> /\ query = Quiet
               /\ session \in 1..MaxSessions
    BY <1>1 DEF WireType, TableType, Rows
  <1>2. ASSUME TypeInv
        PROVE  /\ {trades, returned} \subseteq SUBSET Trades
               /\ insertSet \subseteq Refs /\ cancelSet \subseteq Orders
               /\ notes \in [Orders -> [inserted : Nat, failed : Nat]]
               /\ told \in [Orders -> Seq(Trades)]
               /\ {taken, dropped} \subseteq SUBSET Orders
               /\ asked \in 0..MaxCancels
    BY <1>2 DEF WireType, TableType, RestType
  <1>3. ASSUME TypeInv
        PROVE  {link, due} \subseteq BOOLEAN
    BY <1>3 DEF WireType, TableType
  <1>4. ASSUME TypeInv
        PROVE  /\ DOMAIN keys = Orders
               /\ \A o \in Orders : keys[o].left \in 0..VolumeOf[o] /\ keys[o].sys \in BOOLEAN
               /\ \A o \in Orders \ Own : keys[o] = NoKey
    BY <1>4 DEF KeyType
  <1>5. QED
    BY <1>1, <1>2, <1>3, <1>4 DEF TypeOK, QueryType, ChainType

LEMMA OrderRowFacts ==
    ASSUME NEW r \in AnyOrderRow
    PROVE  /\ r.kind = "order" /\ r.order \in Orders /\ r.state \in State(r.order)
           /\ r = OrderRow(r.order, r.state)
  BY DEF AnyOrderRow, OrderRow

LEMMA TradeRowFacts ==
    ASSUME NEW r \in AnyTradeRow
    PROVE  r.kind = "trade" /\ r.trade \in Trades /\ r = TradeRow(r.trade)
  BY DEF AnyTradeRow, TradeRow

LEMMA TradeFacts ==
    ASSUME NEW t \in Trades
    PROVE  t[1] \in Orders /\ t[2] \in 1..VolumeOf[t[1]] /\ t = <<t[1], t[2]>>
  BY DEF Trades

LEMMA RowKinds ==
    ASSUME NEW r \in Rows
    PROVE  /\ r.kind = "order" => r \in AnyOrderRow
           /\ r.kind = "trade" => r \in AnyTradeRow
  BY OrderRowFacts, TradeRowFacts DEF Rows

LEMMA MakeOrderRow ==
    ASSUME NEW o \in Orders, NEW s \in State(o)
    PROVE  OrderRow(o, s) \in AnyOrderRow
  BY DEF AnyOrderRow

LEMMA StateFacts ==
    ASSUME NEW o \in Orders
    PROVE  /\ None \in State(o)
           /\ \A s \in State(o) : s.status \in Statuses /\ s.left \in 0..VolumeOf[o]
           /\ \A st \in Statuses, n \in 0..VolumeOf[o] : [status |-> st, left |-> n] \in State(o)
           /\ \A s \in State(o), st \in Statuses :
                [s EXCEPT !.status = st] = [status |-> st, left |-> s.left]
           /\ VolumeOf[o] \in Nat /\ VolumeOf[o] > 0
  BY OrderTrackingAssumption DEF State, None, Statuses

(* A return, and the trade's after it, are put on the line.                *)
LEMMA MovesType ==
    ASSUME TypeInv, NEW o \in Orders, NEW s \in State(o), s.status # "none",
           s.status \in {"unknown", "queueing"} => s.left > 0,
           NEW more \in Seq(AnyTradeRow), Moves(o, s, more),
           taken' \subseteq Orders
    PROVE  WireType'
  <1>1. line \in Seq(Rows) /\ more \in Seq(Rows) /\ OrderRow(o, s) \in Rows
    BY MakeOrderRow, SeqMonotonic DEF TypeInv, WireType, Rows
  <1>2. /\ line' \in Seq(Rows)
        /\ Len(line') = Len(line) + 1 + Len(more)
    BY <1>1 DEF Moves
  <1>3. Len(line') <= MaxLine /\ link
    BY <1>2 DEF Moves
  <1>4. /\ \A p \in Orders : book'[p] = IF p = o THEN s ELSE book[p]
        /\ DOMAIN book' = Orders
    BY DEF Moves, TypeInv, WireType
  <1>5. /\ \A p \in Orders : book'[p] \in State(p)
        /\ \A p \in Orders : Live(p)' => book'[p].left > 0
    BY <1>4 DEF TypeInv, WireType, Live
  <1>6. QED
    BY <1>2, <1>3, <1>4, <1>5 DEF TypeInv, WireType, Moves

LEMMA EmptyTail == <<>> \in Seq(AnyTradeRow) /\ \A r \in AnyTradeRow : <<r>> \in Seq(AnyTradeRow)
  OBVIOUS

LEMMA FillFacts ==
    ASSUME TypeInv, NEW o \in Orders, Live(o)
    PROVE  /\ book[o].left - 1 \in 0..VolumeOf[o]
           /\ TradeRow(<<o, VolumeOf[o] - (book[o].left - 1)>>) \in AnyTradeRow
  <1>1. book[o].left \in 1..VolumeOf[o]
    BY StateFacts DEF TypeInv, WireType
  <1>2. VolumeOf[o] - (book[o].left - 1) \in 1..VolumeOf[o] /\ book[o].left - 1 \in 0..VolumeOf[o]
    BY <1>1, StateFacts
  <1>3. <<o, VolumeOf[o] - (book[o].left - 1)>> \in Trades
    BY <1>2 DEF Trades
  <1>4. QED
    BY <1>2, <1>3 DEF AnyTradeRow

(* What a row or a return of an order does to the notices.                 *)
LEMMA AnswerFacts ==
    ASSUME NEW o \in Orders, NEW s, Answer(o, s),
           notes \in [Orders -> [inserted : Nat, failed : Nat]]
    PROVE  /\ notes' \in [Orders -> [inserted : Nat, failed : Nat]]
           /\ \A p \in Orders \ {o} : notes'[p] = notes[p]
           /\ notes'[o].inserted = IF RefOf[o] \in insertSet /\ Accepted(s)
                                   THEN notes[o].inserted + 1 ELSE notes[o].inserted
           /\ notes'[o].failed = IF RefOf[o] \in insertSet /\ Gone(s) /\ o \notin cancelSet
                                 THEN notes[o].failed + 1 ELSE notes[o].failed
  <1> DEFINE i == IF RefOf[o] \in insertSet /\ Accepted(s)
                  THEN notes[o].inserted + 1 ELSE notes[o].inserted
             f == IF RefOf[o] \in insertSet /\ Gone(s) /\ o \notin cancelSet
                  THEN notes[o].failed + 1 ELSE notes[o].failed
  <1>1. notes[o] \in [inserted : Nat, failed : Nat]
    OBVIOUS
  <1>2. i \in Nat /\ f \in Nat
    BY <1>1
  <1>3. notes' = [notes EXCEPT ![o] = [inserted |-> i, failed |-> f]]
    BY DEF Answer
  <1> HIDE DEF i, f
  <1>4. /\ notes' \in [Orders -> [inserted : Nat, failed : Nat]]
        /\ \A p \in Orders \ {o} : notes'[p] = notes[p]
        /\ notes'[o].inserted = i /\ notes'[o].failed = f
    BY <1>2, <1>3
  <1>5. QED
    BY <1>4 DEF i, f

(* What a row or a return of an order does to the tables.                  *)
LEMMA UpdateOrderType ==
    ASSUME TypeInv, NEW o \in Orders, NEW s \in State(o), UpdateOrder(o, s)
    PROVE  KeyType' /\ TableType'
  <1> USE DEF TypeInv
  <1>1. \A p \in Orders : rec'[p] = IF p = o THEN s ELSE rec[p]
    BY DEF UpdateOrder, TableType
  <1>2. insertSet' \subseteq Refs /\ cancelSet' \subseteq Orders
    <2>1. insertSet' \in {insertSet, insertSet \ {RefOf[o]}}
      BY DEF UpdateOrder, Answer
    <2>2. cancelSet' \in {cancelSet, cancelSet \ {o}}
      BY DEF UpdateOrder, Answer
    <2>3. QED
      BY <2>1, <2>2 DEF TableType
  <1>3. notes' \in [Orders -> [inserted : Nat, failed : Nat]]
    BY AnswerFacts DEF UpdateOrder, TableType
  <1>4. dropped' \subseteq Orders
    BY DEF UpdateOrder, UpdateKey, TableType
  <1>5. TableType'
    BY <1>1, <1>2, <1>3, <1>4 DEF UpdateOrder, TableType
  <1>6. /\ DOMAIN keys' = Orders
        /\ \A p \in Orders \ {o} : keys'[p] = keys[p]
        /\ keys'[o] \in {NoKey, keys[o]} \/ (keys[o] # NoKey /\ keys'[o] = [keys[o] EXCEPT !.sys = TRUE])
    BY DEF UpdateOrder, UpdateKey, KeyType
  <1>7. DOMAIN keys[o] = {"left", "sys"}
    BY DEF KeyType
  <1>8. [keys[o] EXCEPT !.sys = TRUE].left = keys[o].left /\ [keys[o] EXCEPT !.sys = TRUE].sys = TRUE
        /\ DOMAIN [keys[o] EXCEPT !.sys = TRUE] = {"left", "sys"}
    BY <1>7
  <1>9. NoKey.left \in 0..VolumeOf[o] /\ NoKey.sys \in BOOLEAN /\ DOMAIN NoKey = {"left", "sys"}
    BY StateFacts DEF NoKey
  <1>10. KeyType'
    BY <1>6, <1>8, <1>9 DEF KeyType
  <1>11. QED
    BY <1>5, <1>10

(* What a row or a return of a trade does to the tables.                   *)
LEMMA UpdateTradeType ==
    ASSUME TypeInv, NEW t \in Trades, UpdateTrade(t)
    PROVE  KeyType' /\ TableType'
  <1> USE DEF TypeInv
  <1> DEFINE o == t[1]
  <1>1. o \in Orders
    BY TradeFacts
  <1>2. trades' \subseteq Trades /\ told' \in [Orders -> Seq(Trades)]
    <2>1. told[o] \in Seq(Trades) /\ Append(told[o], t) \in Seq(Trades)
      BY <1>1, AppendProperties DEF TableType
    <2>2. told' \in {told, [told EXCEPT ![o] = Append(told[o], t)]}
      BY DEF UpdateTrade
    <2> HIDE DEF o
    <2>3. QED
      BY <2>1, <2>2 DEF UpdateTrade, TableType
  <1>3. TableType'
    BY <1>2 DEF UpdateTrade, TableType
  <1>4. /\ keys[o].left \in Nat /\ DOMAIN keys[o] = {"left", "sys"}
        /\ keys[o].left <= VolumeOf[o]
        /\ keys[o].sys \in BOOLEAN
    BY <1>1, StateFacts DEF KeyType
  <1>5. keys[o].sys => keys[o].left > 0 /\ keys[o] # NoKey
    BY <1>1 DEF KeyType, NoKey
  <1>6. /\ DOMAIN keys' = Orders
        /\ \A p \in Orders \ {o} : keys'[p] = keys[p]
        /\ \/ keys'[o] \in {NoKey, keys[o]}
           \/ /\ keys[o].sys /\ keys[o].left > 1
              /\ keys'[o] = [keys[o] EXCEPT !.left = keys[o].left - 1]
    <2>1. DOMAIN keys' = Orders /\ \A p \in Orders \ {o} : keys'[p] = keys[p]
      BY DEF UpdateTrade, KeyType
    <2> DEFINE known == keys[o].sys /\ o \in Named
    <2>2. CASE ~known
      BY <2>1, <2>2, <1>1 DEF UpdateTrade, KeyType
    <2>3. CASE known /\ keys[o].left = 1
      BY <2>1, <2>3, <1>1 DEF UpdateTrade, KeyType
    <2>4. CASE known /\ keys[o].left > 1
      <3>1. ~(~known) /\ keys[o].left # 1
        BY <2>4
      <3>2. keys'[o] = [keys[o] EXCEPT !.left = keys[o].left - 1]
        BY <2>4, <3>1, <1>1 DEF UpdateTrade, KeyType
      <3>3. QED
        BY <2>1, <2>4, <3>2
    <2>5. QED
      BY <1>4, <1>5, <2>1, <2>2, <2>3, <2>4
  <1>7. /\ [keys[o] EXCEPT !.left = keys[o].left - 1].left = keys[o].left - 1
        /\ [keys[o] EXCEPT !.left = keys[o].left - 1].sys = keys[o].sys
        /\ DOMAIN [keys[o] EXCEPT !.left = keys[o].left - 1] = {"left", "sys"}
    BY <1>4
  <1>8. NoKey.left \in 0..VolumeOf[o] /\ NoKey.sys \in BOOLEAN /\ DOMAIN NoKey = {"left", "sys"}
    BY <1>1, StateFacts DEF NoKey
  <1>9. keys[o].left > 1 => keys[o].left - 1 \in 0..VolumeOf[o] /\ keys[o].left - 1 > 0
    BY <1>1, <1>4, StateFacts
  <1>10. /\ keys'[o].left \in 0..VolumeOf[o] /\ keys'[o].sys \in BOOLEAN
         /\ keys'[o] # NoKey => keys'[o].left > 0
         /\ DOMAIN keys'[o] = {"left", "sys"}
         /\ o \notin Own => keys'[o] = NoKey
    BY <1>1, <1>4, <1>5, <1>6, <1>7, <1>8, <1>9 DEF KeyType
  <1> HIDE DEF o
  <1>11. KeyType'
    BY <1>1, <1>6, <1>10 DEF KeyType
  <1>12. QED
    BY <1>3, <1>11

LEMMA AskType ==
    ASSUME NEW at, NEW S, Ask(at, S),
           \/ at = "orders" /\ S \subseteq AnyOrderRow
           \/ at = "trades" /\ S \subseteq AnyTradeRow
    PROVE  QueryType'
  BY DEF Ask, QueryType, Quiet

LEMMA OrderRowsType ==
    ASSUME TypeInv
    PROVE  OrderRows \subseteq AnyOrderRow
  BY DEF OrderRows, AnyOrderRow, TypeInv, WireType

LEMMA TradeRowsType ==
    ASSUME TypeInv
    PROVE  TradeRows \subseteq AnyTradeRow
  <1>1. \A o \in Orders : VolumeOf[o] \in Nat /\ book[o].left \in 0..VolumeOf[o]
    BY StateFacts DEF TypeInv, WireType
  <1>2. \A o \in Orders : Traded(o) \subseteq Trades
    BY <1>1 DEF Traded, Trades
  <1>3. QED
    BY <1>2 DEF TradeRows, Happened, AnyTradeRow

(* A return is taken from the line.                                        *)
LEMMA TakenFromLine ==
    ASSUME TypeInv, line # <<>>, line' = Tail(line),
           UNCHANGED <<book, link, session, taken>>
    PROVE  WireType' /\ Head(line) \in Rows
  <1>1. /\ line' \in Seq(Rows) /\ Len(line') = Len(line) - 1 /\ Head(line) \in Rows
        /\ Len(line) \in Nat
    BY HeadTailProperties DEF TypeInv, WireType
  <1>2. MaxLine \in Nat /\ Len(line') <= MaxLine
    BY <1>1, OrderTrackingAssumption DEF TypeInv, WireType
  <1>3. link
    BY DEF TypeInv, WireType
  <1>4. QED
    BY <1>1, <1>2, <1>3 DEF TypeInv, WireType, Live

-----------------------------------------------------------------------------
LEMMA InitTypes == Init => TypeInv
  <1> SUFFICES ASSUME Init PROVE TypeInv
    OBVIOUS
  <1>1. WireType
    BY StateFacts, OrderTrackingAssumption DEF Init, WireType, Live, None
  <1>2. QueryType
    BY DEF Init, QueryType
  <1>3. KeyType
    <2>1. NoKey.left = 0 /\ NoKey.sys = FALSE /\ DOMAIN NoKey = {"left", "sys"}
      BY DEF NoKey
    <2>2. DOMAIN keys = Orders /\ \A o \in Orders : keys[o] = NoKey
      BY DEF Init
    <2>3. \A o \in Orders : keys[o].left \in 0..VolumeOf[o]
      BY <2>1, <2>2, StateFacts
    <2>4. \A o \in Orders : keys[o].sys \in BOOLEAN /\ DOMAIN keys[o] = {"left", "sys"}
      BY <2>1, <2>2
    <2>5. \A o \in Orders \ Own : keys[o] = NoKey
      BY <2>2
    <2>6. QED
      BY <2>2, <2>3, <2>4, <2>5 DEF KeyType
  <1>4. insertSet \subseteq Refs /\ cancelSet \subseteq Orders /\ trades \subseteq Trades
        /\ dropped \subseteq Orders /\ returned \subseteq Trades
    BY DEF Init
  <1>5. TableType
    <2>1. <<>> \in Seq(Trades) /\ told = [o \in Orders |-> <<>>]
      BY DEF Init
    <2>2. told \in [Orders -> Seq(Trades)]
      BY <2>1
    <2>3. notes \in [Orders -> [inserted : Nat, failed : Nat]] /\ due \in BOOLEAN
      BY DEF Init
    <2>4. DOMAIN rec = Orders /\ \A o \in Orders : rec[o] \in State(o)
      BY StateFacts DEF Init
    <2>5. insertSet \subseteq Refs /\ cancelSet \subseteq Orders
      BY DEF Init
    <2>6. QED
      BY <1>4, <2>2, <2>3, <2>4, <2>5 DEF TableType
  <1>6. RestType
    BY <1>4, OrderTrackingAssumption DEF Init, RestType
  <1>7. QED
    BY <1>1, <1>2, <1>3, <1>5, <1>6 DEF TypeInv

LEMMA Stutter ==
    ASSUME TypeInv
    PROVE  /\ UNCHANGED <<book, line, link, session, taken, query>> => WireType'
           /\ UNCHANGED query => QueryType'
           /\ UNCHANGED keys => KeyType'
           /\ UNCHANGED <<due, user, insertSet, cancelSet, notes, told, dropped>> => TableType'
           /\ UNCHANGED <<returned, asked>> => RestType'
  <1> USE DEF TypeInv
  <1>1. UNCHANGED <<book, line, link, session, taken, query>> => WireType'
    BY DEF WireType, Live
  <1>2. UNCHANGED query => QueryType'
    BY DEF QueryType
  <1>3. UNCHANGED keys => KeyType'
    BY DEF KeyType
  <1>4. UNCHANGED <<due, user, insertSet, cancelSet, notes, told, dropped>> => TableType'
    BY DEF TableType, user
  <1>5. UNCHANGED <<returned, asked>> => RestType'
    BY DEF RestType
  <1>6. QED
    BY <1>1, <1>2, <1>3, <1>4, <1>5

(* The answer of a query comes only while the front is connected.          *)
LEMMA AnswersOnALink ==
    ASSUME TypeInv, UNCHANGED <<book, line, link, session, taken>>,
           link \/ query # Quiet
    PROVE  WireType'
  BY DEF TypeInv, WireType, Live

LEMMA MovesTypeInv ==
    ASSUME TypeInv, NEW o \in Orders, NEW s \in State(o), s.status # "none",
           s.status \in {"unknown", "queueing"} => s.left > 0,
           NEW more \in Seq(AnyTradeRow), Moves(o, s, more),
           taken' \subseteq Orders
    PROVE  TypeInv'
  BY MovesType, Stutter DEF Moves, pend, notice, TypeInv

LEMMA TypesOfOrders ==
    ASSUME TypeInv, NEW o \in Orders
    PROVE  /\ InsertElsewhere(o) => TypeInv'
           /\ Queues(o) => TypeInv'
           /\ Fills(o) => TypeInv'
           /\ Cancels(o) => TypeInv'
  <1>0. taken \subseteq Orders /\ book[o] \in State(o)
    BY DEF TypeInv, WireType
  <1>1. ASSUME InsertElsewhere(o) PROVE TypeInv'
    <2>1. [status |-> "unknown", left |-> VolumeOf[o]] \in State(o)
      BY StateFacts DEF Statuses
    <2>2. QED
      BY <1>0, <1>1, <2>1, MovesTypeInv, EmptyTail, StateFacts DEF InsertElsewhere
  <1>2. ASSUME Queues(o) PROVE TypeInv'
    <2>1. [book[o] EXCEPT !.status = "queueing"] = [status |-> "queueing", left |-> book[o].left]
      BY <1>0, StateFacts DEF Statuses
    <2>2. [status |-> "queueing", left |-> book[o].left] \in State(o) /\ book[o].left > 0
      BY <1>0, <1>2, StateFacts DEF Statuses, Queues, TypeInv, WireType, Live
    <2>3. taken' \subseteq Orders
      BY <1>0, <1>2 DEF Queues
    <2>4. QED
      BY <1>2, <2>1, <2>2, <2>3, MovesTypeInv, EmptyTail DEF Queues
  <1>3. ASSUME Fills(o) PROVE TypeInv'
    <2> DEFINE left == book[o].left - 1
               s == [status |-> IF left = 0 THEN "traded" ELSE "queueing", left |-> left]
               r == TradeRow(<<o, VolumeOf[o] - left>>)
    <2>1. left \in 0..VolumeOf[o] /\ r \in AnyTradeRow
      BY <1>3, FillFacts DEF Fills
    <2> DEFINE st == IF left = 0 THEN "traded" ELSE "queueing"
    <2>2. s \in State(o) /\ s.status # "none"
          /\ (s.status \in {"unknown", "queueing"} => s.left > 0)
      <3>1. st \in Statuses /\ st # "none" /\ (st \in {"unknown", "queueing"} => left # 0)
        BY DEF Statuses
      <3>2. left \in Nat
        BY <2>1, StateFacts
      <3>3. s = [status |-> st, left |-> left]
        OBVIOUS
      <3> HIDE DEF st, left
      <3>4. s \in State(o)
        BY <2>1, <3>1, <3>3, StateFacts
      <3>5. s.status = st /\ s.left = left
        BY <3>3
      <3>6. QED
        BY <3>1, <3>2, <3>4, <3>5
    <2>3. taken' \subseteq Orders
      BY <1>0, <1>3 DEF Fills
    <2>4. Moves(o, s, <<r>>)
      BY <1>3 DEF Fills
    <2>5. <<r>> \in Seq(AnyTradeRow)
      BY <2>1, EmptyTail
    <2> HIDE DEF s, r
    <2>6. QED
      BY <2>2, <2>3, <2>4, <2>5, MovesTypeInv
  <1>4. ASSUME Cancels(o) PROVE TypeInv'
    <2>1. [book[o] EXCEPT !.status = "canceled"] = [status |-> "canceled", left |-> book[o].left]
      BY <1>0, StateFacts DEF Statuses
    <2>2. [status |-> "canceled", left |-> book[o].left] \in State(o)
      BY <1>0, StateFacts DEF Statuses
    <2>3. taken' \subseteq Orders
      BY <1>0, <1>4 DEF Cancels
    <2>4. QED
      BY <1>4, <2>1, <2>2, <2>3, MovesTypeInv, EmptyTail DEF Cancels
  <1>5. QED
    BY <1>1, <1>2, <1>3, <1>4

LEMMA TypesOfInsertion ==
    ASSUME TypeInv, NEW o \in Orders, InsertOrder(o)
    PROVE  TypeInv'
  <1> USE DEF TypeInv
  <1> DEFINE s == [status |-> "unknown", left |-> VolumeOf[o]]
             k == [left |-> VolumeOf[o], sys |-> FALSE]
  <1>1. s \in State(o) /\ s.left > 0 /\ VolumeOf[o] \in Nat /\ VolumeOf[o] > 0
    BY StateFacts DEF Statuses
  <1>2. o \in Own
    BY OrderTrackingAssumption DEF InsertOrder, WireType, Own
  <1>3. KeyType'
    <2>1. k.left \in 0..VolumeOf[o] /\ k.left > 0 /\ k.sys \in BOOLEAN /\ DOMAIN k = {"left", "sys"}
      BY <1>1
    <2>2. keys' = [keys EXCEPT ![o] = k]
      BY DEF InsertOrder
    <2> HIDE DEF k
    <2>3. QED
      BY <1>2, <2>1, <2>2 DEF KeyType
  <1>4. TableType'
    <2>1. insertSet' \subseteq Refs
      BY DEF InsertOrder, TableType, Refs
    <2>2. QED
      BY <2>1 DEF InsertOrder, TableType, user, notice
  <1>5. WireType'
    <2>1. CASE UNCHANGED <<book, line>>
      BY <2>1, Stutter DEF InsertOrder
    <2>2. CASE link /\ Len(line) < MaxLine /\ book' = [book EXCEPT ![o] = s]
               /\ line' = Append(line, OrderRow(o, s))
      <3>1. OrderRow(o, s) \in Rows
        BY <1>1, MakeOrderRow DEF Rows
      <3> HIDE DEF s
      <3>2. line' \in Seq(Rows) /\ Len(line') = Len(line) + 1
        BY <2>2, <3>1 DEF WireType
      <3>3. Len(line') <= MaxLine
        BY <2>2, <3>2, OrderTrackingAssumption DEF WireType
      <3>4. /\ \A p \in Orders : book'[p] = IF p = o THEN s ELSE book[p]
            /\ DOMAIN book' = Orders
        BY <2>2 DEF WireType
      <3>5. /\ \A p \in Orders : book'[p] \in State(p)
            /\ \A p \in Orders : Live(p)' => book'[p].left > 0
        BY <1>1, <3>4 DEF WireType, Live
      <3>6. QED
        BY <2>2, <3>2, <3>3, <3>4, <3>5 DEF WireType, InsertOrder
    <2>3. QED
      BY <2>1, <2>2 DEF InsertOrder
  <1>6. QED
    BY <1>3, <1>4, <1>5, Stutter DEF InsertOrder, notice

LEMMA TypesOfCancellation ==
    ASSUME TypeInv, NEW o \in Orders, CancelOrder(o)
    PROVE  TypeInv'
  <1> USE DEF TypeInv
  <1>1. cancelSet' \subseteq Orders
    BY DEF CancelOrder, TableType
  <1>2. TableType'
    BY <1>1 DEF CancelOrder, TableType, user, notice
  <1>3. asked' \in 0..MaxCancels
    BY OrderTrackingAssumption DEF CancelOrder, RestType
  <1>4. RestType'
    BY <1>3 DEF RestType, CancelOrder, notice
  <1>5. QED
    BY <1>2, <1>4, Stutter DEF CancelOrder, ctp

LEMMA TypesOfReturns ==
    ASSUME TypeInv
    PROVE  (OnRtnOrder => TypeInv') /\ (OnRtnTrade => TypeInv')
  <1>1. ASSUME OnRtnOrder PROVE TypeInv'
    <2>1. WireType' /\ Head(line) \in AnyOrderRow
      BY <1>1, TakenFromLine, RowKinds DEF OnRtnOrder
    <2>2. KeyType' /\ TableType'
      BY <1>1, <2>1, OrderRowFacts, UpdateOrderType DEF OnRtnOrder
    <2>3. QED
      BY <1>1, <2>1, <2>2, Stutter DEF OnRtnOrder, TypeInv
  <1>2. ASSUME OnRtnTrade PROVE TypeInv'
    <2>1. WireType' /\ Head(line) \in AnyTradeRow
      BY <1>2, TakenFromLine, RowKinds DEF OnRtnTrade
    <2>2. Head(line).trade \in Trades
      BY <2>1, TradeRowFacts
    <2>3. KeyType' /\ TableType'
      BY <1>2, <2>2, UpdateTradeType DEF OnRtnTrade
    <2>4. RestType'
      BY <1>2, <2>2 DEF OnRtnTrade, TypeInv, RestType
    <2>5. QED
      BY <1>2, <2>1, <2>3, <2>4, Stutter DEF OnRtnTrade, TypeInv
  <1>3. QED
    BY <1>1, <1>2

LEMMA TypesOfQueries ==
    ASSUME TypeInv
    PROVE  /\ ReqQryOrder => TypeInv'
           /\ OnRspQryOrder => TypeInv'
           /\ OnRspQryTrade => TypeInv'
           /\ OnRspError => TypeInv'
  <1>1. ASSUME ReqQryOrder PROVE TypeInv'
    <2>1. QueryType'
      BY <1>1, AskType, OrderRowsType DEF ReqQryOrder
    <2>2. WireType'
      BY <1>1, AnswersOnALink DEF ReqQryOrder, ctp
    <2>3. QED
      BY <1>1, <2>1, <2>2, Stutter DEF ReqQryOrder, TypeInv, pend, notice
  <1>2. ASSUME OnRspQryOrder PROVE TypeInv'
    <2>1. PICK r \in query.rows :
            /\ UpdateOrder(r.order, r.state)
            /\ IF query.rows = {r} THEN Ask("trades", TradeRows)
                                   ELSE Ask("orders", query.rows \ {r})
      BY <1>2 DEF OnRspQryOrder
    <2>2. query # Quiet /\ query.rows \subseteq AnyOrderRow
      BY <1>2 DEF OnRspQryOrder, TypeInv, QueryType, Quiet
    <2>3. KeyType' /\ TableType'
      BY <2>1, <2>2, OrderRowFacts, UpdateOrderType
    <2>4. query.rows \ {r} \subseteq AnyOrderRow
      BY <2>2
    <2>5. QueryType'
      BY <2>1, <2>4, AskType, TradeRowsType
    <2>6. WireType'
      BY <1>2, <2>2, AnswersOnALink DEF OnRspQryOrder, ctp
    <2>7. QED
      BY <1>2, <2>3, <2>5, <2>6, Stutter DEF OnRspQryOrder, TypeInv
  <1>3. ASSUME OnRspQryTrade PROVE TypeInv'
    <2>1. PICK r \in query.rows : UpdateTrade(r.trade) /\ Ask("trades", query.rows \ {r})
      BY <1>3 DEF OnRspQryTrade
    <2>2. query # Quiet /\ query.rows \subseteq AnyTradeRow
      BY <1>3 DEF OnRspQryTrade, TypeInv, QueryType, Quiet
    <2>3. KeyType' /\ TableType'
      BY <2>1, <2>2, TradeRowFacts, UpdateTradeType
    <2>4. query.rows \ {r} \subseteq AnyTradeRow
      BY <2>2
    <2>5. QueryType'
      BY <2>1, <2>4, AskType
    <2>6. WireType'
      BY <1>3, <2>2, AnswersOnALink DEF OnRspQryTrade, ctp
    <2>7. QED
      BY <1>3, <2>3, <2>5, <2>6, Stutter DEF OnRspQryTrade, TypeInv
  <1>4. ASSUME OnRspError PROVE TypeInv'
    <2>1. QueryType'
      BY <1>4 DEF OnRspError, QueryType
    <2>2. WireType'
      BY <1>4, AnswersOnALink DEF OnRspError, ctp
    <2>3. QED
      BY <1>4, <2>1, <2>2, Stutter DEF OnRspError, TypeInv, pend, notice
  <1>5. QED
    BY <1>1, <1>2, <1>3, <1>4

LEMMA TypesOfLogins ==
    ASSUME TypeInv
    PROVE  /\ OnFrontDisconnected => TypeInv'
           /\ OnRspUserLogin => TypeInv'
           /\ OnRspUserLoginNewDay => TypeInv'
  <1>1. ASSUME OnFrontDisconnected PROVE TypeInv'
    <2>1. line' = <<>> /\ line' \in Seq(Rows) /\ Len(line') = 0 /\ MaxLine >= 0
      BY <1>1, OrderTrackingAssumption DEF OnFrontDisconnected
    <2>2. (\A o \in Orders : book'[o] \in State(o)) /\ (\A o \in Orders : Live(o)' => book'[o].left > 0)
      BY <1>1 DEF OnFrontDisconnected, TypeInv, WireType, Live
    <2>3. WireType'
      BY <1>1, <2>1, <2>2, OrderTrackingAssumption DEF OnFrontDisconnected, TypeInv, WireType
    <2>4. QueryType'
      BY <1>1 DEF OnFrontDisconnected, QueryType
    <2>5. QED
      BY <1>1, <2>3, <2>4, Stutter DEF OnFrontDisconnected, TypeInv, pend, notice
  <1>2. ASSUME OnRspUserLogin PROVE TypeInv'
    <2>1. QueryType'
      BY <1>2, Stutter DEF OnRspUserLogin
    <2>2. session' \in 1..MaxSessions
      BY <1>2, OrderTrackingAssumption DEF OnRspUserLogin, TypeInv, WireType
    <2>3. WireType'
      BY <1>2, <2>2 DEF OnRspUserLogin, TypeInv, WireType, Live
    <2>4. trades' \subseteq Trades /\ \A o \in Orders : rec'[o] \in State(o)
      BY <1>2, StateFacts DEF OnRspUserLogin
    <2>5. TableType'
      BY <1>2, <2>4 DEF OnRspUserLogin, TypeInv, TableType, pend, notice
    <2>6. QED
      BY <1>2, <2>1, <2>3, <2>5, Stutter DEF OnRspUserLogin, TypeInv, pend, notice
  <1>3. ASSUME OnRspUserLoginNewDay PROVE TypeInv'
    <2>1. /\ book' = [o \in Orders |-> None] /\ rec' = [o \in Orders |-> None]
          /\ \A o \in Orders : None \in State(o) /\ None.status = "none"
      BY <1>3, StateFacts DEF OnRspUserLoginNewDay, None
    <2>2. session' \in 1..MaxSessions /\ taken' \subseteq Orders
      BY <1>3, OrderTrackingAssumption DEF OnRspUserLoginNewDay
    <2>3. WireType'
      BY <1>3, <2>1, <2>2 DEF OnRspUserLoginNewDay, TypeInv, WireType, Live
    <2>4. KeyType'
      <3>1. NoKey.left = 0 /\ NoKey.sys = FALSE /\ DOMAIN NoKey = {"left", "sys"}
        BY DEF NoKey
      <3>2. DOMAIN keys' = Orders /\ \A o \in Orders : keys'[o] = NoKey
        BY <1>3 DEF OnRspUserLoginNewDay
      <3>3. \A o \in Orders : keys'[o].left \in 0..VolumeOf[o]
        BY <3>1, <3>2, StateFacts
      <3>4. \A o \in Orders : keys'[o].sys \in BOOLEAN /\ DOMAIN keys'[o] = {"left", "sys"}
        BY <3>1, <3>2
      <3>5. \A o \in Orders \ Own : keys'[o] = NoKey
        BY <3>2
      <3>6. QED
        BY <3>2, <3>3, <3>4, <3>5 DEF KeyType
    <2>5. trades' \subseteq Trades /\ insertSet' \subseteq Refs /\ cancelSet' \subseteq Orders
          /\ dropped' \subseteq Orders /\ returned' \subseteq Trades
      BY <1>3 DEF OnRspUserLoginNewDay
    <2>6. /\ notes' \in [Orders -> [inserted : Nat, failed : Nat]]
          /\ told' \in [Orders -> Seq(Trades)]
      BY <1>3 DEF OnRspUserLoginNewDay
    <2>7. TableType'
      BY <1>3, <2>1, <2>5, <2>6 DEF OnRspUserLoginNewDay, TableType
    <2>8. RestType'
      BY <1>3, <2>5, OrderTrackingAssumption DEF OnRspUserLoginNewDay, RestType
    <2>9. QED
      BY <1>3, <2>3, <2>4, <2>7, <2>8, Stutter DEF OnRspUserLoginNewDay, TypeInv
  <1>4. QED
    BY <1>1, <1>2, <1>3

LEMMA NextTypes == TypeInv /\ [Next]_vars => TypeInv'
  <1> SUFFICES ASSUME TypeInv, [Next]_vars PROVE TypeInv'
    OBVIOUS
  <1>1. CASE UNCHANGED vars
    BY <1>1, Stutter DEF vars, ctp, pend, notice, TypeInv
  <1>2. CASE Next
    BY <1>2, TypesOfOrders, TypesOfInsertion, TypesOfCancellation, TypesOfReturns,
       TypesOfQueries, TypesOfLogins DEF Next
  <1>3. QED
    BY <1>1, <1>2

LEMMA NextChain == ChainType /\ [Next]_vars => ChainType'
  <1> SUFFICES ASSUME ChainType, [Next]_vars PROVE ChainType'
    OBVIOUS
  <1>1. CASE UNCHANGED <<chain, errors>>
    BY <1>1 DEF ChainType
  <1>2. ASSUME NEW at, NEW S, Ask(at, S) PROVE ChainType'
    BY <1>2 DEF Ask, ChainType
  <1>3. CASE ReqQryOrder \/ OnRspQryOrder \/ OnRspQryTrade
    BY <1>2, <1>3 DEF ReqQryOrder, OnRspQryOrder, OnRspQryTrade
  <1>4. CASE OnRspError
    BY <1>4, OrderTrackingAssumption DEF OnRspError, ChainType
  <1>5. CASE OnRspUserLogin \/ OnRspUserLoginNewDay
    BY <1>5 DEF OnRspUserLogin, OnRspUserLoginNewDay, ChainType
  <1>6. CASE OnRtnOrder \/ OnRtnTrade \/ OnFrontDisconnected
    BY <1>1, <1>6 DEF OnRtnOrder, OnRtnTrade, OnFrontDisconnected
  <1>7. ASSUME NEW o \in Orders, \/ InsertElsewhere(o) \/ Queues(o) \/ Fills(o) \/ Cancels(o)
                                 \/ InsertOrder(o) \/ CancelOrder(o)
        PROVE  ChainType'
    BY <1>1, <1>7 DEF InsertElsewhere, Queues, Fills, Cancels, Moves, InsertOrder, CancelOrder
  <1>8. QED
    BY <1>1, <1>3, <1>4, <1>5, <1>6, <1>7 DEF Next, vars

\* In every reachable state every variable has its type: no row, return, login or
\* lost front takes a table or a count out of its range.
THEOREM TypeCorrect == Spec => []TypeOK
  <1>1. Spec => []TypeInv
    BY InitTypes, NextTypes, PTL DEF Spec
  <1>2. Init => ChainType
    BY OrderTrackingAssumption DEF Init, ChainType
  <1>3. QED
    BY <1>1, <1>2, NextChain, TypeInvImplies, PTL DEF Spec

-----------------------------------------------------------------------------
(* Rows and returns.  Those on their way are of orders that CTP has, and   *)
(* show an order accepted only if the exchange took it.                    *)

\* b are the orders at CTP, t those the exchange took.
Seen(r, b, t) ==
    /\ r.kind = "order" => b[r.order] # None /\ (Accepted(r.state) => r.order \in t)
    /\ r.kind = "trade" => b[r.trade[1]] # None

SeenInv ==
    /\ \A i \in 1..Len(line) : Seen(line[i], book, taken)
    /\ \A r \in query.rows : Seen(r, book, taken)
    /\ \A o \in Orders : Accepted(book[o]) => o \in taken
    /\ \A o \in Orders : rec[o] # None => book[o] # None

LEMMA StatesDiffer ==
    /\ ~Accepted(None) /\ ~Gone(None) /\ None.status = "none"
    /\ \A s : s.status # "none" => s # None
    /\ \A s : ~(Accepted(s) /\ Gone(s))
  BY DEF Accepted, Gone, None

LEMMA SeenStays ==
    ASSUME NEW r \in Rows, Seen(r, book, taken), taken \subseteq taken',
           \A p \in Orders : book[p] # None => book'[p] # None
    PROVE  Seen(r, book', taken')
  <1>1. CASE r \in AnyOrderRow
    BY <1>1, OrderRowFacts DEF Seen
  <1>2. CASE r \in AnyTradeRow
    BY <1>2, TradeRowFacts, TradeFacts DEF Seen
  <1>3. QED
    BY <1>1, <1>2 DEF Rows

LEMMA RowTypes ==
    ASSUME TypeInv
    PROVE  /\ \A i \in 1..Len(line) : line[i] \in Rows
           /\ \A r \in query.rows : r \in Rows
  <1>1. \A i \in 1..Len(line) : line[i] \in Rows
    BY DEF TypeInv, WireType
  <1>2. \A r \in query.rows : r \in Rows
    BY DEF TypeInv, QueryType, Quiet, Rows
  <1>3. QED
    BY <1>1, <1>2

LEMMA SeenMoves ==
    ASSUME TypeInv, SeenInv, NEW o \in Orders, NEW s \in State(o), s.status # "none",
           NEW more \in Seq(AnyTradeRow), Moves(o, s, more),
           \A i \in 1..Len(more) : more[i].trade[1] = o,
           taken \subseteq taken', Accepted(s) => o \in taken'
    PROVE  SeenInv'
  <1>1. \A p \in Orders : book'[p] = IF p = o THEN s ELSE book[p]
    BY DEF Moves, TypeInv, WireType
  <1>2. \A p \in Orders : book[p] # None => book'[p] # None
    BY <1>1, StatesDiffer
  <1>3. Seen(OrderRow(o, s), book', taken')
    BY <1>1, StatesDiffer DEF Seen, OrderRow
  <1>4. \A i \in 1..Len(more) : Seen(more[i], book', taken')
    <2>1. \A i \in 1..Len(more) : more[i].kind = "trade"
      BY TradeRowFacts, ElementOfSeq
    <2>2. book'[o] # None
      BY <1>1, StatesDiffer
    <2>3. QED
      BY <2>1, <2>2 DEF Seen
  <1>5. \A i \in 1..Len(line) : Seen(line[i], book', taken')
    BY <1>2, SeenStays, RowTypes DEF SeenInv
  <1>6. \A i \in 1..Len(line') : Seen(line'[i], book', taken')
    <2>1. line \in Seq(Rows) /\ more \in Seq(Rows) /\ OrderRow(o, s) \in Rows
      BY MakeOrderRow, SeqMonotonic DEF TypeInv, WireType, Rows
    <2>2. line' = Append(line, OrderRow(o, s)) \o more
      BY DEF Moves
    <2>3. /\ Len(line') = Len(line) + 1 + Len(more)
          /\ \A i \in 1..Len(line) : line'[i] = line[i]
          /\ line'[Len(line) + 1] = OrderRow(o, s)
          /\ \A i \in 1..Len(more) : line'[Len(line) + 1 + i] = more[i]
      BY <2>1, <2>2
    <2>4. ASSUME NEW i \in 1..Len(line') PROVE Seen(line'[i], book', taken')
      <3>1. Len(line) \in Nat /\ Len(more) \in Nat
        BY <2>1
      <3>2. CASE i \in 1..Len(line)
        BY <3>2, <2>3, <1>5
      <3>3. CASE i = Len(line) + 1
        BY <3>3, <2>3, <1>3
      <3>4. CASE i > Len(line) + 1
        <4> DEFINE j == i - (Len(line) + 1)
        <4>1. j \in 1..Len(more) /\ i = Len(line) + 1 + j
          BY <2>3, <2>4, <3>1, <3>4
        <4> HIDE DEF j
        <4>2. QED
          BY <4>1, <2>3, <1>4
      <3>5. QED
        BY <2>4, <3>1, <3>2, <3>3, <3>4
    <2>5. QED
      BY <2>4
  <1>7. \A r \in query'.rows : Seen(r, book', taken')
    BY <1>2, SeenStays, RowTypes DEF SeenInv, Moves
  <1>8. \A p \in Orders : Accepted(book'[p]) => p \in taken'
    BY <1>1 DEF SeenInv
  <1>9. \A p \in Orders : rec'[p] # None => book'[p] # None
    BY <1>2 DEF SeenInv, Moves, user
  <1>10. QED
    BY <1>6, <1>7, <1>8, <1>9 DEF SeenInv

(* Rows taken from CTP's book.                                             *)
LEMMA SeenRows ==
    ASSUME TypeInv, SeenInv
    PROVE  /\ \A r \in OrderRows : Seen(r, book, taken)
           /\ \A r \in TradeRows : Seen(r, book, taken)
  <1>1. \A r \in OrderRows : Seen(r, book, taken)
    BY StatesDiffer DEF OrderRows, OrderRow, Seen, SeenInv
  <1>2. ASSUME NEW r \in TradeRows PROVE Seen(r, book, taken)
    <2>1. PICK p \in Orders : book[p].status # "none" /\ \E t \in Traded(p) : r = TradeRow(t)
      BY <1>2 DEF TradeRows, Happened
    <2>2. r.kind = "trade" /\ r.trade[1] = p
      BY <2>1 DEF Traded, TradeRow
    <2>3. QED
      BY <2>1, <2>2, StatesDiffer DEF Seen
  <1>3. QED
    BY <1>1, <1>2

LEMMA SeenAsk ==
    ASSUME NEW at, NEW S, Ask(at, S), \A r \in S : Seen(r, book, taken)
    PROVE  \A r \in query'.rows : Seen(r, book, taken)
  BY DEF Ask, Quiet

LEMMA SeenTail ==
    ASSUME TypeInv, SeenInv, line # <<>>, line' = Tail(line)
    PROVE  /\ \A i \in 1..Len(line') : Seen(line'[i], book, taken)
           /\ Seen(Head(line), book, taken)
  <1>1. line \in Seq(Rows) /\ Len(line) \in Nat /\ Len(line) > 0
    BY DEF TypeInv, WireType
  <1>2. Head(line) = line[1] /\ Len(line') = Len(line) - 1
        /\ \A i \in 1..Len(line') : line'[i] = line[i + 1]
    BY <1>1, HeadTailProperties
  <1>3. \A i \in 1..Len(line') : i + 1 \in 1..Len(line)
    BY <1>1, <1>2
  <1>4. QED
    BY <1>1, <1>2, <1>3 DEF SeenInv

LEMMA InitSeen == Init => SeenInv
  BY StatesDiffer DEF Init, SeenInv, Quiet

\* o moves on to s, and the returns set out: a trade's after that of an order in s.
SetsOut(o, s, more) ==
    /\ s \in State(o) /\ s.status # "none" /\ Moves(o, s, more)
    /\ more \in Seq(AnyTradeRow) /\ \A i \in 1..Len(more) : more[i].trade[1] = o
    /\ more # <<>> => Accepted(s)

\* CTP's steps as the invariants see them.
LEMMA CTPMoves ==
    ASSUME TypeInv, SeenInv, NEW o \in Orders,
           InsertElsewhere(o) \/ Queues(o) \/ Fills(o) \/ Cancels(o)
    PROVE  /\ SeenInv'
           /\ taken \subseteq taken'
           /\ UNCHANGED <<user, pend, notice, asked>>
           /\ \A p \in Orders : book[p] # None => book'[p] # None
           /\ \A p \in Own : book[p] = None => book'[p] = None
           /\ \E s, more : SetsOut(o, s, more)
  <1> DEFINE Done(s, more) ==
        /\ SetsOut(o, s, more)
        /\ taken \subseteq taken' /\ (Accepted(s) => o \in taken')
        /\ o \in Own => book[o] # None
  <1>0. ASSUME NEW s, NEW more, Done(s, more)
        PROVE  /\ SeenInv'
               /\ taken \subseteq taken'
               /\ UNCHANGED <<user, pend, notice, asked>>
               /\ \A p \in Orders : book[p] # None => book'[p] # None
               /\ \A p \in Own : book[p] = None => book'[p] = None
               /\ \E st, tail : SetsOut(o, st, tail)
    <2>1. SeenInv'
      BY <1>0, SeenMoves DEF SetsOut
    <2>2. \A p \in Orders : book'[p] = IF p = o THEN s ELSE book[p]
      BY <1>0 DEF SetsOut, Moves, TypeInv, WireType
    <2>3. (\A p \in Orders : book[p] # None => book'[p] # None)
          /\ \A p \in Own : book[p] = None => book'[p] = None
      BY <1>0, <2>2, StatesDiffer DEF SetsOut, Own
    <2>4. QED
      BY <1>0, <2>1, <2>3 DEF SetsOut, Moves
  <1>1. book[o] \in State(o)
    BY DEF TypeInv, WireType
  <1>2. CASE InsertElsewhere(o)
    <2> DEFINE s == [status |-> "unknown", left |-> VolumeOf[o]]
    <2>1. s \in State(o) /\ s.status # "none" /\ ~Accepted(s)
      BY StateFacts DEF Statuses, Accepted
    <2>2. Done(s, <<>>)
      BY <1>2, <2>1, EmptyTail DEF InsertElsewhere, SetsOut
    <2>3. QED
      BY <2>2, <1>0
  <1>3. CASE Queues(o)
    <2> DEFINE s == [book[o] EXCEPT !.status = "queueing"]
    <2>1. s = [status |-> "queueing", left |-> book[o].left]
      BY <1>1, StateFacts DEF Statuses
    <2>2. s \in State(o) /\ s.status # "none" /\ book[o] # None
      BY <1>1, <1>3, <2>1, StateFacts, StatesDiffer DEF Statuses, Queues
    <2>3. Done(s, <<>>)
      BY <1>3, <2>2, EmptyTail DEF Queues, SetsOut
    <2>4. QED
      BY <2>3, <1>0
  <1>4. CASE Fills(o)
    <2> DEFINE left == book[o].left - 1
               s == [status |-> IF left = 0 THEN "traded" ELSE "queueing", left |-> left]
               t == <<o, VolumeOf[o] - left>>
               r == TradeRow(t)
    <2>1. left \in 0..VolumeOf[o] /\ r \in AnyTradeRow /\ r.trade[1] = o
      BY <1>4, FillFacts DEF Fills, TradeRow
    <2>2. s \in State(o) /\ s.status # "none" /\ Accepted(s)
      BY <2>1, StateFacts DEF Statuses, Accepted
    <2>3. Moves(o, s, <<r>>) /\ taken \subseteq taken' /\ o \in taken' /\ book[o] # None
      BY <1>4, StatesDiffer DEF Fills, Live
    <2>4. <<r>> \in Seq(AnyTradeRow) /\ \A i \in 1..Len(<<r>>) : <<r>>[i].trade[1] = o
      BY <2>1, EmptyTail
    <2> HIDE DEF s, r
    <2>5. Done(s, <<r>>)
      BY <2>2, <2>3, <2>4 DEF SetsOut
    <2>6. QED
      BY <2>5, <1>0
  <1>5. CASE Cancels(o)
    <2> DEFINE s == [book[o] EXCEPT !.status = "canceled"]
    <2>1. s = [status |-> "canceled", left |-> book[o].left]
      BY <1>1, StateFacts DEF Statuses
    <2>2. s \in State(o) /\ s.status # "none" /\ ~Accepted(s) /\ book[o] # None
      BY <1>1, <1>5, <2>1, StateFacts, StatesDiffer DEF Statuses, Cancels, Live, Accepted
    <2>3. Done(s, <<>>)
      BY <1>5, <2>2, EmptyTail DEF Cancels, SetsOut
    <2>4. QED
      BY <2>3, <1>0
  <1>6. QED
    BY <1>2, <1>3, <1>4, <1>5

LEMMA SeenInsertion ==
    ASSUME TypeInv, SeenInv, NEW o \in Orders, InsertOrder(o)
    PROVE  /\ SeenInv'
           /\ \A p \in Orders : book[p] # None => book'[p] # None
           /\ \A p \in Orders \ {o} : book'[p] = book[p]
  <1> DEFINE s == [status |-> "unknown", left |-> VolumeOf[o]]
  <1>1. CASE UNCHANGED <<book, line>>
    BY <1>1 DEF InsertOrder, SeenInv, user
  <1>2. CASE book' = [book EXCEPT ![o] = s] /\ line' = Append(line, OrderRow(o, s))
    <2>1. s \in State(o) /\ s.status # "none" /\ ~Accepted(s)
      BY StateFacts DEF Statuses, Accepted
    <2> HIDE DEF s
    <2>2. \A p \in Orders : book'[p] = IF p = o THEN s ELSE book[p]
      BY <1>2 DEF TypeInv, WireType
    <2>3. \A p \in Orders : book[p] # None => book'[p] # None
      BY <2>1, <2>2, StatesDiffer
    <2>4. taken' = taken /\ query' = query /\ rec' = rec
      BY DEF InsertOrder, user
    <2>5. \A i \in 1..Len(line') : Seen(line'[i], book', taken')
      <3>1. /\ Len(line') = Len(line) + 1 /\ Len(line) \in Nat
            /\ \A i \in 1..Len(line) : line'[i] = line[i]
            /\ line'[Len(line) + 1] = OrderRow(o, s)
        BY <1>2 DEF TypeInv, WireType
      <3>2. Seen(OrderRow(o, s), book', taken')
        BY <2>1, <2>2, StatesDiffer DEF Seen, OrderRow
      <3>3. \A i \in 1..Len(line) : Seen(line[i], book', taken')
        BY <2>3, <2>4, SeenStays, RowTypes DEF SeenInv
      <3>4. QED
        BY <3>1, <3>2, <3>3
    <2>6. \A r \in query'.rows : Seen(r, book', taken')
      BY <2>3, <2>4, SeenStays, RowTypes DEF SeenInv
    <2>7. \A p \in Orders : Accepted(book'[p]) => p \in taken'
      BY <2>1, <2>2, <2>4 DEF SeenInv
    <2>8. QED
      BY <2>2, <2>3, <2>4, <2>5, <2>6, <2>7 DEF SeenInv
  <1>3. QED
    BY <1>1, <1>2 DEF InsertOrder

(* A row that is handled is recorded.                                      *)
LEMMA SeenRecord ==
    ASSUME TypeInv, SeenInv, NEW o \in Orders, NEW s, rec' = [rec EXCEPT ![o] = s],
           book[o] # None
    PROVE  \A p \in Orders : rec'[p] # None => book[p] # None
  BY DEF SeenInv, TypeInv, TableType

LEMMA SeenNext == TypeInv /\ SeenInv /\ [Next]_vars => SeenInv'
  <1> SUFFICES ASSUME TypeInv, SeenInv, [Next]_vars PROVE SeenInv'
    OBVIOUS
  <1>1. CASE UNCHANGED vars
    BY <1>1 DEF vars, ctp, user, SeenInv
  <1>2. ASSUME NEW o \in Orders, InsertElsewhere(o) \/ Queues(o) \/ Fills(o) \/ Cancels(o)
        PROVE  SeenInv'
    BY <1>2, CTPMoves
  <1>3. ASSUME NEW o \in Orders, InsertOrder(o) PROVE SeenInv'
    BY <1>3, SeenInsertion
  <1>4. ASSUME NEW o \in Orders, CancelOrder(o) PROVE SeenInv'
    BY <1>4 DEF CancelOrder, ctp, user, SeenInv
  <1>5. CASE OnRtnOrder
    <2>1. Head(line) \in AnyOrderRow
      BY <1>5, TakenFromLine, RowKinds DEF OnRtnOrder
    <2>2. book[Head(line).order] # None /\ Head(line).order \in Orders
      BY <1>5, <2>1, OrderRowFacts, SeenTail DEF OnRtnOrder, Seen
    <2>3. \A p \in Orders : rec'[p] # None => book[p] # None
      BY <1>5, <2>2, SeenRecord DEF OnRtnOrder, UpdateOrder
    <2>4. QED
      BY <1>5, <2>3, SeenTail DEF OnRtnOrder, SeenInv
  <1>6. CASE OnRtnTrade
    BY <1>6, SeenTail DEF OnRtnTrade, UpdateTrade, SeenInv
  <1>7. CASE ReqQryOrder
    <2>1. \A r \in query'.rows : Seen(r, book, taken)
      BY <1>7, SeenAsk, SeenRows DEF ReqQryOrder
    <2>2. QED
      BY <1>7, <2>1 DEF ReqQryOrder, ctp, user, SeenInv
  <1>8. CASE OnRspQryOrder
    <2>1. PICK r \in query.rows :
            /\ UpdateOrder(r.order, r.state)
            /\ IF query.rows = {r} THEN Ask("trades", TradeRows)
                                   ELSE Ask("orders", query.rows \ {r})
      BY <1>8 DEF OnRspQryOrder
    <2>2. r \in AnyOrderRow /\ Seen(r, book, taken)
      BY <1>8 DEF OnRspQryOrder, TypeInv, QueryType, Quiet, SeenInv
    <2>3. book[r.order] # None /\ r.order \in Orders
      BY <2>2, OrderRowFacts DEF Seen
    <2>4. \A p \in Orders : rec'[p] # None => book[p] # None
      BY <2>1, <2>3, SeenRecord DEF UpdateOrder
    <2>5. \A q \in query.rows \ {r} : Seen(q, book, taken)
      BY DEF SeenInv
    <2>6. \A q \in query'.rows : Seen(q, book, taken)
      BY <2>1, <2>5, SeenAsk, SeenRows
    <2>7. QED
      BY <1>8, <2>4, <2>6 DEF OnRspQryOrder, ctp, SeenInv
  <1>9. CASE OnRspQryTrade
    <2>1. PICK r \in query.rows : UpdateTrade(r.trade) /\ Ask("trades", query.rows \ {r})
      BY <1>9 DEF OnRspQryTrade
    <2>2. \A q \in query.rows \ {r} : Seen(q, book, taken)
      BY DEF SeenInv
    <2>3. \A q \in query'.rows : Seen(q, book, taken)
      BY <2>1, <2>2, SeenAsk
    <2>4. QED
      BY <1>9, <2>1, <2>3 DEF OnRspQryTrade, UpdateTrade, ctp, SeenInv
  <1>10. CASE OnFrontDisconnected
    BY <1>10 DEF OnFrontDisconnected, user, Quiet, SeenInv
  <1>11. CASE OnRspUserLogin
    BY <1>11 DEF OnRspUserLogin, SeenInv
  <1>12. CASE OnRspUserLoginNewDay
    <2>1. line' = <<>> /\ query' = Quiet
      BY <1>12 DEF OnRspUserLoginNewDay, TypeInv, WireType
    <2>2. QED
      BY <1>12, <2>1, StatesDiffer DEF OnRspUserLoginNewDay, Quiet, SeenInv
  <1>13. CASE OnRspError
    BY <1>13 DEF OnRspError, ctp, user, Quiet, SeenInv
  <1>14. QED
    BY <1>1, <1>2, <1>3, <1>4, <1>5, <1>6, <1>7, <1>8, <1>9, <1>10, <1>11, <1>12, <1>13 DEF Next

-----------------------------------------------------------------------------
(* Answers.  insertOrderSet holds a reference until its order is answered: *)
(* an order that CTP has is in the set or was answered once, never both.   *)

Answered(o) == notes[o].inserted + notes[o].failed
Waits(o)    == RefOf[o] \in insertSet

AnswerOK(o) ==
    /\ book[o] = None => Answered(o) = 0
    /\ Waits(o) => Answered(o) = 0
    /\ book[o] # None /\ ~Waits(o) => Answered(o) = 1
    /\ notes[o].inserted > 0 => o \in taken
    /\ Accepted(rec[o]) => ~Waits(o)
    /\ Gone(rec[o]) /\ asked = 0 => ~Waits(o)

AnswerInv ==
    /\ \A o \in Own : Alone(o) => AnswerOK(o)
    /\ asked = 0 => cancelSet = {}

LEMMA AnswerImplies == TypeInv /\ SeenInv /\ AnswerInv => AnsweredOnce
  <1> SUFFICES ASSUME TypeInv, SeenInv, AnswerInv, NEW o \in Own, Alone(o)
               PROVE  /\ notes[o].inserted + notes[o].failed <= 1
                      /\ notes[o].inserted > 0 => o \in taken
                      /\ Accepted(rec[o]) => notes[o].inserted + notes[o].failed = 1
                      /\ Gone(rec[o]) /\ o \notin taken /\ asked = 0 => notes[o].failed = 1
    BY DEF AnsweredOnce
  <1>1. AnswerOK(o) /\ o \in Orders
    BY DEF AnswerInv, Own
  <1>2. notes[o].inserted \in Nat /\ notes[o].failed \in Nat
    BY <1>1 DEF TypeInv, TableType
  <1>3. Accepted(rec[o]) \/ Gone(rec[o]) => book[o] # None
    BY <1>1, StatesDiffer DEF SeenInv
  <1>4. QED
    BY <1>1, <1>2, <1>3 DEF AnswerOK, Answered

LEMMA InitAnswers == Init => AnswerInv
  <1> SUFFICES ASSUME Init PROVE AnswerInv
    OBVIOUS
  <1>1. ASSUME NEW o \in Own PROVE AnswerOK(o)
    <2>1. o \in Orders
      BY DEF Own
    <2>2. notes[o].inserted = 0 /\ notes[o].failed = 0 /\ book[o] = None /\ rec[o] = None /\ ~Waits(o)
      BY <2>1 DEF Init, Waits
    <2>3. QED
      BY <2>1, <2>2, StatesDiffer DEF Init, AnswerOK, Answered
  <1>2. QED
    BY <1>1 DEF Init, AnswerInv

(* A day long an order stays at CTP, so one that is alone was so before.   *)
LEMMA AloneBefore ==
    ASSUME NEW o \in Orders, Alone(o)',
           \A p \in Orders : book[p] # None => book'[p] # None,
           \A p \in Orders : keys[p] # NoKey => keys'[p] # NoKey \/ book[p] # None
    PROVE  Alone(o)
  BY DEF Alone

(* Steps that neither answer an order nor insert it.                       *)
LEMMA AnswersStay ==
    ASSUME TypeInv, SeenInv, AnswerInv,
           \A p \in Orders : book[p] # None => book'[p] # None,
           \A p \in Own : book[p] = None => book'[p] = None,
           \A p \in Orders : keys[p] # NoKey => keys'[p] # NoKey \/ book[p] # None,
           UNCHANGED <<insertSet, notes>>,
           \A p \in Orders : rec'[p] \in {rec[p], None},
           taken \subseteq taken',
           asked' = 0 => asked = 0,
           asked' = 0 => cancelSet' = cancelSet
    PROVE  AnswerInv'
  <1>1. ASSUME NEW o \in Own, Alone(o)' PROVE AnswerOK(o)'
    <2>1. o \in Orders
      BY DEF Own
    <2>2. AnswerOK(o)
      BY <1>1, <2>1, AloneBefore DEF AnswerInv
    <2>3. Waits(o)' = Waits(o) /\ Answered(o)' = Answered(o) /\ notes' = notes
      BY DEF Waits, Answered
    <2>4. /\ Accepted(rec'[o]) => Accepted(rec[o])
          /\ Gone(rec'[o]) => Gone(rec[o])
      BY <2>1, StatesDiffer
    <2>5. (book'[o] = None) = (book[o] = None)
      BY <2>1
    <2>6. QED
      BY <2>2, <2>3, <2>4, <2>5 DEF AnswerOK
  <1>2. asked' = 0 => cancelSet' = {}
    BY DEF AnswerInv
  <1>3. QED
    BY <1>1, <1>2 DEF AnswerInv

LEMMA AnswersInsertion ==
    ASSUME TypeInv, SeenInv, AnswerInv, NEW q \in Orders, InsertOrder(q)
    PROVE  AnswerInv'
  <1>1. ASSUME NEW o \in Own, Alone(o)' PROVE AnswerOK(o)'
    <2>1. o \in Orders
      BY DEF Own
    <2>2. keys'[q] # NoKey /\ \A p \in Orders \ {q} : keys'[p] = keys[p]
      <3>1. VolumeOf[q] # 0
        BY StateFacts
      <3>2. keys'[q] = [left |-> VolumeOf[q], sys |-> FALSE]
        BY DEF InsertOrder, TypeInv, KeyType
      <3>3. keys'[q] # NoKey
        BY <3>1, <3>2 DEF NoKey
      <3>4. QED
        BY <3>3 DEF InsertOrder
    <2>3. Alone(o)
      BY <1>1, <2>1, <2>2, SeenInsertion, AloneBefore
    <2>4. AnswerOK(o)
      BY <2>3 DEF AnswerInv
    <2>5. notes' = notes /\ taken' = taken /\ rec' = rec /\ asked' = asked /\ Answered(o)' = Answered(o)
      BY DEF InsertOrder, notice, user, Answered
    <2>6. CASE q = o
      <3>1. book[o] = None /\ Waits(o)'
        BY <2>6 DEF InsertOrder, Waits
      <3>2. Answered(o) = 0 /\ rec[o] = None
        BY <2>1, <2>4, <3>1 DEF AnswerOK, SeenInv
      <3>3. QED
        BY <2>4, <2>5, <3>1, <3>2, StatesDiffer DEF AnswerOK
    <2>7. CASE q # o
      <3>1. RefOf[q] # RefOf[o]
        BY <1>1, <2>2, <2>7 DEF Alone
      <3>2. Waits(o)' = Waits(o)
        BY <3>1 DEF InsertOrder, Waits
      <3>3. book'[o] = book[o]
        BY <2>1, <2>7, SeenInsertion
      <3>4. QED
        BY <2>4, <2>5, <3>2, <3>3 DEF AnswerOK
    <2>8. QED
      BY <2>6, <2>7
  <1>2. QED
    BY <1>1 DEF AnswerInv, InsertOrder

(* A row or a return of order q, which CTP has.                            *)
LEMMA AnswersRow ==
    ASSUME TypeInv, SeenInv, AnswerInv, NEW q \in Orders, NEW s \in State(q),
           book[q] # None, Accepted(s) => q \in taken, UpdateOrder(q, s),
           UNCHANGED <<book, taken, asked>>
    PROVE  AnswerInv'
  <1>0. /\ notes \in [Orders -> [inserted : Nat, failed : Nat]]
        /\ Answer(q, s)
        /\ notes' \in [Orders -> [inserted : Nat, failed : Nat]]
    BY AnswerFacts DEF UpdateOrder, TypeInv, TableType
  <1>1. \A p \in Orders \ {q} : keys'[p] = keys[p]
    BY DEF UpdateOrder, UpdateKey, TypeInv, KeyType
  <1>2. asked = 0 => cancelSet' = {}
    BY <1>0 DEF Answer, AnswerInv
  <1>3. rec'[q] = s /\ \A p \in Orders \ {q} : rec'[p] = rec[p]
    BY DEF UpdateOrder, TypeInv, TableType
  <1>4. ASSUME NEW o \in Own, Alone(o)' PROVE AnswerOK(o)'
    <2>1. o \in Orders /\ Alone(o)
      BY <1>1, <1>4, AloneBefore DEF Own
    <2>2. AnswerOK(o)
      BY <2>1 DEF AnswerInv
    <2>3. CASE q # o
      <3>1. RefOf[q] # RefOf[o]
        BY <2>1, <2>3 DEF Alone
      <3>2. Waits(o)' = Waits(o)
        BY <1>0, <3>1 DEF Answer, Waits
      <3>3. notes'[o] = notes[o] /\ rec'[o] = rec[o]
        BY <1>0, <1>3, <2>1, <2>3, AnswerFacts
      <3>4. QED
        BY <2>2, <3>2, <3>3 DEF AnswerOK, Answered
    <2>4. CASE q = o
      <3>1. /\ notes'[o].inserted = IF Waits(o) /\ Accepted(s)
                                     THEN notes[o].inserted + 1 ELSE notes[o].inserted
            /\ notes'[o].failed = IF Waits(o) /\ Gone(s) /\ o \notin cancelSet
                                   THEN notes[o].failed + 1 ELSE notes[o].failed
        BY <1>0, <2>4, AnswerFacts DEF Waits
      <3>2. Waits(o)' <=> (Waits(o) /\ ~(Accepted(s) \/ (Gone(s) /\ o \notin cancelSet)))
        BY <1>0, <2>4 DEF Answer, Waits
      <3>3. ~(Accepted(s) /\ Gone(s))
        BY StatesDiffer
      <3>4. notes[o].inserted \in Nat /\ notes[o].failed \in Nat
        BY <1>0, <2>1
      <3>5. book[o] # None /\ (Accepted(s) => o \in taken) /\ rec'[o] = s
        BY <1>3, <2>4
      <3>6. asked = 0 => cancelSet = {}
        BY DEF AnswerInv
      <3>7. (Waits(o) => Answered(o) = 0) /\ (~Waits(o) => Answered(o) = 1)
        BY <2>2, <3>5 DEF AnswerOK
      <3>8. CASE ~Waits(o)
        BY <2>2, <3>1, <3>2, <3>5, <3>7, <3>8 DEF AnswerOK, Answered
      <3>9. CASE Waits(o)
        <4>1. notes[o].inserted = 0 /\ notes[o].failed = 0
          BY <3>4, <3>7, <3>9 DEF Answered
        <4>2. (Waits(o)' => Answered(o)' = 0) /\ (~Waits(o)' => Answered(o)' = 1)
          BY <3>1, <3>2, <3>3, <3>9, <4>1 DEF Answered, Waits
        <4>3. notes'[o].inserted > 0 => o \in taken
          BY <3>1, <3>5, <4>1
        <4>4. (Accepted(s) => ~Waits(o)') /\ (Gone(s) /\ asked = 0 => ~Waits(o)')
          BY <3>2, <3>6
        <4>5. QED
          BY <3>5, <4>2, <4>3, <4>4 DEF AnswerOK
      <3>10. QED
        BY <3>8, <3>9
    <2>5. QED
      BY <2>3, <2>4
  <1>5. QED
    BY <1>2, <1>4 DEF AnswerInv

(* A row or a return of a trade, whose order CTP has.                      *)
LEMMA AnswersTrade ==
    ASSUME TypeInv, SeenInv, AnswerInv, NEW t \in Trades, book[t[1]] # None,
           UpdateTrade(t), UNCHANGED <<book, taken, asked>>
    PROVE  AnswerInv'
  <1>1. \A p \in Orders \ {t[1]} : keys'[p] = keys[p]
    BY DEF UpdateTrade, TypeInv, KeyType
  <1>2. \A p \in Orders : keys[p] # NoKey => keys'[p] # NoKey \/ book[p] # None
    BY <1>1
  <1>3. UNCHANGED <<insertSet, notes, rec, cancelSet>>
    BY DEF UpdateTrade
  <1>4. QED
    BY <1>2, <1>3, AnswersStay

LEMMA AnswersNext == TypeInv /\ SeenInv /\ AnswerInv /\ [Next]_vars => AnswerInv'
  <1> SUFFICES ASSUME TypeInv, SeenInv, AnswerInv, [Next]_vars PROVE AnswerInv'
    OBVIOUS
  <1>1. ASSUME UNCHANGED <<book, taken, insertSet, cancelSet, keys, notes, rec, asked>>
        PROVE  AnswerInv'
    BY <1>1, AnswersStay
  <1>2. CASE UNCHANGED vars
    BY <1>1, <1>2 DEF vars, ctp, user, pend, notice
  <1>3. ASSUME NEW o \in Orders, InsertElsewhere(o) \/ Queues(o) \/ Fills(o) \/ Cancels(o)
        PROVE  AnswerInv'
    <2>1. /\ taken \subseteq taken'
          /\ UNCHANGED <<rec, insertSet, cancelSet, keys, notes, asked>>
          /\ \A p \in Orders : book[p] # None => book'[p] # None
          /\ \A p \in Own : book[p] = None => book'[p] = None
      BY <1>3, CTPMoves DEF user, pend, notice
    <2>2. QED
      BY <2>1, AnswersStay
  <1>4. ASSUME NEW o \in Orders, InsertOrder(o) PROVE AnswerInv'
    BY <1>4, AnswersInsertion
  <1>5. ASSUME NEW o \in Orders, CancelOrder(o) PROVE AnswerInv'
    <2>1. asked' # 0
      BY <1>5 DEF CancelOrder, TypeInv, RestType
    <2>2. UNCHANGED <<book, taken, insertSet, keys, notes, rec>>
      BY <1>5 DEF CancelOrder, ctp, user, notice
    <2>3. QED
      BY <2>1, <2>2, AnswersStay
  <1>6. CASE OnRtnOrder
    <2>1. Head(line) \in AnyOrderRow /\ Seen(Head(line), book, taken)
      BY <1>6, TakenFromLine, RowKinds, SeenTail DEF OnRtnOrder
    <2>2. QED
      BY <1>6, <2>1, OrderRowFacts, AnswersRow DEF OnRtnOrder, Seen
  <1>7. CASE OnRtnTrade
    <2>1. Head(line) \in AnyTradeRow /\ Seen(Head(line), book, taken)
      BY <1>7, TakenFromLine, RowKinds, SeenTail DEF OnRtnTrade
    <2>2. QED
      BY <1>7, <2>1, TradeRowFacts, AnswersTrade DEF OnRtnTrade, Seen
  <1>8. CASE ReqQryOrder
    BY <1>1, <1>8 DEF ReqQryOrder, ctp, user, pend, notice
  <1>9. CASE OnRspQryOrder
    <2>1. PICK r \in query.rows : UpdateOrder(r.order, r.state)
      BY <1>9 DEF OnRspQryOrder
    <2>2. r \in AnyOrderRow /\ Seen(r, book, taken)
      BY <1>9 DEF OnRspQryOrder, TypeInv, QueryType, Quiet, SeenInv
    <2>3. QED
      BY <1>9, <2>1, <2>2, OrderRowFacts, AnswersRow DEF OnRspQryOrder, ctp, Seen
  <1>10. CASE OnRspQryTrade
    <2>1. PICK r \in query.rows : UpdateTrade(r.trade)
      BY <1>10 DEF OnRspQryTrade
    <2>2. r \in AnyTradeRow /\ Seen(r, book, taken)
      BY <1>10 DEF OnRspQryTrade, TypeInv, QueryType, Quiet, SeenInv
    <2>3. QED
      BY <1>10, <2>1, <2>2, TradeRowFacts, AnswersTrade DEF OnRspQryTrade, ctp, Seen
  <1>11. CASE OnFrontDisconnected
    BY <1>1, <1>11 DEF OnFrontDisconnected, user, pend, notice
  <1>12. CASE OnRspUserLogin
    <2>1. \A p \in Orders : rec'[p] \in {rec[p], None}
      BY <1>12 DEF OnRspUserLogin
    <2>2. QED
      BY <1>12, <2>1, AnswersStay DEF OnRspUserLogin, pend, notice
  <1>13. CASE OnRspUserLoginNewDay
    <2>1. ASSUME NEW o \in Own PROVE AnswerOK(o)'
      <3>1. o \in Orders
        BY DEF Own
      <3>2. /\ notes'[o].inserted = 0 /\ notes'[o].failed = 0
            /\ book'[o] = None /\ rec'[o] = None /\ ~Waits(o)'
        BY <1>13, <3>1 DEF OnRspUserLoginNewDay, Waits
      <3>3. QED
        BY <3>2, StatesDiffer DEF AnswerOK, Answered
    <2>2. QED
      BY <1>13, <2>1 DEF OnRspUserLoginNewDay, AnswerInv
  <1>14. CASE OnRspError
    BY <1>1, <1>14 DEF OnRspError, ctp, user, pend, notice
  <1>15. QED
    BY <1>2, <1>3, <1>4, <1>5, <1>6, <1>7, <1>8, <1>9, <1>10, <1>11, <1>12, <1>13, <1>14 DEF Next

\* An order whose reference no other session uses is answered at most once, told
\* inserted only if the exchange took it, and told by the time its record shows
\* the outcome, whatever rows and returns come, in any order and any number of times.
THEOREM AnsweredCorrect == Spec => []AnsweredOnce
  <1> DEFINE Inv == TypeInv /\ SeenInv /\ AnswerInv
  <1>1. Init => Inv
    BY InitTypes, InitSeen, InitAnswers
  <1>2. Inv /\ [Next]_vars => Inv'
    BY NextTypes, SeenNext, AnswersNext
  <1>3. Inv => AnsweredOnce
    BY AnswerImplies
  <1>4. QED
    BY <1>1, <1>2, <1>3, PTL DEF Spec
-----------------------------------------------------------------------------
(* Trades.  Every notice of a trade takes a lot from the entry of its      *)
(* order, so an entry and the notices make up the order's lots, and an     *)
(* entry that is gone was used up or went with a cancellation.  The return *)
(* of a trade comes after that of its order, which gives the entry the     *)
(* exchange's id.                                                          *)

\* No more trades of o need telling.
Closed(o) == o \in dropped \/ Len(told[o]) >= VolumeOf[o]

EntryOK(o) ==
    /\ keys[o] # NoKey => Len(told[o]) + keys[o].left = VolumeOf[o]
    /\ book[o] # None /\ keys[o] = NoKey => Closed(o)
    /\ book[o] = None => told[o] = <<>>

EntryInv == \A o \in Own : EntryOK(o)

\* A return of a trade of o would be told, if it need be.
Ready(o) == keys[o].sys \/ Closed(o)

Accepts(r, o) == r.kind = "order" /\ r.order = o /\ Accepted(r.state)

ArriveInv ==
    \A i \in 1..Len(line), o \in Own : line[i].kind = "trade" /\ line[i].trade[1] = o =>
        Ready(o) \/ \E j \in 1..(i - 1) : Accepts(line[j], o)

TradeInv == EntryInv /\ ArriveInv /\ TradesTold

LEMMA InitTrades == Init => TradeInv
  <1> SUFFICES ASSUME Init PROVE TradeInv
    OBVIOUS
  <1>1. \A o \in Orders : book[o] = None /\ keys[o] = NoKey /\ told[o] = <<>>
    BY DEF Init
  <1>2. line = <<>> /\ returned = {}
    BY DEF Init
  <1>3. EntryInv
    BY <1>1 DEF EntryInv, EntryOK, Own
  <1>4. ArriveInv
    BY <1>2 DEF ArriveInv
  <1>5. QED
    BY <1>2, <1>3, <1>4 DEF TradeInv, TradesTold

LEMMA ToldFacts ==
    ASSUME TypeInv, NEW o \in Orders
    PROVE  /\ told[o] \in Seq(Trades) /\ Len(told[o]) \in Nat
           /\ VolumeOf[o] \in Nat /\ VolumeOf[o] > 0
           /\ keys[o].left \in Nat /\ keys[o].sys \in BOOLEAN
           /\ DOMAIN keys[o] = {"left", "sys"}
           /\ keys[o].sys => keys[o] # NoKey /\ keys[o].left > 0
  <1>1. told[o] \in Seq(Trades) /\ Len(told[o]) \in Nat
    BY DEF TypeInv, TableType
  <1>2. VolumeOf[o] \in Nat /\ VolumeOf[o] > 0
    BY StateFacts
  <1>3. keys[o].left \in Nat /\ keys[o].sys \in BOOLEAN /\ DOMAIN keys[o] = {"left", "sys"}
    BY <1>2 DEF TypeInv, KeyType
  <1>4. keys[o].sys => keys[o] # NoKey
    BY DEF NoKey
  <1>5. QED
    BY <1>1, <1>2, <1>3, <1>4 DEF TypeInv, KeyType

(* Steps that neither tell a trade nor touch an entry.                     *)
LEMMA EntriesStay ==
    ASSUME TradeInv, UNCHANGED <<keys, told, dropped, returned>>,
           \A p \in Own : (book'[p] = None) = (book[p] = None)
    PROVE  /\ EntryInv' /\ TradesTold'
           /\ \A o : Ready(o)' = Ready(o)
  <1>1. \A o : Closed(o)' = Closed(o)
    BY DEF Closed
  <1>2. \A o : Ready(o)' = Ready(o)
    BY <1>1 DEF Ready
  <1>3. \A o \in Own : EntryOK(o)'
    BY <1>1 DEF TradeInv, EntryInv, EntryOK
  <1>4. TradesTold'
    BY DEF TradeInv, TradesTold
  <1>5. QED
    BY <1>2, <1>3, <1>4 DEF EntryInv

LEMMA TradesStay ==
    ASSUME TradeInv, UNCHANGED <<keys, told, dropped, returned>>, line' \in {line, <<>>},
           \A p \in Own : (book'[p] = None) = (book[p] = None)
    PROVE  TradeInv'
  <1>1. EntryInv' /\ TradesTold' /\ \A o : Ready(o)' = Ready(o)
    BY EntriesStay
  <1>2. ArriveInv'
    <2>1. CASE line' = line
      BY <1>1, <2>1 DEF TradeInv, ArriveInv
    <2>2. CASE line' = <<>>
      BY <2>2 DEF ArriveInv
    <2>3. QED
      BY <2>1, <2>2
  <1>3. QED
    BY <1>1, <1>2 DEF TradeInv

LEMMA ArriveGoal ==
    ASSUME \A i \in 1..Len(line'), o \in Own :
             line'[i].kind = "trade" /\ line'[i].trade[1] = o =>
                 Ready(o)' \/ \E j \in 1..(i - 1) : Accepts(line'[j], o)
    PROVE  ArriveInv'
  BY DEF ArriveInv, Accepts, Accepted

(* Returns set out behind those on their way.                              *)
LEMMA ArriveMore ==
    ASSUME TypeInv, ArriveInv, NEW q \in Orders, NEW s \in State(q),
           NEW more \in Seq(AnyTradeRow),
           line' = Append(line, OrderRow(q, s)) \o more,
           \A i \in 1..Len(more) : more[i].trade[1] = q,
           more # <<>> => Accepted(s),
           \A o \in Own : Ready(o) => Ready(o)'
    PROVE  ArriveInv'
  <1>1. line \in Seq(Rows) /\ more \in Seq(Rows) /\ OrderRow(q, s) \in Rows
    BY MakeOrderRow, SeqMonotonic DEF TypeInv, WireType, Rows
  <1>2. /\ Len(line') = Len(line) + 1 + Len(more)
        /\ \A i \in 1..Len(line) : line'[i] = line[i]
        /\ line'[Len(line) + 1] = OrderRow(q, s)
        /\ \A i \in 1..Len(more) : line'[Len(line) + 1 + i] = more[i]
    BY <1>1
  <1>3. Len(line) \in Nat /\ Len(more) \in Nat
    BY <1>1
  <1>4. SUFFICES ASSUME NEW i \in 1..Len(line'), NEW o \in Own,
                        line'[i].kind = "trade", line'[i].trade[1] = o
                 PROVE  Ready(o)' \/ \E j \in 1..(i - 1) : Accepts(line'[j], o)
    BY ArriveGoal
  <1>5. CASE i \in 1..Len(line)
    <2>1. line'[i] = line[i]
      BY <1>2, <1>5
    <2>2. Ready(o) \/ \E j \in 1..(i - 1) : Accepts(line[j], o)
      BY <1>4, <1>5, <2>1 DEF ArriveInv
    <2>3. \A j \in 1..(i - 1) : line'[j] = line[j]
      BY <1>2, <1>3, <1>5
    <2>4. QED
      BY <1>4, <2>1, <2>2, <2>3
  <1>6. CASE i = Len(line) + 1
    BY <1>2, <1>4, <1>6 DEF OrderRow
  <1>7. CASE i > Len(line) + 1
    <2> DEFINE k == i - (Len(line) + 1)
    <2>1. k \in 1..Len(more) /\ i = Len(line) + 1 + k
      BY <1>2, <1>3, <1>7
    <2>2. line'[i] = more[k] /\ more # <<>>
      <3> HIDE DEF k
      <3>1. QED
        BY <2>1, <1>2
    <2>3. o = q /\ Accepted(s)
      <3> HIDE DEF k
      <3>1. QED
        BY <1>4, <2>1, <2>2
    <2>4. Len(line) + 1 \in 1..(i - 1)
      BY <1>3, <1>7
    <2>5. Accepts(line'[Len(line) + 1], q)
      BY <1>2, <2>3 DEF Accepts, OrderRow
    <2>6. QED
      BY <2>3, <2>4, <2>5
  <1>8. QED
    BY <1>2, <1>3, <1>5, <1>6, <1>7

(* The head of the line is taken: a trade that waited for it is ready.     *)
LEMMA ArriveTail ==
    ASSUME TypeInv, ArriveInv, line # <<>>, line' = Tail(line),
           \A p \in Own : Ready(p) \/ Accepts(Head(line), p) => Ready(p)'
    PROVE  ArriveInv'
  <1>1. line \in Seq(Rows) /\ Len(line) \in Nat /\ Len(line) > 0
    BY DEF TypeInv, WireType
  <1>2. Head(line) = line[1] /\ Len(line') = Len(line) - 1
        /\ \A i \in 1..Len(line') : line'[i] = line[i + 1]
    BY <1>1, HeadTailProperties
  <1>3. SUFFICES ASSUME NEW i \in 1..Len(line'), NEW o \in Own,
                        line'[i].kind = "trade", line'[i].trade[1] = o
                 PROVE  Ready(o)' \/ \E j \in 1..(i - 1) : Accepts(line'[j], o)
    BY ArriveGoal
  <1>4. i + 1 \in 1..Len(line) /\ line'[i] = line[i + 1]
    BY <1>1, <1>2
  <1>5. Ready(o) \/ \E j \in 1..i : Accepts(line[j], o)
    <2>1. Ready(o) \/ \E j \in 1..((i + 1) - 1) : Accepts(line[j], o)
      BY <1>3, <1>4 DEF ArriveInv
    <2>2. (i + 1) - 1 = i
      BY <1>1, <1>2
    <2>3. QED
      BY <2>1, <2>2
  <1>6. CASE Ready(o)
    BY <1>3, <1>6
  <1>7. CASE \E j \in 1..i : Accepts(line[j], o)
    <2>1. PICK j \in 1..i : Accepts(line[j], o)
      BY <1>7
    <2>2. CASE j = 1
      BY <1>2, <1>3, <2>1, <2>2
    <2>3. CASE j > 1
      <3>1. j - 1 \in 1..(i - 1) /\ j - 1 \in 1..Len(line')
        BY <1>1, <1>2, <2>3
      <3>2. line'[j - 1] = line[(j - 1) + 1] /\ (j - 1) + 1 = j
        BY <1>2, <3>1
      <3>3. Accepts(line'[j - 1], o)
        BY <2>1, <3>2
      <3>4. QED
        BY <3>1, <3>3
    <2>4. QED
      BY <1>1, <1>2, <2>2, <2>3
  <1>8. QED
    BY <1>5, <1>6, <1>7

(* A row or a return of order q, which CTP has.                            *)
LEMMA TradesRow ==
    ASSUME TypeInv, TradeInv, NEW q \in Orders, NEW s \in State(q),
           book[q] # None, UpdateOrder(q, s), UNCHANGED <<book, returned>>
    PROVE  /\ EntryInv' /\ TradesTold'
           /\ \A p \in Own : Ready(p) => Ready(p)'
           /\ q \in Own /\ Accepted(s) => Ready(q)'
  <1>1. /\ told' = told /\ dropped \subseteq dropped'
        /\ \A p \in Orders \ {q} : keys'[p] = keys[p]
    BY DEF UpdateOrder, UpdateKey, TypeInv, KeyType
  <1>2. \A p : Closed(p) => Closed(p)'
    BY <1>1 DEF Closed
  <1>3. CASE Gone(s)
    <2>1. keys'[q] = NoKey /\ (keys[q] # NoKey => q \in dropped') /\ ~Accepted(s)
      BY <1>3, StatesDiffer DEF UpdateOrder, UpdateKey, TypeInv, KeyType
    <2>2. ASSUME q \in Own PROVE Closed(q)'
      BY <1>2, <2>1, <2>2 DEF TradeInv, EntryInv, EntryOK, Closed
    <2>3. EntryInv'
      BY <1>1, <1>2, <2>1, <2>2 DEF TradeInv, EntryInv, EntryOK, Own
    <2>4. \A p \in Own : Ready(p) => Ready(p)'
      BY <1>1, <1>2, <2>2 DEF Ready, Own
    <2>5. QED
      BY <1>1, <1>2, <2>1, <2>3, <2>4 DEF TradeInv, TradesTold
  <1>4. CASE ~Gone(s)
    <2>1. keys'[q] = IF Accepted(s) /\ keys[q] # NoKey THEN [keys[q] EXCEPT !.sys = TRUE] ELSE keys[q]
      BY <1>4 DEF UpdateOrder, UpdateKey, TypeInv, KeyType
    <2>2. DOMAIN keys[q] = {"left", "sys"} /\ keys[q].sys \in BOOLEAN
      BY ToldFacts
    <2>3. /\ [keys[q] EXCEPT !.sys = TRUE].left = keys[q].left
          /\ [keys[q] EXCEPT !.sys = TRUE].sys = TRUE
          /\ NoKey.sys = FALSE
      BY <2>2 DEF NoKey
    <2>4. /\ keys'[q] # NoKey => keys[q] # NoKey /\ keys'[q].left = keys[q].left
          /\ keys'[q] = NoKey => keys[q] = NoKey
          /\ keys[q].sys => keys'[q].sys
          /\ Accepted(s) => keys'[q].sys \/ keys[q] = NoKey
      BY <2>1, <2>3
    <2>5. EntryInv'
      <3>1. ASSUME NEW o \in Own PROVE EntryOK(o)'
        <4>1. EntryOK(o) /\ o \in Orders
          BY DEF TradeInv, EntryInv, Own
        <4>2. CASE o = q
          BY <1>1, <1>2, <2>4, <4>1, <4>2 DEF EntryOK
        <4>3. CASE o # q
          BY <1>1, <1>2, <4>1, <4>3 DEF EntryOK
        <4>4. QED
          BY <4>2, <4>3
      <3>2. QED
        BY <3>1 DEF EntryInv
    <2>6. \A p \in Own : Ready(p) => Ready(p)'
      BY <1>1, <1>2, <2>4 DEF Ready, Own
    <2>7. q \in Own /\ Accepted(s) => Ready(q)'
      BY <1>2, <2>4 DEF Ready, TradeInv, EntryInv, EntryOK
    <2>8. QED
      BY <1>1, <1>2, <2>5, <2>6, <2>7 DEF TradeInv, TradesTold
  <1>5. QED
    BY <1>3, <1>4

(* A row or a return of a trade: told once more if the entry knows it.     *)
LEMMA TradesTrade ==
    ASSUME TypeInv, TradeInv, NEW t \in Trades, book[t[1]] # None, UpdateTrade(t),
           UNCHANGED book, returned' \in {returned, returned \cup {t}},
           t \in returned' /\ t[1] \in Own => t \in returned \/ Ready(t[1])
    PROVE  EntryInv' /\ TradesTold' /\ \A p \in Own : Ready(p) => Ready(p)'
  <1> DEFINE o == t[1]
  <1>1. o \in Orders
    BY TradeFacts
  <1>2. dropped' = dropped /\ \A p \in Orders \ {o} : keys'[p] = keys[p] /\ told'[p] = told[p]
    BY DEF UpdateTrade, TypeInv, KeyType, TableType
  <1>3. /\ told[o] \in Seq(Trades) /\ Len(told[o]) \in Nat
        /\ VolumeOf[o] \in Nat
        /\ keys[o].left \in Nat /\ keys[o].sys \in BOOLEAN
        /\ DOMAIN keys[o] = {"left", "sys"}
        /\ keys[o].sys => keys[o] # NoKey /\ keys[o].left > 0
    BY <1>1, ToldFacts
  <1> DEFINE known == keys[o].sys /\ o \in Named
  <1>4. CASE ~known
    <2>1. keys'[o] = keys[o] /\ told' = told
      BY <1>1, <1>4 DEF UpdateTrade, TypeInv, KeyType
    <2>2. \A p \in Own : keys'[p] = keys[p]
      BY <1>2, <2>1 DEF Own
    <2>3. (\A p : Closed(p)' = Closed(p)) /\ \A p \in Own : Ready(p)' = Ready(p)
      BY <1>2, <2>1, <2>2 DEF Closed, Ready
    <2>4. EntryInv'
      BY <2>1, <2>2, <2>3 DEF TradeInv, EntryInv, EntryOK
    <2>5. o \in Named /\ t \in returned' => t \in returned \/ Closed(o)
      BY <1>4, OrderTrackingAssumption DEF Ready
    <2>6. TradesTold'
      BY <1>2, <2>1, <2>5 DEF TradeInv, TradesTold, Closed
    <2>7. QED
      BY <2>3, <2>4, <2>6
  <1>5. CASE known
    <2>1. told'[o] = Append(told[o], t)
      BY <1>1, <1>5 DEF UpdateTrade, TypeInv, TableType
    <2>2. /\ Len(told'[o]) = Len(told[o]) + 1
          /\ \A u \in Range(told[o]) : u \in Range(told'[o])
          /\ t \in Range(told'[o])
      <3>1. /\ Len(told'[o]) = Len(told[o]) + 1
            /\ \A i \in 1..Len(told[o]) : told'[o][i] = told[o][i]
            /\ told'[o][Len(told[o]) + 1] = t
            /\ DOMAIN told[o] = 1..Len(told[o])
            /\ DOMAIN told'[o] = 1..(Len(told[o]) + 1)
        BY <1>3, <2>1, AppendProperties
      <3>2. /\ \A i \in 1..Len(told[o]) : i \in 1..(Len(told[o]) + 1)
            /\ Len(told[o]) + 1 \in 1..(Len(told[o]) + 1)
        BY <1>3
      <3> HIDE DEF o
      <3>3. QED
        BY <3>1, <3>2 DEF Range
    <2>3. \/ keys[o].left = 1 /\ keys'[o] = NoKey
          \/ /\ keys[o].left > 1
             /\ keys'[o] = [keys[o] EXCEPT !.left = keys[o].left - 1]
      <3>1. CASE keys[o].left = 1
        BY <1>1, <1>5, <3>1 DEF UpdateTrade, TypeInv, KeyType
      <3>2. CASE keys[o].left > 1
        <4>1. ~(~known) /\ keys[o].left # 1
          BY <1>5, <3>2
        <4>2. QED
          BY <1>1, <1>5, <3>2, <4>1 DEF UpdateTrade, TypeInv, KeyType
      <3>3. QED
        BY <1>3, <1>5, <3>1, <3>2
    <2>4. /\ [keys[o] EXCEPT !.left = keys[o].left - 1].left = keys[o].left - 1
          /\ [keys[o] EXCEPT !.left = keys[o].left - 1].sys = keys[o].sys
      BY <1>3
    <2>5. \A p \in Own : Closed(p) => Closed(p)'
      <3> HIDE DEF o
      <3>1. Closed(o) => Closed(o)'
        BY <1>2, <1>3, <2>2 DEF Closed
      <3>2. QED
        BY <1>2, <3>1 DEF Closed, Own
    <2>6. o \in Own => EntryOK(o)' /\ Ready(o)'
      <3>1. SUFFICES ASSUME o \in Own PROVE EntryOK(o)' /\ Ready(o)'
        OBVIOUS
      <3>2. Len(told[o]) + keys[o].left = VolumeOf[o] /\ book'[o] # None
        BY <1>3, <1>5, <3>1 DEF TradeInv, EntryInv, EntryOK
      <3>3. CASE keys[o].left = 1
        <4>1. keys'[o] = NoKey
          BY <2>3, <3>3
        <4>2. Closed(o)'
          BY <1>3, <2>2, <3>2, <3>3 DEF Closed
        <4>3. QED
          BY <3>2, <4>1, <4>2 DEF EntryOK, Ready
      <3>4. CASE keys[o].left > 1
        <4>1. keys'[o].left = keys[o].left - 1 /\ keys'[o].sys
          <5>1. keys[o].left # 1
            BY <3>4
          <5>2. keys'[o] = [keys[o] EXCEPT !.left = keys[o].left - 1]
            BY <2>3, <5>1
          <5>3. QED
            BY <1>5, <2>4, <5>2
        <4>2. keys'[o] # NoKey
          BY <4>1 DEF NoKey
        <4>3. Len(told'[o]) + keys'[o].left = VolumeOf[o]
          <5> DEFINE a == Len(told[o])
                     b == keys[o].left
          <5>1. a \in Nat /\ b \in Nat /\ a + b = VolumeOf[o]
            BY <1>3, <3>2
          <5>2. Len(told'[o]) = a + 1 /\ keys'[o].left = b - 1
            BY <2>2, <4>1
          <5> HIDE DEF a, b
          <5>3. (a + 1) + (b - 1) = VolumeOf[o]
            BY <5>1
          <5>4. QED
            BY <5>2, <5>3
        <4>4. QED
          BY <3>2, <4>1, <4>2, <4>3 DEF EntryOK, Ready
      <3>5. QED
        BY <1>3, <1>5, <3>3, <3>4
    <2> HIDE DEF o
    <2>7. EntryInv'
      <3>1. \A p \in Own \ {o} : EntryOK(p)'
        BY <1>2, <2>5 DEF TradeInv, EntryInv, EntryOK, Own
      <3>2. QED
        BY <2>6, <3>1 DEF EntryInv
    <2>8. \A p \in Own : Ready(p) => Ready(p)'
      BY <1>2, <2>5, <2>6 DEF Ready, Own
    <2>9. TradesTold'
      <3>1. SUFFICES ASSUME NEW u \in returned', u[1] \in Named
                     PROVE  u \in Range(told'[u[1]]) \/ Closed(u[1])'
        BY DEF TradesTold, Closed
      <3>2. u[1] \in Orders /\ u[1] \in Own
        BY <3>1, OrderTrackingAssumption DEF Own
      <3>3. CASE u = t
        BY <2>2, <3>3 DEF o
      <3>4. CASE u # t
        <4>1. u \in Range(told[u[1]]) \/ Closed(u[1])
          BY <3>1, <3>4 DEF TradeInv, TradesTold, Closed
        <4>2. u \in Range(told[u[1]]) => u \in Range(told'[u[1]])
          BY <1>2, <2>2, <3>2
        <4>3. QED
          BY <2>5, <3>1, <3>2, <4>1, <4>2
      <3>5. QED
        BY <3>3, <3>4
    <2>10. QED
      BY <2>7, <2>8, <2>9
  <1>6. QED
    BY <1>4, <1>5

LEMMA TradesInsertion ==
    ASSUME TypeInv, SeenInv, TradeInv, NEW q \in Orders, InsertOrder(q)
    PROVE  TradeInv'
  <1>1. UNCHANGED <<told, dropped, returned>> /\ book[q] = None /\ keys[q] = NoKey
    BY DEF InsertOrder, notice
  <1>2. keys'[q] = [left |-> VolumeOf[q], sys |-> FALSE] /\ \A p \in Orders \ {q} : keys'[p] = keys[p]
    BY DEF InsertOrder, TypeInv, KeyType
  <1>3. \A p : Closed(p)' = Closed(p)
    BY <1>1 DEF Closed
  <1>4. \A p \in Own : Ready(p) => Ready(p)'
    BY <1>1, <1>2, <1>3 DEF Ready, Own, NoKey
  <1>5. VolumeOf[q] \in Nat /\ VolumeOf[q] # 0
    BY ToldFacts
  <1>6. EntryInv'
    <2>1. keys'[q] # NoKey /\ keys'[q].left = VolumeOf[q]
      BY <1>2, <1>5 DEF NoKey
    <2>2. ASSUME NEW o \in Own PROVE EntryOK(o)'
      <3>1. EntryOK(o) /\ o \in Orders
        BY DEF TradeInv, EntryInv, Own
      <3>2. CASE o = q
        <4>1. told[o] = <<>> /\ Len(told[o]) = 0
          BY <1>1, <3>1, <3>2 DEF EntryOK
        <4>2. QED
          BY <1>1, <1>5, <2>1, <3>2, <4>1 DEF EntryOK
      <3>3. CASE o # q
        <4>1. book'[o] = book[o]
          BY <3>1, <3>3, SeenInsertion
        <4>2. QED
          BY <1>1, <1>2, <1>3, <3>1, <3>3, <4>1 DEF EntryOK
      <3>4. QED
        BY <3>2, <3>3
    <2>3. QED
      BY <2>2 DEF EntryInv
  <1>7. ArriveInv'
    <2>1. CASE UNCHANGED <<book, line>>
      BY <1>4, <2>1 DEF TradeInv, ArriveInv
    <2>2. CASE line' = Append(line, OrderRow(q, [status |-> "unknown", left |-> VolumeOf[q]]))
      <3> DEFINE s == [status |-> "unknown", left |-> VolumeOf[q]]
      <3>1. s \in State(q)
        BY StateFacts DEF Statuses
      <3>2. OrderRow(q, s) \in Rows /\ line \in Seq(Rows)
        BY <3>1, MakeOrderRow DEF Rows, TypeInv, WireType
      <3> HIDE DEF s
      <3>3. Append(line, OrderRow(q, s)) \in Seq(Rows)
        BY <3>2, AppendProperties
      <3>4. Append(line, OrderRow(q, s)) \o <<>> = Append(line, OrderRow(q, s))
        BY <3>3, ConcatEmptySeq
      <3>5. line' = Append(line, OrderRow(q, s)) \o <<>>
        BY <2>2, <3>4 DEF s
      <3>6. <<>> \in Seq(AnyTradeRow) /\ \A i \in 1..Len(<<>>) : <<>>[i].trade[1] = q
        OBVIOUS
      <3>7. QED
        BY <1>4, <3>1, <3>5, <3>6, ArriveMore DEF TradeInv
    <2>3. QED
      BY <2>1, <2>2 DEF InsertOrder
  <1>8. TradesTold'
    BY <1>1 DEF TradeInv, TradesTold
  <1>9. QED
    BY <1>6, <1>7, <1>8 DEF TradeInv

LEMMA TradesNext == TypeInv /\ SeenInv /\ TradeInv /\ [Next]_vars => TradeInv'
  <1> SUFFICES ASSUME TypeInv, SeenInv, TradeInv, [Next]_vars PROVE TradeInv'
    OBVIOUS
  <1>1. ASSUME UNCHANGED <<book, line, keys, told, dropped, returned>> PROVE TradeInv'
    BY <1>1, TradesStay
  <1>2. CASE UNCHANGED vars
    BY <1>1, <1>2 DEF vars, ctp, pend, notice
  <1>3. ASSUME NEW o \in Orders, InsertElsewhere(o) \/ Queues(o) \/ Fills(o) \/ Cancels(o)
        PROVE  TradeInv'
    <2>1. /\ UNCHANGED <<keys, told, dropped, returned>>
          /\ \A p \in Own : (book'[p] = None) = (book[p] = None)
      BY <1>3, CTPMoves DEF pend, notice, Own
    <2>2. PICK s, more : SetsOut(o, s, more)
      BY <1>3, CTPMoves
    <2>3. EntryInv' /\ TradesTold' /\ \A p : Ready(p)' = Ready(p)
      BY <2>1, EntriesStay
    <2>4. ArriveInv'
      BY <2>2, <2>3, ArriveMore DEF SetsOut, Moves, TradeInv
    <2>5. QED
      BY <2>3, <2>4 DEF TradeInv
  <1>4. ASSUME NEW o \in Orders, InsertOrder(o) PROVE TradeInv'
    BY <1>4, TradesInsertion
  <1>5. ASSUME NEW o \in Orders, CancelOrder(o) PROVE TradeInv'
    BY <1>1, <1>5 DEF CancelOrder, ctp, notice
  <1>6. CASE OnRtnOrder
    <2>1. Head(line) \in AnyOrderRow /\ Seen(Head(line), book, taken)
      BY <1>6, TakenFromLine, RowKinds, SeenTail DEF OnRtnOrder
    <2>2. PICK q \in Orders : Head(line).order = q
      BY <2>1, OrderRowFacts
    <2>3. PICK s \in State(q) : Head(line).state = s
      BY <2>1, <2>2, OrderRowFacts
    <2>4. UpdateOrder(q, s) /\ book[q] # None
      BY <1>6, <2>1, <2>2, <2>3, OrderRowFacts DEF OnRtnOrder, Seen
    <2>5. line # <<>> /\ line' = Tail(line) /\ UNCHANGED <<book, returned>>
      BY <1>6 DEF OnRtnOrder
    <2>6. /\ EntryInv' /\ TradesTold'
          /\ \A p \in Own : Ready(p) => Ready(p)'
          /\ q \in Own /\ Accepted(s) => Ready(q)'
      BY <2>4, <2>5, TradesRow
    <2>7. ASSUME NEW p \in Own, Accepts(Head(line), p) PROVE Ready(p)'
      <3>1. p = q /\ Accepted(s)
        BY <2>2, <2>3, <2>7 DEF Accepts
      <3>2. QED
        BY <2>6, <3>1
    <2>8. ArriveInv'
      BY <2>5, <2>6, <2>7, ArriveTail DEF TradeInv
    <2>9. QED
      BY <2>6, <2>8 DEF TradeInv
  <1>7. CASE OnRtnTrade
    <2>1. Head(line) \in AnyTradeRow /\ Seen(Head(line), book, taken) /\ Head(line).kind = "trade"
      BY <1>7, TakenFromLine, RowKinds, SeenTail DEF OnRtnTrade
    <2>0. PICK t \in Trades : Head(line).trade = t
      BY <2>1, TradeRowFacts
    <2>2. t \in Trades /\ book[t[1]] # None /\ UpdateTrade(t) /\ returned' = returned \cup {t}
          /\ line # <<>> /\ line' = Tail(line) /\ UNCHANGED book
      BY <1>7, <2>1, <2>0 DEF OnRtnTrade, Seen
    <2>3. t[1] \in Own => Ready(t[1])
      <3>1. 1 \in 1..Len(line) /\ Head(line) = line[1]
        BY <2>2, HeadTailProperties DEF TypeInv, WireType
      <3>2. ~\E j \in 1..(1 - 1) : TRUE
        OBVIOUS
      <3>3. QED
        BY <2>1, <2>0, <3>1, <3>2 DEF TradeInv, ArriveInv
    <2>4. ~\E p : Accepts(Head(line), p)
      BY <2>1 DEF Accepts
    <2>5. EntryInv' /\ TradesTold' /\ \A p \in Own : Ready(p) => Ready(p)'
      BY <2>2, <2>3, TradesTrade
    <2>6. ArriveInv'
      BY <2>2, <2>4, <2>5, ArriveTail DEF TradeInv
    <2>7. QED
      BY <2>5, <2>6 DEF TradeInv
  <1>8. CASE ReqQryOrder
    BY <1>1, <1>8 DEF ReqQryOrder, ctp, pend, notice
  <1>9. CASE OnRspQryOrder
    <2>1. PICK r \in query.rows : UpdateOrder(r.order, r.state)
      BY <1>9 DEF OnRspQryOrder
    <2>2. r \in AnyOrderRow /\ Seen(r, book, taken)
      BY <1>9 DEF OnRspQryOrder, TypeInv, QueryType, Quiet, SeenInv
    <2>3. UNCHANGED <<book, line, returned>>
      BY <1>9 DEF OnRspQryOrder, ctp
    <2>4. EntryInv' /\ TradesTold' /\ \A p \in Own : Ready(p) => Ready(p)'
      BY <2>1, <2>2, <2>3, OrderRowFacts, TradesRow DEF Seen
    <2>5. ArriveInv'
      BY <2>3, <2>4 DEF TradeInv, ArriveInv
    <2>6. QED
      BY <2>4, <2>5 DEF TradeInv
  <1>10. CASE OnRspQryTrade
    <2>1. PICK r \in query.rows : UpdateTrade(r.trade)
      BY <1>10 DEF OnRspQryTrade
    <2>2. r \in AnyTradeRow /\ Seen(r, book, taken)
      BY <1>10 DEF OnRspQryTrade, TypeInv, QueryType, Quiet, SeenInv
    <2>3. UNCHANGED <<book, line, returned>>
      BY <1>10 DEF OnRspQryTrade, ctp
    <2>4. EntryInv' /\ TradesTold' /\ \A p \in Own : Ready(p) => Ready(p)'
      BY <2>1, <2>2, <2>3, TradeRowFacts, TradesTrade DEF Seen
    <2>5. ArriveInv'
      BY <2>3, <2>4 DEF TradeInv, ArriveInv
    <2>6. QED
      BY <2>4, <2>5 DEF TradeInv
  <1>11. CASE OnFrontDisconnected
    BY <1>11, TradesStay DEF OnFrontDisconnected, pend, notice
  <1>12. CASE OnRspUserLogin
    BY <1>1, <1>12 DEF OnRspUserLogin, pend, notice
  <1>13. CASE OnRspUserLoginNewDay
    <2>1. \A o \in Orders : book'[o] = None /\ keys'[o] = NoKey /\ told'[o] = <<>>
      BY <1>13 DEF OnRspUserLoginNewDay
    <2>2. line' = <<>> /\ returned' = {}
      BY <1>13 DEF OnRspUserLoginNewDay, TypeInv, WireType
    <2>3. EntryInv'
      BY <2>1 DEF EntryInv, EntryOK, Own
    <2>4. ArriveInv'
      BY <2>2 DEF ArriveInv
    <2>5. QED
      BY <2>2, <2>3, <2>4 DEF TradeInv, TradesTold
  <1>14. CASE OnRspError
    BY <1>1, <1>14 DEF OnRspError, ctp, pend, notice
  <1>15. QED
    BY <1>2, <1>3, <1>4, <1>5, <1>6, <1>7, <1>8, <1>9, <1>10, <1>11, <1>12, <1>13, <1>14 DEF Next

\* Every trade that CTP returned of an own order, inserted with the exchange that
\* CTP reports, is told to the clients, unless as many of the order's lots were told
\* by then or its key went with a cancellation that overtook the trade, for any
\* orders and volumes.
THEOREM TradesToldCorrect == Spec => []TradesTold
  <1> DEFINE Inv == TypeInv /\ SeenInv /\ TradeInv
  <1>1. Init => Inv
    BY InitTypes, InitSeen, InitTrades
  <1>2. Inv /\ [Next]_vars => Inv'
    BY NextTypes, SeenNext, TradesNext
  <1>3. Inv => TradesTold
    BY DEF TradeInv
  <1>4. QED
    BY <1>1, <1>2, <1>3, PTL DEF Spec
=============================================================================
