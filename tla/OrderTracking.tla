----------------------------- MODULE OrderTracking -----------------------------
(***************************************************************************)
(* The orders and trades of the user, and what the clients are told of     *)
(* them: insertions and cancellations of clients, the returns of CTP, and  *)
(* the queries that report every order and every trade of the day again.   *)
(*                                                                         *)
(* Returns come in the order in which CTP sends them.  The rows of a       *)
(* query's answer show CTP as it was when it got the query: returns may    *)
(* overtake them, and they may overtake returns.  A row or a return is     *)
(* handled in one action, by the one SPI thread and under userMu; the      *)
(* goroutine it starts only makes a query due.  Every trade is of one lot. *)
(***************************************************************************)
EXTENDS Integers, Sequences, FiniteSets, Functions

CONSTANTS
    Orders,       \* the orders of a day, of this gateway or of others
    SessionOf,    \* the session that inserts an order; 0 is another terminal
    RefOf,        \* its OrderRef; every session counts its own
    VolumeOf,     \* its lots
    Named,        \* own orders that are inserted with the exchange CTP reports
    MaxSessions,  \* bound: logins on a day
    MaxCancels,   \* bound: cancellations clients ask for
    MaxErrors,    \* bound: error answers and refused calls
    MaxLine       \* bound: returns on their way

Trades == UNION {{o} \X (1..VolumeOf[o]) : o \in Orders}
Refs   == {RefOf[o] : o \in Orders}
Own    == {o \in Orders : SessionOf[o] # 0}

ASSUME OrderTrackingAssumption ==
    /\ SessionOf \in [Orders -> 0..MaxSessions]
    /\ VolumeOf \in [Orders -> Nat \ {0}]
    /\ DOMAIN RefOf = Orders
    /\ \A o, p \in Orders : SessionOf[o] = SessionOf[p] /\ RefOf[o] = RefOf[p] => o = p
    /\ MaxSessions \in Nat \ {0} /\ MaxCancels \in Nat /\ MaxErrors \in Nat
    /\ MaxLine \in Nat
    /\ Named \subseteq Own

(* An order at CTP.  Unknown: taken by CTP, not yet by the exchange, as are *)
(* the NotQueueing statuses; queueing: also in part traded.  The record of *)
(* an order is what was last reported; the code folds its status to alive  *)
(* or finished.                                                            *)
Statuses == {"none", "unknown", "queueing", "traded", "canceled"}

None == [status |-> "none", left |-> 0]
NoKey == [left |-> 0, sys |-> FALSE]

VARIABLES
    book,       \* the orders at CTP
    line,       \* returns on their way
    link,       \* is the front connected and logged in?
    session,    \* the present session
    query,      \* rows still to come of the orders or trades queried last
    chain,      \* "login" to "ready"; "broken" when an error ended the login's queries
    due,        \* a query is due (it stays so, see QueryScheduler)
    rec,        \* t.user.Orders
    trades,     \* t.user.Trades
    insertSet,  \* insertOrderSet, by reference
    cancelSet,  \* cancelOrderSet, by order id
    keys,       \* inputOrderKeyMap; NoKey where there is no entry
    (* What the properties go by.                                          *)
    notes,      \* notices sent of each order: inserted, insertion failed
    told,       \* notices sent of each order's trades, in order
    returned,   \* trades whose return was handled
    taken,      \* orders the exchange took
    dropped,    \* orders whose key went with a cancellation
    asked,      \* cancellations asked for
    errors

ctp    == <<book, line, link, session, taken>>
queries == <<query, chain, errors>>
user   == <<rec, trades>>
pend   == <<insertSet, cancelSet, keys>>
notice == <<notes, told, returned, dropped>>
vars   == <<ctp, queries, due, user, pend, notice, asked>>

State(o) == [status : Statuses, left : 0..VolumeOf[o]]
OrderRow(o, s) == [kind |-> "order", order |-> o, state |-> s]
TradeRow(t)    == [kind |-> "trade", trade |-> t]
AnyOrderRow == UNION {{OrderRow(o, s) : s \in State(o)} : o \in Orders}
AnyTradeRow == {TradeRow(t) : t \in Trades}

Quiet == [at |-> "none", rows |-> {}]

TypeOK ==
    /\ \A o \in Orders : book[o] \in State(o) /\ rec[o] \in State(o)
    /\ DOMAIN book = Orders /\ DOMAIN rec = Orders
    /\ line \in Seq(AnyOrderRow \cup AnyTradeRow) /\ Len(line) <= MaxLine
    /\ ~link => line = <<>> /\ query = Quiet
    /\ session \in 1..MaxSessions
    /\ \/ query = Quiet
       \/ query.at = "orders" /\ query.rows # {} /\ query.rows \subseteq AnyOrderRow
       \/ query.at = "trades" /\ query.rows # {} /\ query.rows \subseteq AnyTradeRow
    /\ chain \in {"login", "ready", "broken"} /\ errors \in 0..MaxErrors
    /\ {link, due} \subseteq BOOLEAN
    /\ {trades, returned} \subseteq SUBSET Trades
    /\ insertSet \subseteq Refs /\ cancelSet \subseteq Orders
    /\ DOMAIN keys = Orders
    /\ \A o \in Orders : keys[o].left \in 0..VolumeOf[o] /\ keys[o].sys \in BOOLEAN
    /\ \A o \in Orders \ Own : keys[o] = NoKey
    /\ notes \in [Orders -> [inserted : Nat, failed : Nat]]
    /\ told \in [Orders -> Seq(Trades)]
    /\ {taken, dropped} \subseteq SUBSET Orders
    /\ asked \in 0..MaxCancels

Init ==
    /\ book = [o \in Orders |-> None] /\ line = <<>>
    /\ link = TRUE /\ session = 1 /\ due = FALSE
    /\ query = Quiet /\ chain = "ready" /\ errors = 0
    /\ rec = [o \in Orders |-> None] /\ trades = {}
    /\ insertSet = {} /\ cancelSet = {}
    /\ keys = [o \in Orders |-> NoKey]
    /\ notes = [o \in Orders |-> [inserted |-> 0, failed |-> 0]]
    /\ told = [o \in Orders |-> <<>>]
    /\ returned = {} /\ taken = {} /\ dropped = {} /\ asked = 0

-----------------------------------------------------------------------------
(* CTP and the exchanges.                                                  *)

\* An order's lots are traded one by one.
Traded(o) == {<<o, k>> : k \in 1..(VolumeOf[o] - book[o].left)}
Happened == UNION {Traded(o) : o \in {p \in Orders : book[p].status # "none"}}

\* o moves on to state s; its return, and then that of the trade if there is one,
\* set out on the line.
Moves(o, s, more) ==
    /\ link /\ Len(line) + 1 + Len(more) <= MaxLine
    /\ book' = [book EXCEPT ![o] = s]
    /\ line' = Append(line, OrderRow(o, s)) \o more
    /\ UNCHANGED <<link, session, queries, due, user, pend, notice, asked>>

Live(o) == book[o].status \in {"unknown", "queueing"}

\* Another terminal of the user inserts an order.
InsertElsewhere(o) ==
    /\ o \notin Own /\ book[o] = None
    /\ Moves(o, [status |-> "unknown", left |-> VolumeOf[o]], <<>>)
    /\ UNCHANGED taken

Queues(o) ==
    /\ book[o].status = "unknown"
    /\ Moves(o, [book[o] EXCEPT !.status = "queueing"], <<>>)
    /\ taken' = taken \cup {o}

Fills(o) ==
    LET left == book[o].left - 1 IN
    /\ Live(o)
    /\ Moves(o, [status |-> IF left = 0 THEN "traded" ELSE "queueing", left |-> left],
             <<TradeRow(<<o, VolumeOf[o] - left>>)>>)
    /\ taken' = taken \cup {o}

\* Asked for by a client or by another terminal, or refused by the exchange.
Cancels(o) ==
    /\ Live(o)
    /\ Moves(o, [book[o] EXCEPT !.status = "canceled"], <<>>)
    /\ UNCHANGED taken

-----------------------------------------------------------------------------
(* Clients.                                                                *)

\* ReqOrderInsert: both tables are filled before the call.  CTP takes the order,
\* or refuses it: OnRspOrderInsert and OnErrRtnOrderInsert notify and leave the
\* tables as they are.  isLoggedIn still holds while the front is disconnected.
InsertOrder(o) ==
    /\ SessionOf[o] = session /\ book[o] = None /\ keys[o] = NoKey
    /\ insertSet' = insertSet \cup {RefOf[o]}
    /\ keys' = [keys EXCEPT ![o] = [left |-> VolumeOf[o], sys |-> FALSE]]
    /\ LET s == [status |-> "unknown", left |-> VolumeOf[o]] IN
       \/ /\ link /\ Len(line) < MaxLine
          /\ book' = [book EXCEPT ![o] = s]
          /\ line' = Append(line, OrderRow(o, s))
       \/ UNCHANGED <<book, line>>
    /\ UNCHANGED <<link, session, taken, queries, due, user, cancelSet, notice, asked>>

\* handleCancelOrderFull looks for the order and not at its status; whether CTP
\* cancels it is seen from its returns.
CancelOrder(o) ==
    /\ asked < MaxCancels /\ asked' = asked + 1
    /\ rec[o] # None
    /\ cancelSet' = cancelSet \cup {o}
    /\ UNCHANGED <<ctp, queries, due, user, insertSet, keys, notice>>

-----------------------------------------------------------------------------
(* updateOrder and updateTrade.                                            *)

\* Mutant: only a resting order counts as inserted.
Accepted_Resting(s) == s.status = "queueing"

Accepted(s) == s.status \in {"queueing", "traded"}

\* Cancelled before it was all traded.
Gone(s) == s.status = "canceled" /\ s.left > 0

\* Mutant: a failed insertion is not told.
Answer_NoFailure(o, s) ==
    LET client == Gone(s) /\ o \in cancelSet IN
    /\ insertSet' = IF Accepted(s) \/ (Gone(s) /\ ~client) THEN insertSet \ {RefOf[o]}
                                                            ELSE insertSet
    /\ cancelSet' = IF client THEN cancelSet \ {o} ELSE cancelSet
    /\ notes' = [notes EXCEPT ![o].inserted =
                   IF RefOf[o] \in insertSet /\ Accepted(s) THEN @ + 1 ELSE @]

\* The notices of codes 328, 329 and 330.  insertOrderSet is looked up by the
\* reference alone, whatever session the order is of.
Answer(o, s) ==
    LET asks   == RefOf[o] \in insertSet
        client == Gone(s) /\ o \in cancelSet
        failed == Gone(s) /\ ~client
    IN  /\ insertSet' = IF Accepted(s) \/ failed THEN insertSet \ {RefOf[o]} ELSE insertSet
        /\ cancelSet' = IF client THEN cancelSet \ {o} ELSE cancelSet
        /\ notes' = [notes EXCEPT ![o] =
                       [inserted |-> IF asks /\ Accepted(s) THEN @.inserted + 1 ELSE @.inserted,
                        failed   |-> IF asks /\ failed THEN @.failed + 1 ELSE @.failed]]

\* The entry learns the exchange's id when the order is accepted, and goes when
\* the order is cancelled.
UpdateKey(o, s) ==
    /\ keys' = [keys EXCEPT ![o] = CASE Gone(s) -> NoKey
                                     [] Accepted(s) /\ @ # NoKey -> [@ EXCEPT !.sys = TRUE]
                                     [] OTHER -> @]
    /\ dropped' = IF Gone(s) /\ keys[o] # NoKey THEN dropped \cup {o} ELSE dropped

\* Mutant: an order's row asks for no other query.
UpdateOrder_NotDue(o, s) ==
    /\ rec' = [rec EXCEPT ![o] = s]
    /\ Answer(o, s)
    /\ UpdateKey(o, s)
    /\ UNCHANGED <<due, trades, told>>

UpdateOrder(o, s) ==
    /\ rec' = [rec EXCEPT ![o] = s]
    /\ Answer(o, s)
    /\ UpdateKey(o, s)
    /\ due' = TRUE
    /\ UNCHANGED <<trades, told>>

\* Mutant: the entry stays when its last lot is told.
UpdateTrade_KeyStays(t) ==
    LET known == keys[t[1]].sys /\ t[1] \in Named IN
    /\ trades' = trades \cup {t}
    /\ keys' = [keys EXCEPT ![t[1]] = IF known THEN [@ EXCEPT !.left = @ - 1] ELSE @]
    /\ told' = IF known THEN [told EXCEPT ![t[1]] = Append(@, t)] ELSE told
    /\ due' = TRUE
    /\ UNCHANGED <<rec, insertSet, cancelSet, notes, dropped>>

\* The notice of code 331 goes to the entry with the exchange and the exchange's id
\* of the trade; the exchange of an entry is the one the client gave.
UpdateTrade(t) ==
    LET o     == t[1]
        known == keys[o].sys /\ o \in Named
    IN  /\ trades' = trades \cup {t}
        /\ keys' = [keys EXCEPT ![o] = CASE ~known -> @
                                         [] known /\ @.left = 1 -> NoKey
                                         [] known /\ @.left > 1 -> [@ EXCEPT !.left = keys[o].left - 1]]
        /\ told' = IF known THEN [told EXCEPT ![o] = Append(@, t)] ELSE told
        /\ due' = TRUE
        /\ UNCHANGED <<rec, insertSet, cancelSet, notes, dropped>>

-----------------------------------------------------------------------------
(* The SPI thread.                                                         *)

OnRtnOrder ==
    /\ line # <<>> /\ Head(line).kind = "order"
    /\ line' = Tail(line)
    /\ UpdateOrder(Head(line).order, Head(line).state)
    /\ UNCHANGED <<book, link, session, taken, queries, returned, asked>>

OnRtnTrade ==
    /\ line # <<>> /\ Head(line).kind = "trade"
    /\ line' = Tail(line)
    /\ UpdateTrade(Head(line).trade)
    /\ returned' = returned \cup {Head(line).trade}
    /\ UNCHANGED <<book, link, session, taken, queries, asked>>

\* The chain goes on to the rows of the orders or trades; when none are left, the
\* trader is Ready.
Ask(at, rows) ==
    /\ query' = IF rows = {} THEN Quiet ELSE [at |-> at, rows |-> rows]
    /\ chain' = IF rows = {} THEN "ready" ELSE chain
    /\ UNCHANGED errors

OrderRows == {OrderRow(o, book[o]) : o \in {p \in Orders : book[p].status # "none"}}
TradeRows == {TradeRow(t) : t \in Happened}

\* The login's queries of account and positions go on to the orders, and so does the
\* idle loop's position query once the trader is Ready (OnRspQryInvestorPosition).
ReqQryOrder ==
    /\ link /\ query = Quiet
    /\ chain = "login" \/ (chain = "ready" /\ due)
    /\ Ask("orders", OrderRows)
    /\ UNCHANGED <<ctp, due, user, pend, notice, asked>>

\* After the last row the trades are queried.
OnRspQryOrder ==
    /\ query.at = "orders"
    /\ \E r \in query.rows :
        /\ UpdateOrder(r.order, r.state)
        /\ IF query.rows = {r} THEN Ask("trades", TradeRows) ELSE Ask("orders", query.rows \ {r})
    /\ UNCHANGED <<ctp, returned, asked>>

OnRspQryTrade ==
    /\ query.at = "trades"
    /\ \E r \in query.rows : UpdateTrade(r.trade) /\ Ask("trades", query.rows \ {r})
    /\ UNCHANGED <<ctp, returned, asked>>

\* An error answer or a refused call ends the chain; after a login the trader does
\* not become Ready then.
OnRspError ==
    /\ link /\ (chain = "login" \/ query # Quiet)
    /\ errors < MaxErrors /\ errors' = errors + 1
    /\ query' = Quiet
    /\ chain' = IF chain = "login" THEN "broken" ELSE chain
    /\ UNCHANGED <<ctp, due, user, pend, notice, asked>>

\* Returns and answers on their way are lost.
OnFrontDisconnected ==
    /\ link /\ session < MaxSessions
    /\ link' = FALSE /\ line' = <<>> /\ query' = Quiet
    /\ UNCHANGED <<book, session, taken, due, user, pend, notice, asked, chain, errors>>

\* initUserData empties the records; the tables stay.
OnRspUserLogin ==
    /\ ~link /\ link' = TRUE /\ session' = session + 1
    /\ rec' = [o \in Orders |-> None] /\ trades' = {}
    /\ chain' = "login"
    /\ UNCHANGED <<book, line, query, errors, taken, due, pend, notice, asked>>

\* The login of a new trading day: clearOldDataForNewTradingDay empties the
\* records, the tables and the scheduler.  What the properties go by starts anew.
OnRspUserLoginNewDay ==
    /\ ~link /\ link' = TRUE /\ session' = 1 /\ chain' = "login"
    /\ book' = [o \in Orders |-> None] /\ taken' = {}
    /\ rec' = [o \in Orders |-> None] /\ trades' = {} /\ due' = FALSE
    /\ insertSet' = {} /\ cancelSet' = {} /\ keys' = [o \in Orders |-> NoKey]
    /\ notes' = [o \in Orders |-> [inserted |-> 0, failed |-> 0]]
    /\ told' = [o \in Orders |-> <<>>]
    /\ returned' = {} /\ dropped' = {} /\ asked' = 0
    /\ UNCHANGED <<line, query, errors>>

-----------------------------------------------------------------------------
Next ==
    \/ \E o \in Orders : \/ InsertElsewhere(o) \/ Queues(o) \/ Fills(o) \/ Cancels(o)
                         \/ InsertOrder(o) \/ CancelOrder(o)
    \/ OnRtnOrder \/ OnRtnTrade
    \/ ReqQryOrder \/ OnRspQryOrder \/ OnRspQryTrade \/ OnRspError
    \/ OnFrontDisconnected \/ OnRspUserLogin \/ OnRspUserLoginNewDay

Spec == Init /\ [][Next]_vars

\* CTP delivers and answers; the login's queries go on, and the idle loop sends the
\* query that is due.
Fairness ==
    /\ WF_vars(OnRtnOrder \/ OnRtnTrade)
    /\ WF_vars(ReqQryOrder) /\ WF_vars(OnRspQryOrder \/ OnRspQryTrade)
    /\ WF_vars(OnRspUserLogin \/ OnRspUserLoginNewDay)

FairSpec == Spec /\ Fairness

-----------------------------------------------------------------------------
(*                               Properties                                *)

\* The return of a trade of an own order that was inserted with the exchange CTP
\* reports is told to the clients, unless as many of the order's lots had been told
\* by then (the queries repeat trades) or its key went with a cancellation whose
\* row overtook the trade (inputOrderKeyMap).
TradesTold ==
    \A t \in returned : t[1] \in Named =>
        \/ t \in Range(told[t[1]])
        \/ Len(told[t[1]]) >= VolumeOf[t[1]]
        \/ t[1] \in dropped

Alone(o) == \A p \in Orders \ {o} : RefOf[p] = RefOf[o] => book[p] = None /\ keys[p] = NoKey

\* As long as no other session uses its reference, an own order is told inserted
\* or failed at most once, inserted only if the exchange took it, and it is told
\* as soon as its record shows so (insertOrderSet, cancelOrderSet).
AnsweredOnce ==
    \A o \in Own : Alone(o) =>
        /\ notes[o].inserted + notes[o].failed <= 1
        /\ notes[o].inserted > 0 => o \in taken
        /\ Accepted(rec[o]) => notes[o].inserted + notes[o].failed = 1
        /\ Gone(rec[o]) /\ o \notin taken /\ asked = 0 => notes[o].failed = 1

InStep == link /\ trades = Happened /\ \A o \in Orders : rec[o] = book[o]

\* After an error in a login's queries nothing is sent until the front is lost.
Stuck == link /\ chain = "broken"

\* The records agree with CTP again and again, though rows and returns overtake
\* each other: every one of them asks for the next query (updateOrder, updateTrade).
\* Only a login whose queries broke off waits for the next loss of the front.
Settles == []<>(InStep \/ Stuck)

(* What does not hold, see the README.                                     *)

\* "成交通知": a trade is told once.  Every query tells it again until the order's
\* lots are used up, and the last trades of the order are then not told.
ToldOnce == \A o \in Orders : IsInjective(told[o])

\* "下单成功": what is told inserted was inserted here.
InsertedHere == \A o \in Orders : notes[o].inserted > 0 => o \in Own
=============================================================================
