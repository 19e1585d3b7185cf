--------------------------- MODULE ConditionOrders ---------------------------
(***************************************************************************)
(* The condition order manager of pkg/condorder: the orders a client has   *)
(* parked in the gateway, the index and the checker that decide when one   *)
(* fires, the validator that admits them, and the two JSON files they are  *)
(* persisted in.                                                           *)
(*                                                                         *)
(* Every public operation runs under one mutex (m.mu) and is one action,   *)
(* with two exceptions whose intermediate states a crash can expose: a     *)
(* checking pass calls OnTouchConditionOrder before it saves, and a change *)
(* of trading day rewrites two files one after the other.  In these the    *)
(* variable pc tells that the mutex is held, so only the holder or a crash *)
(* can move.                                                               *)
(***************************************************************************)
EXTENDS Integers, FiniteSets, Sequences

CONSTANTS
    OrderIDs,            \* the order ids clients use
    Instruments,         \* instruments conditions may name
    ProductOf,           \* trimDigits: the product of an instrument
    Combos,              \* the combination instruments (isCombinationInstrument)
    Listed,              \* the instruments GetInstrument knows by their symbol
    Requests,            \* the insert requests clients send
    Reports,             \* the trading phases the exchange reports
    MaxPrice,            \* bound: quotes are in 0..MaxPrice, 0 = no valid price
    MaxTime,             \* bound: the exchange clock stops at MaxTime
    TimeWindow,          \* the 100 s tolerance of OnCheckTime, in clock ticks
    MaxDay,              \* bound: trading days are 1..MaxDay
    MaxNewOrdersPerDay,  \* Config.MaxNewOrdersPerDay
    MaxValidOrdersTotal, \* Config.MaxValidOrdersTotal
    MaxLosses,           \* bound: restarts that drop unsaved changes
    DiskMayFail          \* may a read or a write of a file fail?

ConditionTypes == {"price", "range", "breakEven", "time", "marketOpen"}
PriceTypes     == {"price", "range", "breakEven"}
Statuses       == {"Live", "Suspend", "Cancel", "Discard", "Touched"}
ValidStatuses  == {"Live", "Suspend"}
PhaseStatuses  == {"auction", "continuous", "closed"}

\* lo is ContingentPrice, ContingentPriceLeft or BreakEvenPrice by type, hi is
\* ContingentPriceRight, rel is PriceRelation, dir is BreakEvenDirection and at
\* is ContingentTime.
Condition == [type: ConditionTypes, inst: Instruments, lo: Int, hi: Int,
              rel: {"GT", "GE", "LT", "LE"}, dir: {"BUY", "SELL"}, at: Int]

\* ordersOk: every entry of OrderList passes validateOrder.
Request == [conds: Seq(Condition), oper: {"AND", "OR"},
            tif: {"GFD", "GTD", "GTC"}, gtd: Int, ordersOk: BOOLEAN]

Products == {ProductOf[i] : i \in Instruments}

ASSUME ConditionOrdersAssumption ==
    /\ IsFiniteSet(OrderIDs)
    /\ Requests \subseteq Request
    /\ Combos \subseteq Instruments /\ Listed \subseteq Instruments
    /\ DOMAIN ProductOf = Instruments
    /\ Reports \subseteq [product: Products, phase: PhaseStatuses, isDataReady: BOOLEAN]
    /\ MaxPrice \in Nat /\ MaxTime \in Nat /\ TimeWindow \in Nat
    /\ MaxDay \in Nat \ {0} /\ MaxLosses \in Nat
    /\ MaxNewOrdersPerDay \in Nat /\ MaxValidOrdersTotal \in Nat
    /\ DiskMayFail \in BOOLEAN

Absent == -1   \* GetInstrument returned nil

(* An order; touched and broke are the positions in ConditionList whose    *)
(* IsTouched and HasBreakEvent are set.                                    *)
Order == [status: Statuses, req: Requests, day: 1..MaxDay,
          touched: SUBSET Nat, broke: SUBSET Nat]

NoOrder  == [status |-> "None"]
NoOrders == [id \in OrderIDs |-> NoOrder]
Ledger   == [OrderIDs -> Order \cup {NoOrder}]
Archived == [id: OrderIDs, order: Order]
NoFile   == [day |-> 0, orders |-> NoOrders]
Firing   == OrderIDs \X (1..MaxDay)

VARIABLES
    pc,         \* "down", "idle", "checking" or "rollover"
    running,    \* ConditionOrderManager.running
    orders,     \* data.ConditionOrders
    day,        \* data.TradingDay
    dayCount,   \* currentDayOrderCount
    validCount, \* currentValidOrderCount
    index,      \* ConditionOrderIndex
    his,        \* hisData.HisConditionOrders
    todo,       \* symbols the running price pass has not visited yet
    dirty,      \* "changed" of the running pass
    file,       \* the .co.json file
    hisFile,    \* the .coh.json file
    price,      \* what GetInstrument shows of an instrument
    phase,      \* checker.instrumentStatus
    opening,    \* OnUpdateInstrumentStatus calls that wait for the mutex
    now,        \* the exchange clock
    today,      \* the exchange's trading day
    fired,      \* how often OnTouchConditionOrder ran for an order of a day
    acked,      \* the orders of a day whose cancellation was confirmed
    losses      \* restarts that dropped changes the file does not hold

manager == <<running, orders, day, dayCount, validCount, index, his>>
disk    == <<file, hisFile>>
market  == <<price, phase, opening, now, today>>
history == <<fired, acked, losses>>
vars    == <<pc, manager, todo, dirty, disk, market, history>>

-----------------------------------------------------------------------------
(* Helpers on orders.                                                      *)

Present(os) == {id \in OrderIDs : os[id].status # "None"}
Valid(os)   == {id \in OrderIDs : os[id].status \in ValidStatuses}

Positions(o) == DOMAIN o.req.conds

\* The positions an order still waits for and that are of one of the types.
Waiting(o, types) ==
    {i \in Positions(o) \ o.touched : o.req.conds[i].type \in types}

\* IsAllConditionsTouched; an order without conditions is never touched.
AllTouched(o) ==
    /\ Positions(o) # {}
    /\ \/ Positions(o) \subseteq o.touched
       \/ /\ o.req.oper = "OR"
          /\ Positions(o) \cap o.touched # {}

\* Mark conditions, and fire the order when that was the last one needed.
Touch(o, marks) ==
    LET marked == [o EXCEPT !.touched = @ \cup marks] IN
    IF AllTouched(marked) THEN [marked EXCEPT !.status = "Touched"] ELSE marked

-----------------------------------------------------------------------------
(* The index: which live orders wait for a symbol, a clock or a market.    *)

WaitingFor(os, types, insts) ==
    {id \in OrderIDs :
        /\ os[id].status = "Live"
        /\ \E i \in Waiting(os[id], types) : os[id].req.conds[i].inst \in insts}

Rebuild(os) ==
    [price |-> [s \in Instruments |-> WaitingFor(os, PriceTypes, {s})],
     time  |-> WaitingFor(os, {"time"}, Instruments),
     open  |-> [p \in Products |->
                  WaitingFor(os, {"marketOpen"},
                             {s \in Instruments : ProductOf[s] = p})]]

IndexType == [price: [Instruments -> SUBSET OrderIDs],
              time: SUBSET OrderIDs,
              open: [Products -> SUBSET OrderIDs]]

-----------------------------------------------------------------------------
(* The checker.                                                            *)

SinglePrice(c, p) ==
    \/ c.rel = "GT" /\ p > c.lo
    \/ c.rel = "GE" /\ p >= c.lo
    \/ c.rel = "LT" /\ p < c.lo
    \/ c.rel = "LE" /\ p <= c.lo

PriceRange(c, p) == c.lo <= p /\ p <= c.hi

BreaksOut(c, p)  == IF c.dir = "BUY" THEN p > c.lo ELSE p < c.lo
FallsBack(c, p)  == IF c.dir = "BUY" THEN p <= c.lo ELSE p >= c.lo

\* A product whose phase was never reported counts as trading.
Tradable(c) == phase[ProductOf[c.inst]] \in {"none", "continuous"}

\* p is the price of the symbol the pass is at, whatever the condition names.
PriceTouches(c, broke, p) ==
    /\ p > 0 /\ Tradable(c)
    /\ \/ c.type = "price" /\ SinglePrice(c, p)
       \/ c.type = "range" /\ PriceRange(c, p)
       \/ c.type = "breakEven" /\ broke /\ FallsBack(c, p)

\* Mutant: the loop over the conditions ends at the first one it marks.
CheckPriceCondition_First(o, p) ==
    LET open == Waiting(o, PriceTypes)
        hit  == {i \in open : PriceTouches(o.req.conds[i], i \in o.broke, p)}
        out  == {i \in open : /\ o.req.conds[i].type = "breakEven"
                              /\ p > 0 /\ Tradable(o.req.conds[i])
                              /\ BreaksOut(o.req.conds[i], p)}
    IN Touch([o EXCEPT !.broke = @ \cup out], {i \in hit : \A j \in hit : i <= j})

CheckPriceCondition(o, p) ==
    LET open == Waiting(o, PriceTypes)
        hit  == {i \in open : PriceTouches(o.req.conds[i], i \in o.broke, p)}
        out  == {i \in open : /\ o.req.conds[i].type = "breakEven"
                              /\ p > 0 /\ Tradable(o.req.conds[i])
                              /\ BreaksOut(o.req.conds[i], p)}
    IN Touch([o EXCEPT !.broke = @ \cup out], hit)

InWindow(c) == now >= c.at /\ now < c.at + TimeWindow

CheckTime(o) ==
    Touch(o, {i \in Waiting(o, {"time"}) : InWindow(o.req.conds[i])})

CheckOpen(o, p, st) ==
    Touch(o, {i \in Waiting(o, {"marketOpen"}) :
                /\ ProductOf[o.req.conds[i].inst] = p
                /\ ~(o.req.conds[i].inst \in Combos /\ st = "auction")})

-----------------------------------------------------------------------------
(* The validator.                                                          *)

\* The condition holds at the current price already.  A break-even condition
\* counts as holding as soon as the price is past its break-even price.
AlreadyMet(c) ==
    /\ price[c.inst] > 0
    /\ \/ c.type = "price" /\ SinglePrice(c, price[c.inst])
       \/ c.type = "range" /\ PriceRange(c, price[c.inst])
       \/ c.type = "breakEven" /\ BreaksOut(c, price[c.inst])

ValidCondition(c, oper) ==
    /\ price[c.inst] # Absent
    /\ c.type = "time" => c.at >= now
    /\ c.type \in {"price", "breakEven"} => c.lo > 0
    /\ c.type = "range" => c.lo <= c.hi
    /\ oper = "OR" => ~AlreadyMet(c)

\* The positions Validate marks as touched in an AND order.
MetAtInsert(r) == {i \in DOMAIN r.conds : r.oper = "AND" /\ AlreadyMet(r.conds[i])}

\* Mutant: an AND order whose conditions all hold already is let in.
Validate_AllMet(r) ==
    /\ dayCount + 1 <= MaxNewOrdersPerDay
    /\ validCount + 1 <= MaxValidOrdersTotal
    /\ \A i \in DOMAIN r.conds : ValidCondition(r.conds[i], r.oper)
    /\ r.ordersOk
    /\ r.tif = "GTD" => r.gtd >= day

\* Mutant: the limit on valid orders is off by one.
Validate_OffByOne(r) ==
    /\ dayCount + 1 <= MaxNewOrdersPerDay
    /\ validCount <= MaxValidOrdersTotal
    /\ \A i \in DOMAIN r.conds : ValidCondition(r.conds[i], r.oper)
    /\ r.oper = "AND" => ~(DOMAIN r.conds \subseteq MetAtInsert(r))
    /\ r.ordersOk
    /\ r.tif = "GTD" => r.gtd >= day

Validate(r) ==
    /\ dayCount + 1 <= MaxNewOrdersPerDay
    /\ validCount + 1 <= MaxValidOrdersTotal
    /\ \A i \in DOMAIN r.conds : ValidCondition(r.conds[i], r.oper)
    /\ r.oper = "AND" => ~(DOMAIN r.conds \subseteq MetAtInsert(r))
    /\ r.ordersOk
    /\ r.tif = "GTD" => r.gtd >= day

-----------------------------------------------------------------------------
(* Storage.  Errors of a save are logged and otherwise ignored.            *)

Saves == IF DiskMayFail THEN BOOLEAN ELSE {TRUE}

SaveCurrent == \E ok \in Saves :
    file' = IF ok THEN [day |-> day', orders |-> orders'] ELSE file

\* What a handler does once it has changed the orders.
Commit == /\ UNCHANGED <<pc, running, day, his, todo, dirty, hisFile, market>>
          /\ SaveCurrent
          /\ index' = Rebuild(orders')

\* The file and the memory tell the same orders, break-out marks apart: the
\* mark of a break-even condition is set without a save.
SameOrder(o1, o2) ==
    /\ o1.status = o2.status
    /\ o1.status # "None" => /\ o1.req = o2.req /\ o1.day = o2.day
                             /\ o1.touched = o2.touched

Saved == /\ \A id \in OrderIDs : SameOrder(orders[id], file.orders[id])
         /\ Present(orders) # {} => file.day = day

-----------------------------------------------------------------------------
(* Client requests.  A request that is refused changes nothing.            *)

Ready == pc = "idle" /\ running

\* Mutant: the order is built without its trading day.
InsertConditionOrder_NoDay(id, r) ==
    /\ Ready
    /\ orders[id].status = "None"
    /\ Validate(r)
    /\ orders' = [orders EXCEPT ![id] =
            [status |-> "Live", req |-> r, day |-> 0,
             touched |-> MetAtInsert(r), broke |-> {}]]
    /\ dayCount' = dayCount + 1
    /\ validCount' = validCount + 1
    /\ Commit
    /\ UNCHANGED history

InsertConditionOrder(id, r) ==
    /\ Ready
    /\ orders[id].status = "None"
    /\ Validate(r)
    /\ orders' = [orders EXCEPT ![id] =
            [status |-> "Live", req |-> r, day |-> day,
             touched |-> MetAtInsert(r), broke |-> {}]]
    /\ dayCount' = dayCount + 1
    /\ validCount' = validCount + 1
    /\ Commit
    /\ UNCHANGED history

\* Mutant: the cancelled order still counts as a valid one.
CancelConditionOrder_StillCounted(id) ==
    /\ Ready
    /\ orders[id].status \in ValidStatuses
    /\ orders' = [orders EXCEPT ![id].status = "Cancel"]
    /\ acked' = acked \cup {<<id, orders[id].day>>}
    /\ Commit
    /\ UNCHANGED <<dayCount, validCount, fired, losses>>

\* Mutant: the cancellation is confirmed and not saved.
CancelConditionOrder_NotSaved(id) ==
    /\ Ready
    /\ orders[id].status \in ValidStatuses
    /\ orders' = [orders EXCEPT ![id].status = "Cancel"]
    /\ validCount' = validCount - 1
    /\ acked' = acked \cup {<<id, orders[id].day>>}
    /\ index' = Rebuild(orders')
    /\ UNCHANGED <<pc, running, day, his, todo, dirty, disk, market, dayCount,
                   fired, losses>>

CancelConditionOrder(id) ==
    /\ Ready
    /\ orders[id].status \in ValidStatuses
    /\ orders' = [orders EXCEPT ![id].status = "Cancel"]
    /\ validCount' = validCount - 1
    /\ acked' = acked \cup {<<id, orders[id].day>>}
    /\ Commit
    /\ UNCHANGED <<dayCount, fired, losses>>

PauseConditionOrder(id) ==
    /\ Ready
    /\ orders[id].status = "Live"
    /\ orders' = [orders EXCEPT ![id].status = "Suspend"]
    /\ Commit
    /\ UNCHANGED <<dayCount, validCount, history>>

\* Mutant: a touched order can be resumed, and its conditions wait again.
ResumeConditionOrder_Touched(id) ==
    /\ Ready
    /\ orders[id].status \in {"Suspend", "Touched"}
    /\ orders' = [orders EXCEPT ![id].status = "Live", ![id].touched = {}]
    /\ Commit
    /\ UNCHANGED <<dayCount, validCount, history>>

ResumeConditionOrder(id) ==
    /\ Ready
    /\ orders[id].status = "Suspend"
    /\ orders' = [orders EXCEPT ![id].status = "Live"]
    /\ Commit
    /\ UNCHANGED <<dayCount, validCount, history>>

-----------------------------------------------------------------------------
(* Checking passes.                                                        *)

LiveAmong(ids) == {id \in ids : orders[id].status = "Live"}

\* Mutant: only an order that fires makes the pass save, a condition does not.
Visit_FiredOnly(after) ==
    LET shots == {id \in DOMAIN after : after[id].status = "Touched"} IN
    /\ orders' = [id \in OrderIDs |->
                    IF id \in DOMAIN after THEN after[id] ELSE orders[id]]
    /\ fired' = [k \in Firing |->
                    IF k[1] \in shots /\ k[2] = orders[k[1]].day
                    THEN fired[k] + 1 ELSE fired[k]]
    /\ validCount' = validCount - Cardinality(shots)
    /\ dirty' = (dirty \/ shots # {})
    /\ UNCHANGED <<running, day, dayCount, index, his, disk, acked, losses>>

\* The live orders in the domain of after become what a check made of them;
\* those that fire call OnTouchConditionOrder at once, before anything is saved.
Visit(after) ==
    LET shots == {id \in DOMAIN after : after[id].status = "Touched"} IN
    /\ orders' = [id \in OrderIDs |->
                    IF id \in DOMAIN after THEN after[id] ELSE orders[id]]
    /\ fired' = [k \in Firing |->
                    IF k[1] \in shots /\ k[2] = orders[k[1]].day
                    THEN fired[k] + 1 ELSE fired[k]]
    /\ validCount' = validCount - Cardinality(shots)
    /\ dirty' = (dirty \/ \E id \in DOMAIN after : ~SameOrder(after[id], orders[id]))
    /\ UNCHANGED <<running, day, dayCount, index, his, disk, acked, losses>>

BeginCheckPrice ==
    /\ Ready
    /\ pc' = "checking"
    /\ todo' = {s \in Instruments : index.price[s] # {}}
    /\ todo' # {}
    /\ UNCHANGED <<manager, dirty, disk, market, history>>

\* One symbol of the price index, in any order; a symbol without instrument
\* data is skipped.
CheckPriceOf(s) ==
    /\ pc = "checking"
    /\ s \in todo
    /\ todo' = todo \ {s}
    /\ Visit([id \in LiveAmong(IF price[s] = Absent THEN {} ELSE index.price[s]) |->
                 CheckPriceCondition(orders[id], price[s])])
    /\ UNCHANGED <<pc, market>>

OnCheckTime ==
    /\ Ready
    /\ index.time # {}
    /\ pc' = "checking"
    /\ Visit([id \in LiveAmong(index.time) |-> CheckTime(orders[id])])
    /\ UNCHANGED <<todo, market>>

\* checker.UpdateInstrumentStatus is not under the mutex, the OnMarketOpen call
\* that follows it is.
OnUpdateInstrumentStatus(info) ==
    /\ pc # "down"
    /\ phase' = [phase EXCEPT ![info.product] = info.phase]
    /\ opening' = IF info.isDataReady /\ info.phase \in {"auction", "continuous"}
                  THEN opening \cup {<<info.product, info.phase>>} ELSE opening
    /\ UNCHANGED <<pc, manager, todo, dirty, disk, price, now, today, history>>

OnMarketOpen(p, st) ==
    LET ids == IF running THEN index.open[p] ELSE {} IN
    /\ pc = "idle"
    /\ <<p, st>> \in opening
    /\ opening' = opening \ {<<p, st>>}
    /\ pc' = IF ids = {} THEN "idle" ELSE "checking"
    /\ Visit([id \in LiveAmong(ids) |-> CheckOpen(orders[id], p, st)])
    /\ UNCHANGED <<todo, price, phase, now, today>>

\* Mutant: what changed is saved and the index kept.
EndPass_IndexKept ==
    /\ pc = "checking"
    /\ todo = {}
    /\ pc' = "idle"
    /\ dirty' = FALSE
    /\ UNCHANGED <<running, orders, day, dayCount, validCount, index, his, todo,
                   hisFile, market, history>>
    /\ IF dirty THEN SaveCurrent ELSE UNCHANGED file

\* The end of every pass: what changed is saved and the index rebuilt.
EndPass ==
    /\ pc = "checking"
    /\ todo = {}
    /\ pc' = "idle"
    /\ dirty' = FALSE
    /\ UNCHANGED <<running, orders, day, dayCount, validCount, his, todo, hisFile,
                   market, history>>
    /\ IF dirty THEN SaveCurrent /\ index' = Rebuild(orders)
                ELSE UNCHANGED <<file, index>>

\* NotifyPasswordUpdate with a new password: the orders are saved along with it.
NotifyPasswordUpdate ==
    /\ pc = "idle"
    /\ UNCHANGED <<pc, manager, todo, dirty, hisFile, market, history>>
    /\ SaveCurrent

Close ==
    /\ Ready
    /\ running' = FALSE
    /\ UNCHANGED <<pc, orders, day, dayCount, validCount, index, his, todo, dirty,
                   disk, market, history>>

-----------------------------------------------------------------------------
(* Load, on a new manager: at start-up, and again at every login while the *)
(* process lives.  What the old manager held and the file does not is gone.*)

NewLosses == IF pc = "down" \/ Saved THEN losses ELSE losses + 1

StartLoad(d, unread) ==
    /\ pc \in {"down", "idle"}
    /\ NewLosses + unread <= MaxLosses
    /\ d \in {today, today + 1} \cap (1..MaxDay)
    /\ today' = d
    /\ losses' = NewLosses + unread
    /\ running' = TRUE
    /\ opening' = {}
    /\ phase' = [p \in Products |-> "none"]
    /\ UNCHANGED <<todo, dirty, price, now, fired, acked>>

\* loadFromFile of the history, the last step of Load.
HistoryOf(f) == IF DiskMayFail THEN {f, {}} ELSE {f}

FinishLoad ==
    /\ pc' = "idle"
    /\ index' = Rebuild(orders')
    /\ dayCount' = Cardinality({id \in OrderIDs : /\ orders'[id].status # "None"
                                                  /\ orders'[id].day = day'})
    /\ validCount' = Cardinality(Valid(orders'))

\* No file, or one that cannot be read: initEmptyData.
LoadEmpty(d) ==
    /\ file = NoFile \/ DiskMayFail
    /\ StartLoad(d, IF file = NoFile THEN 0 ELSE 1)
    /\ orders' = NoOrders
    /\ day' = d
    /\ his' \in HistoryOf(hisFile)
    /\ FinishLoad
    /\ UNCHANGED disk

LoadSameDay(d) ==
    /\ file.day = d
    /\ StartLoad(d, 0)
    /\ orders' = file.orders
    /\ day' = d
    /\ his' \in HistoryOf(hisFile)
    /\ FinishLoad
    /\ UNCHANGED disk

\* handleTradingDayChange: what becomes of an order of an earlier day.
Archive(o, d) ==
    IF /\ o.status \in ValidStatuses
       /\ o.req.tif = "GFD" \/ (o.req.tif = "GTD" /\ d > o.req.gtd)
    THEN [o EXCEPT !.status = "Discard"] ELSE o

\* Mutant: orders that were not discarded stay current.
LoadNewDay_Keeps(d) ==
    /\ file # NoFile /\ file.day # d
    /\ StartLoad(d, 0)
    /\ pc' = "rollover"
    /\ his' = {[id |-> id, order |-> Archive(file.orders[id], d)] :
                  id \in Present(file.orders)}
    /\ orders' = [id \in OrderIDs |->
                    IF /\ id \in Valid(file.orders)
                       /\ Archive(file.orders[id], d) = file.orders[id]
                    THEN file.orders[id] ELSE NoOrder]
    /\ day' = d
    /\ dayCount' = 0 /\ validCount' = 0
    /\ index' = Rebuild(orders')
    /\ SaveCurrent
    /\ UNCHANGED hisFile

\* First half: the orders move to the history in memory, the empty current
\* file is written.
LoadNewDay(d) ==
    /\ file # NoFile /\ file.day # d
    /\ StartLoad(d, 0)
    /\ pc' = "rollover"
    /\ his' = {[id |-> id, order |-> Archive(file.orders[id], d)] :
                  id \in Present(file.orders)}
    /\ orders' = NoOrders
    /\ day' = d
    /\ dayCount' = 0 /\ validCount' = 0
    /\ index' = Rebuild(NoOrders)
    /\ SaveCurrent
    /\ UNCHANGED hisFile

\* Second half: the history file is replaced and read back.
SaveHistory ==
    /\ pc = "rollover"
    /\ UNCHANGED <<running, orders, day, todo, dirty, file, market, history>>
    /\ \E ok \in Saves : hisFile' = IF ok THEN his ELSE hisFile
    /\ his' \in HistoryOf(hisFile')
    /\ FinishLoad

Crash ==
    /\ pc # "down"
    /\ NewLosses <= MaxLosses
    /\ losses' = NewLosses
    /\ pc' = "down"
    /\ running' = FALSE
    /\ orders' = NoOrders /\ day' = 0 /\ dayCount' = 0 /\ validCount' = 0
    /\ index' = Rebuild(NoOrders)
    /\ his' = {} /\ todo' = {} /\ dirty' = FALSE
    /\ opening' = {} /\ phase' = [p \in Products |-> "none"]
    /\ UNCHANGED <<disk, price, now, today, fired, acked>>

-----------------------------------------------------------------------------
(* The environment of the package: what its Callback answers and the        *)
(* exchange clock.                                                         *)

\* GetInstrument answers for the symbols it knows.  The package asks for
\* "EXCH.inst" and the trader's table is keyed by the bare id, with prices
\* nobody updates: with that callback Listed is empty.
Quote(s, p) ==
    /\ s \in Listed
    /\ price' = [price EXCEPT ![s] = p]
    /\ UNCHANGED <<pc, manager, todo, dirty, disk, phase, opening, now, today, history>>

Tick ==
    /\ now < MaxTime
    /\ now' = now + 1
    /\ UNCHANGED <<pc, manager, todo, dirty, disk, price, phase, opening, today, history>>

-----------------------------------------------------------------------------
Init ==
    /\ pc = "down" /\ running = FALSE
    /\ orders = NoOrders /\ day = 0 /\ dayCount = 0 /\ validCount = 0
    /\ index = Rebuild(NoOrders)
    /\ his = {} /\ todo = {} /\ dirty = FALSE
    /\ file = NoFile /\ hisFile = {}
    /\ price = [s \in Instruments |-> Absent]
    /\ phase = [p \in Products |-> "none"]
    /\ opening = {} /\ now = 0 /\ today = 1
    /\ fired = [k \in Firing |-> 0] /\ acked = {} /\ losses = 0

Next ==
    \/ \E id \in OrderIDs, r \in Requests : InsertConditionOrder(id, r)
    \/ \E id \in OrderIDs : CancelConditionOrder(id)
    \/ \E id \in OrderIDs : PauseConditionOrder(id)
    \/ \E id \in OrderIDs : ResumeConditionOrder(id)
    \/ BeginCheckPrice
    \/ \E s \in Instruments : CheckPriceOf(s)
    \/ OnCheckTime
    \/ \E info \in Reports : OnUpdateInstrumentStatus(info)
    \/ \E p \in Products, st \in PhaseStatuses : OnMarketOpen(p, st)
    \/ EndPass
    \/ NotifyPasswordUpdate
    \/ Close
    \/ \E d \in 1..MaxDay : LoadEmpty(d)
    \/ \E d \in 1..MaxDay : LoadSameDay(d)
    \/ \E d \in 1..MaxDay : LoadNewDay(d)
    \/ SaveHistory
    \/ Crash
    \/ \E s \in Instruments, p \in 0..MaxPrice : Quote(s, p)
    \/ Tick

Spec == Init /\ [][Next]_vars

-----------------------------------------------------------------------------
(* Correctness.                                                            *)

(* Every variable has its type; a manager that is down holds nothing.      *)
TypeOK ==
    /\ pc \in {"down", "idle", "checking", "rollover"}
    /\ running \in BOOLEAN /\ dirty \in BOOLEAN
    /\ orders \in Ledger /\ day \in 0..MaxDay
    /\ dayCount \in Int /\ validCount \in Int
    /\ index \in IndexType /\ todo \subseteq Instruments
    /\ his \subseteq Archived /\ hisFile \subseteq Archived
    /\ file \in [day: 0..MaxDay, orders: Ledger]
    /\ price \in [Instruments -> Int]
    /\ phase \in [Products -> PhaseStatuses \cup {"none"}]
    /\ opening \subseteq Products \X PhaseStatuses
    /\ now \in Nat /\ today \in 1..MaxDay
    /\ fired \in [Firing -> Nat] /\ acked \subseteq Firing /\ losses \in Nat

(* The running counters the limits are checked against agree with the      *)
(* orders, across every operation, pass, day change and restart.           *)
CountsExact ==
    /\ validCount = Cardinality(Valid(orders))
    /\ dayCount = Cardinality(Present(orders))

(* Neither limit of the configuration is ever exceeded, a restart that     *)
(* brings old orders back included.                                        *)
LimitsRespected ==
    /\ Cardinality(Present(orders)) <= MaxNewOrdersPerDay
    /\ Cardinality(Valid(orders)) <= MaxValidOrdersTotal

(* When no pass is under way the index lists exactly the live orders that  *)
(* still wait, so no order can be overlooked by the checkers.              *)
IndexFresh == pc = "idle" => index = Rebuild(orders)

(* No order rests with its conditions met: the validator refuses those     *)
(* that would fire at once, and every pass fires the others.               *)
NoneOverdue ==
    \A id \in Valid(orders) : ~AllTouched(orders[id])

(* An order fires once, and once more only for every restart that threw    *)
(* away the record of it: a pass calls OnTouchConditionOrder before it     *)
(* saves, and save errors are ignored.                                     *)
FiresBounded == \A k \in Firing : fired[k] <= 1 + losses

(* With a disk that works, the file tells the orders in memory whenever no *)
(* operation is under way: a crash then loses none of them.                *)
DurableAtRest == (~DiskMayFail /\ pc = "idle") => Saved

(* With a disk that works, an order whose cancellation was confirmed never *)
(* fires, whatever crashes and restarts come in between.                   *)
CancelIsFinal ==
    [][~DiskMayFail => \A k \in acked : fired'[k] = fired[k]]_vars

(* An order in memory belongs to the trading day the manager runs for, so  *)
(* that no order can fire on a later day.                                  *)
NoStaleOrder == \A id \in Present(orders) : orders[id].day = day

(* A price pass overlooks no order.  When it starts, it has every symbol    *)
(* before it that a condition of a live order names; and when it leaves a   *)
(* symbol, no live order is left with an unmarked condition that the price  *)
(* of the symbol meets, whichever index the pass has been walking and       *)
(* whatever earlier visits of the same pass marked.                         *)
NoneOverlooked ==
    [][/\ todo' \ todo # {} =>
            \A id \in OrderIDs, s \in Instruments :
                id \in WaitingFor(orders, PriceTypes, {s}) => s \in todo'
       /\ pc = "checking" /\ pc' = "checking" =>
            \A s \in todo \ todo' : \A id \in WaitingFor(orders', PriceTypes, {s}) :
                \A i \in Waiting(orders'[id], PriceTypes) :
                    LET c == orders'[id].req.conds[i] IN
                    c.inst = s => ~PriceTouches(c, i \in orders'[id].broke, price[s])]_vars

-----------------------------------------------------------------------------
(* What comments of the code say and the code does not do.                 *)

(* manager.go:726: an order good till cancelled is kept ("保留") over a     *)
(* change of trading day.                                                  *)
GTCKept ==
    [][\A id \in Present(file.orders) :
         (/\ pc' = "rollover" /\ pc # "rollover"
          /\ file.orders[id].status = "Live"
          /\ file.orders[id].req.tif = "GTC")
         => orders'[id].status = "Live"]_vars

(* checker.go:99: a long break-even condition first breaks out upwards and *)
(* then falls back to its price; only then is it touched.                  *)
BreakEvenBrokeOut ==
    \A id \in Present(orders) : \A i \in orders[id].touched :
        orders[id].req.conds[i].type = "breakEven" => i \in orders[id].broke

(* types.go:362, manager.go:663: the history is queried by date, so an     *)
(* order that has entered the history file stays there.                    *)
HistoryGrows == [][hisFile \subseteq hisFile']_vars

(* The ledger of order statuses the manager implements.                    *)
StatusOf(os) == [id \in OrderIDs |-> os[id].status]

Abstract == INSTANCE ConditionLedger WITH
                mem <- StatusOf(orders), dur <- StatusOf(file.orders)

LedgerSpec == Abstract!Spec
=============================================================================
