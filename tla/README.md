# A verification development of alpha-trade-gateway

The gateway stands between WebSocket clients and one CTP trading account.  A
client logs in, CTP's trader API is driven through a chain of login steps and
queries, the user's data is kept in memory and pushed to every client as diffs,
market data comes from one of two quote clients, and condition orders are kept
on the server and fire when their conditions are met.  These modules model the
parts of it that keep state and run concurrently.

## The system

| Part | Source | State | Operations |
| --- | --- | --- | --- |
| Condition orders | `pkg/condorder` | orders by id, four index maps, two counters, history, two JSON files | insert, cancel, pause, resume; price, time and market checkers; Load, Close; trading status callbacks |
| Login session | `pkg/trader/login.go`, `ctp_wrapper.go`, `misc.go`, `trader.go` | `state`, `reqLogin`, the SPI and its API, the user, confirmation and readiness flags, goroutines | login and settlement requests, the SPI callbacks up to Ready, the login time-out, Stop |
| User data push | `query.go` 330-640, `message.go`, `trader.go` 480-740 | the user's records with their Changed flags, `peekMessage`, `userMu` | `sendAllUserData`, `sendUserData`, every update that flags a record |
| WebSocket server | `pkg/websocket/server.go` | connections, one bounded channel each | accept, read loop, write loop, close |
| TQ quote client | `pkg/marketfeed/tqconn.go`, `tqmarket.go` | the connection, set of symbols, three channels | reader, writer and receiver goroutines, Subscribe, Unsubscribe, Close, reconnection |
| CTP quote client | `pkg/marketfeed/ctpconn.go`, `ctpmarket.go` | `loggedIn`, table of subscriptions, cache of quotes | Subscribe, Unsubscribe, SPI callbacks, GetQuote |
| Query scheduler | `scheduler.go`, `onIdle`, `query.go` 15-165, `transfer.go` 160-315 | request and response numbers, needed queries, the cooling time, the banks | one query per cooling time, the chain of answers, refresh requests of returns, `Reset` |
| Order and trade tracking | `order.go` | orders, trades, `insertOrderSet`, `cancelOrderSet`, `inputOrderKeyMap` | insert, cancel, returns and query rows of orders and trades |
| Position adjustment | `log_dedup.go`, `query.go` 128-331 | today's and yesterday's lots by side, `positionInited` | initialisation, replay of trades, adjustment by a trade |
| Account profit | `trader.go` 636-740 | balance, available money, profits | the sums taken up after a quote |
| Transfers, banks, order keys | `transfer.go`, `persistence.go` | transfers, banks, the file of order keys | one call to CTP each |

How they interact: a client's request runs on the read loop of its connection
and calls into the trader; every CTP API instance calls its SPI on one thread of
its own; an idle loop ticks every 100 ms; every login has a goroutine that waits
for it; the quote client calls back into the trader, which recomputes profits, and
tickers of the trader call the condition order manager; the manager calls back when an
order fires, which the trader logs (`insertOrderFromCondition` is a TODO, trader.go:1127).  Shared
state is protected by `userMu`, by the manager's own mutex and by atomics, and
`state`, `ctpSpi` and `ctpApi` are shared without a lock.

What is hard here: two logins in parallel and their late callbacks; a time-out
that races the answer it waited for; lost fronts in the middle of the chain; diffs
built for some clients that reset flags for all; bounded channels that drop;
crashes between "fire" and "save" and between the two files of a day change;
reconnections that overlap the old connection's goroutines; rows of queries and
returns that overtake each other; goroutines that adjust a position which has
meanwhile been emptied or begun anew.  PROJECT.json lists
each hazard at its line.

## Modules

| Module | What it is |
| --- | --- |
| `ConditionOrders` | the condition order manager, its files and its crashes |
| `ConditionLedger` | the abstract specification of order statuses, volatile and durable; `ConditionOrders` implements it (`LedgerSpec`) |
| `ConditionOrdersProofs` | theorems about `ConditionOrders` |
| `LoginSession` | from `req_login` to Ready, and back there after a lost front |
| `LoginSessionProofs` | theorems about it |
| `UserDataSync` | Changed flags, dumps and diffs, channels and write loops |
| `UserDataSyncProofs` | theorems about it |
| `TqFeed` | the TQ quote client and the connection to its server |
| `TqFeedProofs` | theorems about it |
| `CtpFeed` | the CTP quote client, its caller and its SPI thread |
| `CtpFeedProofs` | theorems about it |
| `QueryScheduler` | which queries are asked for and sent when |
| `QuerySchedulerProofs` | theorems about it |
| `OrderTracking` | orders, trades and the notices about them |
| `OrderTrackingProofs` | theorems about it |
| `PositionVolumes` | what a trade does to the lots of a position; pure |
| `PositionTracking` | when trades are applied to a position, over replays, queries, logins and days |
| `AccountProfit` | the account's formulas; pure |
| `PositionProofs` | theorems about the last three |
| `MC...` | the constants of the runs |

`QueryScheduler`, `OrderTracking` and `PositionTracking` are three views of the
same traffic between the trader and CTP.  The first has the timing of the queries
and no rows, the second the rows of orders and trades, the third what trades do
to one position; where one needs what another models, it takes the weakest of it
(in `OrderTracking` and `PositionTracking` a query may be sent at any time once a
return has asked for it, which is what `QueryScheduler` shows of the position
query).  `PositionTracking` is built on `PositionVolumes`.

A handler that holds its lock throughout is one action; a handler that lets go of
it, or that other goroutines can observe half done, is several, and a program
counter or a phase says how far it is.  Each module says so at its head.

### ConditionOrders

`orders`, `dayCount`, `validCount`, `index` and `his` are the fields of the
manager, `file` and `hisFile` the two JSON files, `todo` and `dirty` the progress
of a pass of the price checker, `price`, `phase`, `opening` and `now` what the checkers read.
An operation of a client is one action (the manager's mutex is held): it
validates, changes the order, counts, indexes and saves.  A pass of the price
checker is a step per symbol under that mutex, so that a crash can come between
the calls of `OnTouchConditionOrder` and the save at the end.  `Load` is three actions for the
three cases of the file it finds, and a change of the trading day is split
between the two files.  Reads and writes fail when `DiskMayFail`.

Data is abstracted: prices are 0..MaxPrice (0 is a missing quote), a combination's bid
and ask are folded into its price, all exchanges share one clock, the
contents of the orders to insert are one bit (`ordersOk`).  Requests arrive
without the `is_touched` flags set, as clients send them.  The check of the user id's
prefix is left out: a refusal changes nothing.  The entry points
`OnUpdateInstrumentStatus`, `OnMarketOpen`, `Close` and `NotifyPasswordUpdate`
are part of the manager's interface, and the trader does not call all of
them; they are modelled as the interface offers them.  So are prices: the package
asks its `Callback` for `EXCHANGE.id` (manager.go:455, validator.go:94), the trader's table of
instruments is keyed by the bare id (ctp_wrapper.go:488), and nothing updates `LastPrice` there.
`Listed` are the symbols the callback knows: with the trader's own it is empty, every condition order
is refused and no price reaches a pass; the runs give the package a callback that knows its symbols.  A handler that is in
flight on the old manager while a new one is loaded is not modelled.

### LoginSession

`apis` holds every API instance created: whether its SPI still holds the API, the
link to the front, the responses CTP owes it in the order of the requests, and
the goroutine that waits for its login.  A login is two actions: `StartSession` installs
the new SPI, `InitApi` creates its API and gives it to the SPI (login.go:140 and 150); what the callbacks of an
earlier instance and the requests of clients do in between goes through the new SPI.
`OnRspUserLogin` is two actions, as is the stop of an API, since other threads see the state
between, and so is the idle loop: `OnIdle` finds the trader Ready, and `IdleQuery` refreshes the
positions, the account or nothing, whatever has happened since.  A settlement query for a day gone
by (`QrySettlementInfo`) is answered as the login's own is, and with automatic confirmation runs the chain again.
The time-out may
come at any time while the login is waited for.  Two requests inside
`initCtpApi` at the same moment are not interleaved, and neither are the
two statements of `reqSettlementInfoConfirm`.  `reinitCtp`, `clearOldData` and the
handlers for connection 0 (`req_reconnect` and the like) cannot be reached: ids
of connections start at 1 (`pkg/websocket/server.go:117`).

### UserDataSync

A record is a position, account, bank or something else, with a version; `changed`
are the flags, `queue[c]` the channel of a connection, `view[c]` what its client
has been told.  `pushing`, `dumping` and `greeting` are the calls that wait for
`userMu`; each is served in one action, which builds the message from the flagged
records, resets the flags and puts the message to the channels.  `updateAccount` looks for an account by
its id and keeps it by its currency (query.go:182-186), and so makes a new one each time.  A quote for a
contract whose instrument is not known ends the process (trader.go:512-513) and is not modelled.  `sonic` refuses to marshal a NaN, which the
risk ratio of an account without balance is (`nan`).  Three history variables say
which records a client cannot be expected to have: `missed` (its channel was
full, it came late, its writer has ended), `taken` (the flag went with a dump for
another client) and `lost` (the message could not be serialised).  `Synced` says
these are the only ways, and two claims below say that the last two happen.

### TqFeed and CtpFeed

`TqFeed` follows the reader, writer and receiver goroutines of each connection
(`gen`) and the three channels statement by statement, wherever another goroutine can come in between.
`CtpFeed` does so for a caller of Subscribe and the SPI thread around `loggedIn` and the
table.  The servers answer what they are sent; CTP knows the contracts named.  A message
of the quote server without an `aid`, or one that is no data, is left aside by `doRecv`
(tqmarket.go:94-102) and left out here.  `Change` joins the write to the set with the building of
the list.  A call to CTP may be refused at any time: the contracts of a refused call count as `late`.

### QueryScheduler

`req`, `rsp` and `need` are the fields of `QueryScheduler`, `cooling` whether `CanQuery` has to
say no.  Only `req > rsp` is ever looked at, so
a count is 0 or more.  Nothing is locked, so every look and every flag is a step: an idle loop finds
the trader Ready and passes `CanQuery` (`IdleTick`, one action, since in between it only saves and sends),
looks at one counter or flag after the other (`IdleLook`, in the order `Following`), and sends the query of the
first that is due (`IdleSend`).  A client who asks for the banks empties them and sets the two flags in three steps
(`QryAccountRegister`, `SetNeed`), and so does the SPI thread at the end of the first chain.  The goroutines that
returns start (`refresh`) may run at any time.  The flag `needSaveFile` is left out: the file it is about never
has an entry, see below.
The answers CTP owes are a queue, since one SPI thread handles them in the order
of the requests; an answer knows whether a return has come since it was asked
(`old`).  A refused call (no front, or more than `MaxOwed` unanswered requests) is lost, as in the code,
which logs the result.  `banks` is one bank's record: its name comes with one query, its
account number with another.  `spoilt` names the races that leave it incomplete: the banks are
asked for while their accounts are under way or a loop is past the banks' flag (`overtaken`), a loop sends the query
of the banks after its flag was reset (`late`), a login on the same day empties the record (`emptied`).

### OrderTracking

`book` are the orders as CTP has them, `line` the returns on their way, `query.rows` the rows of a query,
taken from `book` at the time of the query; a row and a return are handled in any
order, each in one action, since the SPI thread holds `userMu`.  `rec`, `trades`,
`insertSet`, `cancelSet` and `keys` are the trader's five tables.  Order statuses are folded to
those `updateOrder` tells apart; trades are of one lot.  `chain` says how far a login has come:
an error answer or a refused call (`OnRspError`) breaks it off, and nothing is queried until the front is lost.
`Named` are the own orders that were inserted with the exchange CTP reports, which the notice of a trade asks for (order.go:660).  `notes` counts
the notices of an order, `told` lists those of its trades.  References start anew in every session, so that an order of another
terminal may have the reference of one inserted here.

### PositionVolumes, PositionTracking and AccountProfit

`Adjust` is `adjustPositionByTradeInternal`: the part a trade changes, the test of
the totals, the borrowing between the parts.  `Booked` is what `updateTrade` makes of a trade: it
tells CTP's offsets open, close and close-today apart and leaves every other (a forced close, a close of yesterday's lots by
name) at the open of `NewTrade` (order.go:637-644), while CTP's own position falls.  `PositionTracking` has the callback
of a query's last row in four steps (`spi`), since `userMu` is released between the
initialisation and the replay and goroutines of other trades may come in; the
replay is a step per trade, in any order, under the lock.  A position that is not in the map reads
as one without lots.  `counted` and `reported` say how often a trade was applied
and reported, `basis` whether the position was started from yesterday's lots since
it was last emptied.  `AccountProfit` has the formulas of
`recalculateAccountProfit` in integers; it keeps no state of its own and has no run.

## Runs

`tlc -config <cfg> <module>`; all runs end within five minutes on two workers.

| Run | Properties | Bounds and why they are enough |
| --- | --- | --- |
| CondOrders | TypeOK, CountsExact, IndexFresh, NoneOverdue, DurableAtRest, NoneOverlooked | two orders, so that one fires while the other waits in the same index entries; two instruments for conditions on two symbols, one a combination; three prices make every relation true and false, one tick of the clock enters and leaves the window of time conditions |
| CondDays | LimitsRespected, NoStaleOrder, CancelIsFinal, LedgerSpec | two orders against a limit of one valid order, two days, one crash: at any point, also inside a pass and between the two files |
| CondDisk | FiresBounded | one order, two days, two restarts that lose data, any failing read or write |
| LoginOne | ReadyIsComplete, ConfirmationIsCurrent | one instance, two days, a lost front, one error, one time-out, manual confirmations, up to two idle loops, and shutdown |
| LoginTwo | LoginWatched, PanicIsOverlap, ReadyAgain | two instances, so that a login replaces one that is under way, good and refused account, one lost front, one error, automatic confirmation |
| SyncOne | Synced, ViewsNeverRegress, DiffsArrive | one client, two CTP sessions, two updates of a bank and the condition orders, a channel of two messages, so that it overflows and order matters |
| SyncTwo | Synced | two clients, four callers that race for `userMu`, a position whose quotes change an account, NaN accounts, channels that hold one message and so overflow |
| TqFeed | OneWriterOneReader, ListReached, NeverMute, Resubscribes, CallerReturns | two connections, the old and the new one of a reconnection, channels of one message, shutdown at any time |
| CtpFeed | WantedServed, ComesToBeServed | two contracts, two lost fronts |
| Queries | TypeOK, BanksComplete, NeedsMet, PositionsRefreshed | one idle loop, the SPI thread and a client who asks for the banks anew while the answers of the login come; two returns or requests, so that one comes while the queries of the other run; two days, one error or lost front, two unanswered requests before CTP refuses.  Two idle loops, of which one sends what the other saw, are left to the theorem `BanksCorrect` |
| Orders | TypeOK, TradesTold, AnsweredOnce, Settles | an order of two lots and one of another terminal with the same reference, two sessions on a day, a cancellation, an error answer, two returns on their way, so that rows overtake returns and returns rows |
| Positions | TypeOK, TotalsExact, PartsSane, EveryTradeCounted | one lot of yesterday's, three trades on one day that open a lot, close one of today's, and close one of yesterday's by an offset the trader does not know, one on the next, at an exchange that tells the lots apart; three queries, so that a trade is reported up to four times |

`CHECK_DEADLOCK FALSE` stands where the program may really stop: the trader
panics or is stopped, the bounded clients have said all they say, the feed was
closed, or all trades and returns the bounds allow are over.

Every module has a `TypeOK`.  Those of `LoginSession`, `UserDataSync`, `TqFeed` and `CtpFeed` hold
in the runs above and are not listed in them.

Other claims of comments and documents are stated at the end of the modules
without a run.  To see TLC refute one, list it instead of the properties of the
configuration named:

| Claim | Configuration | What happens |
| --- | --- | --- |
| `GTCKept` (manager.go:727) | CondDays | a day change archives good-till-cancelled orders as well |
| `HistoryGrows` (manager.go:663) | CondDays, MaxDay = 3 | the second day change overwrites the history |
| `BreakEvenBrokeOut` (checker.go:99) | CondOrders | the validator marks a break-even condition touched when it has only broken out |
| `WaitsForLogin` (login.go:195) | LoginOne | a confirm_settlement while connecting ends the wait |
| `TimeoutStopsItsOwn` (login.go:205) | LoginTwo, MaxTimeouts = 1 | the time-out of an old login takes the API from the new one |
| `ReadyIsEarned` (trader.go:841) | LoginOne | an idle loop that found the trader Ready before the front was lost queries in the next session, whose chain then ends in Ready without account and confirmation |
| `ReconnectStaysLoggedIn` (ctp_wrapper.go:90) | LoginOne | a reconnection logs every client out |
| `ResetAfterSerialised` (query.go:360) | SyncTwo | flags are reset before the message fails to marshal |
| `NeverThrown` (marketfeed/README.md:269) | TqFeed, Tx = 2 | Subscribe writes the set while a reconnection iterates over it |
| `ListAlwaysReached` (tqmarket.go:202) | TqFeed, Tx = 2 | an older list overtakes a newer one |
| `SavedIsServed` (ctpconn.go:237) | CtpFeed | a login passes between the test and the entry |
| `QuotesFound` (interface.go:21) | CtpFeed | quotes are stored by id and asked for by EXCHANGE.id |
| `ReadyMeansChecking` (README.md:189) | LoginOne | the checkers of condition orders are started before the manager exists (trader.go:346), so that none runs after the first login |
| `EveryoneIsTold` (query.go:333) | SyncTwo | a dump for one client takes the Changed flags away from all (query.go:394) |
| `AlwaysReconnects` (marketfeed/README.md:10) | TqFeed | after a write error the reader waits for a writer that has ended (tqconn.go:105) |
| `AccountRefreshed` (trader.go:904) | Queries, MaxDay = 1, MaxMishaps = 0 | nothing calls `OnPositionQueryComplete`: the position query stays due and starves the account query |
| `ToldOnce` (order.go:656) | Orders | rows of a query tell trades again, and use up the entry before the order's last trades |
| `InsertedHere` (order.go:524) | Orders | an order of another terminal with a reference of ours is told as inserted here |
| `CountedOnce` (order.go:678) | Positions | rows of a query apply a trade again |
| `SplitExact` (log_dedup.go:114) | Positions | the replay is not in the order of the trades, since `Seqno` is never set |
| `TotalsMeet` (order.go:636) | Positions | a forced close, or a close of yesterday's lots by name, is recorded as an opening |
| `BasisKept` (query.go:143) | Positions | after a login on the same day positions are not started from yesterday's lots again |

Also seen while modelling: a login cannot name its own broker and front, since
`handleReqLogin` does not read them (message.go:137, against README.md:26), and
`isLoggedIn` counts Stopping and Stopped as logged in (message.go:217).  A login on the
same day empties the banks and nothing asks for them again.  `OrderKeyManager.Add` is
called nowhere, so the file of order keys (persistence.go:187) never holds an entry.  `BanksComplete` without
`spoilt` is refuted by TLC in Queries.  `parseOrderID` (order.go:414) drops
the minus sign of a negative session id, so that its orders cannot be cancelled.  A
cancellation of a finished order is told successful by the next query of the orders.
A trade that makes a total negative leaves the position changed but not flagged (log_dedup.go:215).

## Fairness

* `ConditionOrders`: none, its properties are safety.  The checkers are not even started at the first
  login (`ReadyMeansChecking`), so that no fairness of theirs could be justified.
* `LoginSession`: weak fairness of the callbacks of each instance: CTP reconnects
  and answers by itself; and of the rest of `initCtpApi`, since a request that began runs to its end.  None for clients, time-outs, errors.
* `UserDataSync`: weak fairness of the idle tick, of the callers that wait for
  `userMu`, of the write loops.
* `TqFeed`: weak fairness of each goroutine; strong fairness where one waits for a
  channel or for `userMu`, whose waiters Go serves in order.
* `CtpFeed`: weak fairness of the SPI thread, of CTP's answers and of the caller.
* `QueryScheduler`: weak fairness of the idle loops, of the goroutines of returns, of whoever has begun to set flags, of time, of CTP's answers
  and of its reconnection.  None for returns, errors and lost fronts.  `Stuck` names the one state that
  waits for a lost front: a login whose chain of queries broke off.
* `OrderTracking`: weak fairness of returns, of a query that is due, of its rows and of the login after
  a lost front.  `Stuck` is the same state here.  None for the exchange and the clients.
* `PositionTracking`: none, its properties are safety.

## Proofs

`ConditionOrdersProofs` holds for any set of order ids, instruments and requests,
any limits and any number of days, crashes and disk failures.  It uses only the named
assumption of `ConditionOrders` on its constants.

* `TypeCorrect`: `TypeInv`, that is `TypeOK` and that a loaded manager has a day, is
  inductive.
* `CountsCorrect`, `LimitsCorrect`, `NoneOverdueCorrect`, `NoStaleOrderCorrect` come
  from one inductive invariant, `SoundInv`: types, exact counters, and `Sound` (limits, no
  overdue order, orders of the present day) of the orders in memory and of those in the file.
  The file's half is needed because a restart makes the file the memory, and the
  counters because the limits are checked against them and not against the orders.
* `IndexCorrect`: `IndexInv` adds that the index is rebuilt whenever no pass has
  touched an order since; a step of a pass may leave it behind, `EndPass` brings it back.
* `DurableCorrect`: `DurableInv` has the memory's orders in the file not only at rest but also in a pass that has
  noted no change (`dirty`) and in a change of day between its two files, since neither saves the orders again at its end.
* `CancelCorrect` is an action property: `CancelInv` says that a cancellation confirmed today is in the file, and in the
  memory of any manager that runs, so that no pass and no restart finds the order live.
* `FiresCorrect`: `FireInv` says that an order which has fired more often than records were lost is one of a day gone by, or
  can fire no more (`Spent`), as the orders in memory say, or those in the file while no manager runs.
* `OverlookedCorrect` is an action property too: with `IndexInv`, the index names every order under every symbol it waits
  for when a pass starts (`WaitersListed`), and a visit leaves no condition unmarked that the price meets.
* `LedgerCorrect`: the refinement, step by step: the initial states map to initial states, and under
  `SoundInv` every action maps to a step of `ConditionLedger` or to a stutter.

`QuerySchedulerProofs` holds for any number of idle loops and clients and any bounds.  `TypeCorrect` is inductive as
it stands.  `BanksCorrect` needs `BanksInv`: a flag that is down, with nobody about to set it, means that its half of the
record is there; while the banks' flag is up no query of the accounts is owed and no idle loop is past that flag; and no
owed answer about the banks comes behind one about the accounts.  It takes the order in which an idle loop looks
(`Following`) and that one thread handles the answers in the order of the requests, and excepts what `spoilt` names.

`OrderTrackingProofs` holds for any orders, volumes, references and bounds.  `TypeInv` adds to `TypeOK` that
an order which may still be traded, and an entry of `inputOrderKeyMap`, have lots left, and that a lost front leaves a login to come.
`AnsweredCorrect` needs `SeenInv` (rows and returns on their way are of orders CTP has, and show one accepted only if the exchange
took it) and `AnswerInv`: the reference of an order CTP has is in `insertOrderSet` or the order was
answered once, never both.  No assumption is made on how rows and returns overtake each other; that
the reference is used by no other session is the property's own condition, and `InsertedHere` above shows that it is needed.
`TradesToldCorrect` needs `TradeInv`: an entry of `inputOrderKeyMap` and the notices of its order's trades make up the
order's lots (`EntryInv`), so that an entry that is gone was used up or went with a cancellation; and before every trade on the line
comes a return that gives its entry the exchange's id, unless it has it or is gone (`ArriveInv`).

`PositionProofs` holds for any finite set of trades, any lots and any order of replay.  `AdjustFacts` says
what `Adjust` does to a total, whatever it borrows, from which `TotalsCommute` follows.  `PartsCorrect`
and `CountedCorrect` are inductive with `TypeInv`, the latter strengthened to `CountInv`, which follows a
trade through the replay.  `TotalsCorrect` needs `ExactInv`: CTP's totals are yesterday's lots and the day's effects
(`HeldInv`), a query that has come to the trades has told yesterday's lots as they are (`ToldYd`), and the sum changes by one trade's effect when one trade is
counted (`GapCounted`) or happens (`GapHappened`), as CTP or as `updateTrade` sees it.  That a sum over a finite set exists, and how it changes, is proved by smallest
counterexamples (`SumsUpTo`, `SumSolves`, `SumChanged`), since the library's induction theorems cannot be used
here.  `MoneyKept` and `LastTotalDecides` follow from the formulas of `AccountProfit`.

`LoginSessionProofs` holds for any clients, logins, instances and bounds.  Its invariant is `TypeOK` with a part for each fact:
instances are created one after the other (`CreatedInv`); a connection has at most one login before it and none
behind it, and only the newest instance can be without its API (`LinkInv`); a confirmation is of the user's present day
(`ConfirmInv`, for `ConfirmationCorrect`);
with one instance and no idle query strayed into a login, a query is owed only if those before it in the chain were answered
(`ChainInv`, with `Due`), so that Ready has the chain behind it (`ReadyInv`, for `ReadyCorrect`); an instance keeps the API it was
given until a login times out (`HeldInv`, for `PanicCorrect`, an action property).  `WatchedCorrect` adds `WatchInv`, that before the first session
somebody waits for the login; the property excepts what a client's early confirmation does (`spent.early`), as `WaitsForLogin` above shows it must.

`UserDataSyncProofs` holds for any clients, records, callers and channel bounds.  `SyncCorrect` needs `SyncInv`: what the channel
of an open connection says last of a record, or else its client's view, is the present version (`ComesTo`), but for
records flagged, missed, taken or lost.  `OrderCorrect`, an action property, needs `OrderInv`: versions rise from the view
along the channel to the record (`Rising`).  Accounts and banks are assumed disjoint: they are different maps of the user.

`TqFeedProofs` holds for any number of connections and any channel bounds.  `WorkerInv` (only the newest connection has workers,
and none dials while a writer lives) gives `OneWorkerCorrect`.  `ListInv` (the last list on the way is the client's, or one is about
to be sent, unless one was overtaken) gives `ListCorrect`.  `PeekInv` (a server with a list has a peek, an answer or its
handling outstanding) gives `NeverMuteCorrect`.

`CtpFeedProofs` holds for any contracts and lost fronts.  `ServiceInv` joins the types, `LinkInv` (who may be at
work while the front is down or the login asked for), `TableInv` (every entry of the table is known or being entered) and `ServedInv`: after a login
CTP serves every contract of the table, or the caller or the SPI thread is about to ask for it, but for the late ones.

Only model-checked: liveness (`ReadyAgain`, `DiffsArrive`, `Resubscribes`, `CallerReturns`, `ComesToBeServed`, `NeedsMet`,
`PositionsRefreshed`, `Settles`), as TLAPS proves no argument from fairness or `ENABLED` here.
Every safety invariant, every action property and the refinement that a run checks is proved.  What the claims that do
not hold need is a counterexample, which TLC finds.

## Not modelled, and the plan

Left out for good: logger, configuration, protocol records and their
JSON, error tables, examples, `LogDeduplicator` (no caller), the conversions of dates and times, the profit of
a position from a quote (floating point formulas), requests that pass one call to CTP and keep no
state (password, transfer, transfer serials).  The file of order keys, which never has an entry, and with it `needSaveFile`.  The CTP library is
external: its callbacks and calls are what the code in `src/` uses.

What is left, most important first:

1. Two positions with quotes and their flags, to show which totals `AccountProfit` takes up.
2. The statements of `Subscribe` and of the TQ reader that touch the set of symbols together, as steps of their own.
3. Two logins inside `initCtpApi` at the same moment.
4. Proofs of what liveness rests on: that a step which must come is possible and that a measure falls with it.
