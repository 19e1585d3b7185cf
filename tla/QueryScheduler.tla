---------------------------- MODULE QueryScheduler ----------------------------
(***************************************************************************)
(* Which queries the trader sends to CTP once a login has begun to load    *)
(* its data, and when.                                                     *)
(*                                                                         *)
(* Goroutines started by order, trade and transfer returns, and the read   *)
(* loops of clients, ask for queries by counters and flags.  Idle loops,   *)
(* one per settlement confirmation, tick every 100 ms and send at most one *)
(* query per cooling time: they look at one counter or flag after the      *)
(* other, the most urgent first, and ask for the first that is due.  One   *)
(* SPI thread handles the answers, and goes on from positions to orders to *)
(* trades by itself.  Nothing of this is under a lock, so every look, every*)
(* call and every flag that is set is a step of its own.                   *)
(***************************************************************************)
EXTENDS Integers, Sequences, FiniteSets

CONSTANTS
    Loops,      \* idle loops (startIdleLoop)
    Clients,    \* connections, each with a read loop
    MaxEvents,  \* bound: returns of CTP and requests of clients
    MaxMishaps, \* bound: error responses and losses of the front connection
    MaxDay,     \* bound: trading days
    MaxOwed,    \* requests without an answer above which the API refuses one more
    MaxRefresh  \* bound: goroutines of one kind that have not run yet

SPI == "spi"  \* the thread of the callbacks

ASSUME QuerySchedulerAssumption ==
    /\ SPI \notin Clients
    /\ MaxEvents \in Nat /\ MaxMishaps \in Nat
    /\ MaxDay \in Nat \ {0} /\ MaxOwed \in Nat \ {0} /\ MaxRefresh \in Nat \ {0}

Counted == {"position", "account"}
Flags   == {"broker", "bank", "register"}
Idles   == Counted \cup Flags
Queries == Counted \cup Flags \cup {"order", "trade"}
Returns == {"order", "trade", "transfer"}

(* The scheduler: requests and responses counted per kind, flags, and      *)
(* whether the cooling time runs.  MaxCount stands for every larger count: *)
(* only req > rsp is ever looked at.                                       *)
MaxCount == 1

VARIABLES
    req, rsp,   \* reqPositionID, reqAccountID and their counterparts
    need,       \* needQueryBrokerParams, needQueryBank, needQueryRegister
    cooling,    \* must CanQuery say no?
    loop,       \* where each idle loop stands in onIdle
    query,      \* the counter or flag it looks at, or that it asks for
    asking,     \* the flag that whoever asks for the banks sets next
    refresh,    \* goroutines started by returns that have not run yet
    state,      \* "ready" or, from the login to the first trade answer, "login"
    link,       \* is the front connected?
    owed,       \* answers CTP owes; old: made before the latest return
    inited,     \* positionInited
    book,       \* does CTP have orders, trades of the day?
    banks,      \* what the bank's record holds
    (* What the properties go by.                                          *)
    stale,      \* records that CTP has changed since they were queried
    spoilt,     \* why a bank's record may stay incomplete
    day, spent

sched == <<req, rsp, need, cooling>>
ctp   == <<link, owed, book, day>>
hist  == <<stale, spoilt>>
tasks == <<loop, query, asking, refresh>>
vars  == <<sched, ctp, hist, tasks, state, inited, banks, spent>>

Answer == [kind : Queries, old : BOOLEAN]

TypeOK ==
    /\ req \in [Counted -> 0..MaxCount] /\ rsp \in [Counted -> 0..MaxCount]
    /\ need \subseteq Flags
    /\ loop \in [Loops -> {"tick", "look", "send"}]
    /\ query \in [Loops -> Idles]
    /\ asking \in [Clients \cup {SPI} -> {"no", "bank", "register"}]
    /\ refresh \in [Returns -> 0..MaxRefresh]
    /\ state \in {"login", "ready"}
    /\ owed \in Seq(Answer) /\ Len(owed) <= MaxOwed
    /\ ~link => owed = <<>>
    /\ book \subseteq {"order", "trade"}
    /\ banks \subseteq {"name", "account"}
    /\ stale \subseteq Counted
    /\ spoilt \subseteq {"overtaken", "late", "emptied"}
    /\ day \in 1..MaxDay
    /\ {cooling, link, inited} \subseteq BOOLEAN
    /\ spent \in [events : 0..MaxEvents, mishaps : 0..MaxMishaps]

\* The first login has come to startQueryDataFull.
Init ==
    /\ req = [k \in Counted |-> 0] /\ rsp = [k \in Counted |-> 0]
    /\ need = {} /\ cooling = FALSE
    /\ loop = [l \in Loops |-> "tick"] /\ query = [l \in Loops |-> "position"]
    /\ asking = [a \in Clients \cup {SPI} |-> "no"]
    /\ refresh = [r \in Returns |-> 0]
    /\ state = "login" /\ link = TRUE
    /\ owed = <<[kind |-> "account", old |-> FALSE]>>
    /\ inited = FALSE /\ book = {} /\ banks = {}
    /\ stale = Counted /\ spoilt = {}
    /\ day = 1
    /\ spent = [events |-> 0, mishaps |-> 0]

-----------------------------------------------------------------------------
Spend(b) == spent' = [spent EXCEPT ![b] = @ + 1]

Spare(b, bound) == spent[b] < bound /\ Spend(b)

Due(k) == IF k \in Counted THEN req[k] > rsp[k] ELSE k \in need

\* Mutant: a request counts as sent whatever the API says.
Sent_Always(q, kind) == Append(q, [kind |-> kind, old |-> FALSE])

\* A request through the API; a refusal (no front, too many unanswered) is
\* logged and nothing else.
Sent(q, kind) ==
    IF link /\ Len(q) < MaxOwed THEN Append(q, [kind |-> kind, old |-> FALSE]) ELSE q

\* RequestPositionQuery, RequestAccountQuery.
Request(K) ==
    req' = [k \in Counted |-> IF k \in K /\ req[k] < MaxCount THEN req[k] + 1 ELSE req[k]]

\* A return shows that records are out of date, in answers made before it as well.
Outdate(K) ==
    /\ stale' = stale \cup K
    /\ owed' = [i \in DOMAIN owed |->
                  IF owed[i].kind \in K THEN [owed[i] EXCEPT !.old = TRUE] ELSE owed[i]]

-----------------------------------------------------------------------------
(* Returns of CTP, requests of clients, and the goroutines they start.     *)

\* OnRtnOrder, OnRtnTrade -> updateOrder, updateTrade.
OnReturn(r) ==
    /\ link /\ r \in {"order", "trade"} /\ refresh[r] < MaxRefresh
    /\ r = "trade" => "order" \in book
    /\ Spare("events", MaxEvents)
    /\ book' = book \cup {r}
    /\ Outdate(Counted)
    /\ refresh' = [refresh EXCEPT ![r] = @ + 1]
    /\ UNCHANGED <<sched, loop, query, asking, state, link, inited, banks, spoilt, day>>

\* OnRtnFromBankToFutureByFuture and the other direction, without an error.
OnTransfer ==
    /\ link /\ refresh["transfer"] < MaxRefresh
    /\ Spare("events", MaxEvents)
    /\ Outdate({"account"})
    /\ refresh' = [refresh EXCEPT !["transfer"] = @ + 1]
    /\ UNCHANGED <<sched, loop, query, asking, state, link, inited, book, banks, spoilt, day>>

\* Mutant: an order's return asks for nothing.
RunRefresh_NoQuery(r) ==
    /\ refresh[r] > 0
    /\ refresh' = [refresh EXCEPT ![r] = @ - 1]
    /\ Request(CASE r = "order" -> {} [] r = "trade" -> Counted [] OTHER -> {"account"})
    /\ UNCHANGED <<ctp, hist, rsp, need, cooling, loop, query, asking, state, inited, banks,
                   spent>>

\* requestRefreshAfterOrder, ...AfterTrade, ...AfterTransfer.
RunRefresh(r) ==
    /\ refresh[r] > 0
    /\ refresh' = [refresh EXCEPT ![r] = @ - 1]
    /\ Request(IF r = "transfer" THEN {"account"} ELSE Counted)
    /\ UNCHANGED <<ctp, hist, rsp, need, cooling, loop, query, asking, state, inited, banks,
                   spent>>

QryAccountInfo ==
    /\ Spare("events", MaxEvents)
    /\ Request({"account"})
    /\ UNCHANGED <<ctp, hist, rsp, need, cooling, tasks, state, inited, banks>>

\* handleQryAccountRegister throws the banks away; SetNeed does the rest.
QryAccountRegister(c) ==
    /\ asking[c] = "no"
    /\ Spare("events", MaxEvents)
    /\ banks' = {}
    /\ asking' = [asking EXCEPT ![c] = "bank"]
    /\ UNCHANGED <<sched, ctp, hist, loop, query, refresh, state, inited>>

\* A query of the accounts is under way, or an idle loop is past the banks' flag.
Overtaken ==
    \/ \E i \in DOMAIN owed : owed[i].kind = "register"
    \/ \E l \in Loops : query[l] = "register"

\* SetNeedQueryBank(true), SetNeedQueryRegister(true), by clients and at the end of
\* OnRspQryTrade.  The banks are asked for anew: what the record has suffered
\* before does not matter any more.
SetNeed(a) ==
    /\ asking[a] # "no"
    /\ need' = need \cup {asking[a]}
    /\ IF asking[a] = "bank"
       THEN /\ asking' = [asking EXCEPT ![a] = "register"]
            /\ spoilt' = IF Overtaken THEN {"overtaken"} ELSE {}
            /\ UNCHANGED state
       ELSE /\ asking' = [asking EXCEPT ![a] = "no"]
            /\ state' = IF a = SPI THEN "ready" ELSE state
            /\ UNCHANGED spoilt
    /\ UNCHANGED <<ctp, req, rsp, cooling, loop, query, refresh, stale, inited, banks, spent>>

-----------------------------------------------------------------------------
(* Idle loops.                                                             *)

At(l, pc) == loop[l] = pc
Go(l, pc) == loop' = [loop EXCEPT ![l] = pc]

\* Back to waiting; the next pass begins with the positions again.
Rest(l) == Go(l, "tick") /\ query' = [query EXCEPT ![l] = "position"]

\* The test at the top of onIdle and CanQuery, which starts a new cooling time; what
\* onIdle saves and sends in between is left out, and a tick that finds the time not
\* over changes nothing.
IdleTick(l) ==
    /\ At(l, "tick") /\ state = "ready" /\ ~cooling
    /\ cooling' = TRUE
    /\ Go(l, "look")
    /\ UNCHANGED <<ctp, hist, req, rsp, need, query, asking, refresh, state, inited, banks,
                   spent>>

\* Mutant: the accounts are asked for before the banks.
Following_RegisterFirst ==
    [position |-> "broker", broker |-> "account", account |-> "register",
     register |-> "bank"]

\* The order in which onIdle looks.
Following ==
    [position |-> "broker", broker |-> "account", account |-> "bank",
     bank |-> "register"]

IdleLook(l) ==
    /\ At(l, "look")
    /\ IF Due(query[l])
       THEN Go(l, "send") /\ UNCHANGED query
       ELSE IF query[l] \in DOMAIN Following
       THEN query' = [query EXCEPT ![l] = Following[@]] /\ UNCHANGED loop
       ELSE Rest(l)
    /\ UNCHANGED <<sched, ctp, hist, asking, refresh, state, inited, banks, spent>>

\* The query, then DelayQueryTime on top of the interval that CanQuery began.  The
\* banks may have been answered since the look.
IdleSend(l) ==
    /\ At(l, "send")
    /\ Rest(l)
    /\ owed' = Sent(owed, query[l]) /\ cooling' = TRUE
    /\ spoilt' = IF query[l] = "bank" /\ ~Due("bank") THEN spoilt \cup {"late"} ELSE spoilt
    /\ UNCHANGED <<req, rsp, need, stale, asking, refresh, state, link, inited, book, banks,
                   day, spent>>

\* queryInterval is over, or the longer time after a query.
Tick ==
    /\ cooling /\ cooling' = FALSE
    /\ UNCHANGED <<ctp, hist, req, rsp, need, tasks, state, inited, banks, spent>>

-----------------------------------------------------------------------------
(* The SPI thread.                                                         *)

Answered(kind) == asking[SPI] = "no" /\ owed # <<>> /\ Head(owed).kind = kind

Renewed(kind) == stale' = IF Head(owed).old THEN stale ELSE stale \ {kind}

\* An error response ends its handler at once.
OnRspError ==
    /\ asking[SPI] = "no" /\ owed # <<>>
    /\ Spare("mishaps", MaxMishaps)
    /\ owed' = Tail(owed)
    /\ UNCHANGED <<sched, hist, tasks, state, link, inited, book, banks, day>>

OnRspQryTradingAccount ==
    /\ Answered("account")
    /\ Renewed("account")
    /\ owed' = Sent(Tail(owed), "position")
    /\ UNCHANGED <<sched, tasks, state, link, inited, book, banks, spoilt, day, spent>>

OnRspQryInvestorPosition ==
    /\ Answered("position")
    /\ Renewed("position")
    /\ owed' = Sent(Tail(owed), "order")
    /\ UNCHANGED <<sched, tasks, state, link, inited, book, banks, spoilt, day, spent>>

\* updateOrder of every order of the day, as if each had just changed.
OnRspQryOrder ==
    /\ Answered("order")
    /\ "order" \in book => refresh["order"] < MaxRefresh
    /\ refresh' = IF "order" \in book THEN [refresh EXCEPT !["order"] = @ + 1] ELSE refresh
    /\ owed' = Sent(Tail(owed), "trade")
    /\ UNCHANGED <<sched, loop, query, asking, state, link, inited, book, banks, stale, spoilt,
                   day, spent>>

\* updateTrade of every trade; the first time the parameters, banks and accounts
\* are asked for before the trader is Ready.
OnRspQryTrade ==
    /\ Answered("trade")
    /\ "trade" \in book => refresh["trade"] < MaxRefresh
    /\ refresh' = IF "trade" \in book THEN [refresh EXCEPT !["trade"] = @ + 1] ELSE refresh
    /\ owed' = Tail(owed)
    /\ IF inited
       THEN state' = "ready" /\ UNCHANGED <<inited, need, asking>>
       ELSE /\ inited' = TRUE /\ need' = need \cup {"broker"}
            /\ asking' = [asking EXCEPT ![SPI] = "bank"]
            /\ UNCHANGED state
    /\ UNCHANGED <<req, rsp, cooling, loop, query, link, book, banks, hist, day, spent>>

OnRspQryBrokerTradingParams ==
    /\ Answered("broker")
    /\ need' = need \ {"broker"}
    /\ owed' = Tail(owed)
    /\ UNCHANGED <<hist, req, rsp, cooling, tasks, state, link, inited, book, banks, day,
                   spent>>

\* Mutant: the flag is not reset.
OnRspQryContractBank_StillNeeded ==
    /\ Answered("bank")
    /\ banks' = {"name"}
    /\ owed' = Tail(owed)
    /\ UNCHANGED <<sched, hist, tasks, state, link, inited, book, day, spent>>

\* updateBank puts a new record in place, without an account number.
OnRspQryContractBank ==
    /\ Answered("bank")
    /\ need' = need \ {"bank"}
    /\ banks' = {"name"}
    /\ owed' = Tail(owed)
    /\ UNCHANGED <<hist, req, rsp, cooling, tasks, state, link, inited, book, day, spent>>

\* updateAccountRegister completes the record, or makes one without the name.
OnRspQryAccountregister ==
    /\ Answered("register")
    /\ need' = need \ {"register"}
    /\ banks' = banks \cup {"account"}
    /\ owed' = Tail(owed)
    /\ UNCHANGED <<hist, req, rsp, cooling, tasks, state, link, inited, book, day, spent>>

-----------------------------------------------------------------------------
(* The front is lost and comes back; LoginSession has the steps between.   *)

OnFrontDisconnected ==
    /\ asking[SPI] = "no"
    /\ link /\ Spare("mishaps", MaxMishaps)
    /\ link' = FALSE /\ owed' = <<>>
    /\ UNCHANGED <<sched, hist, tasks, state, inited, book, banks, day>>

\* On the same day initUserData forgets the user's records, but nothing that was
\* asked or initialised.
ReloginSameDay ==
    /\ ~link /\ link' = TRUE
    /\ owed' = <<[kind |-> "account", old |-> FALSE]>>
    /\ state' = "login"
    /\ stale' = Counted
    /\ banks' = {}
    /\ spoilt' = IF banks = {} THEN spoilt ELSE spoilt \cup {"emptied"}
    /\ UNCHANGED <<sched, tasks, inited, book, day, spent>>

\* clearOldDataForNewTradingDay, with Reset of the scheduler.
ReloginNewDay ==
    /\ ~link /\ link' = TRUE
    /\ day < MaxDay /\ day' = day + 1
    /\ owed' = <<[kind |-> "account", old |-> FALSE]>>
    /\ state' = "login" /\ inited' = FALSE
    /\ req' = [k \in Counted |-> 0] /\ rsp' = [k \in Counted |-> 0]
    /\ need' = {}
    /\ book' = {} /\ banks' = {} /\ spoilt' = {}
    /\ stale' = Counted
    /\ UNCHANGED <<cooling, tasks, spent>>

-----------------------------------------------------------------------------
Answers ==
    \/ OnRspQryTradingAccount \/ OnRspQryInvestorPosition
    \/ OnRspQryOrder \/ OnRspQryTrade
    \/ OnRspQryBrokerTradingParams \/ OnRspQryContractBank \/ OnRspQryAccountregister

Idle(l) == IdleTick(l) \/ IdleLook(l) \/ IdleSend(l)

Relogin == ReloginSameDay \/ ReloginNewDay

Next ==
    \/ \E r \in Returns : OnReturn(r) \/ RunRefresh(r)
    \/ OnTransfer \/ QryAccountInfo
    \/ \E c \in Clients : QryAccountRegister(c)
    \/ \E a \in Clients \cup {SPI} : SetNeed(a)
    \/ \E l \in Loops : Idle(l)
    \/ Tick
    \/ Answers \/ OnRspError
    \/ OnFrontDisconnected \/ Relogin

Spec == Init /\ [][Next]_vars

\* Tickers, goroutines and time go on, CTP answers and reconnects.
Fairness ==
    /\ \A l \in Loops : WF_vars(Idle(l))
    /\ \A r \in Returns : WF_vars(RunRefresh(r))
    /\ \A a \in Clients \cup {SPI} : WF_vars(SetNeed(a))
    /\ WF_vars(Tick) /\ WF_vars(Answers) /\ WF_vars(Relogin)

FairSpec == Spec /\ Fairness

-----------------------------------------------------------------------------
(*                               Properties                                *)

\* A login whose chain of queries broke off waits for the next loss of the front.
Stuck == state = "login" /\ link /\ owed = <<>> /\ asking[SPI] = "no"

\* Once the banks and accounts have been asked for and answered, the bank's record
\* is complete, although they are asked for, looked at and answered without a lock.
\* Three races break it: the banks are asked for while the accounts are already
\* under way or an idle loop is past the banks' flag; a loop sends the query of the
\* banks after its flag was reset; a login on the same day empties the record.
BanksComplete ==
    /\ inited /\ need \cap {"bank", "register"} = {} /\ spoilt = {}
    /\ \A a \in Clients \cup {SPI} : asking[a] = "no"
    => banks = {"name", "account"}

\* What was asked for is answered, unless a query that goes first stays due: the
\* position count is never brought level, nor is the account count.
NeedsMet ==
    need # {} ~> \/ need = {} \/ Stuck \/ Due("position")
                 \/ "broker" \notin need /\ Due("account")

\* After an order or trade return the positions become current: the request
\* outlives lost answers, refused calls and lost fronts.
PositionsRefreshed == ("position" \in stale) ~> ("position" \notin stale \/ Stuck)

\* "订单回报后请求刷新持仓和账户": after a return the account is refreshed too.  It
\* is not: OnPositionQueryComplete is called nowhere, so the position query stays
\* due and the account query behind it is never sent.
AccountRefreshed == ("account" \in stale) ~> ("account" \notin stale \/ Stuck)
=============================================================================
