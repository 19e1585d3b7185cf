-------------------------------- MODULE CtpFeed --------------------------------
(***************************************************************************)
(* The CTP market feed: CtpMarketClient over one CtpConnection.            *)
(*                                                                         *)
(* The callbacks of the market data API run one after another on a thread  *)
(* of its own, Subscribe and Unsubscribe on the goroutine that calls them. *)
(* Each of the latter looks at loggedIn, calls the API and then writes the *)
(* table of subscriptions, in three steps the other thread can come        *)
(* between.  After a login, the callback thread reads the table and        *)
(* subscribes to what it finds.                                            *)
(*                                                                         *)
(* CTP is modelled by the contracts it serves in the present session, the  *)
(* answers to subscriptions that are still to come, and a connection whose *)
(* loss the client is told of later.                                       *)
(***************************************************************************)
EXTENDS Naturals, FiniteSets

CONSTANTS
    Contracts,  \* contracts, named by their instrument id
    MaxDrops    \* bound: losses of the connection

ASSUME CtpFeedAssumption == MaxDrops \in Nat

VARIABLES
    front,      \* "down", "up", or "lost" without the client knowing yet
    asked,      \* a login awaits its response
    loggedIn,   \* CtpConnection.loggedIn
    subscribed, \* the table: no entry, FALSE ("asked") or TRUE ("yes")
    served,     \* what the server sends quotes for
    answers,    \* OnRspSubMarketData to come
    quotesMap,  \* the keys of the cache of quotes
    caller,     \* the goroutine in Subscribe or Unsubscribe
    spi,        \* where the callback thread is in OnRspUserLogin
    drops

\* History: what was subscribed and not unsubscribed since, and what only the next
\* login will subscribe: it entered the table when this login had read that, or
\* the API refused it.
VARIABLES wanted, late

table == <<subscribed, served, answers>>
vars == <<front, asked, loggedIn, table, quotesMap, caller, spi, drops, wanted, late>>

Idle == [at |-> "idle", list |-> {}]
Rest == [at |-> "rest", list |-> {}]

Known == {c \in Contracts : subscribed[c] # "no"}
Mark(S, v) == [c \in Contracts |-> IF c \in S THEN v ELSE subscribed[c]]

TypeOK ==
    /\ front \in {"down", "up", "lost"}
    /\ {asked, loggedIn} \subseteq BOOLEAN
    /\ subscribed \in [Contracts -> {"no", "asked", "yes"}]
    /\ served \subseteq Contracts /\ answers \subseteq Contracts
    /\ quotesMap \subseteq Contracts
    /\ caller \in [at: {"idle", "save", "call", "record", "cancel", "forget"},
                   list: SUBSET Contracts]
    /\ spi \in [at: {"rest", "snapshot", "call", "record"}, list: SUBSET Contracts]
    /\ drops \in 0..MaxDrops
    /\ wanted \subseteq Contracts /\ late \subseteq Contracts

Init ==
    /\ front = "down" /\ asked = FALSE /\ loggedIn = FALSE
    /\ subscribed = [c \in Contracts |-> "no"]
    /\ served = {} /\ answers = {} /\ quotesMap = {}
    /\ caller = Idle /\ spi = Rest /\ drops = 0
    /\ wanted = {} /\ late = {}

-----------------------------------------------------------------------------
(*                    Subscribe and Unsubscribe, by a caller               *)

Subscribe(S) ==
    /\ caller = Idle
    /\ caller' = [at |-> IF loggedIn THEN "call" ELSE "save", list |-> S]
    /\ wanted' = wanted \cup S
    /\ UNCHANGED <<front, asked, loggedIn, table, quotesMap, spi, drops, late>>

\* What is written now has missed the login's look at the table.
Missed(S) == IF loggedIn /\ spi.at # "snapshot"
             THEN S \ (served \cup (IF spi.at = "call" THEN spi.list ELSE {}))
             ELSE {}

\* "保存订阅列表，登录后会自动订阅"
Save ==
    /\ caller.at \in {"save", "record"}
    /\ subscribed' = Mark(caller.list, "asked")
    /\ late' = late \cup Missed(caller.list)
    /\ caller' = Idle
    /\ UNCHANGED <<front, asked, loggedIn, served, answers, quotesMap, spi, drops, wanted>>

\* SubscribeMarketData: the server takes it in a session, which begins some time
\* before the response to the login; an error (ret # 0) is logged and nothing else.
SubscribeMarketData(S) ==
    \/ /\ front = "up" /\ (loggedIn \/ asked)
       /\ served' = served \cup S /\ answers' = answers \cup S
    \/ UNCHANGED <<served, answers>>

CallSubscribe ==
    /\ caller.at = "call"
    /\ SubscribeMarketData(caller.list)
    /\ caller' = [caller EXCEPT !.at = "record"]
    /\ UNCHANGED <<front, asked, loggedIn, subscribed, quotesMap, spi, drops, wanted, late>>

\* Without a login nothing happens.
Unsubscribe(S) ==
    /\ caller = Idle /\ loggedIn
    /\ caller' = [at |-> "cancel", list |-> S]
    /\ wanted' = wanted \ S
    /\ UNCHANGED <<front, asked, loggedIn, table, quotesMap, spi, drops, late>>

CallUnsubscribe ==
    /\ caller.at = "cancel"
    /\ \/ front = "up" /\ served' = served \ caller.list
       \/ UNCHANGED served
    /\ caller' = [caller EXCEPT !.at = "forget"]
    /\ UNCHANGED <<front, asked, loggedIn, subscribed, answers, quotesMap, spi, drops,
                   wanted, late>>

Forget ==
    /\ caller.at = "forget"
    /\ subscribed' = Mark(caller.list, "no")
    /\ late' = late \ caller.list
    /\ caller' = Idle
    /\ UNCHANGED <<front, asked, loggedIn, served, answers, quotesMap, spi, drops, wanted>>

-----------------------------------------------------------------------------
(*                        Callbacks, on the API's thread                   *)

\* OnFrontConnected logs in.
OnFrontConnected ==
    /\ front = "down" /\ spi = Rest
    /\ front' = "up" /\ asked' = TRUE
    /\ UNCHANGED <<loggedIn, table, quotesMap, caller, spi, drops, wanted, late>>

LoseFront ==
    /\ front = "up" /\ drops < MaxDrops
    /\ front' = "lost" /\ asked' = FALSE
    /\ served' = {} /\ answers' = {}
    /\ drops' = drops + 1
    /\ UNCHANGED <<loggedIn, subscribed, quotesMap, caller, spi, wanted, late>>

OnFrontDisconnected ==
    /\ front = "lost" /\ spi = Rest
    /\ front' = "down" /\ loggedIn' = FALSE
    /\ UNCHANGED <<asked, table, quotesMap, caller, spi, drops, wanted, late>>

\* OnRspUserLogin, up to the call of resubscribe; an error is only logged.
OnRspUserLogin ==
    /\ asked /\ spi = Rest
    /\ asked' = FALSE
    /\ \/ loggedIn' = TRUE /\ spi' = [Rest EXCEPT !.at = "snapshot"]
       \/ UNCHANGED <<loggedIn, spi>>
    /\ UNCHANGED <<front, table, quotesMap, caller, drops, wanted, late>>

\* Mutant: resubscribe takes only the subscriptions the server had confirmed.
ReadTable_Confirmed ==
    /\ spi.at = "snapshot"
    /\ spi' = LET S == {c \in Contracts : subscribed[c] = "yes"}
              IN  IF S = {} THEN Rest ELSE [at |-> "call", list |-> S]
    /\ late' = {}
    /\ UNCHANGED <<front, asked, loggedIn, table, quotesMap, caller, drops, wanted>>

\* Mutant: resubscribe returns while the table has a single entry.
ReadTable_OffByOne ==
    /\ spi.at = "snapshot"
    /\ spi' = IF Cardinality(Known) <= 1 THEN Rest ELSE [at |-> "call", list |-> Known]
    /\ late' = {}
    /\ UNCHANGED <<front, asked, loggedIn, table, quotesMap, caller, drops, wanted>>

\* resubscribe reads the table.
ReadTable ==
    /\ spi.at = "snapshot"
    /\ spi' = IF Known = {} THEN Rest ELSE [at |-> "call", list |-> Known]
    /\ late' = {}
    /\ UNCHANGED <<front, asked, loggedIn, table, quotesMap, caller, drops, wanted>>

\* The Subscribe it calls; loggedIn cannot change under it.
Resubscribe ==
    /\ \/ /\ spi.at = "call"
          /\ SubscribeMarketData(spi.list)
          /\ spi' = [spi EXCEPT !.at = "record"]
          /\ late' = late \cup (spi.list \ served')
          /\ UNCHANGED subscribed
       \/ /\ spi.at = "record"
          /\ subscribed' = Mark(spi.list, "asked")
          /\ spi' = Rest
          /\ UNCHANGED <<served, answers, late>>
    /\ UNCHANGED <<front, asked, loggedIn, quotesMap, caller, drops, wanted>>

\* The contracts are such as the server knows, so that it reports a success.
OnRspSubMarketData(c) ==
    /\ c \in answers /\ spi = Rest
    /\ answers' = answers \ {c}
    /\ subscribed' = Mark({c}, "yes")
    /\ UNCHANGED <<front, asked, loggedIn, served, quotesMap, caller, spi, drops, wanted, late>>

\* The cache is keyed by the instrument id.
OnRtnDepthMarketData(c) ==
    /\ c \in served /\ spi = Rest
    /\ quotesMap' = quotesMap \cup {c}
    /\ UNCHANGED <<front, asked, loggedIn, table, caller, spi, drops, wanted, late>>

\* GetQuote of a contract by its id, or by exchange and id ("full").
GetQuote(form, c) == form = "id" /\ c \in quotesMap

SpiStep == \/ OnFrontConnected \/ OnFrontDisconnected \/ OnRspUserLogin
           \/ ReadTable \/ Resubscribe
CallerStep == Save \/ CallSubscribe \/ CallUnsubscribe \/ Forget

Next ==
    \/ \E S \in SUBSET Contracts \ {{}} : Subscribe(S) \/ Unsubscribe(S)
    \/ CallerStep \/ SpiStep \/ LoseFront
    \/ \E c \in Contracts : OnRspSubMarketData(c) \/ OnRtnDepthMarketData(c)

Spec == Init /\ [][Next]_vars

\* Both threads go on running.
LiveSpec == Spec /\ WF_vars(SpiStep) /\ WF_vars(CallerStep)

-----------------------------------------------------------------------------
(*                               Properties                                *)

Settled == caller = Idle /\ spi = Rest /\ front = "up" /\ loggedIn

\* Once a login is through, the server serves what was subscribed before, during
\* and since, in whatever session; except what entered the table after the login
\* had read it, or what the API refused (Subscribe, resubscribe).
WantedServed == Settled => wanted \ late \subseteq served

\* "保存订阅列表，登录后会自动订阅": the same without the exception.
SavedIsServed == Settled => wanted \subseteq served

\* "获取指定合约的缓存行情": a contract with a cached quote is found by the name
\* it can be subscribed by, with its exchange or without.
QuotesFound == \A c \in quotesMap, form \in {"id", "full"} : GetQuote(form, c)

\* Every wanted contract comes to be served while the session lasts (resubscribe).
ComesToBeServed ==
    \A c \in Contracts :
        (c \in wanted /\ loggedIn /\ front = "up")
        ~> (c \in served \/ c \notin wanted \/ c \in late \/ front # "up")
=============================================================================
