----------------------------- MODULE LoginSession -----------------------------
(***************************************************************************)
(* How the trader gets from a client's req_login to the state Ready, and   *)
(* back there after the trading front was lost.                            *)
(*                                                                         *)
(* Requests of clients run on the read loop of their connection, every CTP *)
(* API instance calls its SPI on a thread of its own, and each login has a *)
(* goroutine that waits for it.  All of them write the one state of the    *)
(* trader.  A handler is one action; those whose intermediate state other  *)
(* threads can tell from the final one (initCtpApi, OnRspUserLogin, onIdle,*)
(* stopCtpApi) are two.  CTP itself is modelled by the responses it still  *)
(* owes to each instance, in the order of the requests.                    *)
(***************************************************************************)
EXTENDS Integers, Sequences, FiniteSets

CONSTANTS
    Clients,      \* WebSocket connections
    Logins,       \* the contents of the login requests clients send
    Configured,   \* accounts whose broker the configuration has
    Accepted,     \* accounts CTP lets log in
    AutoConfirm,  \* config.Global.AutoConfirmSettlement
    CondEnabled,  \* config.Global.ConditionOrder.Enabled
    MayStop,      \* may the process be told to stop?
    MaxApis,      \* bound: CTP API instances created
    MaxDay,       \* bound: trading days
    MaxDrops,     \* bound: losses of a front connection
    MaxErrors,    \* bound: error responses without a cause in the model
    MaxTimeouts,  \* bound: logins that time out
    MaxLoops,     \* bound: clients confirm while fewer idle loops run
    MaxPending    \* bound: requests to one instance awaiting their responses

\* A login stands for bid, user_name and password together.  handleReqLogin does
\* not read the broker_id and front of a secondary seat.
Login == Configured \cup Accepted \cup Logins

NoLogin == "none"

ASSUME LoginSessionAssumption ==
    /\ NoLogin \notin Login
    /\ MaxApis \in Nat \ {0} /\ MaxDay \in Nat \ {0}
    /\ MaxDrops \in Nat /\ MaxErrors \in Nat /\ MaxTimeouts \in Nat
    /\ MaxLoops \in Nat /\ MaxPending \in Nat \ {0}
    /\ {AutoConfirm, CondEnabled, MayStop} \subseteq BOOLEAN

States == {"Init", "Connecting", "Connected", "Authenticating", "Authenticated",
           "LoggingIn", "LoggedIn", "SettlementQuerying", "SettlementConfirming",
           "Ready", "Stopping", "Stopped"}

\* The states that are >= StateLoggedIn.
LoggedInStates == {"LoggedIn", "SettlementQuerying", "SettlementConfirming",
                   "Ready", "Stopping", "Stopped"}

Parts == {"acct", "pos", "ord", "trade"}
Kinds == {"auth", "login", "settle", "confirm", "instr"} \cup Parts

Ids == 1..MaxApis

(* One API instance and its SPI: whether the SPI holds the API, the        *)
(* connection to the front ("new" before the API was created), whether CTP *)
(* has logged it in, what it was told to log in with, the responses to     *)
(* come, whether OnRspUserLogin is half way through, and the goroutine     *)
(* that waits for the login.                                               *)
Instance == [held: BOOLEAN, link: {"none", "new", "down", "up", "released"},
             session: BOOLEAN, login: Login \cup {NoLogin}, rsp: Seq(Kinds),
             entering: BOOLEAN, waiter: {"off", "waiting", "stopping"}]

Unused == [held |-> FALSE, link |-> "none", session |-> FALSE, login |-> NoLogin,
           rsp |-> <<>>, entering |-> FALSE, waiter |-> "off"]

VARIABLES
    state,       \* TraderCTP.state
    conns,       \* connections: "gone", "open", or "in" (IsLoggedIn)
    reqLogin,    \* TraderCTP.reqLogin
    apis,        \* every API instance created so far
    current,     \* the instance ctpSpi belongs to, 0 when there is none
    ctpApi,      \* the instance in TraderCTP.ctpApi, 0 for nil
    user,        \* the trading day of TraderCTP.user, 0 when there is none
    loaded,      \* what the queries have filled in of that user
    confirmed,   \* settlementConfirmed
    confirmedOn, \* the user's trading day at the last confirmation
    inited,      \* positionInited
    instrReady,  \* instrumentReady
    loops,       \* idle loops that run
    idling,      \* those of them that have found the trader Ready and go on
    mgr,         \* condOrderMgr # nil
    checkers,    \* condition order checkers that run
    stop,        \* "no", or how far Stop got: "saving", "done"
    proc,        \* "up" or "panicked"
    day,         \* the exchange's trading day
    spent        \* how much of each bound has been used, whether a client
                 \* confirmed a settlement before the first session, and whether
                 \* an idle query strayed into a session on its way to Ready

session == <<user, loaded, confirmed, confirmedOn, inited, instrReady>>
tasks   == <<loops, idling, mgr, checkers>>
vars    == <<state, conns, reqLogin, apis, current, ctpApi, session, tasks, stop,
             proc, day, spent>>

-----------------------------------------------------------------------------
IsLoggedIn == state \in LoggedInStates

Created == {k \in Ids : apis[k].link # "none"}

\* An instance has got as far as its API.
Begun == \E k \in Ids : apis[k].link \in {"down", "up", "released"}

\* A request through an SPI.  CTP answers it when the front is connected; an SPI
\* whose API reference is nil panics.
Call(as, k, kind) ==
    /\ apis' = IF as[k].held /\ as[k].link = "up"
               THEN [as EXCEPT ![k].rsp = Append(@, kind)] ELSE as
    /\ proc' = IF as[k].held THEN proc ELSE "panicked"

\* The same for the requests that look at the reference first.
CallIfHeld(as, k, kind) ==
    IF as[k].held THEN Call(as, k, kind) ELSE apis' = as /\ UNCHANGED proc

\* reqSettlementInfoConfirm of an SPI.
Confirm(as, k) ==
    /\ CallIfHeld(as, k, "confirm")
    /\ state' = IF as[k].held THEN "SettlementConfirming" ELSE state

Spend(b) == spent' = [spent EXCEPT ![b] = @ + 1]

-----------------------------------------------------------------------------
(* Clients.                                                                *)

Up == proc = "up"

OnConnect(c) ==
    /\ Up /\ conns[c] = "gone"
    /\ conns' = [conns EXCEPT ![c] = "open"]
    /\ UNCHANGED <<state, reqLogin, apis, current, ctpApi, session, tasks, stop,
                   proc, day, spent>>

OnDisconnect(c) ==
    /\ Up /\ conns[c] # "gone"
    /\ conns' = [conns EXCEPT ![c] = "gone"]
    /\ UNCHANGED <<state, reqLogin, apis, current, ctpApi, session, tasks, stop,
                   proc, day, spent>>

\* handleAlreadyLoggedIn: a connection that is let in.  A second request of one
\* that is in, and credentials that differ from reqLogin, are refused.
JoinSession(c, l) ==
    /\ Up /\ conns[c] = "open"
    /\ IsLoggedIn
    /\ reqLogin = l
    /\ conns' = [conns EXCEPT ![c] = "in"]
    /\ UNCHANGED <<state, reqLogin, apis, current, ctpApi, session, tasks, stop,
                   proc, day, spent>>

\* processReqLoginFull keeps the request before it looks for the broker.
BrokerNotFound(c, l) ==
    /\ Up /\ conns[c] # "gone"
    /\ ~IsLoggedIn
    /\ l \notin Configured
    /\ reqLogin' = l
    /\ UNCHANGED <<state, conns, apis, current, ctpApi, session, tasks, stop, proc,
                   day, spent>>

\* initCtpApi, up to the new SPI; an instance created earlier goes on beside it.
\* The requests of two clients do not overlap here.
StartSession(c, l) ==
    LET k == Cardinality(Created) + 1 IN
    /\ Up /\ conns[c] # "gone"
    /\ ~IsLoggedIn
    /\ l \in Configured
    /\ k \in Ids /\ \A j \in Ids : apis[j].link # "new"
    /\ reqLogin' = l
    /\ apis' = [apis EXCEPT ![k] = [Unused EXCEPT !.link = "new", !.login = l]]
    /\ current' = k
    /\ UNCHANGED <<state, conns, ctpApi, session, tasks, stop, proc, day, spent>>

\* Mutant: the SPI is not given its API.
InitApi_NotSet(k) ==
    /\ Up /\ apis[k].link = "new"
    /\ apis' = [apis EXCEPT ![k].link = "down", ![k].waiter = "waiting"]
    /\ ctpApi' = k
    /\ state' = "Connecting"
    /\ UNCHANGED <<conns, reqLogin, current, session, tasks, stop, proc, day, spent>>

\* The rest of initCtpApi: the API, and the goroutine that connects and waits.
InitApi(k) ==
    /\ Up /\ apis[k].link = "new"
    /\ apis' = [apis EXCEPT ![k].held = TRUE, ![k].link = "down", ![k].waiter = "waiting"]
    /\ ctpApi' = k
    /\ state' = "Connecting"
    /\ UNCHANGED <<conns, reqLogin, current, session, tasks, stop, proc, day, spent>>

ConfirmSettlement(c) ==
    /\ Up /\ conns[c] # "gone"
    /\ state \notin {"Init", "Stopped", "Stopping"}
    /\ Len(apis[current].rsp) < MaxPending /\ loops < MaxLoops
    /\ Confirm(apis, current)
    /\ spent' = [spent EXCEPT !.early = @ \/ user = 0]
    /\ UNCHANGED <<conns, reqLogin, current, ctpApi, session, tasks, stop, day>>

\* handleQrySettlementInfoFull for a day gone by.  A trader that was stopped counts
\* as logged in although it may never have had an SPI.
QrySettlementInfo(c) ==
    /\ Up /\ conns[c] # "gone"
    /\ IsLoggedIn
    /\ IF current = 0
       THEN proc' = "panicked" /\ UNCHANGED apis
       ELSE /\ Len(apis[current].rsp) < MaxPending /\ loops < MaxLoops
            /\ Call(apis, current, "settle")
    /\ UNCHANGED <<state, conns, reqLogin, current, ctpApi, session, tasks, stop, day,
                   spent>>

-----------------------------------------------------------------------------
(* SPI callbacks.  Those of one instance come one after the other.         *)

Free(k) == Up /\ apis[k].link \in {"down", "up"} /\ ~apis[k].entering

Answered(k, kind) == Free(k) /\ apis[k].rsp # <<>> /\ Head(apis[k].rsp) = kind

Popped(k) == [apis EXCEPT ![k].rsp = Tail(@)]

\* Every callback for an error notifies at most; the next request of its chain
\* is never sent.
OnRspError(k) ==
    /\ Free(k) /\ apis[k].rsp # <<>>
    /\ LET kind == Head(apis[k].rsp) IN
       IF \/ kind = "login" /\ apis[k].login \notin Accepted
          \/ kind \notin {"auth", "login"} /\ ~apis[k].session
       THEN UNCHANGED spent
       ELSE spent.errors < MaxErrors /\ Spend("errors")
    /\ apis' = Popped(k)
    /\ UNCHANGED <<state, conns, reqLogin, current, ctpApi, session, tasks, stop,
                   proc, day>>

OnFrontConnected(k) ==
    /\ Free(k) /\ apis[k].link = "down"
    /\ state' = IF apis[k].held THEN "Authenticating" ELSE "Connected"
    /\ Call([apis EXCEPT ![k].link = "up"], k, "auth")
    /\ UNCHANGED <<conns, reqLogin, current, ctpApi, session, tasks, stop, day, spent>>

\* CTP reconnects by itself; what was asked before the loss is not answered.
OnFrontDisconnected(k) ==
    /\ Free(k) /\ apis[k].link = "up"
    /\ spent.drops < MaxDrops /\ Spend("drops")
    /\ apis' = [apis EXCEPT ![k].link = "down", ![k].session = FALSE, ![k].rsp = <<>>]
    /\ state' = IF IsLoggedIn THEN state ELSE "Init"
    /\ UNCHANGED <<conns, reqLogin, current, ctpApi, session, tasks, stop, proc, day>>

OnRspAuthenticate(k) ==
    /\ Answered(k, "auth")
    /\ state' = IF apis[k].held THEN "LoggingIn" ELSE "Authenticated"
    /\ Call(Popped(k), k, "login")
    /\ UNCHANGED <<conns, reqLogin, current, ctpApi, session, tasks, stop, day, spent>>

\* Up to the assignment of the state; EnterSession is the rest.
OnRspUserLogin(k) ==
    /\ Answered(k, "login")
    /\ apis[k].login \in Accepted
    /\ apis' = [Popped(k) EXCEPT ![k].session = TRUE, ![k].entering = TRUE]
    /\ state' = IF IsLoggedIn THEN state ELSE "LoggedIn"
    /\ UNCHANGED <<conns, reqLogin, current, ctpApi, session, tasks, stop, proc, day,
                   spent>>

\* A login that finds no query of the chain before it starts afresh.
ForgetStray(k) ==
    spent' = [spent EXCEPT !.stray =
                @ /\ \E i \in 1..Len(apis[k].rsp) : apis[k].rsp[i] \in Parts]

\* Mutant: the confirmation survives a change of trading day.
EnterSession_StillConfirmed(k) ==
    /\ Up /\ apis[k].entering
    /\ user' = day
    /\ loaded' = {}
    /\ inited' = (inited /\ user \in {0, day})
    /\ state' = "SettlementQuerying"
    /\ Call([apis EXCEPT ![k].entering = FALSE], k, "settle")
    /\ UNCHANGED <<conns, reqLogin, current, ctpApi, confirmed, confirmedOn,
                   instrReady, tasks, stop, day>>
    /\ ForgetStray(k)

\* Mutant: a settlement that was confirmed before makes the trader Ready at once.
EnterSession_ReadyAtOnce(k) ==
    /\ Up /\ apis[k].entering
    /\ user' = day
    /\ loaded' = {}
    /\ IF user \notin {0, day}
       THEN confirmed' = FALSE /\ inited' = FALSE
       ELSE UNCHANGED <<confirmed, inited>>
    /\ state' = IF confirmed' THEN "Ready" ELSE "SettlementQuerying"
    /\ Call([apis EXCEPT ![k].entering = FALSE], k, "settle")
    /\ UNCHANGED <<conns, reqLogin, current, ctpApi, confirmedOn, instrReady, tasks,
                   stop, day>>
    /\ ForgetStray(k)

\* Mutant: after a reconnection on the same day the settlement is not queried.
EnterSession_NotAgain(k) ==
    /\ Up /\ apis[k].entering
    /\ user' = day
    /\ loaded' = {}
    /\ IF user \notin {0, day}
       THEN confirmed' = FALSE /\ inited' = FALSE
       ELSE UNCHANGED <<confirmed, inited>>
    /\ IF user = day
       THEN /\ apis' = [apis EXCEPT ![k].entering = FALSE]
            /\ UNCHANGED <<state, proc>>
       ELSE /\ state' = "SettlementQuerying"
            /\ Call([apis EXCEPT ![k].entering = FALSE], k, "settle")
    /\ UNCHANGED <<conns, reqLogin, current, ctpApi, confirmedOn, instrReady, tasks,
                   stop, day>>
    /\ ForgetStray(k)

EnterSession(k) ==
    /\ Up /\ apis[k].entering
    /\ user' = day
    /\ loaded' = {}
    /\ IF user \notin {0, day}
       THEN confirmed' = FALSE /\ inited' = FALSE   \* clearOldDataForNewTradingDay
       ELSE UNCHANGED <<confirmed, inited>>         \* initUserData
    /\ state' = "SettlementQuerying"
    /\ Call([apis EXCEPT ![k].entering = FALSE], k, "settle")
    /\ UNCHANGED <<conns, reqLogin, current, ctpApi, confirmedOn, instrReady, tasks,
                   stop, day>>
    /\ ForgetStray(k)

\* onSettlementInfoComplete confirms, or leaves that to the clients.
OnRspQrySettlementInfo(k) ==
    /\ Answered(k, "settle") /\ apis[k].session
    /\ IF AutoConfirm THEN Confirm(Popped(k), current)
                      ELSE apis' = Popped(k) /\ UNCHANGED <<state, proc>>
    /\ UNCHANGED <<conns, reqLogin, current, ctpApi, session, tasks, stop, day, spent>>

\* onSettlementConfirmed: the instrument query, an idle loop, the checkers, and
\* only then the condition order manager.
OnRspSettlementInfoConfirm(k) ==
    /\ Answered(k, "confirm") /\ apis[k].session
    /\ confirmed' = TRUE /\ confirmedOn' = user
    /\ CallIfHeld(Popped(k), current, "instr")
    /\ loops' = loops + 1
    /\ checkers' = IF mgr THEN checkers + 1 ELSE checkers
    /\ mgr' = (mgr \/ (CondEnabled /\ user # 0))
    /\ UNCHANGED <<state, conns, reqLogin, current, ctpApi, user, loaded, inited,
                   instrReady, idling, stop, day, spent>>

OnRspQryInstrument(k) ==
    /\ Answered(k, "instr") /\ apis[k].session
    /\ instrReady' = TRUE
    /\ Call(Popped(k), current, "acct")
    /\ UNCHANGED <<state, conns, reqLogin, current, ctpApi, user, loaded, confirmed,
                   confirmedOn, inited, tasks, stop, day, spent>>

\* OnRspQryTradingAccount, OnRspQryInvestorPosition and OnRspQryOrder.
After == [acct |-> "pos", pos |-> "ord", ord |-> "trade"]

OnRspQuery(k, kind) ==
    /\ Answered(k, kind) /\ apis[k].session
    /\ loaded' = loaded \cup {kind}
    /\ Call(Popped(k), k, After[kind])
    /\ UNCHANGED <<state, conns, reqLogin, current, ctpApi, user, confirmed,
                   confirmedOn, inited, instrReady, tasks, stop, day, spent>>

OnRspQryTrade(k) ==
    /\ Answered(k, "trade") /\ apis[k].session
    /\ loaded' = loaded \cup {"trade"}
    /\ inited' = TRUE
    /\ state' = "Ready"
    /\ apis' = Popped(k)
    /\ UNCHANGED <<conns, reqLogin, current, ctpApi, user, confirmed, confirmedOn,
                   instrReady, tasks, stop, proc, day, spent>>

-----------------------------------------------------------------------------
(* The goroutines of the trader.                                           *)

\* An idle loop finds the trader Ready; it may save and send before it queries.
OnIdle ==
    /\ Up /\ stop = "no" /\ idling < loops
    /\ state = "Ready"
    /\ idling' = idling + 1
    /\ UNCHANGED <<state, conns, reqLogin, apis, current, ctpApi, session, loops, mgr,
                   checkers, stop, proc, day, spent>>

\* The session is through its chain, so that one more query of it changes nothing.
Through ==
    /\ confirmed /\ instrReady /\ loaded = Parts
    /\ apis[current].session /\ ~apis[current].entering

\* The loop refreshes the positions or the account, which brings on the rest of
\* the chain, or nothing of it, whatever the state is by now.
IdleQuery ==
    /\ Up /\ idling > 0
    /\ idling' = idling - 1
    /\ \/ UNCHANGED <<apis, proc, spent>>
       \/ \E kind \in {"pos", "acct"} :
            /\ Len(apis[current].rsp) < MaxPending
            /\ Call(apis, current, kind)
            /\ spent' = [spent EXCEPT !.stray = @ \/ (apis' # apis /\ ~Through)]
    /\ UNCHANGED <<state, conns, reqLogin, current, ctpApi, session, loops, mgr,
                   checkers, stop, day>>

\* Mutant: the comparison of states is off by one.
WaiterDone_TooEarly(k) ==
    /\ Up /\ apis[k].waiter = "waiting"
    /\ IsLoggedIn \/ state = "LoggingIn" \/ stop # "no"
    /\ apis' = [apis EXCEPT ![k].waiter = "off"]
    /\ UNCHANGED <<state, conns, reqLogin, current, ctpApi, session, tasks, stop, proc,
                   day, spent>>

\* waitForLogin: a tick finds the login done or the trader stopped.
WaiterDone(k) ==
    /\ Up /\ apis[k].waiter = "waiting"
    /\ IsLoggedIn \/ stop # "no"
    /\ apis' = [apis EXCEPT ![k].waiter = "off"]
    /\ UNCHANGED <<state, conns, reqLogin, current, ctpApi, session, tasks, stop, proc,
                   day, spent>>

\* 15 seconds are over; select takes any case that is ready.  stopCtpApi takes
\* the API away from the SPI of the trader, whichever instance that is.
LoginTimeout(k) ==
    /\ Up /\ apis[k].waiter = "waiting"
    /\ spent.timeouts < MaxTimeouts /\ Spend("timeouts")
    /\ state' = "Stopping"
    /\ apis' = [apis EXCEPT ![k].waiter = "stopping", ![current].held = FALSE]
    /\ UNCHANGED <<conns, reqLogin, current, ctpApi, session, tasks, stop, proc, day>>

ReleaseApi(k) ==
    /\ Up /\ apis[k].waiter = "stopping"
    /\ apis' = [apis EXCEPT ![k].waiter = "off", ![k].link = "released",
                            ![k].session = FALSE, ![k].rsp = <<>>]
    /\ ctpApi' = 0
    /\ UNCHANGED <<state, conns, reqLogin, current, session, tasks, stop, proc, day,
                   spent>>

\* Stop, from the signal handler of main; the API is not released.
Stop ==
    /\ Up /\ MayStop /\ stop = "no"
    /\ stop' = "saving" /\ state' = "Stopping"
    /\ UNCHANGED <<conns, reqLogin, apis, current, ctpApi, session, tasks, proc, day,
                   spent>>

FinishStop ==
    /\ Up /\ stop = "saving"
    /\ stop' = "done" /\ state' = "Stopped"
    /\ UNCHANGED <<conns, reqLogin, apis, current, ctpApi, session, tasks, proc, day,
                   spent>>

NextDay ==
    /\ day < MaxDay
    /\ day' = day + 1
    /\ UNCHANGED <<state, conns, reqLogin, apis, current, ctpApi, session, tasks, stop,
                   proc, spent>>

-----------------------------------------------------------------------------
Init ==
    /\ state = "Init" /\ conns = [c \in Clients |-> "gone"]
    /\ reqLogin = NoLogin /\ apis = [k \in Ids |-> Unused]
    /\ current = 0 /\ ctpApi = 0
    /\ user = 0 /\ loaded = {} /\ confirmed = FALSE /\ confirmedOn = 0
    /\ inited = FALSE /\ instrReady = FALSE
    /\ loops = 0 /\ idling = 0 /\ mgr = FALSE /\ checkers = 0
    /\ stop = "no" /\ proc = "up" /\ day = 1
    /\ spent = [drops |-> 0, errors |-> 0, timeouts |-> 0, early |-> FALSE,
                stray |-> FALSE]

Callback(k) ==
    \/ OnFrontConnected(k)
    \/ OnRspAuthenticate(k)
    \/ OnRspUserLogin(k)
    \/ EnterSession(k)
    \/ OnRspQrySettlementInfo(k)
    \/ OnRspSettlementInfoConfirm(k)
    \/ OnRspQryInstrument(k)
    \/ \E kind \in DOMAIN After : OnRspQuery(k, kind)
    \/ OnRspQryTrade(k)
    \/ OnRspError(k)

Next ==
    \/ \E c \in Clients : OnConnect(c)
    \/ \E c \in Clients : OnDisconnect(c)
    \/ \E c \in Clients, l \in Logins : JoinSession(c, l)
    \/ \E c \in Clients, l \in Logins : BrokerNotFound(c, l)
    \/ \E c \in Clients, l \in Logins : StartSession(c, l)
    \/ \E k \in Ids : InitApi(k)
    \/ \E c \in Clients : ConfirmSettlement(c)
    \/ \E c \in Clients : QrySettlementInfo(c)
    \/ \E k \in Ids : Callback(k)
    \/ \E k \in Ids : OnFrontDisconnected(k)
    \/ OnIdle
    \/ IdleQuery
    \/ \E k \in Ids : WaiterDone(k)
    \/ \E k \in Ids : LoginTimeout(k)
    \/ \E k \in Ids : ReleaseApi(k)
    \/ Stop
    \/ FinishStop
    \/ NextDay

Spec == Init /\ [][Next]_vars

(* CTP reconnects and answers by itself, its thread runs the callbacks, and *)
(* a request of a client runs to its end.                                  *)
FairSpec == Spec /\ \A k \in Ids : WF_vars(InitApi(k)) /\ WF_vars(Callback(k))

-----------------------------------------------------------------------------
(* Correctness.                                                            *)

Spent == [drops: 0..MaxDrops, errors: 0..MaxErrors, timeouts: 0..MaxTimeouts,
          early: BOOLEAN, stray: BOOLEAN]

(* Every variable has its type, and the responses owed stay in bounds.     *)
TypeOK ==
    /\ state \in States
    /\ conns \in [Clients -> {"gone", "open", "in"}]
    /\ reqLogin \in Login \cup {NoLogin}
    /\ apis \in [Ids -> Instance]
    /\ current \in 0..MaxApis /\ ctpApi \in 0..MaxApis
    /\ user \in 0..MaxDay /\ loaded \subseteq Parts
    /\ confirmedOn \in 0..MaxDay /\ day \in 1..MaxDay
    /\ {confirmed, inited, instrReady, mgr} \subseteq BOOLEAN
    /\ loops \in Nat /\ idling \in Nat /\ checkers \in Nat
    /\ stop \in {"no", "saving", "done"} /\ proc \in {"up", "panicked"}
    /\ spent \in Spent

\* Only one CTP API instance was ever created.
SoleSession == Cardinality(Created) <= 1

(* The trader is Ready only when the settlement was confirmed and every    *)
(* query of the chain has filled in the user data of the present login,    *)
(* reconnections, late responses, repeated confirmations and settlements   *)
(* of days gone by included.  An idle loop that found the trader Ready     *)
(* before the loss of the front and queries after it breaks this.          *)
ReadyIsComplete ==
    SoleSession /\ ~spent.stray /\ state = "Ready" =>
        confirmed /\ instrReady /\ inited /\ loaded = Parts

(* A confirmation counts for the trading day it was given on.              *)
ConfirmationIsCurrent == confirmed => confirmedOn = user

(* Until a login times out or the trader is stopped, nothing meets an SPI  *)
(* without its API but in one window: a later login has installed its SPI  *)
(* and not yet its API while an earlier instance goes on.  The first login *)
(* cannot bring the process down, and neither can the loss of a front.     *)
PanicIsOverlap ==
    [][Up /\ ~Up' /\ spent.timeouts = 0 /\ stop = "no" =>
         Begun /\ apis[current].link = "new"]_vars

(* A login is given up or completed, and never forgotten: while the trader *)
(* is on its way to its first session, somebody watches the clock, as long *)
(* as no other login has timed out, no client has confirmed a settlement   *)
(* (both make the trader look logged in) and it is not stopped.            *)
LoginWatched ==
    stop = "no" /\ spent.timeouts = 0 /\ ~spent.early /\ user = 0 /\ (\A k \in Ids : ~apis[k].session)
    /\ state \in {"Connecting", "Connected", "Authenticating", "Authenticated", "LoggingIn"}
    => \E k \in Ids : apis[k].waiter = "waiting"

(* Once a client has logged in the trader is Ready again and again,        *)
(* whatever connections to the front are lost and whichever logins follow, *)
(* unless CTP answers with an error, a login times out, a refused login    *)
(* runs beside, or the process has panicked.                               *)
Disturbed ==
    \/ ~Up
    \/ spent.errors + spent.timeouts > 0
    \/ \E k \in Created : apis[k].login \notin Accepted

ReadyAgain == (current # 0) ~> (state = "Ready" \/ Disturbed)

-----------------------------------------------------------------------------
(* What the code or its README says and the code does not do.              *)

(* trader.go:841: onIdle checks the login state before it queries, so that *)
(* its queries belong to a login that was completed.                       *)
ReadyIsEarned ==
    SoleSession /\ state = "Ready" =>
        confirmed /\ instrReady /\ inited /\ loaded = Parts

(* README.md:189: condition orders are checked once the trader has been    *)
(* initialised with them enabled.                                          *)
ReadyMeansChecking == (state = "Ready" /\ mgr) => checkers > 0

(* login.go:195: waitForLogin ends with "login completed successfully" when*)
(* CTP has logged an instance in.                                          *)
WaitsForLogin ==
    [][\A k \in Ids :
         apis[k].waiter = "waiting" /\ apis'[k].waiter = "off" /\ stop = "no"
         => user # 0 \/ \E j \in Ids : apis[j].session]_vars

(* login.go:205: stopCtpApi stops the API instance of the login that timed *)
(* out.                                                                    *)
TimeoutStopsItsOwn ==
    [][\A k \in Ids : apis[k].held /\ ~apis'[k].held => apis'[k].waiter = "stopping"]_vars

(* ctp_wrapper.go:90: when the front connects again a client that was let  *)
(* in is still logged in.                                                  *)
ReconnectStaysLoggedIn ==
    [][\A k \in Ids :
         (/\ apis[k].link = "down" /\ apis'[k].link = "up"
          /\ user # 0 /\ IsLoggedIn)
         => IsLoggedIn']_vars
=============================================================================
