----------------------------- MODULE UserDataSync -----------------------------
(***************************************************************************)
(* How the records of the user (accounts, positions, orders, trades, banks *)
(* and transfers) reach the clients.                                       *)
(*                                                                         *)
(* A change of a record sets its Changed flag.  The idle loop, a client's  *)
(* peek_message and the end of a query chain push the flagged records to   *)
(* every connection and take the flags away; a login to a running session  *)
(* and qry_condition_order dump all records to one connection, and take    *)
(* away the flags too.  userMu covers the building of a message and its    *)
(* passing to the connections, so that each of these is one action; the    *)
(* decision to push is taken before userMu is locked and is a step of its  *)
(* own.  Every connection has a bounded channel of messages and a          *)
(* goroutine that writes them; a message for a full channel is dropped.    *)
(*                                                                         *)
(* The contents of a record are abstracted to a version, the number of     *)
(* times it changed; a message maps the records it carries to versions.    *)
(***************************************************************************)
EXTENDS Naturals, Sequences, FiniteSets

CONSTANTS
    Clients,     \* WebSocket connections, each of which opens once
    Positions, Accounts, Banks, Others,  \* the records a user may have
    CondEnabled, \* config.Global.ConditionOrder.Enabled
    Capacity,    \* capacity of sendChan (256 in NewConnection)
    Insolvency,  \* bound: may a recalculated balance be zero or less?
    MaxUpdates,  \* bound: changes of records
    MaxSessions  \* bound: logins to CTP

Records == Positions \cup Accounts \cup Banks \cup Others

\* The goroutines that call sendAllUserData: the read loop of each connection,
\* the idle loop and the callback thread of CTP.
Threads == Clients \cup {"idle", "spi"}

ASSUME UserDataAssumption ==
    /\ Capacity \in Nat \ {0} /\ MaxUpdates \in Nat /\ MaxSessions \in Nat
    /\ CondEnabled \in BOOLEAN /\ Insolvency \in BOOLEAN
    /\ {"idle", "spi"} \cap Clients = {}
    /\ Positions \cap (Accounts \cup Banks \cup Others) = {}
    /\ Accounts \cap Banks = {}

VARIABLES
    session,  \* TraderCTP.state, as far as these handlers tell it
    user,     \* is TraderCTP.user set?
    managed,  \* is condOrderMgr set?
    present,  \* the records of the user
    version,  \* the version of each record
    changed,  \* the records whose Changed flag is set
    nan,      \* the accounts whose RiskRatio is NaN, which JSON does not have
    peek,     \* peekMessage
    conn,     \* the connections: "new", "open" or "closed"
    joined,   \* ConnInfo.IsLoggedIn
    writing,  \* the connections whose writeLoop runs
    queue,    \* sendChan of each connection
    view,     \* the version of each record each client has received
    pushing,  \* the threads about to lock userMu in sendAllUserData
    dumping,  \* the read loops about to lock userMu in sendUserData
    greeting, \* those of them that do so at the end of a login
    updates, logins

\* History: records whose version a connection was not sent because it had not
\* been open or its channel was full (missed), because the flag went with the
\* full dump for another connection (taken), or because the message that the
\* flag went with could not be serialised (lost).
VARIABLES missed, taken, lost

data == <<present, version, changed, nan>>
net  == <<conn, joined, writing, queue, view>>
hist == <<missed, taken, lost>>
calls == <<pushing, dumping, greeting>>
vars == <<session, user, managed, data, peek, net, calls, updates, logins, hist>>

Sessions == {"out", "entering", "settling", "loading", "ready"}
LoggedIn == session # "out"
Open == {c \in Clients : conn[c] = "open"}

\* A message carries versions of some records; a notification carries none.
IsMessage(m) == DOMAIN m \subseteq Records /\ m \in [DOMAIN m -> Nat]
Notice  == [r \in {} |-> 0]

TypeOK ==
    /\ session \in Sessions
    /\ {user, managed, peek} \subseteq BOOLEAN
    /\ changed \subseteq present /\ present \subseteq Records
    /\ nan \subseteq present \cap Accounts
    /\ version \in [Records -> Nat]
    /\ conn \in [Clients -> {"new", "open", "closed"}]
    /\ joined \subseteq Clients /\ writing \subseteq Clients
    /\ DOMAIN queue = Clients
    /\ \A c \in Clients : /\ Len(queue[c]) \in 0..Capacity
                          /\ \A i \in 1..Len(queue[c]) : IsMessage(queue[c][i])
    /\ view \in [Clients -> [Records -> Nat]]
    /\ pushing \subseteq Threads /\ dumping \subseteq Clients
    /\ greeting \subseteq dumping
    /\ {missed, taken, lost} \subseteq [Clients -> SUBSET Records]
    /\ updates \in 0..MaxUpdates /\ logins \in 0..MaxSessions

Init ==
    /\ session = "out" /\ user = FALSE /\ managed = FALSE /\ peek = FALSE
    /\ present = {} /\ changed = {} /\ nan = {} /\ version = [r \in Records |-> 0]
    /\ conn = [c \in Clients |-> "new"]
    /\ joined = {} /\ writing = {} /\ pushing = {} /\ dumping = {} /\ greeting = {}
    /\ queue = [c \in Clients |-> <<>>]
    /\ view = [c \in Clients |-> [r \in Records |-> 0]]
    /\ missed = [c \in Clients |-> {}] /\ taken = missed /\ lost = missed
    /\ updates = 0 /\ logins = 0

-----------------------------------------------------------------------------
\* Connection.Send of m to the connections in S, whose channels are q.
Takes(q, c) == conn[c] = "open" /\ Len(q[c]) < Capacity
Put(q, S, m) == [c \in Clients |-> IF c \in S /\ Takes(q, c) THEN Append(q[c], m) ELSE q[c]]
Send(S, m) == Put(queue, S, m)

Raise(S) == [r \in Records |-> IF r \in S THEN version[r] + 1 ELSE version[r]]
Carry(S, ver) == [r \in S |-> ver[r]]

\* sonic does not marshal a NaN: the message is then an empty one.
Marshals(S) == S \cap nan' = {}
Marshal(S, ver) == IF Marshals(S) THEN Carry(S, ver) ELSE Notice

\* recalculateAccountProfit: a flagged position changes every account.
Recalculated(flagged) == IF flagged \cap Positions # {} THEN present \cap Accounts
                         ELSE {}

\* It leaves NaN in the RiskRatio of the accounts of no positive balance, here
\* those in Poor.
Ratios(accts, Poor) ==
    /\ Poor \subseteq accts /\ (Insolvency \/ Poor = {})
    /\ nan' = (nan \ accts) \cup Poor

-----------------------------------------------------------------------------
(*                                The records                              *)

\* Mutant: only a record that is new is flagged.
Update_NewOnly(r) ==
    /\ user /\ updates < MaxUpdates
    /\ present' = present \cup {r}
    /\ changed' = IF r \in present THEN changed ELSE changed \cup {r}
    /\ version' = Raise({r})
    /\ nan' = nan \ {r}
    /\ updates' = updates + 1
    /\ UNCHANGED <<session, user, managed, peek, net, calls, logins, hist>>

\* A response or a report of CTP: updateAccount, updatePosition, updateOrder,
\* updateTrade, updateBank, updateTransfer, ...  updateAccount looks for the
\* account by its id, keeps it by its currency, and so makes it anew every time, with a
\* RiskRatio that can be serialised.
Update(r) ==
    /\ user /\ updates < MaxUpdates
    /\ present' = present \cup {r}
    /\ changed' = changed \cup {r}
    /\ version' = Raise({r})
    /\ nan' = nan \ {r}
    /\ updates' = updates + 1
    /\ UNCHANGED <<session, user, managed, peek, net, calls, logins, hist>>

\* Quotes for the positions in P; the price of some may be a new one, or only
\* their market status.
OnQuotesUpdate(P, moved, Poor) ==
    /\ user /\ updates < MaxUpdates
    /\ P # {} /\ P \subseteq present \cap Positions
    /\ LET accts == IF moved THEN Recalculated(changed \cup P) ELSE {}
       IN  /\ version' = Raise(P \cup accts)
           /\ changed' = changed \cup P \cup accts
           /\ Ratios(accts, Poor)
    /\ updates' = updates + 1
    /\ UNCHANGED <<session, user, managed, present, peek, net, calls,
                   logins, hist>>

\* qry_account_register empties the banks before they are queried again.
QryAccountRegister ==
    /\ LoggedIn /\ user /\ present \cap Banks # {}
    /\ present' = present \ Banks
    /\ changed' = changed \ Banks
    /\ missed' = [c \in Clients |-> missed[c] \ Banks]
    /\ taken' = [c \in Clients |-> taken[c] \ Banks]
    /\ lost' = [c \in Clients |-> lost[c] \ Banks]
    /\ UNCHANGED <<session, user, managed, version, nan, peek, net, calls,
                   updates, logins>>

-----------------------------------------------------------------------------
(*                               The session                               *)

\* OnRspUserLogin sets the state before it sets up the user.
LogIn ==
    /\ session = "out" /\ logins < MaxSessions /\ "spi" \notin pushing
    /\ session' = "entering"
    /\ logins' = logins + 1
    /\ UNCHANGED <<user, managed, data, peek, net, calls, updates, hist>>

\* initUserData, or clearOldDataForNewTradingDay: the maps of the user are empty.
InitUserData ==
    /\ session = "entering"
    /\ session' = "settling" /\ user' = TRUE
    /\ present' = {} /\ changed' = {} /\ nan' = {}
    /\ missed' = [c \in Clients |-> {}] /\ taken' = missed' /\ lost' = missed'
    /\ UNCHANGED <<managed, version, peek, net, calls, updates, logins>>

\* onSettlementConfirmed creates the manager and starts the queries.
OnSettlementConfirmed ==
    /\ session = "settling"
    /\ session' = "loading"
    /\ managed' = CondEnabled
    /\ UNCHANGED <<user, data, peek, net, calls, updates, logins, hist>>

\* The last response of a query chain; a refresh of the positions is one too.
OnRspQryTrade ==
    /\ session \in {"loading", "ready"} /\ "spi" \notin pushing
    /\ session' = "ready"
    /\ pushing' = pushing \cup {"spi"}
    /\ UNCHANGED <<user, managed, data, peek, net, dumping, greeting, updates, logins,
                   hist>>

OnFrontDisconnected ==
    /\ LoggedIn /\ session # "entering" /\ "spi" \notin pushing
    /\ session' = "out"
    /\ UNCHANGED <<user, managed, data, peek, net, calls, updates,
                   logins, hist>>

-----------------------------------------------------------------------------
(*                               Connections                               *)

\* handleWebSocket and OnConnect.  What was pushed before is missed.
Connect(c) ==
    /\ conn[c] = "new"
    /\ conn' = [conn EXCEPT ![c] = "open"]
    /\ writing' = writing \cup {c}
    /\ missed' = [missed EXCEPT ![c] = present \ changed]
    /\ UNCHANGED <<session, user, managed, data, peek, joined, queue, view, calls,
                   updates, logins, taken, lost>>

\* The read loop ends between two messages: Close, removeConnection, OnDisconnect.
Disconnect(c) ==
    /\ conn[c] = "open" /\ c \notin pushing \cup dumping
    /\ conn' = [conn EXCEPT ![c] = "closed"]
    /\ joined' = joined \ {c} /\ writing' = writing \ {c}
    /\ queue' = [queue EXCEPT ![c] = <<>>]
    /\ view' = [view EXCEPT ![c] = [r \in Records |-> 0]]
    /\ missed' = [missed EXCEPT ![c] = {}] /\ taken' = [taken EXCEPT ![c] = {}]
    /\ lost' = [lost EXCEPT ![c] = {}]
    /\ UNCHANGED <<session, user, managed, data, peek, calls, updates, logins>>

\* Mutant: a second writeLoop serves the same channel.
Write_AnyOrder(c) ==
    /\ c \in writing /\ queue[c] # <<>>
    /\ \E i \in DOMAIN queue[c] :
        /\ view' = [view EXCEPT ![c] = [r \in Records |->
                        IF r \in DOMAIN queue[c][i] THEN queue[c][i][r] ELSE view[c][r]]]
        /\ queue' = [queue EXCEPT ![c] = SubSeq(@, 1, i-1) \o SubSeq(@, i+1, Len(@))]
    /\ UNCHANGED <<session, user, managed, data, peek, conn, joined, writing, calls,
                   updates, logins, hist>>

\* writeLoop passes on the next message.
Write(c) ==
    /\ c \in writing /\ queue[c] # <<>>
    /\ LET m == Head(queue[c])
       IN  view' = [view EXCEPT ![c] = [r \in Records |->
                        IF r \in DOMAIN m THEN m[r] ELSE view[c][r]]]
    /\ queue' = [queue EXCEPT ![c] = Tail(@)]
    /\ UNCHANGED <<session, user, managed, data, peek, conn, joined, writing, calls,
                   updates, logins, hist>>

\* writeLoop ends on a write error and leaves the connection registered.
WriteFails(c) ==
    /\ c \in writing /\ queue[c] # <<>>
    /\ writing' = writing \ {c}
    /\ queue' = [queue EXCEPT ![c] = Tail(@)]
    /\ UNCHANGED <<session, user, managed, data, peek, conn, joined, view, calls,
                   updates, logins, hist>>

\* A notification to the connections in S; it carries no record and only takes
\* up room.
Notify(S) ==
    /\ \E c \in S : Takes(queue, c)
    /\ queue' = Send(S, Notice)
    /\ UNCHANGED <<session, user, managed, data, peek, conn, joined, writing, view,
                   calls, updates, logins, hist>>

-----------------------------------------------------------------------------
(*                          Pushes and full dumps                          *)

Reading(c) == conn[c] = "open" /\ c \notin pushing \cup dumping

PeekMessage(c) ==
    /\ Reading(c) /\ LoggedIn
    /\ peek' = TRUE
    /\ pushing' = pushing \cup {c}
    /\ UNCHANGED <<session, user, managed, data, net, dumping, greeting, updates,
                   logins, hist>>

\* Mutant: the idle loop serves only a trader that is still loading.
OnIdle_Loading ==
    /\ session = "loading" /\ peek /\ "idle" \notin pushing
    /\ pushing' = pushing \cup {"idle"}
    /\ UNCHANGED <<session, user, managed, data, peek, net, dumping, greeting, updates,
                   logins, hist>>

\* The second step of onIdle.
OnIdle ==
    /\ session = "ready" /\ peek /\ "idle" \notin pushing
    /\ pushing' = pushing \cup {"idle"}
    /\ UNCHANGED <<session, user, managed, data, peek, net, dumping, greeting, updates,
                   logins, hist>>

\* What the history says after the flags of the records in F went with a message
\* of the records in S to the connections in To.
Remember(F, S, To) ==
    LET told(c) == c \in To /\ Takes(queue, c) /\ Marshals(S)
        After(h, c, cause) == IF told(c) THEN h[c] \ S
                              ELSE IF c \in Open /\ cause THEN h[c] \cup F ELSE h[c]
    IN  /\ missed' = [c \in Clients |-> After(missed, c, c \in To /\ ~Takes(queue, c))]
        /\ taken' = [c \in Clients |-> After(taken, c, c \notin To)]
        /\ lost' = [c \in Clients |-> After(lost, c, ~Marshals(S))]

\* Mutant: the accounts are recalculated after the message was built.
SendAllUserData_BuildsFirst(t, Poor) ==
    /\ t \in pushing
    /\ pushing' = pushing \ {t}
    /\ IF user /\ changed # {}
       THEN /\ Ratios(Recalculated(changed), Poor)
            /\ queue' = Send(Open, Carry(changed, version))
            /\ version' = Raise(Recalculated(changed))
            /\ changed' = {}
            /\ Remember(changed, changed, Clients)
       ELSE Poor = {} /\ UNCHANGED <<version, changed, nan, queue, hist>>
    /\ UNCHANGED <<session, user, managed, present, peek, conn, joined, writing, view,
                   dumping, greeting, updates, logins>>

\* sendAllUserData, under userMu.
SendAllUserData(t, Poor) ==
    /\ t \in pushing
    /\ pushing' = pushing \ {t}
    /\ IF user /\ changed # {}
       THEN LET accts == Recalculated(changed)
                diff  == changed \cup accts
            IN  /\ Ratios(accts, Poor)
                /\ version' = Raise(accts)
                /\ changed' = {}
                /\ queue' = Send(Open, Marshal(diff, version'))
                /\ Remember(diff, diff, Clients)
       ELSE Poor = {} /\ UNCHANGED <<version, changed, nan, queue, hist>>
    /\ UNCHANGED <<session, user, managed, present, peek, conn, joined, writing, view,
                   dumping, greeting, updates, logins>>

\* req_login with the credentials of the running session.
JoinSession(c) ==
    /\ Reading(c) /\ LoggedIn /\ c \notin joined
    /\ joined' = joined \cup {c}
    /\ LET told == Send({c}, Notice)
       IN  queue' = IF user THEN Put(told, {c}, Notice) ELSE told  \* sendSessionInfo
    /\ dumping' = dumping \cup {c} /\ greeting' = greeting \cup {c}
    /\ UNCHANGED <<session, user, managed, data, peek, conn, writing, view, pushing,
                   updates, logins, hist>>

QryConditionOrder(c) ==
    /\ Reading(c) /\ LoggedIn /\ managed
    /\ dumping' = dumping \cup {c}
    /\ UNCHANGED <<session, user, managed, data, peek, net, pushing, greeting, updates,
                   logins, hist>>

\* sendUserData, under userMu: positions whose cached quote has a new price are
\* updated (those in P), then everything is sent to one connection and every
\* flag taken away.  At the end of a login the settlement text goes to everybody,
\* unless it is confirmed (text).
SendUserData(c, P, Poor, text) ==
    /\ c \in dumping
    /\ dumping' = dumping \ {c} /\ greeting' = greeting \ {c}
    /\ P = {} \/ (user /\ updates < MaxUpdates /\ P \subseteq present \cap Positions)
    /\ updates' = IF P = {} THEN updates ELSE updates + 1
    /\ text => c \in greeting
    /\ LET After(q) == IF text THEN Put(q, Clients, Notice) ELSE q
       IN  IF user
           THEN LET accts == Recalculated(changed \cup P)
                IN  /\ Ratios(accts, Poor)
                    /\ version' = Raise(P \cup accts)
                    /\ changed' = {}
                    /\ queue' = After(Send({c}, Marshal(present, version')))
                    /\ Remember(changed \cup P \cup accts, present, {c})
                    /\ peek' = FALSE
           ELSE /\ Poor = {} /\ queue' = After(queue)
                /\ UNCHANGED <<version, changed, nan, hist, peek>>
    /\ UNCHANGED <<session, user, managed, present, conn, joined, writing, view, pushing,
                   logins>>

Next ==
    \/ \E r \in Records : Update(r)
    \/ \E P \in SUBSET Positions, moved \in BOOLEAN, Poor \in SUBSET Accounts :
          OnQuotesUpdate(P, moved, Poor)
    \/ QryAccountRegister
    \/ LogIn \/ InitUserData \/ OnSettlementConfirmed
    \/ OnRspQryTrade \/ OnFrontDisconnected \/ OnIdle
    \/ Notify(Clients)
    \/ \E c \in Clients :
        \/ Connect(c) \/ Disconnect(c) \/ Write(c) \/ WriteFails(c) \/ Notify({c})
        \/ PeekMessage(c) \/ JoinSession(c) \/ QryConditionOrder(c)
        \/ \E P \in SUBSET Positions, Poor \in SUBSET Accounts, text \in BOOLEAN :
              SendUserData(c, P, Poor, text)
    \/ \E t \in Threads, Poor \in SUBSET Accounts : SendAllUserData(t, Poor)

Spec == Init /\ [][Next]_vars

\* The idle ticker and the goroutines that hold or wait for userMu go on running.
Fairness ==
    /\ WF_vars(OnIdle)
    /\ \A t \in Threads : WF_vars(\E Poor \in SUBSET Accounts : SendAllUserData(t, Poor))
    /\ \A c \in Clients :
          WF_vars(Write(c)) /\ WF_vars(\E Poor \in SUBSET Accounts, text \in BOOLEAN :
                                       SendUserData(c, {}, Poor, text))

LiveSpec == Spec /\ Fairness

-----------------------------------------------------------------------------
(*                               Properties                                *)

\* The version of r that client c has once it has read what is in its channel.
Coming(c, r) ==
    LET at == {i \in DOMAIN queue[c] : r \in DOMAIN queue[c][i]}
    IN  IF at = {} THEN view[c][r]
        ELSE queue[c][CHOOSE i \in at : \A j \in at : j <= i][r]

\* Does client c have, or is it about to have, every unflagged record in its
\* present version, those in Excused apart?
UpToDate(c, Excused) ==
    \A r \in present \ (changed \cup Excused) : Coming(c, r) = version[r]

\* An unflagged record is on every connection in its present version, except
\* where the write loop has ended, the connection was not open in time or
\* dropped a message, or the flag went with the full dump for another or with a
\* message that could not be serialised (buildUserDataMsgInternal,
\* sendAllUserData, sendUserData and the Changed flags of all updates).
Synced == \A c \in Open \cap writing : UpToDate(c, missed[c] \cup taken[c] \cup lost[c])

\* A client is never shown an older version of a record after a newer one
\* (messages are built and queued under userMu, and one writeLoop writes them).
ViewsNeverRegress ==
    [][\A c \in Clients, r \in Records :
          conn'[c] = "open" => view'[c][r] >= view[c][r]]_vars

\* "发送用户数据给所有客户端 (diff 模式)": a flag goes only with the message to
\* all clients.  The full dump for one client breaks it for the others.
EveryoneIsTold == \A c \in Open \cap writing : UpToDate(c, missed[c] \cup lost[c])

\* "序列化后重置 changed = false": a flag goes after the record was serialised.
\* It goes before, and an account with RiskRatio NaN makes the whole message
\* fail, the records of other kinds in it included.
ResetAfterSerialised == \A c \in Open \cap writing : UpToDate(c, missed[c] \cup taken[c])

\* A changed record reaches a client that keeps up, while the trader is Ready
\* and peekMessage is set (onIdle, writeLoop).
DiffsArrive ==
    \A c \in Clients, r \in Records : \A v \in 1..(2 * MaxUpdates) :
        (conn[c] = "open" /\ session = "ready" /\ peek /\ r \in changed /\ version[r] = v)
        ~> \/ view[c][r] >= v
           \/ conn[c] # "open" \/ c \notin writing \/ session # "ready" \/ ~peek
           \/ r \notin present \/ r \in missed[c] \cup taken[c] \cup lost[c]
=============================================================================
