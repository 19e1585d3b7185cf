------------------------ MODULE QuerySchedulerProofs -------------------------
(***************************************************************************)
(* Proofs about QueryScheduler, for every number of idle loops and every   *)
(* bound.                                                                  *)
(***************************************************************************)
EXTENDS QueryScheduler, TLAPS

-----------------------------------------------------------------------------
(* Facts about the requests under way.                                     *)

LEMMA SentType ==
    ASSUME NEW q \in Seq(Answer), Len(q) <= MaxOwed, NEW k \in Queries
    PROVE  Sent(q, k) \in Seq(Answer) /\ Len(Sent(q, k)) <= MaxOwed /\ (~link => Sent(q, k) = q)
  <1>1. [kind |-> k, old |-> FALSE] \in Answer
    BY DEF Answer
  <1>2. QED
    BY <1>1, QuerySchedulerAssumption DEF Sent

LEMMA TailType ==
    ASSUME NEW q \in Seq(Answer), q # <<>>, Len(q) <= MaxOwed
    PROVE  Tail(q) \in Seq(Answer) /\ Len(Tail(q)) <= MaxOwed /\ Len(Tail(q)) = Len(q) - 1
  BY QuerySchedulerAssumption

LEMMA OutdateType ==
    ASSUME TypeOK, NEW K \in SUBSET Counted, Outdate(K)
    PROVE  /\ stale' \subseteq Counted /\ owed' \in Seq(Answer)
           /\ Len(owed') = Len(owed) /\ DOMAIN owed' = DOMAIN owed
           /\ \A i \in DOMAIN owed : owed'[i].kind = owed[i].kind
  <1> DEFINE old(i) == IF owed[i].kind \in K THEN [owed[i] EXCEPT !.old = TRUE] ELSE owed[i]
  <1>1. owed \in Seq(Answer)
    BY DEF TypeOK
  <1>2. \A i \in 1..Len(owed) : owed[i] \in Answer
    BY <1>1
  <1>3. \A i \in 1..Len(owed) : old(i) \in Answer /\ old(i).kind = owed[i].kind
    BY <1>2 DEF Answer
  <1>4. owed' = [i \in 1..Len(owed) |-> old(i)]
    BY <1>1 DEF Outdate
  <1>5. owed' \in Seq(Answer) /\ Len(owed') = Len(owed) /\ DOMAIN owed' = DOMAIN owed
    BY <1>1, <1>3, <1>4
  <1>6. stale' \subseteq Counted
    BY DEF Outdate, TypeOK
  <1>7. QED
    BY <1>1, <1>3, <1>4, <1>5, <1>6

(* Requests are counted up to MaxCount.                                    *)
LEMMA RequestType ==
    ASSUME TypeOK, NEW K, Request(K)
    PROVE  req' \in [Counted -> 0..MaxCount]
  BY DEF Request, TypeOK, MaxCount

LEMMA SpareType ==
    ASSUME TypeOK
    PROVE  /\ Spare("events", MaxEvents) => spent' \in [events : 0..MaxEvents, mishaps : 0..MaxMishaps]
           /\ Spare("mishaps", MaxMishaps) => spent' \in [events : 0..MaxEvents, mishaps : 0..MaxMishaps]
  <1>1. /\ spent \in [events : 0..MaxEvents, mishaps : 0..MaxMishaps]
        /\ spent.events \in Nat /\ spent.mishaps \in Nat
    BY DEF TypeOK
  <1>2. ASSUME Spare("events", MaxEvents)
        PROVE  spent' \in [events : 0..MaxEvents, mishaps : 0..MaxMishaps]
    <2>1. spent.events < MaxEvents /\ spent' = [spent EXCEPT !.events = @ + 1]
      BY <1>2 DEF Spare, Spend
    <2>2. spent.events + 1 \in 0..MaxEvents
      BY <1>1, <2>1, QuerySchedulerAssumption
    <2>3. QED
      BY <1>1, <2>1, <2>2
  <1>3. ASSUME Spare("mishaps", MaxMishaps)
        PROVE  spent' \in [events : 0..MaxEvents, mishaps : 0..MaxMishaps]
    <2>1. spent.mishaps < MaxMishaps /\ spent' = [spent EXCEPT !.mishaps = @ + 1]
      BY <1>3 DEF Spare, Spend
    <2>2. spent.mishaps + 1 \in 0..MaxMishaps
      BY <1>1, <2>1, QuerySchedulerAssumption
    <2>3. QED
      BY <1>1, <2>1, <2>2
  <1>4. QED
    BY <1>2, <1>3

LEMMA GoType ==
    ASSUME TypeOK, NEW l \in Loops, NEW pc \in {"tick", "look", "send"}, Go(l, pc)
    PROVE  loop' \in [Loops -> {"tick", "look", "send"}]
  BY DEF TypeOK, Go

LEMMA RestType ==
    ASSUME TypeOK, NEW l \in Loops, Rest(l)
    PROVE  /\ loop' \in [Loops -> {"tick", "look", "send"}] /\ query' \in [Loops -> Idles]
           /\ query'[l] = "position"
           /\ \A m \in Loops \ {l} : loop'[m] = loop[m] /\ query'[m] = query[m]
  BY DEF TypeOK, Rest, Go, Idles, Counted

-----------------------------------------------------------------------------
(* Type correctness.                                                       *)

LEMMA InitType == Init => TypeOK
  <1> SUFFICES ASSUME Init PROVE TypeOK
    OBVIOUS
  <1>1. owed \in Seq(Answer) /\ Len(owed) = 1
    BY DEF Init, Answer, Queries, Counted
  <1>2. /\ day \in 1..MaxDay /\ Len(owed) <= MaxOwed
        /\ spent \in [events : 0..MaxEvents, mishaps : 0..MaxMishaps]
    BY <1>1, QuerySchedulerAssumption DEF Init
  <1>3. refresh \in [Returns -> 0..MaxRefresh]
    BY QuerySchedulerAssumption DEF Init
  <1>4. /\ req \in [Counted -> 0..MaxCount] /\ rsp \in [Counted -> 0..MaxCount]
        /\ loop \in [Loops -> {"tick", "look", "send"}] /\ query \in [Loops -> Idles]
        /\ asking \in [Clients \cup {SPI} -> {"no", "bank", "register"}]
    BY DEF Init, MaxCount, Idles, Counted
  <1>5. need \subseteq Flags /\ book \subseteq {"order", "trade"} /\ banks \subseteq {"name", "account"}
    BY DEF Init
  <1>6. stale \subseteq Counted /\ spoilt \subseteq {"overtaken", "late", "emptied"}
    BY DEF Init
  <1>7. {cooling, link, inited} \subseteq BOOLEAN /\ link
    BY DEF Init
  <1>8. state \in {"login", "ready"}
    BY DEF Init
  <1>9. QED
    BY <1>1, <1>2, <1>3, <1>4, <1>5, <1>6, <1>7, <1>8 DEF TypeOK

(* An answer that is not an error response.                                *)
LEMMA AnswersType == TypeOK /\ Answers => TypeOK'
  <1> SUFFICES ASSUME TypeOK, Answers PROVE TypeOK'
    OBVIOUS
  <1> USE DEF sched, hist, ctp, tasks
  <1>0. owed # <<>> /\ link
    BY DEF Answers, Answered, OnRspQryTradingAccount, OnRspQryInvestorPosition, OnRspQryOrder, OnRspQryTrade,
       OnRspQryBrokerTradingParams, OnRspQryContractBank, OnRspQryAccountregister, TypeOK
  <1>1. owed \in Seq(Answer) /\ Tail(owed) \in Seq(Answer) /\ Len(Tail(owed)) <= MaxOwed
    BY <1>0, TailType DEF TypeOK
  <1>2. \A k \in Queries : Sent(Tail(owed), k) \in Seq(Answer) /\ Len(Sent(Tail(owed), k)) <= MaxOwed
    BY <1>1, SentType
  <1>3. \A k \in Counted : Renewed(k) => stale' \subseteq Counted
    BY DEF Renewed, TypeOK
  <1>5. CASE OnRspQryTradingAccount
    <2>1. owed' \in Seq(Answer) /\ Len(owed') <= MaxOwed
      BY <1>2, <1>5 DEF OnRspQryTradingAccount, Queries, Counted
    <2>2. stale' \subseteq Counted
      BY <1>3, <1>5 DEF OnRspQryTradingAccount, Counted
    <2>3. QED
      BY <1>0, <1>5, <2>1, <2>2 DEF OnRspQryTradingAccount, TypeOK
  <1>6. CASE OnRspQryInvestorPosition
    <2>1. owed' \in Seq(Answer) /\ Len(owed') <= MaxOwed
      BY <1>2, <1>6 DEF OnRspQryInvestorPosition, Queries
    <2>2. stale' \subseteq Counted
      BY <1>3, <1>6 DEF OnRspQryInvestorPosition, Counted
    <2>3. QED
      BY <1>0, <1>6, <2>1, <2>2 DEF OnRspQryInvestorPosition, TypeOK
  <1>7. CASE OnRspQryOrder
    <2>1. owed' \in Seq(Answer) /\ Len(owed') <= MaxOwed
      BY <1>2, <1>7 DEF OnRspQryOrder, Queries
    <2>2. refresh' \in [Returns -> 0..MaxRefresh]
      BY <1>7, QuerySchedulerAssumption DEF OnRspQryOrder, TypeOK, Returns
    <2>3. QED
      BY <1>0, <1>7, <2>1, <2>2 DEF OnRspQryOrder, TypeOK
  <1>8. CASE OnRspQryTrade
    <2>1. owed' \in Seq(Answer) /\ Len(owed') <= MaxOwed
      BY <1>1, <1>8 DEF OnRspQryTrade
    <2>2. refresh' \in [Returns -> 0..MaxRefresh]
      BY <1>8, QuerySchedulerAssumption DEF OnRspQryTrade, TypeOK, Returns
    <2>3. need' \subseteq Flags /\ state' \in {"login", "ready"} /\ inited' \in BOOLEAN
      BY <1>8 DEF OnRspQryTrade, TypeOK, Flags
    <2>4. asking' \in [Clients \cup {SPI} -> {"no", "bank", "register"}]
      BY <1>8 DEF OnRspQryTrade, TypeOK
    <2>5. QED
      BY <1>0, <1>8, <2>1, <2>2, <2>3, <2>4 DEF OnRspQryTrade, TypeOK
  <1>9. CASE OnRspQryBrokerTradingParams
    BY <1>0, <1>1, <1>9 DEF OnRspQryBrokerTradingParams, TypeOK
  <1>10. CASE OnRspQryContractBank
    BY <1>0, <1>1, <1>10 DEF OnRspQryContractBank, TypeOK
  <1>11. CASE OnRspQryAccountregister
    BY <1>0, <1>1, <1>11 DEF OnRspQryAccountregister, TypeOK
  <1>12. QED
    BY <1>5, <1>6, <1>7, <1>8, <1>9, <1>10, <1>11 DEF Answers

LEMMA NextType == TypeOK /\ [Next]_vars => TypeOK'
  <1> SUFFICES ASSUME TypeOK, [Next]_vars PROVE TypeOK'
    OBVIOUS
  <1> USE DEF sched, hist, ctp, tasks
  <1>1. ASSUME NEW r \in Returns, OnReturn(r) PROVE TypeOK'
    <2>1. stale' \subseteq Counted /\ owed' \in Seq(Answer) /\ Len(owed') = Len(owed)
      BY <1>1, OutdateType DEF OnReturn
    <2>2. refresh' \in [Returns -> 0..MaxRefresh]
      BY <1>1, QuerySchedulerAssumption DEF OnReturn, TypeOK
    <2>3. spent' \in [events : 0..MaxEvents, mishaps : 0..MaxMishaps]
      BY <1>1, SpareType DEF OnReturn
    <2>4. book' \subseteq {"order", "trade"}
      BY <1>1 DEF OnReturn, TypeOK
    <2>5. QED
      BY <1>1, <2>1, <2>2, <2>3, <2>4 DEF OnReturn, TypeOK
  <1>2. ASSUME NEW r \in Returns, RunRefresh(r) PROVE TypeOK'
    <2>1. refresh' \in [Returns -> 0..MaxRefresh]
      BY <1>2, QuerySchedulerAssumption DEF RunRefresh, TypeOK
    <2>2. req' \in [Counted -> 0..MaxCount]
      BY <1>2, RequestType DEF RunRefresh
    <2>3. QED
      BY <1>2, <2>1, <2>2 DEF RunRefresh, TypeOK
  <1>3. CASE OnTransfer
    <2>1. stale' \subseteq Counted /\ owed' \in Seq(Answer) /\ Len(owed') = Len(owed)
      BY <1>3, OutdateType DEF OnTransfer, Counted
    <2>2. refresh' \in [Returns -> 0..MaxRefresh]
      BY <1>3, QuerySchedulerAssumption DEF OnTransfer, TypeOK, Returns
    <2>3. spent' \in [events : 0..MaxEvents, mishaps : 0..MaxMishaps]
      BY <1>3, SpareType DEF OnTransfer
    <2>4. QED
      BY <1>3, <2>1, <2>2, <2>3 DEF OnTransfer, TypeOK
  <1>4. CASE QryAccountInfo
    <2>1. req' \in [Counted -> 0..MaxCount]
      BY <1>4, RequestType DEF QryAccountInfo
    <2>2. spent' \in [events : 0..MaxEvents, mishaps : 0..MaxMishaps]
      BY <1>4, SpareType DEF QryAccountInfo
    <2>3. QED
      BY <1>4, <2>1, <2>2 DEF QryAccountInfo, TypeOK
  <1>5. ASSUME NEW c \in Clients, QryAccountRegister(c) PROVE TypeOK'
    <2>1. spent' \in [events : 0..MaxEvents, mishaps : 0..MaxMishaps]
      BY <1>5, SpareType DEF QryAccountRegister
    <2>2. asking' \in [Clients \cup {SPI} -> {"no", "bank", "register"}]
      BY <1>5 DEF QryAccountRegister, TypeOK
    <2>3. QED
      BY <1>5, <2>1, <2>2 DEF QryAccountRegister, TypeOK
  <1>6. ASSUME NEW a \in Clients \cup {SPI}, SetNeed(a) PROVE TypeOK'
    <2>1. asking[a] \in {"bank", "register"}
      BY <1>6 DEF SetNeed, TypeOK
    <2>2. /\ need' \subseteq Flags /\ asking' \in [Clients \cup {SPI} -> {"no", "bank", "register"}]
          /\ spoilt' \subseteq {"overtaken", "late", "emptied"} /\ state' \in {"login", "ready"}
      BY <1>6, <2>1 DEF SetNeed, TypeOK, Flags
    <2>3. QED
      BY <1>6, <2>2 DEF SetNeed, TypeOK
  <1>7. ASSUME NEW l \in Loops, IdleTick(l) PROVE TypeOK'
    BY <1>7, GoType DEF IdleTick, TypeOK
  <1>8. ASSUME NEW l \in Loops, IdleLook(l) PROVE TypeOK'
    <2>1. \A k \in DOMAIN Following : Following[k] \in Idles
      BY DEF Following, Idles, Counted, Flags
    <2>2. loop' \in [Loops -> {"tick", "look", "send"}] /\ query' \in [Loops -> Idles]
      BY <1>8, <2>1, GoType, RestType DEF IdleLook, TypeOK
    <2>3. QED
      BY <1>8, <2>2 DEF IdleLook, TypeOK
  <1>9. ASSUME NEW l \in Loops, IdleSend(l) PROVE TypeOK'
    <2>1. loop' \in [Loops -> {"tick", "look", "send"}] /\ query' \in [Loops -> Idles]
      BY <1>9, RestType DEF IdleSend
    <2>2. query[l] \in Queries
      BY DEF TypeOK, Idles, Queries
    <2>3. owed' \in Seq(Answer) /\ Len(owed') <= MaxOwed /\ (~link => owed' = owed)
      BY <1>9, <2>2, SentType DEF IdleSend, TypeOK
    <2>4. spoilt' \subseteq {"overtaken", "late", "emptied"} /\ cooling' \in BOOLEAN
      BY <1>9 DEF IdleSend, TypeOK
    <2>5. QED
      BY <1>9, <2>1, <2>3, <2>4 DEF IdleSend, TypeOK
  <1>10. CASE Tick
    BY <1>10 DEF Tick, TypeOK
  <1>11. CASE Answers
    BY <1>11, AnswersType
  <1>12. CASE OnRspError
    <2>1. owed' \in Seq(Answer) /\ Len(owed') <= MaxOwed /\ link
      BY <1>12, TailType DEF OnRspError, TypeOK
    <2>2. spent' \in [events : 0..MaxEvents, mishaps : 0..MaxMishaps]
      BY <1>12, SpareType DEF OnRspError
    <2>3. QED
      BY <1>12, <2>1, <2>2 DEF OnRspError, TypeOK
  <1>13. CASE OnFrontDisconnected
    <2>1. owed' \in Seq(Answer) /\ Len(owed') <= MaxOwed
      BY <1>13, QuerySchedulerAssumption DEF OnFrontDisconnected
    <2>2. spent' \in [events : 0..MaxEvents, mishaps : 0..MaxMishaps]
      BY <1>13, SpareType DEF OnFrontDisconnected
    <2>3. QED
      BY <1>13, <2>1, <2>2 DEF OnFrontDisconnected, TypeOK
  <1>14. CASE ReloginSameDay
    <2>1. owed' \in Seq(Answer) /\ Len(owed') <= MaxOwed
      BY <1>14, QuerySchedulerAssumption DEF ReloginSameDay, Answer, Queries, Counted
    <2>2. stale' \subseteq Counted /\ spoilt' \subseteq {"overtaken", "late", "emptied"}
      BY <1>14 DEF ReloginSameDay, TypeOK
    <2>3. QED
      BY <1>14, <2>1, <2>2 DEF ReloginSameDay, TypeOK
  <1>15. CASE ReloginNewDay
    <2>1. owed' \in Seq(Answer) /\ Len(owed') <= MaxOwed
      BY <1>15, QuerySchedulerAssumption DEF ReloginNewDay, Answer, Queries, Counted
    <2>2. day' \in 1..MaxDay /\ req' \in [Counted -> 0..MaxCount] /\ rsp' \in [Counted -> 0..MaxCount]
      BY <1>15, QuerySchedulerAssumption DEF ReloginNewDay, TypeOK, MaxCount
    <2>3. need' \subseteq Flags /\ book' \subseteq {"order", "trade"} /\ banks' \subseteq {"name", "account"}
      BY <1>15 DEF ReloginNewDay
    <2>4. stale' \subseteq Counted /\ spoilt' \subseteq {"overtaken", "late", "emptied"}
      BY <1>15 DEF ReloginNewDay
    <2>5. QED
      BY <1>15, <2>1, <2>2, <2>3, <2>4 DEF ReloginNewDay, TypeOK
  <1>16. CASE UNCHANGED vars
    BY <1>16 DEF vars, TypeOK
  <1>17. QED
    BY <1>1, <1>2, <1>3, <1>4, <1>5, <1>6, <1>7, <1>8, <1>9, <1>10, <1>11, <1>12, <1>13, <1>14, <1>15, <1>16
    DEF Next, Idle, Relogin

(* Every variable keeps its range.                                         *)
THEOREM TypeCorrect == Spec => []TypeOK
  BY InitType, NextType, PTL DEF Spec

-----------------------------------------------------------------------------
(* The bank's record becomes complete whatever is asked in between,        *)
(* because an idle loop asks for the accounts only when it has found the   *)
(* banks answered, and CTP answers in turn: no bank answer, which would    *)
(* wipe the account number out, follows an answer of the accounts.         *)

Owes(q, k) == \E i \in 1..Len(q) : q[i].kind = k

BankBefore(q) == \A i, j \in 1..Len(q) : i < j /\ q[i].kind = "register" => q[j].kind # "bank"

\* Nothing has spoilt the record since the banks were last asked for.
Fair == inited /\ spoilt = {} /\ asking[SPI] # "bank"

\* An idle loop is past the banks' flag.
Past(l) == query[l] = "register"

Askers == Clients \cup {SPI}

BanksInv ==
    Fair =>
      /\ "bank" \in need \/ "name" \in banks \/ \E a \in Askers : asking[a] = "bank"
      /\ \/ "register" \in need
         \/ \E a \in Askers : asking[a] # "no"
         \/ "bank" \notin need /\ ~Owes(owed, "bank") /\ "account" \in banks
      /\ "bank" \in need => ~Owes(owed, "register") /\ \A l \in Loops : ~Past(l)
      /\ BankBefore(owed)

LEMMA TailOwes ==
    ASSUME NEW q \in Seq(Answer), q # <<>>
    PROVE  /\ \A k : Owes(Tail(q), k) => Owes(q, k)
           /\ BankBefore(q) => BankBefore(Tail(q))
           /\ BankBefore(q) /\ Head(q).kind = "register" => ~Owes(Tail(q), "bank")
  <1>1. /\ Len(q) \in Nat \ {0} /\ Len(Tail(q)) = Len(q) - 1 /\ Head(q) = q[1]
        /\ \A i \in 1..Len(Tail(q)) : Tail(q)[i] = q[i + 1]
    OBVIOUS
  <1>2. \A i \in 1..Len(Tail(q)) : i \in Nat /\ 1 < i + 1 /\ i + 1 \in 1..Len(q) /\ 1 \in 1..Len(q)
    BY <1>1
  <1>3. \A k : Owes(Tail(q), k) => Owes(q, k)
    BY <1>1, <1>2 DEF Owes
  <1>4. BankBefore(q) => BankBefore(Tail(q))
    <2> SUFFICES ASSUME BankBefore(q), NEW i \in 1..Len(Tail(q)), NEW j \in 1..Len(Tail(q)),
                        i < j, Tail(q)[i].kind = "register"
                 PROVE  Tail(q)[j].kind # "bank"
      BY DEF BankBefore
    <2>1. i + 1 < j + 1 /\ q[i + 1].kind = "register" /\ Tail(q)[j] = q[j + 1]
      BY <1>1, <1>2
    <2>2. QED
      BY <1>2, <2>1 DEF BankBefore
  <1>5. BankBefore(q) /\ Head(q).kind = "register" => ~Owes(Tail(q), "bank")
    BY <1>1, <1>2 DEF BankBefore, Owes
  <1>6. QED
    BY <1>3, <1>4, <1>5

LEMMA SentOwes ==
    ASSUME NEW q \in Seq(Answer), NEW k \in Queries
    PROVE  /\ \A m : Owes(Sent(q, k), m) => Owes(q, m) \/ m = k
           /\ BankBefore(q) /\ (k = "bank" => ~Owes(q, "register")) => BankBefore(Sent(q, k))
  <1> DEFINE r == Append(q, [kind |-> k, old |-> FALSE])
  <1>1. Sent(q, k) = q \/ Sent(q, k) = r
    BY DEF Sent
  <1>2. /\ Len(q) \in Nat /\ Len(r) = Len(q) + 1
        /\ \A i \in 1..Len(q) : r[i] = q[i]
        /\ r[Len(q) + 1].kind = k
    OBVIOUS
  <1> HIDE DEF r
  <1>3. \A i \in 1..Len(r) : i \in 1..Len(q) \/ i = Len(q) + 1
    BY <1>2
  <1>4. \A m : Owes(r, m) => Owes(q, m) \/ m = k
    BY <1>2, <1>3 DEF Owes
  <1>5. BankBefore(q) /\ (k = "bank" => ~Owes(q, "register")) => BankBefore(r)
    <2> SUFFICES ASSUME BankBefore(q), k = "bank" => ~Owes(q, "register"),
                        NEW i \in 1..Len(r), NEW j \in 1..Len(r), i < j, r[i].kind = "register",
                        r[j].kind = "bank"
                 PROVE  FALSE
      BY DEF BankBefore
    <2>1. i \in 1..Len(q) /\ q[i].kind = "register"
      BY <1>2, <1>3
    <2>2. CASE j \in 1..Len(q)
      BY <1>2, <2>1, <2>2 DEF BankBefore
    <2>3. CASE j = Len(q) + 1
      BY <1>2, <2>1, <2>3 DEF Owes
    <2>4. QED
      BY <1>3, <2>2, <2>3
  <1>6. QED
    BY <1>1, <1>4, <1>5

LEMMA AnswersBanks == TypeOK /\ BanksInv /\ Answers => BanksInv'
  <1> SUFFICES ASSUME TypeOK, BanksInv, Answers PROVE BanksInv'
    OBVIOUS
  <1> DEFINE q == Tail(owed)
  <1>0. owed # <<>> /\ owed \in Seq(Answer) /\ q \in Seq(Answer) /\ asking[SPI] = "no"
    BY TailType
    DEF Answers, Answered, OnRspQryTradingAccount, OnRspQryInvestorPosition, OnRspQryOrder, OnRspQryTrade,
        OnRspQryBrokerTradingParams, OnRspQryContractBank, OnRspQryAccountregister, TypeOK
  <1>1. /\ \A k : Owes(q, k) => Owes(owed, k)
        /\ BankBefore(owed) => BankBefore(q)
        /\ BankBefore(owed) /\ Head(owed).kind = "register" => ~Owes(q, "bank")
    BY <1>0, TailOwes
  <1>2. Owes(owed, Head(owed).kind)
    BY <1>0 DEF Owes
  <1> HIDE DEF q
  <1>3. ASSUME NEW k \in {"position", "order", "trade"}, owed' = Sent(q, k),
               UNCHANGED <<need, banks, inited, spoilt, loop, query, asking>>
        PROVE  BanksInv'
    <2>1. k \in Queries /\ k # "bank" /\ k # "register"
      BY DEF Queries, Counted
    <2>2. /\ \A m : Owes(owed', m) => Owes(q, m) \/ m = k
          /\ BankBefore(q) => BankBefore(owed')
      BY <1>0, <1>3, <2>1, SentOwes
    <2>3. QED
      BY <1>1, <1>3, <2>1, <2>2 DEF BanksInv, Fair, Past
  <1>4. CASE OnRspQryTradingAccount \/ OnRspQryInvestorPosition \/ OnRspQryOrder
    BY <1>3, <1>4
       DEF OnRspQryTradingAccount, OnRspQryInvestorPosition, OnRspQryOrder, sched, tasks, q
  <1>5. CASE OnRspQryTrade
    <2>1. owed' = q /\ UNCHANGED <<banks, spoilt, loop, query>>
      BY <1>5 DEF OnRspQryTrade, hist, q
    <2>2. CASE inited
      BY <1>1, <1>5, <2>1, <2>2 DEF OnRspQryTrade, BanksInv, Fair, Past
    <2>3. CASE ~inited
      <3>1. asking' = [asking EXCEPT ![SPI] = "bank"] /\ asking'[SPI] = "bank"
        BY <1>5, <2>3 DEF OnRspQryTrade, TypeOK
      <3>2. QED
        BY <3>1 DEF BanksInv, Fair
    <2>4. QED
      BY <2>2, <2>3
  <1>6. CASE OnRspQryBrokerTradingParams
    BY <1>1, <1>6 DEF OnRspQryBrokerTradingParams, hist, tasks, BanksInv, Fair, Past, q
  <1>7. CASE OnRspQryContractBank
    <2>1. /\ owed' = q /\ banks' = {"name"} /\ need' = need \ {"bank"}
          /\ UNCHANGED <<inited, spoilt, loop, query, asking>> /\ Owes(owed, "bank")
      BY <1>2, <1>7 DEF OnRspQryContractBank, Answered, hist, tasks, q
    <2>2. Fair => "register" \in need \/ \E a \in Askers : asking[a] # "no"
      BY <2>1 DEF BanksInv
    <2>3. QED
      BY <1>1, <2>1, <2>2 DEF BanksInv, Fair, Past
  <1>8. CASE OnRspQryAccountregister
    <2>1. /\ owed' = q /\ banks' = banks \cup {"account"} /\ need' = need \ {"register"}
          /\ UNCHANGED <<inited, spoilt, loop, query, asking>>
          /\ Head(owed).kind = "register" /\ Owes(owed, "register")
      BY <1>2, <1>8 DEF OnRspQryAccountregister, Answered, hist, tasks, q
    <2>2. Fair => "bank" \notin need /\ BankBefore(owed) /\ ~Owes(q, "bank")
      BY <1>1, <2>1 DEF BanksInv
    <2>3. QED
      BY <1>1, <2>1, <2>2 DEF BanksInv, Fair, Past
  <1>9. QED
    BY <1>4, <1>5, <1>6, <1>7, <1>8 DEF Answers

(* Who asks for the banks: the record is emptied first, and the flag of    *)
(* the banks is set before that of the accounts.                           *)
LEMMA AskersBanks ==
    ASSUME TypeOK, BanksInv,
           (\E c \in Clients : QryAccountRegister(c)) \/ (\E a \in Askers : SetNeed(a))
    PROVE  BanksInv'
  <1>0. asking \in [Askers -> {"no", "bank", "register"}]
    BY DEF TypeOK, Askers
  <1>1. ASSUME NEW c \in Clients, QryAccountRegister(c) PROVE BanksInv'
    <2>1. UNCHANGED <<owed, need, inited, spoilt, loop, query>>
      BY <1>1 DEF QryAccountRegister, sched, ctp, hist
    <2>2. c \in Askers /\ c # SPI /\ asking' = [asking EXCEPT ![c] = "bank"]
      BY <1>1, QuerySchedulerAssumption DEF QryAccountRegister, Askers
    <2>3. asking'[c] = "bank" /\ asking'[SPI] = asking[SPI]
      BY <1>0, <2>2 DEF Askers
    <2>4. QED
      BY <2>1, <2>2, <2>3 DEF BanksInv, Fair, Past
  <1>2. ASSUME NEW a \in Askers, SetNeed(a), asking[a] = "bank" PROVE BanksInv'
    <2>1. /\ need' = need \cup {"bank"} /\ asking' = [asking EXCEPT ![a] = "register"]
          /\ spoilt' = IF Overtaken THEN {"overtaken"} ELSE {}
          /\ UNCHANGED <<owed, inited, banks, loop, query>>
      BY <1>2 DEF SetNeed, ctp
    <2>2. asking'[a] = "register"
      BY <1>0, <2>1
    <2>3. spoilt' = {} => ~Owes(owed, "register") /\ \A l \in Loops : ~Past(l)
      <3>1. owed \in Seq(Answer)
        BY DEF TypeOK
      <3>2. QED
        BY <2>1, <3>1 DEF Overtaken, Owes, Past
    <2>4. spoilt' = {} => BankBefore(owed)
      BY <2>3 DEF Owes, BankBefore
    <2>5. QED
      BY <2>1, <2>2, <2>3, <2>4 DEF BanksInv, Fair, Past
  <1>3. ASSUME NEW a \in Askers, SetNeed(a), asking[a] = "register" PROVE BanksInv'
    <2>1. /\ need' = need \cup {"register"} /\ asking' = [asking EXCEPT ![a] = "no"]
          /\ UNCHANGED <<owed, inited, banks, loop, query, spoilt>>
      BY <1>3 DEF SetNeed, ctp
    <2>2. /\ asking'[a] = "no" /\ \A b \in Askers \ {a} : asking'[b] = asking[b]
      BY <1>0, <2>1
    <2>3. (\E b \in Askers : asking[b] = "bank") => \E b \in Askers : asking'[b] = "bank"
      BY <1>3, <2>2
    <2>4. asking[SPI] = "bank" => asking'[SPI] = "bank"
      BY <1>3, <2>2 DEF Askers
    <2>5. QED
      BY <2>1, <2>3, <2>4 DEF BanksInv, Fair, Past
  <1>4. ASSUME NEW a \in Askers, SetNeed(a) PROVE BanksInv'
    BY <1>0, <1>2, <1>3, <1>4 DEF SetNeed
  <1>5. QED
    BY <1>1, <1>4

(* The idle loops pass the banks' flag only when it is down.               *)
LEMMA IdleBanks ==
    ASSUME TypeOK, BanksInv, NEW l \in Loops, Idle(l)
    PROVE  BanksInv'
  <1>0. owed \in Seq(Answer) /\ loop \in [Loops -> {"tick", "look", "send"}] /\ query \in [Loops -> Idles]
    BY DEF TypeOK
  <1>1. ASSUME UNCHANGED <<owed, need, banks, inited, spoilt, asking>>,
               "bank" \in need => \A m \in Loops : Past(m)' => Past(m)
        PROVE  BanksInv'
    BY <1>1 DEF BanksInv, Fair
  <1>2. CASE IdleTick(l)
    BY <1>1, <1>2 DEF IdleTick, ctp, hist, Past
  <1>3. CASE IdleLook(l)
    <2>1. loop[l] = "look" /\ UNCHANGED <<owed, need, banks, inited, spoilt, asking>>
      BY <1>3 DEF IdleLook, sched, ctp, hist, At
    <2>2. ASSUME "bank" \in need, NEW m \in Loops, Past(m)' PROVE Past(m)
      <3>1. CASE Due(query[l])
        BY <1>0, <1>3, <2>1, <2>2, <3>1 DEF IdleLook, Go, Past
      <3>2. CASE ~Due(query[l]) /\ query[l] \in DOMAIN Following
        <4>1. UNCHANGED loop /\ query' = [query EXCEPT ![l] = Following[query[l]]]
          BY <1>3, <3>2 DEF IdleLook
        <4>2. query[l] # "bank"
          BY <2>2, <3>2 DEF Due, Counted
        <4>3. Following[query[l]] # "register"
          BY <3>2, <4>2 DEF Following
        <4>4. QED
          BY <1>0, <2>2, <4>1, <4>3 DEF Past
      <3>3. CASE ~Due(query[l]) /\ query[l] \notin DOMAIN Following
        <4>1. Rest(l)
          BY <1>3, <3>3 DEF IdleLook
        <4>2. QED
          BY <2>2, <4>1, RestType DEF Past
      <3>4. QED
        BY <3>1, <3>2, <3>3
    <2>3. QED
      BY <1>1, <2>1, <2>2
  <1>4. CASE IdleSend(l)
    <2> DEFINE k == query[l]
    <2>1. /\ loop[l] = "send" /\ owed' = Sent(owed, k) /\ UNCHANGED <<need, banks, inited, asking>>
          /\ spoilt' = IF k = "bank" /\ ~Due("bank") THEN spoilt \cup {"late"} ELSE spoilt
          /\ Rest(l)
      BY <1>4 DEF IdleSend, At
    <2>2. k \in Queries
      BY <1>0 DEF Idles, Queries
    <2> HIDE DEF k
    <2>3. \A m \in Loops : Past(m)' => Past(m)
      BY <2>1, RestType DEF Past
    <2>4. k = "register" => Past(l)
      BY <2>1 DEF Past, k
    <2>5. /\ \A m : Owes(owed', m) => Owes(owed, m) \/ m = k
          /\ BankBefore(owed) /\ (k = "bank" => ~Owes(owed, "register")) => BankBefore(owed')
      BY <1>0, <2>1, <2>2, SentOwes
    <2>6. Fair' => Fair /\ (k = "bank" => "bank" \in need)
      BY <2>1 DEF Fair, Due, Counted
    <2>7. QED
      BY <2>1, <2>3, <2>4, <2>5, <2>6 DEF BanksInv
  <1>5. QED
    BY <1>2, <1>3, <1>4 DEF Idle

LEMMA NextBanks == TypeOK /\ BanksInv /\ [Next]_vars => BanksInv'
  <1> SUFFICES ASSUME TypeOK, BanksInv, [Next]_vars PROVE BanksInv'
    OBVIOUS
  <1>0. owed \in Seq(Answer)
    BY DEF TypeOK
  <1>1. CASE UNCHANGED <<owed, need, banks, inited, spoilt, loop, query, asking>>
    BY <1>1 DEF BanksInv, Fair, Past, Owes, BankBefore
  <1>2. ASSUME NEW K \in SUBSET Counted, Outdate(K),
               UNCHANGED <<need, banks, inited, spoilt, loop, query, asking>>
        PROVE  BanksInv'
    <2>1. Len(owed') = Len(owed) /\ \A i \in 1..Len(owed) : owed'[i].kind = owed[i].kind
      BY <1>0, <1>2, OutdateType
    <2>2. (\A k : Owes(owed', k) <=> Owes(owed, k)) /\ (BankBefore(owed') <=> BankBefore(owed))
      BY <2>1 DEF Owes, BankBefore
    <2>3. QED
      BY <1>2, <2>2 DEF BanksInv, Fair, Past
  <1>3. ASSUME NEW r \in Returns, OnReturn(r) PROVE BanksInv'
    BY <1>2, <1>3 DEF OnReturn, sched
  <1>4. CASE OnTransfer
    <2>1. {"account"} \in SUBSET Counted
      BY DEF Counted
    <2>2. QED
      BY <1>2, <1>4, <2>1 DEF OnTransfer, sched
  <1>5. CASE \/ \E c \in Clients : QryAccountRegister(c)
             \/ \E a \in Clients \cup {SPI} : SetNeed(a)
    BY <1>5, AskersBanks DEF Askers
  <1>6. CASE \E l \in Loops : Idle(l)
    BY <1>6, IdleBanks
  <1>7. CASE Answers
    BY <1>7, AnswersBanks
  <1>8. CASE OnRspError
    <2>1. owed' = Tail(owed) /\ owed # <<>>
          /\ UNCHANGED <<need, banks, inited, spoilt, loop, query, asking>>
      BY <1>8 DEF OnRspError, sched, hist, tasks
    <2>2. /\ \A k : Owes(owed', k) => Owes(owed, k)
          /\ BankBefore(owed) => BankBefore(owed')
      BY <1>0, <2>1, TailOwes
    <2>3. QED
      BY <2>1, <2>2 DEF BanksInv, Fair, Past
  <1>9. CASE OnFrontDisconnected
    <2>1. owed' = <<>> /\ UNCHANGED <<need, banks, inited, spoilt, loop, query, asking>>
      BY <1>9 DEF OnFrontDisconnected, sched, hist, tasks
    <2>2. (\A k : ~Owes(owed', k)) /\ BankBefore(owed')
      BY <2>1 DEF Owes, BankBefore
    <2>3. QED
      BY <2>1, <2>2 DEF BanksInv, Fair, Past
  <1>10. CASE ReloginSameDay
    <2>1. /\ owed' = <<[kind |-> "account", old |-> FALSE]>>
          /\ banks' = {} /\ UNCHANGED <<need, inited, loop, query, asking>>
          /\ spoilt' = {} => spoilt = {} /\ banks = {}
      BY <1>10 DEF ReloginSameDay, sched, tasks
    <2>2. ~Owes(owed', "bank") /\ ~Owes(owed', "register") /\ BankBefore(owed')
      BY <2>1 DEF Owes, BankBefore
    <2>3. QED
      BY <2>1, <2>2 DEF BanksInv, Fair, Past
  <1>11. CASE ReloginNewDay
    BY <1>11 DEF ReloginNewDay, BanksInv, Fair
  <1>12. QED
    BY <1>1, <1>3, <1>4, <1>5, <1>6, <1>7, <1>8, <1>9, <1>10, <1>11
    DEF Next, Relogin, RunRefresh, QryAccountInfo, Tick, vars, sched, ctp, hist, tasks

(* Once the banks and accounts have been asked for and answered, the       *)
(* bank's record is complete, however the flags, the looks of the idle     *)
(* loops and the answers follow each other, except where it has been       *)
(* overtaken, asked for too late or emptied.                               *)
THEOREM BanksCorrect == Spec => []BanksComplete
  <1>1. Init => BanksInv
    BY DEF Init, BanksInv, Fair
  <1>2. TypeOK /\ BanksInv => BanksComplete
    <2> SUFFICES ASSUME TypeOK, BanksInv, inited, need \cap {"bank", "register"} = {}, spoilt = {},
                        \A a \in Clients \cup {SPI} : asking[a] = "no"
                 PROVE  banks = {"name", "account"}
      BY DEF BanksComplete
    <2>1. Fair /\ "bank" \notin need /\ "register" \notin need /\ \A a \in Askers : asking[a] = "no"
      BY DEF Fair, Askers
    <2>2. "name" \in banks /\ "account" \in banks
      BY <2>1 DEF BanksInv
    <2>3. QED
      BY <2>2 DEF TypeOK
  <1>3. QED
    BY <1>1, <1>2, NextBanks, TypeCorrect, PTL DEF Spec
=============================================================================
