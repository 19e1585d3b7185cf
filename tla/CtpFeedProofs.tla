----------------------------- MODULE CtpFeedProofs -----------------------------
(***************************************************************************)
(* Proofs about CtpFeed, for any contracts and any number of losses.       *)
(***************************************************************************)
EXTENDS CtpFeed, TLAPS

-----------------------------------------------------------------------------
(* What Subscribe is about to enter in the table.                          *)
Entering == IF caller.at \in {"save", "call", "record"} THEN caller.list ELSE {}

(* What the callback thread, inside a login, has yet to ask CTP for.       *)
ToAsk == CASE spi.at = "snapshot" -> Contracts
           [] spi.at = "call"     -> spi.list
           [] OTHER               -> {}

(* A login is asked for, and its response handled, on a connection that    *)
(* CTP has up; the loss is told to the client when no callback runs.       *)
LinkInv ==
    /\ loggedIn => front # "down"
    /\ asked => front = "up" /\ ~loggedIn /\ spi = Rest
    /\ spi # Rest => loggedIn
    /\ spi.at = "rest" => spi = Rest
    /\ caller.at = "idle" => caller = Idle

(* A wanted contract is in the table or about to enter it, and nothing     *)
(* that is wanted is about to be cancelled.                                *)
TableInv ==
    /\ wanted \subseteq Known \cup Entering
    /\ caller.at \in {"cancel", "forget"} => caller.list \cap wanted = {}

(* In a session, a wanted contract that did not miss the login's look at   *)
(* the table is served, or one of the two threads is about to see to it.   *)
ServedInv ==
    loggedIn /\ front = "up" => wanted \ late \subseteq served \cup Entering \cup ToAsk

ServiceInv == TypeOK /\ LinkInv /\ TableInv /\ ServedInv

-----------------------------------------------------------------------------
LEMMA MarkFacts ==
    ASSUME TypeOK, NEW S \in SUBSET Contracts, NEW v \in {"no", "asked", "yes"}
    PROVE  /\ Mark(S, v) \in [Contracts -> {"no", "asked", "yes"}]
           /\ \A c \in Contracts : Mark(S, v)[c] = IF c \in S THEN v ELSE subscribed[c]
  BY DEF Mark, TypeOK

LEMMA InitService == Init => ServiceInv
  <1> SUFFICES ASSUME Init PROVE ServiceInv
    OBVIOUS
  <1>1. /\ served \subseteq Contracts /\ answers \subseteq Contracts /\ quotesMap \subseteq Contracts
        /\ wanted \subseteq Contracts /\ late \subseteq Contracts
    BY DEF Init
  <1>2. drops \in 0..MaxDrops
    BY CtpFeedAssumption DEF Init
  <1>3. {asked, loggedIn} \subseteq BOOLEAN
    BY DEF Init
  <1>4. TypeOK
    BY <1>1, <1>2, <1>3 DEF Init, TypeOK, Idle, Rest
  <1>5. LinkInv
    BY DEF Init, LinkInv
  <1>6. TableInv /\ ServedInv
    BY DEF Init, TableInv, ServedInv, Idle
  <1>7. QED
    BY <1>4, <1>5, <1>6 DEF ServiceInv

LEMMA CallerTypes ==
    ASSUME TypeOK
    PROVE  /\ caller.list \in SUBSET Contracts /\ spi.list \in SUBSET Contracts
           /\ caller = [at |-> caller.at, list |-> caller.list]
           /\ spi = [at |-> spi.at, list |-> spi.list]
           /\ \A a : [caller EXCEPT !.at = a] = [at |-> a, list |-> caller.list]
           /\ \A a : [spi EXCEPT !.at = a] = [at |-> a, list |-> spi.list]
  BY DEF TypeOK

(* The goroutine in Subscribe or Unsubscribe.                              *)
LEMMA CallerTypesNext ==
    ASSUME TypeOK,
           (\E S \in SUBSET Contracts \ {{}} : Subscribe(S) \/ Unsubscribe(S)) \/ CallerStep
    PROVE  TypeOK'
  <1>1. ASSUME NEW S \in SUBSET Contracts, Subscribe(S) PROVE TypeOK'
    BY <1>1 DEF TypeOK, Subscribe, table
  <1>2. ASSUME NEW S \in SUBSET Contracts, Unsubscribe(S) PROVE TypeOK'
    BY <1>2 DEF TypeOK, Unsubscribe, table
  <1>3. CASE Save
    <2>1. Missed(caller.list) \subseteq Contracts
      BY CallerTypes DEF Missed
    <2>2. late' \subseteq Contracts
      BY <1>3, <2>1 DEF Save, TypeOK
    <2>3. QED
      BY <1>3, <2>2, MarkFacts, CallerTypes DEF TypeOK, Save, Idle
  <1>4. CASE CallSubscribe
    <2>1. served' \subseteq Contracts /\ answers' \subseteq Contracts
      BY <1>4, CallerTypes DEF CallSubscribe, SubscribeMarketData, TypeOK
    <2>2. QED
      BY <1>4, <2>1, CallerTypes DEF TypeOK, CallSubscribe
  <1>5. CASE CallUnsubscribe
    <2>1. served' \subseteq Contracts
      BY <1>5 DEF CallUnsubscribe, TypeOK
    <2>2. QED
      BY <1>5, <2>1, CallerTypes DEF TypeOK, CallUnsubscribe
  <1>6. CASE Forget
    <2>1. late' \subseteq Contracts
      BY <1>6 DEF Forget, TypeOK
    <2>2. QED
      BY <1>6, <2>1, MarkFacts, CallerTypes DEF TypeOK, Forget, Idle
  <1>7. QED
    BY <1>1, <1>2, <1>3, <1>4, <1>5, <1>6 DEF CallerStep

(* CTP and the callback thread.                                            *)
LEMMA SpiTypesNext ==
    ASSUME TypeOK,
           \/ SpiStep \/ LoseFront
           \/ \E c \in Contracts : OnRspSubMarketData(c) \/ OnRtnDepthMarketData(c)
    PROVE  TypeOK'
  <1>1. CASE OnFrontConnected
    BY <1>1 DEF TypeOK, OnFrontConnected, table
  <1>2. CASE OnFrontDisconnected
    BY <1>2 DEF TypeOK, OnFrontDisconnected, table
  <1>3. CASE OnRspUserLogin
    BY <1>3 DEF TypeOK, OnRspUserLogin, table, Rest
  <1>4. CASE ReadTable
    BY <1>4 DEF TypeOK, ReadTable, table, Rest, Known
  <1>5. CASE Resubscribe
    <2>1. CASE spi.at = "call"
      <3>1. served' \subseteq Contracts /\ answers' \subseteq Contracts
        BY <1>5, <2>1, CallerTypes DEF Resubscribe, SubscribeMarketData, TypeOK
      <3>2. QED
        BY <1>5, <2>1, <3>1, CallerTypes DEF TypeOK, Resubscribe
    <2>2. CASE spi.at = "record"
      BY <1>5, <2>2, MarkFacts, CallerTypes DEF TypeOK, Resubscribe, Rest
    <2>3. QED
      BY <1>5, <2>1, <2>2 DEF Resubscribe
  <1>6. CASE LoseFront
    <2>1. drops' \in 0..MaxDrops
      BY <1>6, CtpFeedAssumption DEF LoseFront, TypeOK
    <2>2. QED
      BY <1>6, <2>1 DEF TypeOK, LoseFront
  <1>7. ASSUME NEW c \in Contracts, OnRspSubMarketData(c) PROVE TypeOK'
    <2>1. {c} \in SUBSET Contracts /\ answers' \subseteq Contracts
      BY <1>7 DEF OnRspSubMarketData, TypeOK
    <2>2. QED
      BY <1>7, <2>1, MarkFacts DEF TypeOK, OnRspSubMarketData
  <1>8. ASSUME NEW c \in Contracts, OnRtnDepthMarketData(c) PROVE TypeOK'
    <2>1. quotesMap' \subseteq Contracts
      BY <1>8 DEF OnRtnDepthMarketData, TypeOK
    <2>2. QED
      BY <1>8, <2>1 DEF TypeOK, OnRtnDepthMarketData, table
  <1>9. QED
    BY <1>1, <1>2, <1>3, <1>4, <1>5, <1>6, <1>7, <1>8 DEF SpiStep

LEMMA TypesNext == TypeOK /\ [Next]_vars => TypeOK'
  <1> SUFFICES ASSUME TypeOK, [Next]_vars PROVE TypeOK'
    OBVIOUS
  <1>1. CASE UNCHANGED vars
    BY <1>1 DEF vars, table, TypeOK
  <1>2. QED
    BY <1>1, CallerTypesNext, SpiTypesNext DEF Next

\* Every variable of the feed keeps its type, whatever the two threads and CTP do.
THEOREM TypeCorrect == Spec => []TypeOK
  <1>1. Init => TypeOK
    BY InitService DEF ServiceInv
  <1>2. QED
    BY <1>1, TypesNext, PTL DEF Spec

-----------------------------------------------------------------------------
LEMMA LinkNext == TypeOK /\ LinkInv /\ [Next]_vars => LinkInv'
  <1> SUFFICES ASSUME TypeOK, LinkInv, [Next]_vars PROVE LinkInv'
    OBVIOUS
  <1> USE DEF LinkInv, Idle, Rest
  <1>1. CASE UNCHANGED vars
    BY <1>1 DEF vars
  <1>2. ASSUME NEW S \in SUBSET Contracts, Subscribe(S) \/ Unsubscribe(S) PROVE LinkInv'
    BY <1>2 DEF Subscribe, Unsubscribe
  <1>3. CASE Save \/ Forget
    BY <1>3 DEF Save, Forget
  <1>4. CASE CallSubscribe \/ CallUnsubscribe
    BY <1>4, CallerTypes DEF CallSubscribe, CallUnsubscribe
  <1>5. CASE OnFrontConnected \/ OnFrontDisconnected \/ LoseFront
    BY <1>5 DEF OnFrontConnected, OnFrontDisconnected, LoseFront
  <1>6. CASE OnRspUserLogin
    BY <1>6 DEF OnRspUserLogin
  <1>7. CASE ReadTable
    <2>1. loggedIn /\ spi' = IF Known = {} THEN Rest ELSE [at |-> "call", list |-> Known]
      BY <1>7 DEF ReadTable
    <2>2. spi'.at = "rest" => spi' = Rest
      BY <2>1
    <2>3. QED
      BY <1>7, <2>1, <2>2 DEF ReadTable
  <1>8. CASE Resubscribe
    <2>1. spi'.at = "record" \/ spi' = Rest
      BY <1>8, CallerTypes DEF Resubscribe
    <2>2. loggedIn /\ ~asked
      BY <1>8 DEF Resubscribe
    <2>3. QED
      BY <1>8, <2>1, <2>2 DEF Resubscribe
  <1>9. ASSUME NEW c \in Contracts, OnRspSubMarketData(c) \/ OnRtnDepthMarketData(c)
        PROVE  LinkInv'
    BY <1>9 DEF OnRspSubMarketData, OnRtnDepthMarketData, table
  <1>10. QED
    BY <1>1, <1>2, <1>3, <1>4, <1>5, <1>6, <1>7, <1>8, <1>9 DEF Next, CallerStep, SpiStep

LEMMA TableNext == TypeOK /\ TableInv /\ [Next]_vars => TableInv'
  <1> SUFFICES ASSUME TypeOK, TableInv, [Next]_vars PROVE TableInv'
    OBVIOUS
  <1> USE DEF TableInv
  <1>0. ASSUME UNCHANGED <<subscribed, caller, wanted>> PROVE TableInv'
    BY <1>0 DEF Known, Entering
  <1>1. CASE UNCHANGED vars
    BY <1>0, <1>1 DEF vars, table
  <1>2. ASSUME NEW S \in SUBSET Contracts, Subscribe(S) PROVE TableInv'
    <2>1. Known' = Known /\ Entering = {} /\ Entering' = S
      BY <1>2 DEF Subscribe, table, Known, Entering, Idle
    <2>2. caller'.at \notin {"cancel", "forget"} /\ wanted' = wanted \cup S
      BY <1>2 DEF Subscribe
    <2>3. QED
      BY <2>1, <2>2
  <1>3. ASSUME NEW S \in SUBSET Contracts, Unsubscribe(S) PROVE TableInv'
    <2>1. Known' = Known /\ Entering = {} /\ Entering' = {}
      BY <1>3 DEF Unsubscribe, table, Known, Entering, Idle
    <2>2. caller'.list = S /\ wanted' = wanted \ S
      BY <1>3 DEF Unsubscribe
    <2>3. QED
      BY <2>1, <2>2
  <1>4. CASE Save
    <2>1. \A c \in Contracts : subscribed'[c] = IF c \in caller.list THEN "asked" ELSE subscribed[c]
      BY <1>4, CallerTypes, MarkFacts DEF Save
    <2>2. Entering = caller.list /\ wanted' = wanted /\ caller'.at = "idle"
      BY <1>4 DEF Save, Entering, Idle
    <2>3. Known \cup caller.list \subseteq Known'
      BY <2>1, CallerTypes DEF Known
    <2>4. QED
      BY <2>2, <2>3
  <1>5. CASE CallSubscribe
    <2>1. Known' = Known /\ Entering' = Entering /\ caller'.at = "record"
      BY <1>5, CallerTypes DEF CallSubscribe, Known, Entering
    <2>2. QED
      BY <1>5, <2>1 DEF CallSubscribe
  <1>6. CASE CallUnsubscribe
    <2>1. Known' = Known /\ Entering' = {} /\ Entering = {} /\ caller'.list = caller.list
      BY <1>6, CallerTypes DEF CallUnsubscribe, Known, Entering
    <2>2. QED
      BY <1>6, <2>1 DEF CallUnsubscribe
  <1>7. CASE Forget
    <2>1. \A c \in Contracts : subscribed'[c] = IF c \in caller.list THEN "no" ELSE subscribed[c]
      BY <1>7, CallerTypes, MarkFacts DEF Forget
    <2>2. Entering = {} /\ wanted' = wanted /\ caller'.at = "idle" /\ caller.list \cap wanted = {}
      BY <1>7 DEF Forget, Entering, Idle
    <2>3. Known \ caller.list \subseteq Known'
      BY <2>1 DEF Known
    <2>4. QED
      BY <2>2, <2>3
  <1>8. CASE OnFrontConnected \/ OnFrontDisconnected \/ OnRspUserLogin \/ LoseFront \/ ReadTable
    BY <1>0, <1>8 DEF OnFrontConnected, OnFrontDisconnected, OnRspUserLogin, LoseFront, ReadTable, table
  <1>9. ASSUME NEW S \in SUBSET Contracts, NEW v \in {"asked", "yes"},
               subscribed' = Mark(S, v), UNCHANGED <<caller, wanted>>
        PROVE  TableInv'
    <2>1. Known \subseteq Known'
      BY <1>9, MarkFacts DEF Known
    <2>2. Entering' = Entering
      BY <1>9 DEF Entering
    <2>3. QED
      BY <1>9, <2>1, <2>2
  <1>10. CASE Resubscribe
    <2>1. CASE spi.at = "call"
      BY <1>0, <1>10, <2>1 DEF Resubscribe
    <2>2. CASE spi.at = "record"
      BY <1>9, <1>10, <2>2, CallerTypes DEF Resubscribe
    <2>3. QED
      BY <1>10, <2>1, <2>2 DEF Resubscribe
  <1>11. ASSUME NEW c \in Contracts, OnRspSubMarketData(c) PROVE TableInv'
    <2>1. {c} \in SUBSET Contracts
      BY <1>11
    <2>2. QED
      BY <1>9, <1>11, <2>1 DEF OnRspSubMarketData
  <1>12. ASSUME NEW c \in Contracts, OnRtnDepthMarketData(c) PROVE TableInv'
    BY <1>0, <1>12 DEF OnRtnDepthMarketData, table
  <1>13. QED
    BY <1>1, <1>2, <1>3, <1>4, <1>5, <1>6, <1>7, <1>8, <1>10, <1>11, <1>12
    DEF Next, CallerStep, SpiStep

LEMMA ServedNext ==
    TypeOK /\ LinkInv /\ TableInv /\ ServedInv /\ [Next]_vars => ServedInv'
  <1> SUFFICES ASSUME TypeOK, LinkInv, TableInv, ServedInv, [Next]_vars, loggedIn', front' = "up"
               PROVE  wanted' \ late' \subseteq served' \cup Entering' \cup ToAsk'
    BY DEF ServedInv
  <1>0. wanted \subseteq Contracts
    BY DEF TypeOK
  <1>1. ASSUME UNCHANGED <<loggedIn, front, wanted, late, served, caller, spi>>
        PROVE  wanted' \ late' \subseteq served' \cup Entering' \cup ToAsk'
    BY <1>1 DEF ServedInv, Entering, ToAsk
  <1>2. CASE UNCHANGED vars
    BY <1>1, <1>2 DEF vars, table
  <1>3. ASSUME NEW S \in SUBSET Contracts, Subscribe(S)
        PROVE  wanted' \ late' \subseteq served' \cup Entering' \cup ToAsk'
    <2>1. Entering = {} /\ Entering' = S /\ ToAsk' = ToAsk
      BY <1>3 DEF Subscribe, Entering, ToAsk, Idle
    <2>2. QED
      BY <1>3, <2>1 DEF Subscribe, ServedInv, table
  <1>4. ASSUME NEW S \in SUBSET Contracts, Unsubscribe(S)
        PROVE  wanted' \ late' \subseteq served' \cup Entering' \cup ToAsk'
    <2>1. Entering = {} /\ Entering' = {} /\ ToAsk' = ToAsk
      BY <1>4 DEF Unsubscribe, Entering, ToAsk, Idle
    <2>2. QED
      BY <1>4, <2>1 DEF Unsubscribe, ServedInv, table
  <1>5. CASE Save
    <2>1. Entering = caller.list /\ ToAsk' = ToAsk
      BY <1>5 DEF Save, Entering, ToAsk
    <2>2. loggedIn /\ front = "up" /\ served' = served /\ wanted' = wanted
          /\ late' = late \cup Missed(caller.list)
      BY <1>5 DEF Save
    <2>3. wanted \ late \subseteq served \cup caller.list \cup ToAsk
      BY <2>1, <2>2 DEF ServedInv
    <2>4. caller.list \subseteq served \cup ToAsk \cup Missed(caller.list)
      BY <2>2, CallerTypes DEF Missed, ToAsk
    <2>5. QED
      BY <2>1, <2>2, <2>3, <2>4
  <1>6. CASE CallSubscribe
    <2>1. Entering' = Entering /\ ToAsk' = ToAsk /\ served \subseteq served'
      BY <1>6, CallerTypes DEF CallSubscribe, SubscribeMarketData, Entering, ToAsk
    <2>2. QED
      BY <1>6, <2>1 DEF CallSubscribe, ServedInv
  <1>7. CASE CallUnsubscribe
    <2>1. Entering = {} /\ ToAsk' = ToAsk /\ caller.list \cap wanted = {}
      BY <1>7 DEF CallUnsubscribe, Entering, ToAsk, TableInv
    <2>2. QED
      BY <1>7, <2>1 DEF CallUnsubscribe, ServedInv
  <1>8. CASE Forget
    <2>1. Entering = {} /\ ToAsk' = ToAsk /\ caller.list \cap wanted = {}
      BY <1>8 DEF Forget, Entering, ToAsk, TableInv
    <2>2. QED
      BY <1>8, <2>1 DEF Forget, ServedInv
  <1>9. CASE OnFrontConnected \/ OnFrontDisconnected \/ LoseFront
    BY <1>9 DEF OnFrontConnected, OnFrontDisconnected, LoseFront, LinkInv
  <1>10. CASE OnRspUserLogin
    <2>1. CASE loggedIn' = TRUE /\ spi'.at = "snapshot"
      <3>1. ToAsk' = Contracts /\ wanted' = wanted
        BY <1>10, <2>1 DEF OnRspUserLogin, ToAsk
      <3>2. QED
        BY <3>1, <1>0
    <2>2. CASE UNCHANGED <<loggedIn, spi>>
      BY <1>10, <1>1, <2>2 DEF OnRspUserLogin, table
    <2>3. QED
      BY <1>10, <2>1, <2>2 DEF OnRspUserLogin, Rest
  <1>11. CASE ReadTable
    <2>1. Known \subseteq ToAsk'
      BY <1>11 DEF ReadTable, ToAsk
    <2>2. Entering' = Entering /\ wanted' = wanted
      BY <1>11 DEF ReadTable, Entering
    <2>3. QED
      BY <2>1, <2>2 DEF TableInv
  <1>12. CASE Resubscribe
    <2>1. Entering' = Entering /\ wanted' = wanted /\ loggedIn /\ front = "up"
      BY <1>12 DEF Resubscribe, Entering
    <2>2. CASE spi.at = "call"
      <3>1. ToAsk = spi.list /\ served \subseteq served' /\ late' = late \cup (spi.list \ served')
        BY <1>12, <2>2 DEF Resubscribe, SubscribeMarketData, ToAsk
      <3>2. QED
        BY <2>1, <3>1 DEF ServedInv
    <2>3. CASE spi.at = "record"
      <3>1. ToAsk = {} /\ late' = late /\ served' = served
        BY <1>12, <2>3 DEF Resubscribe, ToAsk
      <3>2. QED
        BY <2>1, <3>1 DEF ServedInv
    <2>4. QED
      BY <1>12, <2>2, <2>3 DEF Resubscribe
  <1>13. ASSUME NEW c \in Contracts, OnRspSubMarketData(c) \/ OnRtnDepthMarketData(c)
         PROVE  wanted' \ late' \subseteq served' \cup Entering' \cup ToAsk'
    BY <1>1, <1>13 DEF OnRspSubMarketData, OnRtnDepthMarketData, table
  <1>14. QED
    BY <1>2, <1>3, <1>4, <1>5, <1>6, <1>7, <1>8, <1>9, <1>10, <1>11, <1>12, <1>13
    DEF Next, CallerStep, SpiStep

LEMMA ServiceImplies == ServiceInv => WantedServed
  BY DEF ServiceInv, ServedInv, WantedServed, Settled, Entering, ToAsk, Idle, Rest

\* Once a login is through, everything subscribed is served, in whatever session it
\* was asked for, for any contracts and losses, except what entered the table too late
\* for the login (Subscribe and resubscribe interleave at every step).
THEOREM ServedCorrect == Spec => []WantedServed
  <1>1. ServiceInv /\ [Next]_vars => ServiceInv'
    BY TypesNext, LinkNext, TableNext, ServedNext DEF ServiceInv
  <1>2. QED
    BY InitService, <1>1, ServiceImplies, PTL DEF Spec
=============================================================================
