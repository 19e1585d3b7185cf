------------------------ MODULE ConditionOrdersProofs ------------------------
(***************************************************************************)
(* Proofs about ConditionOrders, for every set of order ids, instruments   *)
(* and requests, every limit and every bound.                              *)
(***************************************************************************)
EXTENDS ConditionOrders, FiniteSetTheorems, TLAPS

(* TypeOK is not inductive alone: an inserted order takes its trading day  *)
(* from the manager, whose day is the exchange's once Load has run.        *)
DayKnown == pc # "down" => day = today

TypeInv == TypeOK /\ DayKnown

-----------------------------------------------------------------------------
(* Facts about the operators.                                              *)

(* An order's record, whatever fields an operation changes, stays one.     *)
LEMMA TouchType ==
    ASSUME NEW o \in Order, NEW marks, marks \subseteq Nat
    PROVE  Touch(o, marks) \in Order
  BY DEF Touch, Order, Statuses

(* The positions of an order's conditions are natural numbers.             *)
LEMMA PositionsNat ==
    ASSUME NEW o \in Order
    PROVE  Positions(o) \subseteq Nat
  <1>1. o.req \in Request
    BY ConditionOrdersAssumption DEF Order
  <1>2. o.req.conds \in Seq(Condition)
    BY <1>1 DEF Request
  <1>3. QED
    BY <1>2 DEF Positions

(* What a price check makes of an order is an order.                       *)
LEMMA CheckPriceType ==
    ASSUME NEW o \in Order, NEW p \in Int
    PROVE  CheckPriceCondition(o, p) \in Order
  <1> DEFINE open == Waiting(o, PriceTypes)
             hit  == {i \in open : PriceTouches(o.req.conds[i], i \in o.broke, p)}
             out  == {i \in open : /\ o.req.conds[i].type = "breakEven"
                                   /\ p > 0 /\ Tradable(o.req.conds[i])
                                   /\ BreaksOut(o.req.conds[i], p)}
             new  == [o EXCEPT !.broke = @ \cup out]
  <1>1. open \subseteq Nat
    BY PositionsNat DEF Waiting
  <1>2. hit \subseteq Nat /\ out \subseteq Nat
    BY <1>1
  <1> HIDE DEF hit, out
  <1>3. new \in Order
    BY <1>2 DEF Order
  <1> HIDE DEF new
  <1>4. Touch(new, hit) \in Order
    BY <1>2, <1>3, TouchType
  <1>5. QED
    BY <1>4 DEF CheckPriceCondition, hit, out, new

(* So is what the time check and the opening of a market make of one.      *)
LEMMA CheckTimeType ==
    ASSUME NEW o \in Order
    PROVE  CheckTime(o) \in Order
  BY PositionsNat, TouchType DEF CheckTime, Waiting

LEMMA CheckOpenType ==
    ASSUME NEW o \in Order, NEW p, NEW st
    PROVE  CheckOpen(o, p, st) \in Order
  BY PositionsNat, TouchType DEF CheckOpen, Waiting

LEMMA ArchiveType ==
    ASSUME NEW o \in Order, NEW d
    PROVE  Archive(o, d) \in Order
  BY DEF Archive, Order, Statuses

(* The index of any ledger is an index.                                    *)
LEMMA RebuildType == ASSUME NEW os PROVE Rebuild(os) \in IndexType
  BY DEF Rebuild, IndexType, WaitingFor

(* A slot whose status is not "None" holds an order.                       *)
LEMMA PresentIsOrder ==
    ASSUME NEW os \in Ledger, NEW id \in OrderIDs, os[id].status # "None"
    PROVE  os[id] \in Order
  BY DEF Ledger, NoOrder

(* Sets of order ids are finite.                                           *)
LEMMA IdsFinite ==
    ASSUME NEW S \in SUBSET OrderIDs
    PROVE  IsFiniteSet(S) /\ Cardinality(S) \in Nat
  BY ConditionOrdersAssumption, FS_Subset, FS_CardinalityType

LEMMA NoOrdersType == NoOrders \in Ledger /\ Valid(NoOrders) = {} /\ Present(NoOrders) = {}
  BY DEF NoOrders, NoOrder, Ledger, Valid, Present, ValidStatuses

-----------------------------------------------------------------------------
(* Type correctness.                                                       *)

LEMMA InitType == Init => TypeInv
  <1> SUFFICES ASSUME Init PROVE TypeInv
    OBVIOUS
  <1>1. NoFile \in [day: 0..MaxDay, orders: Ledger]
    BY NoOrdersType, ConditionOrdersAssumption DEF NoFile
  <1>2. 1 \in 1..MaxDay /\ 0 \in 0..MaxDay
    BY ConditionOrdersAssumption
  <1>3. phase \in [Products -> PhaseStatuses \cup {"none"}] /\ price \in [Instruments -> Int]
    BY DEF Init, Absent
  <1>4. fired \in [Firing -> Nat] /\ acked \subseteq Firing /\ losses \in Nat
    BY DEF Init
  <1>5. orders \in Ledger /\ index \in IndexType
    BY NoOrdersType, RebuildType DEF Init
  <1>6. file \in [day: 0..MaxDay, orders: Ledger]
    BY <1>1 DEF Init
  <1>7. DayKnown
    BY DEF Init, DayKnown
  <1>8. his \subseteq Archived /\ hisFile \subseteq Archived /\ todo \subseteq Instruments
        /\ opening \subseteq Products \X PhaseStatuses
    BY DEF Init
  <1>9. running \in BOOLEAN /\ dirty \in BOOLEAN
    BY DEF Init
  <1>10. /\ pc \in {"down", "idle", "checking", "rollover"} /\ day \in 0..MaxDay
         /\ now \in Nat /\ today \in 1..MaxDay
         /\ dayCount \in Int /\ validCount \in Int
    BY <1>2 DEF Init
  <1>11. QED
    BY <1>2, <1>3, <1>4, <1>5, <1>6, <1>7, <1>8, <1>9, <1>10 DEF TypeInv, TypeOK

(* A save leaves a well-formed file, whether it succeeds or not.           *)
LEMMA SaveCurrentType ==
    ASSUME TypeOK, SaveCurrent, orders' \in Ledger, day' \in 0..MaxDay
    PROVE  file' \in [day: 0..MaxDay, orders: Ledger]
  BY DEF SaveCurrent, TypeOK

(* The frame of a client request: the orders and the file get new values   *)
(* of their types, the index is rebuilt.                                   *)
LEMMA CommitType ==
    ASSUME TypeInv, Commit, orders' \in Ledger,
           dayCount' \in Int, validCount' \in Int,
           fired' = fired, acked' \subseteq Firing, losses' = losses
    PROVE  TypeInv'
  <1>1. file' \in [day: 0..MaxDay, orders: Ledger]
    BY SaveCurrentType DEF Commit, TypeInv, TypeOK
  <1>2. index' \in IndexType
    BY RebuildType DEF Commit
  <1>3. QED
    BY <1>1, <1>2 DEF TypeInv, TypeOK, DayKnown, Commit, market

(* The frame of a visit: each visited order becomes an order.              *)
LEMMA VisitType ==
    ASSUME TypeInv, pc \in {"idle", "checking"}, NEW after, Visit(after),
           DOMAIN after \subseteq OrderIDs,
           \A id \in DOMAIN after : after[id] \in Order,
           pc' \in {"idle", "checking"}, todo' \subseteq Instruments,
           UNCHANGED <<price, phase, now, today>>, opening' \subseteq opening
    PROVE  TypeInv'
  <1> DEFINE shots == {id \in DOMAIN after : after[id].status = "Touched"}
  <1>1. orders' \in Ledger
    BY DEF Visit, Ledger, TypeInv, TypeOK
  <1>2. shots \in SUBSET OrderIDs
    OBVIOUS
  <1>3. Cardinality(shots) \in Nat
    BY <1>2, IdsFinite
  <1>4. validCount' \in Int
    BY <1>3 DEF Visit, TypeInv, TypeOK
  <1>5. fired' \in [Firing -> Nat]
    BY DEF Visit, TypeInv, TypeOK
  <1>6. QED
    BY <1>1, <1>4, <1>5 DEF Visit, disk, TypeInv, TypeOK, DayKnown

(* The end of Load: the counts are recomputed, the index is rebuilt.       *)
LEMMA FinishLoadType ==
    ASSUME TypeInv, FinishLoad, orders' \in Ledger, day' = today',
           today' \in 1..MaxDay, his' \subseteq Archived,
           hisFile' \subseteq Archived, file' \in [day: 0..MaxDay, orders: Ledger],
           running' \in BOOLEAN, UNCHANGED <<todo, dirty, price, now, fired, acked>>,
           phase' \in [Products -> PhaseStatuses \cup {"none"}],
           opening' \subseteq opening, losses' \in Nat
    PROVE  TypeInv'
  <1>1. dayCount' \in Nat
    BY IdsFinite DEF FinishLoad
  <1>2. validCount' \in Nat
    <2>1. Valid(orders') \in SUBSET OrderIDs
      BY DEF Valid
    <2>2. QED
      BY <2>1, IdsFinite DEF FinishLoad
  <1>3. index' \in IndexType
    BY RebuildType DEF FinishLoad
  <1>4. day' \in 0..MaxDay
    BY ConditionOrdersAssumption
  <1>5. QED
    BY <1>1, <1>2, <1>3, <1>4 DEF FinishLoad, TypeInv, TypeOK, DayKnown

LEMMA NextType == TypeInv /\ [Next]_vars => TypeInv'
  <1> SUFFICES ASSUME TypeInv, [Next]_vars PROVE TypeInv'
    OBVIOUS
  <1>1. ASSUME NEW id \in OrderIDs, NEW r \in Requests, InsertConditionOrder(id, r)
        PROVE  TypeInv'
    <2>1. MetAtInsert(r) \subseteq Nat
      <3>1. r.conds \in Seq(Condition)
        BY ConditionOrdersAssumption DEF Request
      <3>2. QED
        BY <3>1 DEF MetAtInsert
    <2>2. day \in 1..MaxDay
      BY <1>1 DEF InsertConditionOrder, Ready, TypeInv, TypeOK, DayKnown
    <2>3. [status |-> "Live", req |-> r, day |-> day,
           touched |-> MetAtInsert(r), broke |-> {}] \in Order
      BY <2>1, <2>2 DEF Order, Statuses
    <2>4. orders' \in Ledger
      BY <1>1, <2>3 DEF InsertConditionOrder, Ledger, TypeInv, TypeOK
    <2>5. QED
      BY <1>1, <2>4, CommitType DEF InsertConditionOrder, history, TypeInv, TypeOK
  <1>2. ASSUME NEW id \in OrderIDs, CancelConditionOrder(id)
        PROVE  TypeInv'
    <2>1. orders[id] \in Order
      BY <1>2, PresentIsOrder DEF CancelConditionOrder, ValidStatuses, TypeInv, TypeOK
    <2>2. orders' \in Ledger
      BY <1>2, <2>1 DEF CancelConditionOrder, Ledger, Order, Statuses, TypeInv, TypeOK
    <2>3. <<id, orders[id].day>> \in Firing
      BY <2>1 DEF Firing, Order
    <2>4. QED
      BY <1>2, <2>2, <2>3, CommitType DEF CancelConditionOrder, TypeInv, TypeOK
  <1>3. ASSUME NEW id \in OrderIDs, PauseConditionOrder(id)
        PROVE  TypeInv'
    <2>1. orders[id] \in Order
      BY <1>3, PresentIsOrder DEF PauseConditionOrder, TypeInv, TypeOK
    <2>2. orders' \in Ledger
      BY <1>3, <2>1 DEF PauseConditionOrder, Ledger, Order, Statuses, TypeInv, TypeOK
    <2>3. QED
      BY <1>3, <2>2, CommitType DEF PauseConditionOrder, history, TypeInv, TypeOK
  <1>4. ASSUME NEW id \in OrderIDs, ResumeConditionOrder(id)
        PROVE  TypeInv'
    <2>1. orders[id] \in Order
      BY <1>4, PresentIsOrder DEF ResumeConditionOrder, TypeInv, TypeOK
    <2>2. orders' \in Ledger
      BY <1>4, <2>1 DEF ResumeConditionOrder, Ledger, Order, Statuses, TypeInv, TypeOK
    <2>3. QED
      BY <1>4, <2>2, CommitType DEF ResumeConditionOrder, history, TypeInv, TypeOK
  <1>5. CASE BeginCheckPrice
    BY <1>5 DEF BeginCheckPrice, Ready, manager, disk, market, history,
                TypeInv, TypeOK, DayKnown
  <1>6. ASSUME NEW s \in Instruments, CheckPriceOf(s)
        PROVE  TypeInv'
    <2> DEFINE ids   == LiveAmong(IF price[s] = Absent THEN {} ELSE index.price[s])
               after == [id \in ids |-> CheckPriceCondition(orders[id], price[s])]
    <2>1. ids \subseteq OrderIDs /\ \A id \in ids : orders[id].status = "Live"
      BY DEF LiveAmong, TypeInv, TypeOK, IndexType
    <2>2. \A id \in ids : orders[id] \in Order
      BY <2>1, PresentIsOrder DEF TypeInv, TypeOK
    <2>3. price[s] \in Int
      BY DEF TypeInv, TypeOK
    <2>4. \A id \in ids : after[id] \in Order
      BY <2>2, <2>3, CheckPriceType
    <2>5. DOMAIN after = ids
      OBVIOUS
    <2>6. Visit(after) /\ pc = "checking" /\ UNCHANGED <<pc, market>>
      BY <1>6 DEF CheckPriceOf
    <2>7. todo' \subseteq Instruments
      BY <1>6 DEF CheckPriceOf, TypeInv, TypeOK
    <2> HIDE DEF after, ids
    <2>8. QED
      BY <2>1, <2>4, <2>5, <2>6, <2>7, VisitType DEF market
  <1>7. CASE OnCheckTime
    <2> DEFINE ids   == LiveAmong(index.time)
               after == [id \in ids |-> CheckTime(orders[id])]
    <2>1. ids \subseteq OrderIDs /\ \A id \in ids : orders[id].status = "Live"
      BY DEF LiveAmong, TypeInv, TypeOK, IndexType
    <2>2. \A id \in ids : orders[id] \in Order
      BY <2>1, PresentIsOrder DEF TypeInv, TypeOK
    <2>3. \A id \in ids : after[id] \in Order
      BY <2>2, CheckTimeType
    <2>4. DOMAIN after = ids
      OBVIOUS
    <2>5. /\ Visit(after) /\ pc = "idle" /\ pc' = "checking"
          /\ UNCHANGED <<todo, market>>
      BY <1>7 DEF OnCheckTime, Ready
    <2>6. todo' \subseteq Instruments
      BY <2>5 DEF TypeInv, TypeOK
    <2> HIDE DEF after, ids
    <2>7. QED
      BY <2>1, <2>3, <2>4, <2>5, <2>6, VisitType DEF market
  <1>8. ASSUME NEW info \in Reports, OnUpdateInstrumentStatus(info)
        PROVE  TypeInv'
    <2>1. info.product \in Products /\ info.phase \in PhaseStatuses
      BY ConditionOrdersAssumption
    <2>2. QED
      BY <1>8, <2>1 DEF OnUpdateInstrumentStatus, manager, disk, history,
                        TypeInv, TypeOK, DayKnown
  <1>9. ASSUME NEW p \in Products, NEW st \in PhaseStatuses, OnMarketOpen(p, st)
        PROVE  TypeInv'
    <2> DEFINE ids   == LiveAmong(IF running THEN index.open[p] ELSE {})
               after == [id \in ids |-> CheckOpen(orders[id], p, st)]
    <2>1. ids \subseteq OrderIDs /\ \A id \in ids : orders[id].status = "Live"
      BY DEF LiveAmong, TypeInv, TypeOK, IndexType
    <2>2. \A id \in ids : orders[id] \in Order
      BY <2>1, PresentIsOrder DEF TypeInv, TypeOK
    <2>3. \A id \in ids : after[id] \in Order
      BY <2>2, CheckOpenType
    <2>4. DOMAIN after = ids
      OBVIOUS
    <2>5. /\ Visit(after) /\ pc = "idle" /\ pc' \in {"idle", "checking"}
          /\ UNCHANGED <<todo, price, phase, now, today>> /\ opening' \subseteq opening
      BY <1>9 DEF OnMarketOpen
    <2>6. todo' \subseteq Instruments
      BY <2>5 DEF TypeInv, TypeOK
    <2> HIDE DEF after, ids
    <2>7. QED
      BY <2>1, <2>3, <2>4, <2>5, <2>6, VisitType
  <1>10. CASE EndPass
    <2>1. file' \in [day: 0..MaxDay, orders: Ledger] /\ index' \in IndexType
      BY <1>10, SaveCurrentType, RebuildType DEF EndPass, TypeInv, TypeOK
    <2>2. QED
      BY <1>10, <2>1 DEF EndPass, market, history, TypeInv, TypeOK, DayKnown
  <1>11. CASE NotifyPasswordUpdate
    <2>1. file' \in [day: 0..MaxDay, orders: Ledger]
      BY <1>11, SaveCurrentType DEF NotifyPasswordUpdate, manager, TypeInv, TypeOK
    <2>2. QED
      BY <1>11, <2>1 DEF NotifyPasswordUpdate, manager, market, history,
                         TypeInv, TypeOK, DayKnown
  <1>12. CASE Close
    BY <1>12 DEF Close, Ready, disk, market, history, TypeInv, TypeOK, DayKnown
  <1>13. ASSUME NEW d \in 1..MaxDay, LoadEmpty(d)
         PROVE  TypeInv'
    <2>1. losses' \in Nat /\ today' = d /\ running' = TRUE /\ opening' = {}
      BY <1>13 DEF LoadEmpty, StartLoad, NewLosses, TypeInv, TypeOK
    <2>2. his' \subseteq Archived
      BY <1>13 DEF LoadEmpty, HistoryOf, TypeInv, TypeOK
    <2>3. QED
      BY <1>13, <2>1, <2>2, NoOrdersType, FinishLoadType
         DEF LoadEmpty, StartLoad, disk, TypeInv, TypeOK
  <1>14. ASSUME NEW d \in 1..MaxDay, LoadSameDay(d)
         PROVE  TypeInv'
    <2>1. losses' \in Nat /\ today' = d /\ running' = TRUE /\ opening' = {}
      BY <1>14 DEF LoadSameDay, StartLoad, NewLosses, TypeInv, TypeOK
    <2>2. his' \subseteq Archived
      BY <1>14 DEF LoadSameDay, HistoryOf, TypeInv, TypeOK
    <2>3. QED
      BY <1>14, <2>1, <2>2, FinishLoadType
         DEF LoadSameDay, StartLoad, disk, TypeInv, TypeOK
  <1>15. ASSUME NEW d \in 1..MaxDay, LoadNewDay(d)
         PROVE  TypeInv'
    <2>1. losses' \in Nat /\ today' = d /\ running' = TRUE /\ opening' = {}
      BY <1>15 DEF LoadNewDay, StartLoad, NewLosses, TypeInv, TypeOK
    <2>2. his' \subseteq Archived
      <3>1. ASSUME NEW id \in Present(file.orders)
            PROVE  Archive(file.orders[id], d) \in Order
        BY <3>1, PresentIsOrder, ArchiveType DEF Present, TypeInv, TypeOK
      <3>2. QED
        BY <1>15, <3>1 DEF LoadNewDay, Archived, Present
    <2>3. day' \in 0..MaxDay
      BY <1>15 DEF LoadNewDay
    <2>4. file' \in [day: 0..MaxDay, orders: Ledger]
      BY <1>15, <2>3, NoOrdersType, SaveCurrentType DEF LoadNewDay, TypeInv
    <2>5. index' \in IndexType
      BY <1>15, RebuildType DEF LoadNewDay
    <2>6. QED
      BY <1>15, <2>1, <2>2, <2>3, <2>4, <2>5, NoOrdersType
         DEF LoadNewDay, StartLoad, TypeInv, TypeOK, DayKnown
  <1>16. CASE SaveHistory
    <2>1. hisFile' \subseteq Archived
      BY <1>16 DEF SaveHistory, TypeInv, TypeOK
    <2>2. his' \subseteq Archived
      BY <1>16, <2>1 DEF SaveHistory, HistoryOf
    <2>3. QED
      BY <1>16, <2>1, <2>2, FinishLoadType
         DEF SaveHistory, market, history, TypeInv, TypeOK, DayKnown
  <1>17. CASE Crash
    <2>1. losses' \in Nat
      BY <1>17 DEF Crash, NewLosses, TypeInv, TypeOK
    <2>2. index' \in IndexType
      BY <1>17, RebuildType DEF Crash
    <2>3. phase' \in [Products -> PhaseStatuses \cup {"none"}]
      BY <1>17 DEF Crash
    <2>4. orders' \in Ledger /\ day' \in 0..MaxDay
      BY <1>17, NoOrdersType, ConditionOrdersAssumption DEF Crash
    <2>5. DayKnown'
      BY <1>17 DEF Crash, DayKnown
    <2>6. his' \subseteq Archived /\ todo' \subseteq Instruments
          /\ opening' \subseteq Products \X PhaseStatuses
      BY <1>17 DEF Crash
    <2>7. running' \in BOOLEAN /\ dirty' \in BOOLEAN
      BY <1>17 DEF Crash
    <2>8. pc' \in {"down", "idle", "checking", "rollover"}
          /\ dayCount' \in Int /\ validCount' \in Int
      BY <1>17 DEF Crash
    <2>9. /\ hisFile' \subseteq Archived
          /\ file' \in [day: 0..MaxDay, orders: Ledger]
          /\ price' \in [Instruments -> Int] /\ now' \in Nat /\ today' \in 1..MaxDay
          /\ fired' \in [Firing -> Nat] /\ acked' \subseteq Firing
      BY <1>17 DEF Crash, disk, TypeInv, TypeOK
    <2>10. QED
      BY <2>1, <2>2, <2>3, <2>4, <2>5, <2>6, <2>7, <2>8, <2>9 DEF TypeInv, TypeOK
  <1>18. ASSUME NEW s \in Instruments, NEW p \in 0..MaxPrice, Quote(s, p)
         PROVE  TypeInv'
    BY <1>18 DEF Quote, manager, disk, history, TypeInv, TypeOK, DayKnown
  <1>19. CASE Tick
    BY <1>19 DEF Tick, manager, disk, history, TypeInv, TypeOK, DayKnown
  <1>20. CASE UNCHANGED vars
    BY <1>20 DEF vars, manager, disk, market, history, TypeInv, TypeOK, DayKnown
  <1>21. QED
    BY <1>1, <1>2, <1>3, <1>4, <1>5, <1>6, <1>7, <1>8, <1>9, <1>10, <1>11, <1>12,
       <1>13, <1>14, <1>15, <1>16, <1>17, <1>18, <1>19, <1>20 DEF Next

(* Every variable keeps its type, for every value of the constants.        *)
THEOREM TypeCorrect == Spec => []TypeOK
  <1>1. Spec => []TypeInv
    BY InitType, NextType, PTL DEF Spec
  <1>2. TypeInv => TypeOK
    BY DEF TypeInv
  <1>3. QED
    BY <1>1, <1>2, PTL

-----------------------------------------------------------------------------
(* The counters, the limits, and what holds of every order at rest.        *)

(* What holds of the orders in memory and of those in the file alike: a    *)
(* restart brings the file's back, so it must hold of both to hold of      *)
(* either.                                                                 *)
Sound(os, d) ==
    /\ \A id \in Present(os) : os[id].day = d
    /\ \A id \in Valid(os) : ~AllTouched(os[id])
    /\ Cardinality(Present(os)) <= MaxNewOrdersPerDay
    /\ Cardinality(Valid(os)) <= MaxValidOrdersTotal

SoundInv == TypeInv /\ CountsExact
            /\ Sound(orders, day) /\ Sound(file.orders, file.day)

LEMMA NoOrdersSound == ASSUME NEW d PROVE Sound(NoOrders, d)
  BY NoOrdersType, FS_EmptySet, ConditionOrdersAssumption DEF Sound

LEMMA LedgerSets ==
    ASSUME NEW os
    PROVE  /\ Present(os) \in SUBSET OrderIDs /\ Valid(os) \in SUBSET Present(os)
           /\ Cardinality(Present(os)) \in Nat /\ Cardinality(Valid(os)) \in Nat
           /\ IsFiniteSet(Present(os)) /\ IsFiniteSet(Valid(os))
  <1>1. Present(os) \in SUBSET OrderIDs /\ Valid(os) \in SUBSET OrderIDs
    BY DEF Present, Valid
  <1>2. Valid(os) \subseteq Present(os)
    BY DEF Present, Valid, ValidStatuses
  <1>3. QED
    BY <1>1, <1>2, IdsFinite

(* A save writes what is in memory or leaves what was in the file.         *)
LEMMA SaveCurrentSound ==
    ASSUME Sound(file.orders, file.day), SaveCurrent, Sound(orders', day')
    PROVE  Sound(file'.orders, file'.day)
  <1>1. file' = [day |-> day', orders |-> orders'] \/ file' = file
    BY DEF SaveCurrent
  <1>2. QED
    BY <1>1

(* An order fires when its last condition is touched, and then it is no    *)
(* longer valid; its request and its day stay.                             *)
LEMMA TouchSound ==
    ASSUME NEW o \in Order, o.status = "Live", NEW marks
    PROVE  /\ Touch(o, marks).status \in {"Live", "Touched"}
           /\ Touch(o, marks).day = o.day
           /\ Touch(o, marks).req = o.req
           /\ Touch(o, marks).broke = o.broke
           /\ Touch(o, marks).touched = o.touched \cup marks
           /\ Touch(o, marks).status = "Live" => ~AllTouched(Touch(o, marks))
  <1> DEFINE marked == [o EXCEPT !.touched = @ \cup marks]
  <1>1. /\ marked.status = "Live" /\ marked.day = o.day /\ marked.req = o.req
        /\ marked.broke = o.broke /\ marked.touched = o.touched \cup marks
        /\ [marked EXCEPT !.status = "Touched"].status = "Touched"
        /\ [marked EXCEPT !.status = "Touched"].day = o.day
        /\ [marked EXCEPT !.status = "Touched"].req = o.req
        /\ [marked EXCEPT !.status = "Touched"].broke = o.broke
        /\ [marked EXCEPT !.status = "Touched"].touched = o.touched \cup marks
    BY DEF Order
  <1>2. Touch(o, marks) = IF AllTouched(marked)
                          THEN [marked EXCEPT !.status = "Touched"] ELSE marked
    BY DEF Touch
  <1> HIDE DEF marked
  <1>3. QED
    BY <1>1, <1>2

(* The same of each of the three checks.                                   *)
Checked(new, o) ==
    /\ new.status \in {"Live", "Touched"}
    /\ new.day = o.day /\ new.req = o.req
    /\ o.touched \subseteq new.touched
    /\ new.status = "Live" => ~AllTouched(new)

LEMMA CheckPriceSound ==
    ASSUME NEW o \in Order, o.status = "Live", NEW p
    PROVE  Checked(CheckPriceCondition(o, p), o)
  <1> DEFINE open == Waiting(o, PriceTypes)
             hit  == {i \in open : PriceTouches(o.req.conds[i], i \in o.broke, p)}
             out  == {i \in open : /\ o.req.conds[i].type = "breakEven"
                                   /\ p > 0 /\ Tradable(o.req.conds[i])
                                   /\ BreaksOut(o.req.conds[i], p)}
             new  == [o EXCEPT !.broke = @ \cup out]
  <1>1. open \subseteq Nat
    BY PositionsNat DEF Waiting
  <1>2. out \subseteq Nat
    BY <1>1
  <1> HIDE DEF hit, out
  <1>3. /\ new \in Order /\ new.status = "Live" /\ new.day = o.day
        /\ new.req = o.req /\ new.touched = o.touched
    BY <1>2 DEF Order
  <1> HIDE DEF new
  <1>4. Checked(Touch(new, hit), o)
    BY <1>3, TouchSound DEF Checked
  <1>5. QED
    BY <1>4 DEF CheckPriceCondition, hit, out, new

LEMMA CheckTimeSound ==
    ASSUME NEW o \in Order, o.status = "Live"
    PROVE  Checked(CheckTime(o), o)
  BY TouchSound DEF CheckTime, Checked

LEMMA CheckOpenSound ==
    ASSUME NEW o \in Order, o.status = "Live", NEW p, NEW st
    PROVE  Checked(CheckOpen(o, p, st), o)
  BY TouchSound DEF CheckOpen, Checked

LEMMA InitSound == Init => SoundInv
  <1> SUFFICES ASSUME Init PROVE SoundInv
    OBVIOUS
  <1>1. orders = NoOrders /\ file.orders = NoOrders /\ validCount = 0 /\ dayCount = 0
    BY DEF Init, NoFile
  <1>2. QED
    BY <1>1, InitType, NoOrdersSound, NoOrdersType, FS_EmptySet DEF SoundInv, CountsExact

(* A client request keeps SoundInv if it leaves sound orders and exact     *)
(* counters behind.                                                        *)
LEMMA CommitSound ==
    ASSUME SoundInv, TypeInv', Commit, Sound(orders', day), CountsExact'
    PROVE  SoundInv'
  <1>1. day' = day
    BY DEF Commit
  <1>2. Sound(file'.orders, file'.day)
    BY <1>1, SaveCurrentSound DEF SoundInv, Commit
  <1>3. QED
    BY <1>1, <1>2 DEF SoundInv

(* A visit takes the orders that fire out of the valid ones, and counts    *)
(* them.                                                                   *)
LEMMA VisitSound ==
    ASSUME SoundInv, TypeInv', NEW after, Visit(after),
           DOMAIN after \subseteq OrderIDs,
           \A id \in DOMAIN after : /\ orders[id].status = "Live"
                                    /\ Checked(after[id], orders[id])
    PROVE  SoundInv'
  <1> DEFINE shots == {id \in DOMAIN after : after[id].status = "Touched"}
  <1>1. orders' = [id \in OrderIDs |->
                     IF id \in DOMAIN after THEN after[id] ELSE orders[id]]
    BY DEF Visit
  <1>2. Present(orders') = Present(orders)
    BY <1>1 DEF Present, Checked
  <1>3. Valid(orders') = Valid(orders) \ shots /\ shots \subseteq Valid(orders)
    BY <1>1 DEF Valid, ValidStatuses, Checked
  <1>4. validCount' = validCount - Cardinality(shots) /\ dayCount' = dayCount
        /\ day' = day /\ file' = file
    BY DEF Visit, disk
  <1> HIDE DEF shots
  <1>5. Cardinality(Valid(orders')) = Cardinality(Valid(orders)) - Cardinality(shots)
    <2>1. Valid(orders) \cap shots = shots
      BY <1>3
    <2>2. QED
      BY <1>3, <2>1, LedgerSets, FS_Difference
  <1>6. CountsExact'
    BY <1>2, <1>4, <1>5 DEF SoundInv, CountsExact
  <1>7. Cardinality(Valid(orders')) <= MaxValidOrdersTotal
    <2>1. Cardinality(Valid(orders')) <= Cardinality(Valid(orders))
      BY <1>3, LedgerSets, FS_Subset
    <2>2. QED
      BY <2>1, LedgerSets, ConditionOrdersAssumption DEF SoundInv, Sound
  <1>8. \A id \in Present(orders') : orders'[id].day = day
    BY <1>1, <1>2 DEF Present, Checked, SoundInv, Sound
  <1>9. \A id \in Valid(orders') : ~AllTouched(orders'[id])
    <2>1. ASSUME NEW id \in Valid(orders')
          PROVE  ~AllTouched(orders'[id])
      <3>1. CASE id \in DOMAIN after
        <4>1. orders'[id] = after[id] /\ after[id].status \in ValidStatuses
          BY <1>1, <2>1, <3>1 DEF Valid
        <4>2. after[id].status = "Live"
          BY <3>1, <4>1 DEF Checked, ValidStatuses
        <4>3. QED
          BY <3>1, <4>1, <4>2 DEF Checked
      <3>2. CASE id \notin DOMAIN after
        BY <1>1, <2>1, <3>2 DEF Valid, SoundInv, Sound
      <3>3. QED
        BY <3>1, <3>2
    <2>2. QED
      BY <2>1
  <1>10. Sound(orders', day)
    BY <1>2, <1>7, <1>8, <1>9 DEF SoundInv, Sound
  <1>11. QED
    BY <1>4, <1>6, <1>10 DEF SoundInv

(* Load keeps SoundInv if the orders it starts from are sound: it counts   *)
(* them afresh.                                                            *)
LEMMA FinishLoadSound ==
    ASSUME SoundInv, TypeInv', FinishLoad, Sound(orders', day'), file' = file
    PROVE  SoundInv'
  <1>1. {id \in OrderIDs : orders'[id].status # "None" /\ orders'[id].day = day'}
            = Present(orders')
    BY DEF Present, Sound
  <1>2. CountsExact'
    BY <1>1 DEF FinishLoad, CountsExact
  <1>3. QED
    BY <1>2 DEF SoundInv

(* A status that changes between "Live" and "Suspend" moves no order in or *)
(* out of any of the sets that are counted.                                *)
LEMMA SwitchSound ==
    ASSUME SoundInv, TypeInv', Commit, NEW id \in OrderIDs, NEW st \in ValidStatuses,
           orders[id].status \in ValidStatuses,
           orders' = [orders EXCEPT ![id].status = st],
           UNCHANGED <<dayCount, validCount>>
    PROVE  SoundInv'
  <1>1. orders[id] \in Order
    BY PresentIsOrder DEF SoundInv, TypeInv, TypeOK, ValidStatuses
  <1>2. /\ orders'[id].status = st /\ orders'[id].day = orders[id].day
        /\ orders'[id].req = orders[id].req /\ orders'[id].touched = orders[id].touched
        /\ \A other \in OrderIDs : other # id => orders'[other] = orders[other]
    BY <1>1 DEF SoundInv, TypeInv, TypeOK, Ledger, Order
  <1>3. Present(orders') = Present(orders) /\ Valid(orders') = Valid(orders)
    BY <1>2 DEF Present, Valid, ValidStatuses
  <1>4. \A x \in Valid(orders) : AllTouched(orders'[x]) <=> AllTouched(orders[x])
    BY <1>2 DEF Valid, AllTouched, Positions
  <1>5. \A x \in Present(orders) : orders'[x].day = orders[x].day
    BY <1>2 DEF Present
  <1>6. Sound(orders', day) /\ CountsExact'
    BY <1>3, <1>4, <1>5 DEF SoundInv, Sound, CountsExact
  <1>7. QED
    BY <1>6, CommitSound

LEMMA NextSound == SoundInv /\ [Next]_vars => SoundInv'
  <1> SUFFICES ASSUME SoundInv, [Next]_vars PROVE SoundInv'
    OBVIOUS
  <1> TypeInv'
    BY NextType DEF SoundInv
  <1>1. ASSUME NEW id \in OrderIDs, NEW r \in Requests, InsertConditionOrder(id, r)
        PROVE  SoundInv'
    <2> DEFINE new == [status |-> "Live", req |-> r, day |-> day,
                       touched |-> MetAtInsert(r), broke |-> {}]
    <2>1. orders' = [orders EXCEPT ![id] = new] /\ orders[id].status = "None"
          /\ dayCount' = dayCount + 1 /\ validCount' = validCount + 1
          /\ day' = day /\ Commit /\ Validate(r)
      BY <1>1 DEF InsertConditionOrder, Commit
    <2>2. orders'[id] = new /\ \A other \in OrderIDs : other # id => orders'[other] = orders[other]
      BY <2>1 DEF SoundInv, TypeInv, TypeOK, Ledger
    <2>3. Present(orders') = Present(orders) \cup {id} /\ id \notin Present(orders)
      BY <2>1, <2>2 DEF Present
    <2>4. Valid(orders') = Valid(orders) \cup {id} /\ id \notin Valid(orders)
      BY <2>1, <2>2 DEF Valid, ValidStatuses
    <2>5. Cardinality(Present(orders')) = Cardinality(Present(orders)) + 1
          /\ Cardinality(Valid(orders')) = Cardinality(Valid(orders)) + 1
      BY <2>3, <2>4, LedgerSets, FS_AddElement
    <2>6. CountsExact'
      BY <2>1, <2>5 DEF SoundInv, CountsExact
    <2>7. Cardinality(Present(orders')) <= MaxNewOrdersPerDay
          /\ Cardinality(Valid(orders')) <= MaxValidOrdersTotal
      BY <2>1, <2>5 DEF Validate, SoundInv, CountsExact
    <2>8. ~AllTouched(new)
      <3>1. CASE r.oper = "AND"
        BY <2>1, <3>1 DEF Validate, AllTouched, Positions
      <3>2. CASE r.oper # "AND"
        <4>1. MetAtInsert(r) = {}
          BY <3>2 DEF MetAtInsert
        <4>2. QED
          BY <4>1 DEF AllTouched, Positions
      <3>3. QED
        BY <3>1, <3>2
    <2>9. Sound(orders', day)
      <3>1. \A x \in Present(orders') : orders'[x].day = day
        BY <2>2, <2>3 DEF Present, SoundInv, Sound
      <3>2. \A x \in Valid(orders') : ~AllTouched(orders'[x])
        <4> HIDE DEF new
        <4>1. QED
          BY <2>2, <2>4, <2>8 DEF Valid, SoundInv, Sound
      <3>3. QED
        BY <3>1, <3>2, <2>7 DEF Sound
    <2>10. QED
      BY <2>1, <2>6, <2>9, CommitSound
  <1>2. ASSUME NEW id \in OrderIDs, CancelConditionOrder(id)
        PROVE  SoundInv'
    <2>1. orders' = [orders EXCEPT ![id].status = "Cancel"] /\ Commit
          /\ orders[id].status \in ValidStatuses
          /\ validCount' = validCount - 1 /\ dayCount' = dayCount
      BY <1>2 DEF CancelConditionOrder
    <2>2. orders[id] \in Order
      BY <2>1, PresentIsOrder DEF SoundInv, TypeInv, TypeOK, ValidStatuses
    <2>3. /\ orders'[id].status = "Cancel" /\ orders'[id].day = orders[id].day
          /\ \A other \in OrderIDs : other # id => orders'[other] = orders[other]
      BY <2>1, <2>2 DEF SoundInv, TypeInv, TypeOK, Ledger, Order
    <2>4. Present(orders') = Present(orders)
      BY <2>1, <2>3 DEF Present, ValidStatuses
    <2>5. Valid(orders') = Valid(orders) \ {id} /\ id \in Valid(orders)
      BY <2>1, <2>3 DEF Valid, ValidStatuses
    <2>6. Cardinality(Valid(orders')) = Cardinality(Valid(orders)) - 1
      BY <2>5, LedgerSets, FS_RemoveElement
    <2>7. CountsExact'
      BY <2>1, <2>4, <2>6 DEF SoundInv, CountsExact
    <2>8. Sound(orders', day)
      <3>1. \A x \in Present(orders') : orders'[x].day = day
        BY <2>3, <2>4 DEF Present, SoundInv, Sound
      <3>2. \A x \in Valid(orders') : ~AllTouched(orders'[x])
        BY <2>3, <2>5 DEF Valid, SoundInv, Sound
      <3>3. Cardinality(Valid(orders')) <= MaxValidOrdersTotal
        BY <2>6, LedgerSets, ConditionOrdersAssumption DEF SoundInv, Sound
      <3>4. QED
        BY <2>4, <3>1, <3>2, <3>3 DEF SoundInv, Sound
    <2>9. QED
      BY <2>1, <2>7, <2>8, CommitSound
  <1>3. ASSUME NEW id \in OrderIDs, PauseConditionOrder(id)
        PROVE  SoundInv'
    BY <1>3, SwitchSound DEF PauseConditionOrder, ValidStatuses
  <1>4. ASSUME NEW id \in OrderIDs, ResumeConditionOrder(id)
        PROVE  SoundInv'
    BY <1>4, SwitchSound DEF ResumeConditionOrder, ValidStatuses
  <1>5. ASSUME NEW s \in Instruments, CheckPriceOf(s)
        PROVE  SoundInv'
    <2> DEFINE ids   == LiveAmong(IF price[s] = Absent THEN {} ELSE index.price[s])
               after == [id \in ids |-> CheckPriceCondition(orders[id], price[s])]
    <2>1. ids \subseteq OrderIDs /\ \A id \in ids : orders[id].status = "Live"
      BY DEF LiveAmong, SoundInv, TypeInv, TypeOK, IndexType
    <2>2. \A id \in ids : orders[id] \in Order
      BY <2>1, PresentIsOrder DEF SoundInv, TypeInv, TypeOK
    <2>3. \A id \in ids : Checked(after[id], orders[id])
      BY <2>1, <2>2, CheckPriceSound
    <2>4. DOMAIN after = ids /\ Visit(after)
      BY <1>5 DEF CheckPriceOf
    <2> HIDE DEF after, ids
    <2>5. QED
      BY <2>1, <2>3, <2>4, VisitSound
  <1>6. CASE OnCheckTime
    <2> DEFINE ids   == LiveAmong(index.time)
               after == [id \in ids |-> CheckTime(orders[id])]
    <2>1. ids \subseteq OrderIDs /\ \A id \in ids : orders[id].status = "Live"
      BY DEF LiveAmong, SoundInv, TypeInv, TypeOK, IndexType
    <2>2. \A id \in ids : orders[id] \in Order
      BY <2>1, PresentIsOrder DEF SoundInv, TypeInv, TypeOK
    <2>3. \A id \in ids : Checked(after[id], orders[id])
      BY <2>1, <2>2, CheckTimeSound
    <2>4. DOMAIN after = ids /\ Visit(after)
      BY <1>6 DEF OnCheckTime
    <2> HIDE DEF after, ids
    <2>5. QED
      BY <2>1, <2>3, <2>4, VisitSound
  <1>7. ASSUME NEW p \in Products, NEW st \in PhaseStatuses, OnMarketOpen(p, st)
        PROVE  SoundInv'
    <2> DEFINE ids   == LiveAmong(IF running THEN index.open[p] ELSE {})
               after == [id \in ids |-> CheckOpen(orders[id], p, st)]
    <2>1. ids \subseteq OrderIDs /\ \A id \in ids : orders[id].status = "Live"
      BY DEF LiveAmong, SoundInv, TypeInv, TypeOK, IndexType
    <2>2. \A id \in ids : orders[id] \in Order
      BY <2>1, PresentIsOrder DEF SoundInv, TypeInv, TypeOK
    <2>3. \A id \in ids : Checked(after[id], orders[id])
      BY <2>1, <2>2, CheckOpenSound
    <2>4. DOMAIN after = ids /\ Visit(after)
      BY <1>7 DEF OnMarketOpen
    <2> HIDE DEF after, ids
    <2>5. QED
      BY <2>1, <2>3, <2>4, VisitSound
  <1>8. ASSUME UNCHANGED <<orders, day, dayCount, validCount>>,
               SaveCurrent \/ UNCHANGED file
        PROVE  SoundInv'
    <2>1. Sound(orders', day') /\ CountsExact'
      BY <1>8 DEF SoundInv, CountsExact
    <2>2. Sound(file'.orders, file'.day)
      BY <1>8, <2>1, SaveCurrentSound DEF SoundInv
    <2>3. QED
      BY <2>1, <2>2 DEF SoundInv
  <1>9. CASE EndPass
    BY <1>8, <1>9 DEF EndPass
  <1>10. CASE NotifyPasswordUpdate
    BY <1>8, <1>10 DEF NotifyPasswordUpdate, manager
  <1>11. ASSUME NEW d \in 1..MaxDay, LoadEmpty(d)
         PROVE  SoundInv'
    BY <1>11, NoOrdersSound, FinishLoadSound DEF LoadEmpty, disk
  <1>12. ASSUME NEW d \in 1..MaxDay, LoadSameDay(d)
         PROVE  SoundInv'
    <2>1. Sound(orders', day')
      BY <1>12 DEF LoadSameDay, SoundInv
    <2>2. QED
      BY <1>12, <2>1, FinishLoadSound DEF LoadSameDay, disk
  <1>13. ASSUME NEW d \in 1..MaxDay, LoadNewDay(d)
         PROVE  SoundInv'
    <2>1. Sound(orders', day') /\ CountsExact'
      BY <1>13, NoOrdersSound, NoOrdersType, FS_EmptySet DEF LoadNewDay, CountsExact
    <2>2. Sound(file'.orders, file'.day)
      BY <1>13, <2>1, SaveCurrentSound DEF LoadNewDay, SoundInv
    <2>3. QED
      BY <2>1, <2>2 DEF SoundInv
  <1>14. CASE SaveHistory
    <2>1. Sound(orders', day')
      BY <1>14 DEF SaveHistory, SoundInv
    <2>2. QED
      BY <1>14, <2>1, FinishLoadSound DEF SaveHistory
  <1>15. CASE Crash
    <2>1. Sound(orders', day') /\ CountsExact'
      BY <1>15, NoOrdersSound, NoOrdersType, FS_EmptySet DEF Crash, CountsExact
    <2>2. QED
      BY <1>15, <2>1 DEF Crash, disk, SoundInv
  <1>16. CASE BeginCheckPrice
    BY <1>8, <1>16 DEF BeginCheckPrice, manager, disk
  <1>17. ASSUME NEW info \in Reports, OnUpdateInstrumentStatus(info)
         PROVE  SoundInv'
    BY <1>8, <1>17 DEF OnUpdateInstrumentStatus, manager, disk
  <1>18. CASE Close
    BY <1>8, <1>18 DEF Close, disk
  <1>19. ASSUME NEW s \in Instruments, NEW p \in 0..MaxPrice, Quote(s, p)
         PROVE  SoundInv'
    BY <1>8, <1>19 DEF Quote, manager, disk
  <1>20. CASE Tick
    BY <1>8, <1>20 DEF Tick, manager, disk
  <1>21. CASE UNCHANGED vars
    BY <1>8, <1>21 DEF vars, manager, disk
  <1>22. QED
    BY <1>1, <1>2, <1>3, <1>4, <1>5, <1>6, <1>7, <1>9, <1>10, <1>11, <1>12, <1>13,
       <1>14, <1>15, <1>16, <1>17, <1>18, <1>19, <1>20, <1>21 DEF Next

LEMMA SoundAlways == Spec => []SoundInv
  BY InitSound, NextSound, PTL DEF Spec

(* currentValidOrderCount and currentDayOrderCount agree with the orders.  *)
THEOREM CountsCorrect == Spec => []CountsExact
  <1>1. SoundInv => CountsExact
    BY DEF SoundInv
  <1>2. QED
    BY <1>1, SoundAlways, PTL

(* Neither limit of the configuration is ever exceeded.                    *)
THEOREM LimitsCorrect == Spec => []LimitsRespected
  <1>1. SoundInv => LimitsRespected
    BY DEF SoundInv, Sound, LimitsRespected
  <1>2. QED
    BY <1>1, SoundAlways, PTL

(* No valid order rests with its conditions met.                           *)
THEOREM NoneOverdueCorrect == Spec => []NoneOverdue
  <1>1. SoundInv => NoneOverdue
    BY DEF SoundInv, Sound, NoneOverdue
  <1>2. QED
    BY <1>1, SoundAlways, PTL

(* The orders in memory belong to the manager's trading day.               *)
THEOREM NoStaleOrderCorrect == Spec => []NoStaleOrder
  <1>1. SoundInv => NoStaleOrder
    BY DEF SoundInv, Sound, NoStaleOrder
  <1>2. QED
    BY <1>1, SoundAlways, PTL
-----------------------------------------------------------------------------
(* The index.                                                              *)

(* A pass under way may let the index fall behind, but only once it has    *)
(* noted that something changed, and then it rebuilds the index at its end.*)
IndexInv ==
    /\ pc # "checking" => ~dirty
    /\ (pc = "idle" \/ (pc = "checking" /\ ~dirty)) => index = Rebuild(orders)

(* Orders that differ at most in their break-out marks have one index.     *)
LEMMA SameIndex ==
    ASSUME NEW os1, NEW os2, \A id \in OrderIDs : SameOrder(os1[id], os2[id])
    PROVE  Rebuild(os1) = Rebuild(os2)
  <1>1. ASSUME NEW types, NEW insts
        PROVE  WaitingFor(os1, types, insts) = WaitingFor(os2, types, insts)
    <2>1. ASSUME NEW id \in OrderIDs, os1[id].status = "Live" \/ os2[id].status = "Live"
          PROVE  /\ os1[id].status = os2[id].status
                 /\ Waiting(os1[id], types) = Waiting(os2[id], types)
                 /\ os1[id].req = os2[id].req
      BY <2>1 DEF SameOrder, Waiting, Positions
    <2>2. QED
      BY <2>1 DEF WaitingFor
  <1>2. QED
    BY <1>1 DEF Rebuild

(* A visit that does not set dirty leaves the index right.                 *)
LEMMA VisitIndex ==
    ASSUME IndexInv, pc \in {"idle", "checking"}, pc' \in {"idle", "checking"},
           NEW after, Visit(after), DOMAIN after \subseteq OrderIDs,
           pc' = "idle" => (pc = "idle" /\ DOMAIN after = {})
    PROVE  IndexInv'
  <1>1. /\ orders' = [id \in OrderIDs |->
                        IF id \in DOMAIN after THEN after[id] ELSE orders[id]]
        /\ dirty' = (dirty \/ \E id \in DOMAIN after : ~SameOrder(after[id], orders[id]))
        /\ index' = index
    BY DEF Visit
  <1>2. ASSUME ~dirty'
        PROVE  index' = Rebuild(orders')
    <2>1. ~dirty /\ \A id \in DOMAIN after : SameOrder(after[id], orders[id])
      BY <1>1, <1>2
    <2>2. \A id \in OrderIDs : SameOrder(orders'[id], orders[id])
      BY <1>1, <2>1 DEF SameOrder
    <2>3. Rebuild(orders') = Rebuild(orders)
      BY <2>2, SameIndex
    <2>4. QED
      BY <1>1, <2>1, <2>3 DEF IndexInv
  <1>3. pc' = "idle" => ~dirty'
    BY <1>1 DEF IndexInv
  <1>4. QED
    BY <1>2, <1>3 DEF IndexInv

LEMMA NextIndex == TypeInv /\ IndexInv /\ [Next]_vars => IndexInv'
  <1> SUFFICES ASSUME TypeInv, IndexInv, [Next]_vars PROVE IndexInv'
    OBVIOUS
  <1>1. ASSUME Commit, pc = "idle"
        PROVE  IndexInv'
    BY <1>1 DEF Commit, IndexInv
  <1>2. ASSUME NEW id \in OrderIDs, NEW r \in Requests, InsertConditionOrder(id, r)
        PROVE  IndexInv'
    BY <1>1, <1>2 DEF InsertConditionOrder, Ready
  <1>3. ASSUME NEW id \in OrderIDs,
               \/ CancelConditionOrder(id)
               \/ PauseConditionOrder(id)
               \/ ResumeConditionOrder(id)
        PROVE  IndexInv'
    BY <1>1, <1>3 DEF CancelConditionOrder, PauseConditionOrder, ResumeConditionOrder, Ready
  <1>4. CASE BeginCheckPrice
    BY <1>4 DEF BeginCheckPrice, Ready, manager, IndexInv
  <1>5. ASSUME NEW s \in Instruments, CheckPriceOf(s)
        PROVE  IndexInv'
    <2> DEFINE ids   == LiveAmong(IF price[s] = Absent THEN {} ELSE index.price[s])
               after == [id \in ids |-> CheckPriceCondition(orders[id], price[s])]
    <2>1. ids \subseteq OrderIDs /\ DOMAIN after = ids
      BY DEF LiveAmong, TypeInv, TypeOK, IndexType
    <2>2. Visit(after) /\ pc = "checking" /\ pc' = "checking"
      BY <1>5 DEF CheckPriceOf
    <2> HIDE DEF after, ids
    <2>3. QED
      BY <2>1, <2>2, VisitIndex
  <1>6. CASE OnCheckTime
    <2> DEFINE ids   == LiveAmong(index.time)
               after == [id \in ids |-> CheckTime(orders[id])]
    <2>1. ids \subseteq OrderIDs /\ DOMAIN after = ids
      BY DEF LiveAmong, TypeInv, TypeOK, IndexType
    <2>2. Visit(after) /\ pc = "idle" /\ pc' = "checking"
      BY <1>6 DEF OnCheckTime, Ready
    <2> HIDE DEF after, ids
    <2>3. QED
      BY <2>1, <2>2, VisitIndex
  <1>7. ASSUME NEW p \in Products, NEW st \in PhaseStatuses, OnMarketOpen(p, st)
        PROVE  IndexInv'
    <2> DEFINE open  == IF running THEN index.open[p] ELSE {}
               ids   == LiveAmong(open)
               after == [id \in ids |-> CheckOpen(orders[id], p, st)]
    <2>1. ids \subseteq OrderIDs /\ DOMAIN after = ids
      BY DEF LiveAmong, TypeInv, TypeOK, IndexType
    <2>2. Visit(after) /\ pc = "idle" /\ pc' = IF open = {} THEN "idle" ELSE "checking"
      BY <1>7 DEF OnMarketOpen
    <2>3. open = {} => ids = {}
      BY DEF LiveAmong
    <2> HIDE DEF after, ids, open
    <2>4. QED
      BY <2>1, <2>2, <2>3, VisitIndex
  <1>8. CASE EndPass
    BY <1>8 DEF EndPass, IndexInv, TypeInv, TypeOK
  <1>9. CASE NotifyPasswordUpdate
    BY <1>9 DEF NotifyPasswordUpdate, manager, IndexInv
  <1>10. ASSUME FinishLoad, dirty' = dirty, pc # "checking"
         PROVE  IndexInv'
    BY <1>10 DEF FinishLoad, IndexInv
  <1>11. ASSUME NEW d \in 1..MaxDay, LoadEmpty(d) \/ LoadSameDay(d)
         PROVE  IndexInv'
    BY <1>10, <1>11 DEF LoadEmpty, LoadSameDay, StartLoad
  <1>12. ASSUME NEW d \in 1..MaxDay, LoadNewDay(d)
         PROVE  IndexInv'
    BY <1>12 DEF LoadNewDay, StartLoad, IndexInv
  <1>13. CASE SaveHistory
    BY <1>10, <1>13 DEF SaveHistory
  <1>14. CASE Crash
    BY <1>14 DEF Crash, IndexInv
  <1>15. ASSUME UNCHANGED <<pc, orders, index, dirty>>
         PROVE  IndexInv'
    BY <1>15 DEF IndexInv
  <1>16. CASE Close
    BY <1>15, <1>16 DEF Close
  <1>17. CASE Tick
    BY <1>15, <1>17 DEF Tick, manager
  <1>18. ASSUME NEW info \in Reports, OnUpdateInstrumentStatus(info)
         PROVE  IndexInv'
    BY <1>15, <1>18 DEF OnUpdateInstrumentStatus, manager
  <1>19. ASSUME NEW s \in Instruments, NEW p \in 0..MaxPrice, Quote(s, p)
         PROVE  IndexInv'
    BY <1>15, <1>19 DEF Quote, manager
  <1>20. CASE UNCHANGED vars
    BY <1>15, <1>20 DEF vars, manager
  <1>21. QED
    BY <1>2, <1>3, <1>4, <1>5, <1>6, <1>7, <1>8, <1>9, <1>11, <1>12, <1>13, <1>14,
       <1>16, <1>17, <1>18, <1>19, <1>20 DEF Next

(* The index lists exactly the live orders that wait, whenever no pass is  *)
(* under way.                                                              *)
THEOREM IndexCorrect == Spec => []IndexFresh
  <1>1. Init => TypeInv /\ IndexInv
    BY InitType DEF Init, IndexInv
  <1>2. TypeInv /\ IndexInv /\ [Next]_vars => (TypeInv /\ IndexInv)'
    BY NextType, NextIndex
  <1>3. IndexInv => IndexFresh
    BY DEF IndexInv, IndexFresh
  <1>4. QED
    BY <1>1, <1>2, <1>3, PTL DEF Spec

-----------------------------------------------------------------------------
(* The steps, in kinds.                                                    *)

(* Who visits orders: one symbol of a pass, the clock, an opening market.  *)
LEMMA CheckVisits ==
    ASSUME TypeInv,
           \/ \E s \in Instruments : CheckPriceOf(s)
           \/ OnCheckTime
           \/ \E p \in Products, st \in PhaseStatuses : OnMarketOpen(p, st)
    PROVE  \E after :
              /\ Visit(after) /\ DOMAIN after \subseteq OrderIDs
              /\ \A id \in DOMAIN after : orders[id].status = "Live" /\ Checked(after[id], orders[id])
              /\ pc \in {"idle", "checking"} /\ pc' \in {"idle", "checking"}
              /\ pc' = "idle" => (pc = "idle" /\ DOMAIN after = {})
              /\ today' = today
  <1>1. ASSUME NEW s \in Instruments, CheckPriceOf(s)
        PROVE  \E after :
                  /\ Visit(after) /\ DOMAIN after \subseteq OrderIDs
                  /\ \A id \in DOMAIN after :
                        orders[id].status = "Live" /\ Checked(after[id], orders[id])
                  /\ pc = "checking" /\ pc' = "checking" /\ today' = today
    <2> DEFINE ids   == LiveAmong(IF price[s] = Absent THEN {} ELSE index.price[s])
               after == [id \in ids |-> CheckPriceCondition(orders[id], price[s])]
    <2>1. ids \subseteq OrderIDs /\ \A id \in ids : orders[id].status = "Live"
      BY DEF LiveAmong, TypeInv, TypeOK, IndexType
    <2>2. \A id \in ids : orders[id] \in Order
      BY <2>1, PresentIsOrder DEF TypeInv, TypeOK
    <2>3. \A id \in ids : Checked(after[id], orders[id])
      BY <2>1, <2>2, CheckPriceSound
    <2>4. /\ DOMAIN after = ids /\ Visit(after) /\ pc = "checking" /\ pc' = "checking"
          /\ today' = today
      BY <1>1 DEF CheckPriceOf, market
    <2> HIDE DEF after, ids
    <2>5. QED
      BY <2>1, <2>3, <2>4
  <1>2. ASSUME OnCheckTime
        PROVE  \E after :
                  /\ Visit(after) /\ DOMAIN after \subseteq OrderIDs
                  /\ \A id \in DOMAIN after :
                        orders[id].status = "Live" /\ Checked(after[id], orders[id])
                  /\ pc = "idle" /\ pc' = "checking" /\ today' = today
    <2> DEFINE ids   == LiveAmong(index.time)
               after == [id \in ids |-> CheckTime(orders[id])]
    <2>1. ids \subseteq OrderIDs /\ \A id \in ids : orders[id].status = "Live"
      BY DEF LiveAmong, TypeInv, TypeOK, IndexType
    <2>2. \A id \in ids : orders[id] \in Order
      BY <2>1, PresentIsOrder DEF TypeInv, TypeOK
    <2>3. \A id \in ids : Checked(after[id], orders[id])
      BY <2>1, <2>2, CheckTimeSound
    <2>4. /\ DOMAIN after = ids /\ Visit(after) /\ pc = "idle" /\ pc' = "checking"
          /\ today' = today
      BY <1>2 DEF OnCheckTime, Ready, market
    <2> HIDE DEF after, ids
    <2>5. QED
      BY <2>1, <2>3, <2>4
  <1>3. ASSUME NEW p \in Products, NEW st \in PhaseStatuses, OnMarketOpen(p, st)
        PROVE  \E after :
                  /\ Visit(after) /\ DOMAIN after \subseteq OrderIDs
                  /\ \A id \in DOMAIN after :
                        orders[id].status = "Live" /\ Checked(after[id], orders[id])
                  /\ pc = "idle" /\ pc' \in {"idle", "checking"}
                  /\ pc' = "idle" => DOMAIN after = {}
                  /\ today' = today
    <2> DEFINE open  == IF running THEN index.open[p] ELSE {}
               ids   == LiveAmong(open)
               after == [id \in ids |-> CheckOpen(orders[id], p, st)]
    <2>1. ids \subseteq OrderIDs /\ \A id \in ids : orders[id].status = "Live"
      BY DEF LiveAmong, TypeInv, TypeOK, IndexType
    <2>2. \A id \in ids : orders[id] \in Order
      BY <2>1, PresentIsOrder DEF TypeInv, TypeOK
    <2>3. \A id \in ids : Checked(after[id], orders[id])
      BY <2>1, <2>2, CheckOpenSound
    <2>4. /\ DOMAIN after = ids /\ Visit(after) /\ pc = "idle" /\ today' = today
          /\ pc' = IF open = {} THEN "idle" ELSE "checking"
      BY <1>3 DEF OnMarketOpen
    <2>5. open = {} => ids = {}
      BY DEF LiveAmong
    <2> HIDE DEF after, ids, open
    <2>6. QED
      BY <2>1, <2>3, <2>4, <2>5
  <1>4. QED
    BY <1>1, <1>2, <1>3

(* What a client's request does to the ledger: one order is put there or   *)
(* moves on, and the file follows.                                         *)
ClientRequest(id) ==
    \/ \E r \in Requests : InsertConditionOrder(id, r)
    \/ CancelConditionOrder(id)
    \/ PauseConditionOrder(id)
    \/ ResumeConditionOrder(id)

LEMMA RequestFacts ==
    ASSUME TypeInv, NEW id \in OrderIDs, ClientRequest(id)
    PROVE  /\ pc = "idle" /\ pc' = pc /\ day' = day /\ dirty' = dirty /\ UNCHANGED <<fired, losses, today>>
           /\ SaveCurrent
           /\ \A other \in OrderIDs \ {id} : orders'[other] = orders[other]
           /\ <<orders[id].status, orders'[id].status>> \in
                 {<<"None", "Live">>, <<"Live", "Suspend">>, <<"Suspend", "Live">>,
                  <<"Live", "Cancel">>, <<"Suspend", "Cancel">>}
           /\ orders'[id].day = IF orders[id].status = "None" THEN day ELSE orders[id].day
           /\ acked' = acked \/ (/\ acked' = acked \cup {<<id, orders[id].day>>}
                                 /\ orders[id].status # "None" /\ orders'[id].status = "Cancel")
  <1>1. ASSUME NEW r \in Requests, InsertConditionOrder(id, r)
        PROVE  /\ orders[id].status = "None" /\ orders'[id].status = "Live" /\ orders'[id].day = day
               /\ \A other \in OrderIDs \ {id} : orders'[other] = orders[other]
               /\ acked' = acked
    BY <1>1 DEF InsertConditionOrder, TypeInv, TypeOK, Ledger, history
  <1>2. ASSUME CancelConditionOrder(id) \/ PauseConditionOrder(id) \/ ResumeConditionOrder(id)
        PROVE  /\ orders[id].status # "None" /\ orders'[id].day = orders[id].day
               /\ \A other \in OrderIDs \ {id} : orders'[other] = orders[other]
               /\ <<orders[id].status, orders'[id].status>> \in
                     {<<"Live", "Suspend">>, <<"Suspend", "Live">>,
                      <<"Live", "Cancel">>, <<"Suspend", "Cancel">>}
               /\ acked' = acked \/ (/\ acked' = acked \cup {<<id, orders[id].day>>}
                                     /\ orders'[id].status = "Cancel")
    <2>1. orders[id].status \in ValidStatuses
      BY <1>2 DEF CancelConditionOrder, PauseConditionOrder, ResumeConditionOrder, ValidStatuses
    <2>2. orders[id] \in Order /\ orders \in Ledger
      BY <2>1, PresentIsOrder DEF TypeInv, TypeOK, ValidStatuses
    <2>3. CASE CancelConditionOrder(id)
      BY <2>1, <2>2, <2>3 DEF CancelConditionOrder, Ledger, Order, ValidStatuses
    <2>4. CASE PauseConditionOrder(id)
      BY <2>2, <2>4 DEF PauseConditionOrder, Ledger, Order, history
    <2>5. CASE ResumeConditionOrder(id)
      BY <2>2, <2>5 DEF ResumeConditionOrder, Ledger, Order, history
    <2>6. QED
      BY <1>2, <2>3, <2>4, <2>5
  <1>3. /\ pc = "idle" /\ pc' = pc /\ day' = day /\ dirty' = dirty /\ UNCHANGED <<fired, losses, today>>
        /\ SaveCurrent
    BY DEF ClientRequest, InsertConditionOrder, CancelConditionOrder, PauseConditionOrder,
           ResumeConditionOrder, Ready, Commit, history, market
  <1>4. QED
    BY <1>1, <1>2, <1>3 DEF ClientRequest

(* What is left of Next once requests and checks are set apart.            *)
LEMMA NextCases ==
    ASSUME [Next]_vars
    PROVE  \/ \E id \in OrderIDs : ClientRequest(id)
           \/ \/ \E s \in Instruments : CheckPriceOf(s)
              \/ OnCheckTime
              \/ \E p \in Products, st \in PhaseStatuses : OnMarketOpen(p, st)
           \/ EndPass
           \/ \E d \in 1..MaxDay : LoadEmpty(d)
           \/ \E d \in 1..MaxDay : LoadSameDay(d)
           \/ \E d \in 1..MaxDay : LoadNewDay(d)
           \/ SaveHistory
           \/ Crash
           \/ /\ UNCHANGED <<orders, day, file, dirty, fired, acked, losses, today>>
              /\ pc' = pc \/ (pc = "idle" /\ pc' = "checking")
           \/ NotifyPasswordUpdate
  <1> DEFINE Rest == /\ UNCHANGED <<orders, day, file, dirty, fired, acked, losses, today>>
                     /\ pc' = pc \/ (pc = "idle" /\ pc' = "checking")
  <1>1. CASE BeginCheckPrice
    <2>1. Rest
      BY <1>1 DEF BeginCheckPrice, Ready, manager, disk, market, history
    <2>2. QED
      BY <2>1
  <1>2. CASE \E info \in Reports : OnUpdateInstrumentStatus(info)
    <2>1. Rest
      BY <1>2 DEF OnUpdateInstrumentStatus, manager, disk, history
    <2>2. QED
      BY <2>1
  <1>3. CASE Close
    <2>1. Rest
      BY <1>3 DEF Close, disk, market, history
    <2>2. QED
      BY <2>1
  <1>4. CASE Tick \/ \E s \in Instruments, p \in 0..MaxPrice : Quote(s, p)
    <2>1. Rest
      BY <1>4 DEF Tick, Quote, manager, disk, history
    <2>2. QED
      BY <2>1
  <1>5. CASE UNCHANGED vars
    <2>1. Rest
      BY <1>5 DEF vars, manager, disk, market, history
    <2>2. QED
      BY <2>1
  <1> HIDE DEF Rest
  <1>6. QED
    BY <1>1, <1>2, <1>3, <1>4, <1>5 DEF Next, ClientRequest

-----------------------------------------------------------------------------
(* What a price pass looks at.                                             *)

\* The index may list orders that no longer wait, but none that waits is missing.
WaitersListed ==
    \A s \in Instruments : WaitingFor(orders, PriceTypes, {s}) \subseteq index.price[s]

(* A visit only takes waiting conditions away.                             *)
LEMMA VisitListed ==
    ASSUME WaitersListed, NEW after, Visit(after),
           \A id \in DOMAIN after : orders[id].status = "Live" /\ Checked(after[id], orders[id])
    PROVE  WaitersListed'
  <1> SUFFICES ASSUME NEW s \in Instruments, NEW id \in WaitingFor(orders', PriceTypes, {s})
               PROVE  id \in WaitingFor(orders, PriceTypes, {s})
    BY DEF WaitersListed, Visit
  <1>1. orders'[id] = IF id \in DOMAIN after THEN after[id] ELSE orders[id]
    BY DEF Visit, WaitingFor
  <1>2. CASE id \in DOMAIN after
    <2>1. /\ orders[id].status = "Live" /\ orders'[id].req = orders[id].req
          /\ orders[id].touched \subseteq orders'[id].touched
      BY <1>1, <1>2 DEF Checked
    <2>2. QED
      BY <2>1 DEF WaitingFor, Waiting, Positions
  <1>3. QED
    BY <1>1, <1>2 DEF WaitingFor

(* Every other step leaves the orders and the index alone, or rebuilds the *)
(* index from what it makes of the orders.                                 *)
LEMMA NextListed == TypeInv /\ WaitersListed /\ [Next]_vars => WaitersListed'
  <1> SUFFICES ASSUME TypeInv, WaitersListed, [Next]_vars PROVE WaitersListed'
    OBVIOUS
  <1>1. ASSUME index' = Rebuild(orders') PROVE WaitersListed'
    BY <1>1 DEF WaitersListed, Rebuild
  <1>2. ASSUME UNCHANGED <<orders, index>> PROVE WaitersListed'
    BY <1>2 DEF WaitersListed
  <1>3. CASE \/ \E s \in Instruments : CheckPriceOf(s)
             \/ OnCheckTime
             \/ \E p \in Products, st \in PhaseStatuses : OnMarketOpen(p, st)
    BY <1>3, CheckVisits, VisitListed
  <1>4. CASE \E id \in OrderIDs : ClientRequest(id)
    BY <1>1, <1>4 DEF ClientRequest, InsertConditionOrder, CancelConditionOrder,
                      PauseConditionOrder, ResumeConditionOrder, Commit
  <1>5. CASE EndPass
    BY <1>1, <1>2, <1>5 DEF EndPass
  <1>6. CASE SaveHistory \/ \E d \in 1..MaxDay : LoadEmpty(d) \/ LoadSameDay(d) \/ LoadNewDay(d)
    BY <1>1, <1>6 DEF SaveHistory, LoadEmpty, LoadSameDay, LoadNewDay, FinishLoad
  <1>7. CASE Crash
    BY <1>1, <1>7 DEF Crash
  <1>8. CASE NotifyPasswordUpdate \/ Close \/ Tick \/ BeginCheckPrice
             \/ (\E info \in Reports : OnUpdateInstrumentStatus(info))
             \/ (\E s \in Instruments, p \in 0..MaxPrice : Quote(s, p))
    BY <1>2, <1>8 DEF NotifyPasswordUpdate, Close, Tick, BeginCheckPrice,
                      OnUpdateInstrumentStatus, Quote, manager
  <1>9. CASE UNCHANGED vars
    BY <1>2, <1>9 DEF vars, manager
  <1>10. QED
    BY <1>3, <1>4, <1>5, <1>6, <1>7, <1>8, <1>9 DEF Next, ClientRequest

(* Which steps touch the symbols before a pass.                             *)
LEMMA QuietTodo ==
    ASSUME [Next]_vars
    PROVE  BeginCheckPrice \/ Crash \/ (\E s \in Instruments : CheckPriceOf(s)) \/ UNCHANGED todo
  <1>1. CASE \E id \in OrderIDs : ClientRequest(id)
    BY <1>1 DEF ClientRequest, InsertConditionOrder, CancelConditionOrder,
                PauseConditionOrder, ResumeConditionOrder, Commit
  <1>2. CASE OnCheckTime \/ \E p \in Products, st \in PhaseStatuses : OnMarketOpen(p, st)
    BY <1>2 DEF OnCheckTime, OnMarketOpen
  <1>3. CASE \/ EndPass \/ SaveHistory \/ NotifyPasswordUpdate \/ Close \/ Tick
             \/ \E info \in Reports : OnUpdateInstrumentStatus(info)
             \/ \E s \in Instruments, p \in 0..MaxPrice : Quote(s, p)
    BY <1>3 DEF EndPass, SaveHistory, NotifyPasswordUpdate, Close, Tick,
                OnUpdateInstrumentStatus, Quote
  <1>4. CASE \E d \in 1..MaxDay : LoadEmpty(d) \/ LoadSameDay(d) \/ LoadNewDay(d)
    BY <1>4 DEF LoadEmpty, LoadSameDay, LoadNewDay, StartLoad
  <1>5. CASE UNCHANGED vars
    BY <1>5 DEF vars
  <1>6. QED
    BY <1>1, <1>2, <1>3, <1>4, <1>5 DEF Next, ClientRequest

(* A condition cannot break out and fall back at the same price.           *)
LEMMA OutIsNotBack ==
    ASSUME NEW c \in Condition, NEW p \in Int, BreaksOut(c, p)
    PROVE  ~FallsBack(c, p)
  BY DEF Condition, BreaksOut, FallsBack

(* No condition the price meets is left unmarked by the check of its order.*)
LEMMA CheckPriceComplete ==
    ASSUME NEW o \in Order, o.status = "Live", NEW p \in Int,
           NEW i \in Waiting(CheckPriceCondition(o, p), PriceTypes)
    PROVE  LET new == CheckPriceCondition(o, p) IN
           ~PriceTouches(new.req.conds[i], i \in new.broke, p)
  <1> DEFINE open == Waiting(o, PriceTypes)
             hit  == {j \in open : PriceTouches(o.req.conds[j], j \in o.broke, p)}
             out  == {j \in open : /\ o.req.conds[j].type = "breakEven"
                                   /\ p > 0 /\ Tradable(o.req.conds[j])
                                   /\ BreaksOut(o.req.conds[j], p)}
             mid  == [o EXCEPT !.broke = @ \cup out]
             new  == CheckPriceCondition(o, p)
  <1>1. open \subseteq Nat
    BY PositionsNat DEF Waiting
  <1>2. out \subseteq Nat
    BY <1>1
  <1>3. new = Touch(mid, hit)
    BY DEF CheckPriceCondition
  <1>4. i \in Waiting(new, PriceTypes)
    OBVIOUS
  <1> HIDE DEF new
  <1>5. \A j \in out : o.req.conds[j].type = "breakEven" /\ BreaksOut(o.req.conds[j], p)
    OBVIOUS
  <1>6. i \in open /\ i \notin hit => ~PriceTouches(o.req.conds[i], i \in o.broke, p)
    OBVIOUS
  <1> HIDE DEF hit, out
  <1>7. /\ mid \in Order /\ mid.status = "Live" /\ mid.req = o.req
        /\ mid.touched = o.touched /\ mid.broke = o.broke \cup out
    BY <1>2 DEF Order
  <1> HIDE DEF mid
  <1>8. /\ new.req = o.req /\ new.broke = o.broke \cup out
        /\ new.touched = o.touched \cup hit
    BY <1>3, <1>7, TouchSound
  <1>9. i \in open /\ i \notin hit
    BY <1>4, <1>8 DEF Waiting, Positions
  <1>10. o.req.conds[i] \in Condition
    BY <1>9, ConditionOrdersAssumption DEF Order, Request, Waiting, Positions
  <1>11. ASSUME i \in out PROVE ~PriceTouches(o.req.conds[i], i \in new.broke, p)
    BY <1>5, <1>10, <1>11, OutIsNotBack DEF PriceTouches
  <1>12. ASSUME i \notin out PROVE ~PriceTouches(o.req.conds[i], i \in new.broke, p)
    <2>1. i \in new.broke <=> i \in o.broke
      BY <1>8, <1>12
    <2>2. QED
      BY <1>6, <1>9, <2>1 DEF PriceTouches
  <1>13. QED
    BY <1>8, <1>11, <1>12 DEF new

(* A price pass overlooks no order: it starts with every symbol a live     *)
(* order waits on, and leaves none of them with a met condition unmarked.  *)
THEOREM OverlookedCorrect == Spec => NoneOverlooked
  <1> DEFINE Inv == TypeInv /\ IndexInv /\ WaitersListed
             Starts == todo' \ todo # {} =>
                          \A id \in OrderIDs, s \in Instruments :
                              id \in WaitingFor(orders, PriceTypes, {s}) => s \in todo'
             Leaves == pc = "checking" /\ pc' = "checking" =>
                          \A s \in todo \ todo' : \A id \in WaitingFor(orders', PriceTypes, {s}) :
                              \A i \in Waiting(orders'[id], PriceTypes) :
                                  LET c == orders'[id].req.conds[i] IN
                                  c.inst = s => ~PriceTouches(c, i \in orders'[id].broke, price[s])
  <1>1. Init => Inv
    BY InitType DEF Init, IndexInv, WaitersListed, Rebuild
  <1>2. Inv /\ [Next]_vars => Inv'
    BY NextType, NextIndex, NextListed
  <1>3. ASSUME Inv, [Next]_vars PROVE Starts
    <2>1. CASE BeginCheckPrice
      BY <1>3, <2>1 DEF BeginCheckPrice, WaitersListed
    <2>2. ASSUME todo' \ todo = {} PROVE Starts
      BY <2>2
    <2>3. CASE /\ ~BeginCheckPrice
               /\ \/ \E s \in Instruments : CheckPriceOf(s)
                  \/ Crash
                  \/ UNCHANGED todo
      BY <2>2, <2>3 DEF CheckPriceOf, Crash
    <2>4. BeginCheckPrice \/ Crash \/ (\E s \in Instruments : CheckPriceOf(s)) \/ UNCHANGED todo
      BY <1>3, QuietTodo
    <2>5. QED
      BY <2>1, <2>3, <2>4
  <1>4. ASSUME Inv, [Next]_vars PROVE Leaves
    <2>1. ASSUME NEW s \in Instruments, CheckPriceOf(s) PROVE Leaves
      <3> SUFFICES ASSUME NEW id \in WaitingFor(orders', PriceTypes, {s}),
                          NEW i \in Waiting(orders'[id], PriceTypes)
                   PROVE  LET c == orders'[id].req.conds[i] IN
                          ~PriceTouches(c, i \in orders'[id].broke, price[s])
        BY <2>1 DEF CheckPriceOf
      <3> DEFINE ids   == LiveAmong(IF price[s] = Absent THEN {} ELSE index.price[s])
                 after == [k \in ids |-> CheckPriceCondition(orders[k], price[s])]
      <3>1. CASE price[s] = Absent
        BY <3>1 DEF Absent, PriceTouches
      <3>2. CASE price[s] # Absent
        <4>1. Inv'
          BY <1>2, <1>4
        <4>2. /\ orders' = [k \in OrderIDs |-> IF k \in ids THEN after[k] ELSE orders[k]]
              /\ index' = index
          BY <2>1 DEF CheckPriceOf, Visit
        <4>3. id \in OrderIDs /\ id \in index.price[s] /\ orders'[id].status = "Live"
          BY <4>1, <4>2 DEF WaitersListed, WaitingFor
        <4>4. id \in ids /\ orders[id].status = "Live"
          BY <3>2, <4>2, <4>3 DEF LiveAmong
        <4>5. orders'[id] = CheckPriceCondition(orders[id], price[s])
          BY <4>2, <4>3, <4>4
        <4>6. orders[id] \in Order /\ price[s] \in Int
          BY <1>4, <4>3, <4>4, PresentIsOrder DEF TypeInv, TypeOK
        <4>7. QED
          BY <4>4, <4>5, <4>6, CheckPriceComplete
      <3>3. QED
        BY <3>1, <3>2
    <2>2. CASE UNCHANGED todo
      BY <2>2
    <2>3. CASE BeginCheckPrice \/ Crash
      BY <2>3 DEF BeginCheckPrice, Ready, Crash
    <2>4. QED
      BY <1>4, <2>1, <2>2, <2>3, QuietTodo
  <1>5. Inv /\ [Next]_vars => [Starts /\ Leaves]_vars
    BY <1>3, <1>4
  <1> HIDE DEF Inv
  <1>6. QED
    BY <1>1, <1>2, <1>5, PTL DEF Spec, NoneOverlooked

-----------------------------------------------------------------------------
(* The file.                                                               *)

(* A pass that has noted no change, and a change of day between its two    *)
(* files, have the memory's orders in the file too.                        *)
DurableInv ==
    ~DiskMayFail /\ (pc \in {"idle", "rollover"} \/ (pc = "checking" /\ ~dirty)) => Saved

LEMMA SaveCurrentSaves ==
    ASSUME ~DiskMayFail, SaveCurrent
    PROVE  Saved' /\ file' = [day |-> day', orders |-> orders']
  <1>1. file' = [day |-> day', orders |-> orders']
    BY DEF SaveCurrent, Saves
  <1>2. QED
    BY <1>1 DEF Saved, SameOrder

(* A visit that does not set dirty leaves the file right.                  *)
LEMMA VisitDurable ==
    ASSUME TypeInv, DurableInv, pc \in {"idle", "checking"}, pc' \in {"idle", "checking"},
           NEW after, Visit(after), DOMAIN after \subseteq OrderIDs,
           pc' = "idle" => (pc = "idle" /\ DOMAIN after = {})
    PROVE  DurableInv'
  <1>1. /\ orders' = [id \in OrderIDs |->
                        IF id \in DOMAIN after THEN after[id] ELSE orders[id]]
        /\ dirty' = (dirty \/ \E id \in DOMAIN after : ~SameOrder(after[id], orders[id]))
        /\ file' = file /\ day' = day
    BY DEF Visit, disk
  <1> SUFFICES ASSUME ~DiskMayFail, pc' = "idle" \/ ~dirty' PROVE Saved'
    BY DEF DurableInv
  <1>2. Saved
    BY <1>1 DEF DurableInv
  <1>3. \A id \in OrderIDs : SameOrder(orders'[id], orders[id])
    <2>1. \A id \in DOMAIN after : SameOrder(after[id], orders[id])
      BY <1>1
    <2>2. QED
      BY <1>1, <2>1 DEF SameOrder
  <1>4. \A id \in OrderIDs : SameOrder(orders'[id], file.orders[id])
    BY <1>2, <1>3 DEF Saved, SameOrder
  <1>5. Present(orders') = Present(orders)
    BY <1>3 DEF SameOrder, Present
  <1>6. QED
    BY <1>1, <1>2, <1>4, <1>5 DEF Saved

LEMMA NextDurable == TypeInv /\ DurableInv /\ [Next]_vars => DurableInv'
  <1> SUFFICES ASSUME TypeInv, DurableInv, [Next]_vars, ~DiskMayFail PROVE DurableInv'
    BY DEF DurableInv
  <1>1. ASSUME NEW id \in OrderIDs, ClientRequest(id)
        PROVE  DurableInv'
    <2>1. SaveCurrent
      BY <1>1, RequestFacts
    <2>2. QED
      BY <2>1, SaveCurrentSaves DEF DurableInv
  <1>2. CASE \/ \E s \in Instruments : CheckPriceOf(s)
             \/ OnCheckTime
             \/ \E p \in Products, st \in PhaseStatuses : OnMarketOpen(p, st)
    BY <1>2, CheckVisits, VisitDurable
  <1>3. CASE EndPass
    <2>1. dirty => Saved'
      BY <1>3, SaveCurrentSaves DEF EndPass
    <2>2. ~dirty => Saved /\ UNCHANGED <<orders, day, file>>
      BY <1>3 DEF EndPass, DurableInv
    <2>3. QED
      BY <2>1, <2>2 DEF DurableInv, Saved
  <1>4. ASSUME NEW d \in 1..MaxDay, LoadEmpty(d)
        PROVE  DurableInv'
    <2>1. orders' = NoOrders /\ file' = NoFile
      BY <1>4 DEF LoadEmpty, disk
    <2>2. Saved'
      BY <2>1, NoOrdersType DEF Saved, SameOrder, NoFile
    <2>3. QED
      BY <2>2 DEF DurableInv
  <1>5. ASSUME NEW d \in 1..MaxDay, LoadSameDay(d)
        PROVE  DurableInv'
    <2>1. orders' = file.orders /\ day' = file.day /\ file' = file
      BY <1>5 DEF LoadSameDay, disk
    <2>2. Saved'
      BY <2>1 DEF Saved, SameOrder
    <2>3. QED
      BY <2>2 DEF DurableInv
  <1>6. ASSUME NEW d \in 1..MaxDay, LoadNewDay(d)
        PROVE  DurableInv'
    BY <1>6, SaveCurrentSaves DEF LoadNewDay, DurableInv
  <1>7. CASE SaveHistory
    BY <1>7 DEF SaveHistory, DurableInv, Saved
  <1>8. CASE Crash
    BY <1>8 DEF Crash, DurableInv
  <1>9. CASE /\ UNCHANGED <<orders, day, file, dirty, fired, acked, losses, today>>
             /\ pc' = pc \/ (pc = "idle" /\ pc' = "checking")
    BY <1>9 DEF DurableInv, Saved
  <1>10. CASE NotifyPasswordUpdate
    BY <1>10, SaveCurrentSaves DEF NotifyPasswordUpdate, DurableInv
  <1>11. QED
    BY <1>1, <1>2, <1>3, <1>4, <1>5, <1>6, <1>7, <1>8, <1>9, <1>10, NextCases

(* With a disk that works, the file tells the orders in memory whenever no *)
(* operation is under way.                                                 *)
THEOREM DurableCorrect == Spec => []DurableAtRest
  <1>1. Init => TypeInv /\ DurableInv
    BY InitType DEF Init, DurableInv
  <1>2. TypeInv /\ DurableInv /\ [Next]_vars => (TypeInv /\ DurableInv)'
    BY NextType, NextDurable
  <1>3. DurableInv => DurableAtRest
    BY DEF DurableInv, DurableAtRest
  <1>4. QED
    BY <1>1, <1>2, <1>3, PTL DEF Spec

-----------------------------------------------------------------------------
(* Confirmed cancellations.                                                *)

(* With a disk that works, a cancellation confirmed today is in the file,  *)
(* and in the memory of any manager that runs.                             *)
CancelInv ==
    ~DiskMayFail =>
        \A k \in acked :
            /\ k[2] <= today
            /\ k[2] = today =>
                  /\ file.day = today /\ file.orders[k[1]].status = "Cancel"
                  /\ pc # "down" => orders[k[1]].status = "Cancel"

LEMMA NextCancel == SoundInv /\ CancelInv /\ [Next]_vars => CancelInv'
  <1> SUFFICES ASSUME SoundInv, CancelInv, [Next]_vars, ~DiskMayFail,
                      NEW k \in acked'
               PROVE  /\ k[2] <= today'
                      /\ k[2] = today' =>
                            /\ file'.day = today' /\ file'.orders[k[1]].status = "Cancel"
                            /\ pc' # "down" => orders'[k[1]].status = "Cancel"
    BY DEF CancelInv
  <1> DEFINE Goal == /\ k[2] <= today'
                     /\ k[2] = today' =>
                           /\ file'.day = today' /\ file'.orders[k[1]].status = "Cancel"
                           /\ pc' # "down" => orders'[k[1]].status = "Cancel"
  <1>1. TypeOK /\ DayKnown /\ (TypeOK /\ DayKnown)'
    BY NextType DEF SoundInv, TypeInv
  <1>2. k[1] \in OrderIDs /\ k[2] \in Nat /\ today \in Nat
    BY <1>1 DEF TypeOK, Firing
  <1>3. ASSUME k \in acked
        PROVE  /\ k[2] <= today
               /\ k[2] = today => /\ file.day = today /\ file.orders[k[1]].status = "Cancel"
                                  /\ pc # "down" => orders[k[1]].status = "Cancel"
    BY <1>3 DEF CancelInv
  \* What is on file is in memory when it has just been saved.
  <1>4. ASSUME pc' # "down", SaveCurrent, k[2] <= today',
               k[2] = today' => orders'[k[1]].status = "Cancel"
        PROVE  Goal
    BY <1>1, <1>4, SaveCurrentSaves DEF DayKnown
  <1>5. ASSUME NEW id \in OrderIDs, ClientRequest(id)
        PROVE  Goal
    <2>1. /\ pc = "idle" /\ pc' = pc /\ today' = today /\ SaveCurrent
          /\ \A other \in OrderIDs \ {id} : orders'[other] = orders[other]
          /\ <<orders[id].status, orders'[id].status>> \in
                {<<"None", "Live">>, <<"Live", "Suspend">>, <<"Suspend", "Live">>,
                 <<"Live", "Cancel">>, <<"Suspend", "Cancel">>}
          /\ acked' = acked \/ (/\ acked' = acked \cup {<<id, orders[id].day>>}
                                /\ orders[id].status # "None" /\ orders'[id].status = "Cancel")
      BY <1>5, RequestFacts DEF SoundInv
    <2>2. CASE k \in acked
      <3>1. k[2] = today => orders'[k[1]].status = "Cancel"
        BY <1>2, <1>3, <2>1, <2>2
      <3>2. QED
        BY <1>3, <1>4, <2>1, <2>2, <3>1
    <2>3. CASE k \notin acked
      <3>1. k = <<id, orders[id].day>> /\ orders[id].status # "None"
            /\ orders'[id].status = "Cancel"
        BY <2>1, <2>3
      <3>2. k[2] = today
        BY <1>1, <2>1, <3>1 DEF SoundInv, Sound, Present, DayKnown
      <3>3. QED
        BY <1>2, <1>4, <2>1, <3>1, <3>2
    <2>4. QED
      BY <2>2, <2>3
  <1>6. CASE \/ \E s \in Instruments : CheckPriceOf(s)
             \/ OnCheckTime
             \/ \E p \in Products, st \in PhaseStatuses : OnMarketOpen(p, st)
    <2>1. PICK after : /\ Visit(after)
                       /\ \A id \in DOMAIN after : orders[id].status = "Live"
                       /\ pc \in {"idle", "checking"} /\ today' = today
      BY <1>6, CheckVisits DEF SoundInv
    <2>2. /\ orders' = [id \in OrderIDs |->
                          IF id \in DOMAIN after THEN after[id] ELSE orders[id]]
          /\ file' = file /\ acked' = acked
      BY <2>1 DEF Visit, disk
    <2>3. QED
      BY <1>2, <1>3, <2>1, <2>2
  <1>7. CASE EndPass
    <2>1. /\ UNCHANGED <<orders, today, acked>> /\ pc = "checking" /\ pc' = "idle"
          /\ SaveCurrent \/ file' = file
      BY <1>7 DEF EndPass, market, history
    <2>2. QED
      BY <1>3, <1>4, <2>1
  <1>8. ASSUME NEW d \in 1..MaxDay, LoadEmpty(d)
        PROVE  Goal
    <2>1. file.day = 0 /\ today' \in {today, today + 1} /\ acked' = acked
      BY <1>8 DEF LoadEmpty, StartLoad, NoFile
    <2>2. today \in 1..MaxDay
      BY <1>1 DEF TypeOK
    <2>3. QED
      BY <1>2, <1>3, <2>1, <2>2
  <1>9. ASSUME NEW d \in 1..MaxDay, LoadSameDay(d)
        PROVE  Goal
    <2>1. /\ today' \in {today, today + 1} /\ acked' = acked /\ file' = file
          /\ orders' = file.orders
      BY <1>9 DEF LoadSameDay, StartLoad, disk
    <2>2. QED
      BY <1>2, <1>3, <2>1
  <1>10. ASSUME NEW d \in 1..MaxDay, LoadNewDay(d)
         PROVE  Goal
    <2>1. today' \in {today, today + 1} /\ acked' = acked /\ today' # file.day
      BY <1>10 DEF LoadNewDay, StartLoad
    <2>2. QED
      BY <1>2, <1>3, <2>1
  <1>11. CASE SaveHistory
    BY <1>3, <1>11 DEF SaveHistory, market, history
  <1>12. CASE Crash
    BY <1>3, <1>12 DEF Crash, disk
  <1>13. CASE /\ UNCHANGED <<orders, day, file, dirty, fired, acked, losses, today>>
              /\ pc' = pc \/ (pc = "idle" /\ pc' = "checking")
    BY <1>3, <1>13
  <1>14. CASE NotifyPasswordUpdate
    <2>1. UNCHANGED <<orders, today, acked, pc>> /\ pc = "idle" /\ SaveCurrent
      BY <1>14 DEF NotifyPasswordUpdate, manager, market, history
    <2>2. QED
      BY <1>3, <1>4, <2>1
  <1>15. QED
    BY <1>5, <1>6, <1>7, <1>8, <1>9, <1>10, <1>11, <1>12, <1>13, <1>14, NextCases

(* Only a visit fires orders, and it finds them live.                      *)
LEMMA FiresLive ==
    ASSUME SoundInv, [Next]_vars, NEW k \in Firing, fired'[k] # fired[k]
    PROVE  /\ pc \in {"idle", "checking"} /\ k[2] = today /\ orders[k[1]].status = "Live"
           /\ fired'[k] = fired[k] + 1 /\ orders'[k[1]].status = "Touched"
           /\ pc' # "down" /\ UNCHANGED <<today, losses>>
  <1>1. TypeOK /\ DayKnown
    BY DEF SoundInv, TypeInv
  <1>2. CASE \/ \E s \in Instruments : CheckPriceOf(s)
             \/ OnCheckTime
             \/ \E p \in Products, st \in PhaseStatuses : OnMarketOpen(p, st)
    <2>1. PICK after : /\ Visit(after) /\ DOMAIN after \subseteq OrderIDs
                       /\ \A id \in DOMAIN after : orders[id].status = "Live"
                       /\ pc \in {"idle", "checking"} /\ pc' \in {"idle", "checking"}
                       /\ today' = today
      BY <1>2, CheckVisits DEF SoundInv
    <2>2. /\ k[1] \in DOMAIN after /\ after[k[1]].status = "Touched"
          /\ k[2] = orders[k[1]].day /\ fired'[k] = fired[k] + 1
          /\ losses' = losses /\ orders'[k[1]] = after[k[1]]
      BY <2>1 DEF Visit
    <2>3. k[2] = today
      BY <1>1, <2>1, <2>2 DEF SoundInv, Sound, Present, DayKnown
    <2>4. QED
      BY <2>1, <2>2, <2>3
  <1>3. ASSUME NEW id \in OrderIDs, ClientRequest(id)
        PROVE  FALSE
    BY <1>3, RequestFacts DEF SoundInv
  <1>4. ASSUME NEW d \in 1..MaxDay, LoadEmpty(d) \/ LoadSameDay(d) \/ LoadNewDay(d)
        PROVE  FALSE
    BY <1>4 DEF LoadEmpty, LoadSameDay, LoadNewDay, StartLoad
  <1>5. CASE EndPass \/ SaveHistory \/ NotifyPasswordUpdate
    BY <1>5 DEF EndPass, SaveHistory, NotifyPasswordUpdate, history
  <1>6. CASE Crash
    BY <1>6 DEF Crash
  <1>7. CASE /\ UNCHANGED <<orders, day, file, dirty, fired, acked, losses, today>>
             /\ pc' = pc \/ (pc = "idle" /\ pc' = "checking")
    BY <1>7
  <1>8. QED
    BY <1>2, <1>3, <1>4, <1>5, <1>6, <1>7, NextCases

(* With a disk that works, an order whose cancellation was confirmed never *)
(* fires, whatever crashes and restarts come in between.                   *)
THEOREM CancelCorrect == Spec => CancelIsFinal
  <1>1. Init => SoundInv /\ CancelInv
    BY InitSound DEF Init, CancelInv
  <1>2. SoundInv /\ CancelInv /\ [Next]_vars => (SoundInv /\ CancelInv)'
    BY NextSound, NextCancel
  <1>3. ASSUME SoundInv, CancelInv, [Next]_vars, ~DiskMayFail, NEW k \in acked
        PROVE  fired'[k] = fired[k]
    <2>1. k \in Firing
      BY <1>3 DEF SoundInv, TypeInv, TypeOK
    <2>2. k[2] = today /\ pc # "down" => orders[k[1]].status = "Cancel"
      BY <1>3 DEF CancelInv
    <2>3. QED
      BY <1>3, <2>1, <2>2, FiresLive
  <1>4. SoundInv /\ CancelInv /\ [Next]_vars
          => [~DiskMayFail => \A k \in acked : fired'[k] = fired[k]]_vars
    BY <1>3
  <1>5. QED
    BY <1>1, <1>2, <1>4, PTL DEF Spec, CancelIsFinal

-----------------------------------------------------------------------------
(* How often an order fires.                                               *)

\* Where the record of an order lies: in the file while no manager runs.
Spent(id) ==
    LET unspent == {"None", "Live", "Suspend"} IN
    IF pc = "down" THEN file.day = today /\ file.orders[id].status \notin unspent
                   ELSE orders[id].status \notin unspent

(* An order that has fired more often than records were lost is one of a   *)
(* day gone by, or can fire no more.                                       *)
FireInv ==
    \A k \in Firing :
        /\ fired[k] <= 1 + losses
        /\ fired[k] > losses => k[2] < today \/ (k[2] = today /\ Spent(k[1]))

(* A load and a crash count the records they lose.                         *)
LEMMA LossesCount ==
    ASSUME TypeInv, losses' = NewLosses \/ losses' = NewLosses + 1
    PROVE  /\ losses' = losses \/ losses' > losses
           /\ losses' \in Nat
           /\ losses' = losses => pc = "down" \/ Saved
  BY DEF NewLosses, TypeInv, TypeOK

LEMMA NextFire == SoundInv /\ FireInv /\ [Next]_vars => FireInv'
  <1> SUFFICES ASSUME SoundInv, FireInv, [Next]_vars, NEW k \in Firing
               PROVE  /\ fired'[k] <= 1 + losses'
                      /\ fired'[k] > losses' =>
                            k[2] < today' \/ (k[2] = today' /\ Spent(k[1])')
    BY DEF FireInv
  <1>1. TypeOK /\ DayKnown /\ (TypeOK /\ DayKnown)'
    BY NextType DEF SoundInv, TypeInv
  <1>2. /\ k[1] \in OrderIDs /\ k[2] \in Nat /\ today \in 1..MaxDay /\ today' \in 1..MaxDay
        /\ fired[k] \in Nat /\ fired'[k] \in Nat /\ losses \in Nat /\ losses' \in Nat
        /\ MaxDay \in Nat
    BY <1>1, ConditionOrdersAssumption DEF TypeOK, Firing
  <1>3. /\ fired[k] <= 1 + losses
        /\ fired[k] > losses => k[2] < today \/ (k[2] = today /\ Spent(k[1]))
    BY DEF FireInv
  <1>4. CASE fired'[k] # fired[k]
    <2>1. /\ pc \in {"idle", "checking"} /\ k[2] = today /\ orders[k[1]].status = "Live"
          /\ fired'[k] = fired[k] + 1 /\ orders'[k[1]].status = "Touched"
          /\ pc' # "down" /\ UNCHANGED <<today, losses>>
      BY <1>4, FiresLive
    <2>2. ~Spent(k[1]) /\ Spent(k[1])'
      BY <2>1 DEF Spent
    <2>3. QED
      BY <1>2, <1>3, <2>1, <2>2
  <1>5. CASE fired'[k] = fired[k]
    \* A step that counts a loss leaves nothing more to show.
    <2>1. CASE losses' > losses /\ today' \in {today, today + 1}
      BY <1>2, <1>3, <1>5, <2>1
    <2>2. ASSUME losses' = losses, today' = today \/ today' = today + 1,
                 today' = today /\ k[2] = today /\ Spent(k[1]) => Spent(k[1])'
          PROVE  /\ fired'[k] <= 1 + losses'
                 /\ fired'[k] > losses' =>
                       k[2] < today' \/ (k[2] = today' /\ Spent(k[1])')
      BY <1>2, <1>3, <1>5, <2>2
    <2>3. ASSUME UNCHANGED <<losses, today>>, pc # "down", pc' # "down",
                 Spent(k[1]) => orders'[k[1]].status = orders[k[1]].status
          PROVE  /\ fired'[k] <= 1 + losses'
                 /\ fired'[k] > losses' =>
                       k[2] < today' \/ (k[2] = today' /\ Spent(k[1])')
      BY <2>2, <2>3 DEF Spent
    <2>4. ASSUME NEW id \in OrderIDs, ClientRequest(id)
          PROVE  /\ fired'[k] <= 1 + losses'
                 /\ fired'[k] > losses' =>
                       k[2] < today' \/ (k[2] = today' /\ Spent(k[1])')
      <3>1. /\ pc = "idle" /\ pc' = pc /\ UNCHANGED <<losses, today>>
            /\ \A other \in OrderIDs \ {id} : orders'[other] = orders[other]
            /\ orders[id].status \in {"None", "Live", "Suspend"}
        BY <2>4, RequestFacts DEF SoundInv
      <3>2. Spent(k[1]) => orders'[k[1]].status = orders[k[1]].status
        BY <1>2, <3>1 DEF Spent
      <3>3. QED
        BY <2>3, <3>1, <3>2
    <2>5. CASE \/ \E s \in Instruments : CheckPriceOf(s)
               \/ OnCheckTime
               \/ \E p \in Products, st \in PhaseStatuses : OnMarketOpen(p, st)
      <3>1. PICK after : /\ Visit(after)
                         /\ \A id \in DOMAIN after : orders[id].status = "Live"
                         /\ pc \in {"idle", "checking"} /\ pc' \in {"idle", "checking"}
                         /\ today' = today
        BY <2>5, CheckVisits DEF SoundInv
      <3>2. /\ orders' = [id \in OrderIDs |->
                            IF id \in DOMAIN after THEN after[id] ELSE orders[id]]
            /\ losses' = losses
        BY <3>1 DEF Visit
      <3>3. Spent(k[1]) => orders'[k[1]].status = orders[k[1]].status
        BY <1>2, <3>1, <3>2 DEF Spent
      <3>4. QED
        BY <2>3, <3>1, <3>2, <3>3
    <2>6. CASE EndPass \/ NotifyPasswordUpdate \/ SaveHistory
      <3>1. UNCHANGED <<losses, today, orders>> /\ pc # "down" /\ pc' # "down"
        BY <2>6 DEF EndPass, NotifyPasswordUpdate, SaveHistory, FinishLoad,
                    manager, market, history
      <3>2. QED
        BY <2>3, <3>1
    \* An order spent today is on file when the record is kept.
    <2>7. ASSUME losses' = losses, losses' = NewLosses \/ losses' = NewLosses + 1,
                 k[2] = today, Spent(k[1])
          PROVE  /\ file.day = today
                 /\ file.orders[k[1]].status \notin {"None", "Live", "Suspend"}
      <3>1. pc = "down" \/ Saved
        BY <2>7, LossesCount DEF SoundInv
      <3>2. CASE pc = "down"
        BY <2>7, <3>2 DEF Spent
      <3>3. CASE pc # "down" /\ Saved
        <4>1. orders[k[1]].status \notin {"None", "Live", "Suspend"}
          BY <2>7, <3>3 DEF Spent
        <4>2. file.orders[k[1]].status = orders[k[1]].status
          BY <1>2, <3>3 DEF Saved, SameOrder
        <4>3. file.day = today
          BY <1>1, <1>2, <3>3, <4>1 DEF Saved, Present, DayKnown
        <4>4. QED
          BY <4>1, <4>2, <4>3
      <3>4. QED
        BY <3>1, <3>2, <3>3
    <2>8. ASSUME losses' = NewLosses \/ losses' = NewLosses + 1,
                 today' \in {today, today + 1},
                 /\ losses' = losses /\ today' = today /\ k[2] = today
                 /\ file.day = today
                 /\ file.orders[k[1]].status \notin {"None", "Live", "Suspend"}
                 => Spent(k[1])'
          PROVE  /\ fired'[k] <= 1 + losses'
                 /\ fired'[k] > losses' =>
                       k[2] < today' \/ (k[2] = today' /\ Spent(k[1])')
      <3>1. losses' = losses \/ losses' > losses
        BY <2>8, LossesCount DEF SoundInv
      <3>2. CASE losses' > losses
        BY <1>2, <1>3, <1>5, <2>8, <3>2
      <3>3. CASE losses' = losses
        BY <2>2, <2>7, <2>8, <3>3
      <3>4. QED
        BY <3>1, <3>2, <3>3
    <2>9. ASSUME NEW d \in 1..MaxDay, LoadEmpty(d)
          PROVE  /\ fired'[k] <= 1 + losses'
                 /\ fired'[k] > losses' =>
                       k[2] < today' \/ (k[2] = today' /\ Spent(k[1])')
      <3>1. losses' = NewLosses + (IF file = NoFile THEN 0 ELSE 1)
            /\ today' \in {today, today + 1}
        BY <2>9 DEF LoadEmpty, StartLoad
      <3>2. NewLosses \in Nat /\ NewLosses >= losses
        BY <1>2 DEF NewLosses
      <3>3. losses' = losses => file.day # today
        BY <1>2, <3>1, <3>2 DEF NoFile
      <3>4. losses' = NewLosses \/ losses' = NewLosses + 1
        BY <3>1, <3>2
      <3>5. QED
        BY <2>8, <3>1, <3>3, <3>4
    <2>10. ASSUME NEW d \in 1..MaxDay, LoadSameDay(d)
           PROVE  /\ fired'[k] <= 1 + losses'
                  /\ fired'[k] > losses' =>
                        k[2] < today' \/ (k[2] = today' /\ Spent(k[1])')
      <3>1. losses' = NewLosses + 0 /\ today' \in {today, today + 1}
            /\ orders' = file.orders /\ pc' = "idle"
        BY <2>10 DEF LoadSameDay, StartLoad, FinishLoad
      <3>2. losses' = NewLosses
        BY <1>2, <3>1 DEF NewLosses
      <3>3. file.orders[k[1]].status \notin {"None", "Live", "Suspend"} => Spent(k[1])'
        BY <3>1 DEF Spent
      <3>4. QED
        BY <2>8, <3>1, <3>2, <3>3
    <2>11. ASSUME NEW d \in 1..MaxDay, LoadNewDay(d)
           PROVE  /\ fired'[k] <= 1 + losses'
                  /\ fired'[k] > losses' =>
                        k[2] < today' \/ (k[2] = today' /\ Spent(k[1])')
      <3>1. losses' = NewLosses + 0 /\ today' \in {today, today + 1} /\ file.day # today'
        BY <2>11 DEF LoadNewDay, StartLoad
      <3>2. losses' = NewLosses
        BY <1>2, <3>1 DEF NewLosses
      <3>3. QED
        BY <2>8, <3>1, <3>2
    <2>12. CASE Crash
      <3>1. losses' = NewLosses /\ today' = today /\ file' = file /\ pc' = "down"
        BY <2>12 DEF Crash, disk
      <3>2. file.day = today /\ file.orders[k[1]].status \notin {"None", "Live", "Suspend"}
              => Spent(k[1])'
        BY <3>1 DEF Spent
      <3>3. QED
        BY <2>8, <3>1, <3>2
    <2>13. CASE /\ UNCHANGED <<orders, day, file, dirty, fired, acked, losses, today>>
                /\ pc' = pc \/ (pc = "idle" /\ pc' = "checking")
      BY <2>2, <2>13 DEF Spent
    <2>14. QED
      BY <2>4, <2>5, <2>6, <2>9, <2>10, <2>11, <2>12, <2>13, NextCases
  <1>6. QED
    BY <1>4, <1>5

(* An order fires once, and once more only for every restart that threw    *)
(* away the record of it.                                                  *)
THEOREM FiresCorrect == Spec => []FiresBounded
  <1>1. ASSUME Init PROVE SoundInv /\ FireInv
    BY <1>1, InitSound DEF Init, FireInv
  <1>2. SoundInv /\ FireInv /\ [Next]_vars => (SoundInv /\ FireInv)'
    BY NextSound, NextFire
  <1>3. FireInv => FiresBounded
    BY DEF FireInv, FiresBounded
  <1>4. QED
    BY <1>1, <1>2, <1>3, PTL DEF Spec

-----------------------------------------------------------------------------
(* The manager implements the ledger of statuses.                          *)

(* A save takes the statuses in memory to the file, or fails.              *)
LEMMA SavePersists ==
    ASSUME SaveCurrent
    PROVE  Abstract!Persist
  <1>1. file' = [day |-> day', orders |-> orders'] \/ (DiskMayFail /\ file' = file)
    BY DEF SaveCurrent, Saves
  <1>2. QED
    BY <1>1 DEF Abstract!Persist

LEMMA NoOrdersNothing == StatusOf(NoOrders) = Abstract!Nothing
  BY DEF StatusOf, NoOrders, NoOrder, Abstract!Nothing

(* A request serves one order, a visit fires several, a save takes them to *)
(* the file, a load or a crash starts afresh; the other steps leave the    *)
(* orders and the file alone.                                              *)
LEMMA NextLedger == SoundInv /\ [Next]_vars => [Abstract!Next]_(Abstract!vars)
  <1> SUFFICES ASSUME SoundInv, [Next]_vars
               PROVE  Abstract!Next \/ Abstract!vars' = Abstract!vars
    OBVIOUS
  <1>1. ASSUME NEW id \in OrderIDs, ClientRequest(id)
        PROVE  Abstract!Next
    <2>1. /\ SaveCurrent
          /\ \A other \in OrderIDs \ {id} : orders'[other] = orders[other]
          /\ <<orders[id].status, orders'[id].status>> \in
                {<<"None", "Live">>, <<"Live", "Suspend">>, <<"Suspend", "Live">>,
                 <<"Live", "Cancel">>, <<"Suspend", "Cancel">>}
      BY <1>1, RequestFacts DEF SoundInv
    <2>2. StatusOf(orders)[id] = orders[id].status
      BY DEF StatusOf
    <2>3. <<StatusOf(orders)[id], orders'[id].status>> \in Abstract!Edges
      BY <2>1, <2>2 DEF Abstract!Edges
    <2>4. StatusOf(orders)' = [StatusOf(orders) EXCEPT ![id] = orders'[id].status]
      BY <2>1 DEF StatusOf
    <2>5. Abstract!Serve(id, orders'[id].status)
      BY <2>1, <2>3, <2>4, SavePersists DEF Abstract!Serve
    <2>6. orders'[id].status \in Abstract!Status
      BY <2>1 DEF Abstract!Status
    <2>7. QED
      BY <2>5, <2>6 DEF Abstract!Next
  <1>2. CASE \/ \E s \in Instruments : CheckPriceOf(s)
             \/ OnCheckTime
             \/ \E p \in Products, st \in PhaseStatuses : OnMarketOpen(p, st)
    <2>1. PICK after : /\ Visit(after) /\ DOMAIN after \subseteq OrderIDs
                       /\ \A id \in DOMAIN after : /\ orders[id].status = "Live"
                                                   /\ Checked(after[id], orders[id])
      BY <1>2, CheckVisits DEF SoundInv
    <2> DEFINE shots == {id \in DOMAIN after : after[id].status = "Touched"}
    <2>2. /\ orders' = [id \in OrderIDs |->
                          IF id \in DOMAIN after THEN after[id] ELSE orders[id]]
          /\ file' = file
      BY <2>1 DEF Visit, disk
    <2>3. shots \in SUBSET OrderIDs /\ \A id \in shots : StatusOf(orders)[id] = "Live"
      BY <2>1 DEF StatusOf
    <2>4. \A id \in OrderIDs : orders'[id].status = IF id \in shots THEN "Touched"
                                                    ELSE orders[id].status
      BY <2>1, <2>2 DEF Checked
    <2> HIDE DEF shots
    <2>5. StatusOf(orders)' = [id \in OrderIDs |-> IF id \in shots THEN "Touched"
                                                   ELSE StatusOf(orders)[id]]
      BY <2>4 DEF StatusOf
    <2>6. Abstract!Fire(shots)
      BY <2>2, <2>3, <2>5 DEF Abstract!Fire
    <2>7. QED
      BY <2>3, <2>6 DEF Abstract!Next
  <1>3. ASSUME UNCHANGED <<orders, file>>
        PROVE  Abstract!vars' = Abstract!vars
    BY <1>3 DEF Abstract!vars
  <1>4. ASSUME orders' = orders, SaveCurrent
        PROVE  Abstract!Next
    BY <1>4, SavePersists DEF Abstract!Next, Abstract!Save
  <1>5. CASE EndPass \/ NotifyPasswordUpdate
    BY <1>3, <1>4, <1>5 DEF EndPass, NotifyPasswordUpdate, manager
  <1>6. ASSUME NEW d \in 1..MaxDay, LoadEmpty(d)
        PROVE  Abstract!Next
    <2>1. orders' = NoOrders /\ file' = file
      BY <1>6 DEF LoadEmpty, disk
    <2>2. QED
      BY <2>1, NoOrdersNothing DEF Abstract!Next, Abstract!Crash
  <1>7. ASSUME NEW d \in 1..MaxDay, LoadSameDay(d)
        PROVE  Abstract!Next
    <2>1. orders' = file.orders /\ file' = file
      BY <1>7 DEF LoadSameDay, disk
    <2>2. QED
      BY <2>1 DEF Abstract!Next, Abstract!Restart
  <1>8. ASSUME NEW d \in 1..MaxDay, LoadNewDay(d)
        PROVE  Abstract!Next
    <2>1. orders' = NoOrders /\ SaveCurrent
      BY <1>8 DEF LoadNewDay
    <2>2. QED
      BY <2>1, NoOrdersNothing, SavePersists DEF Abstract!Next, Abstract!NewDay
  <1>9. CASE SaveHistory
    BY <1>3, <1>9 DEF SaveHistory
  <1>10. CASE Crash
    <2>1. orders' = NoOrders /\ file' = file
      BY <1>10 DEF Crash, disk
    <2>2. QED
      BY <2>1, NoOrdersNothing DEF Abstract!Next, Abstract!Crash
  <1>11. CASE /\ UNCHANGED <<orders, day, file, dirty, fired, acked, losses, today>>
              /\ pc' = pc \/ (pc = "idle" /\ pc' = "checking")
    BY <1>3, <1>11
  <1>12. QED
    BY <1>1, <1>2, <1>5, <1>6, <1>7, <1>8, <1>9, <1>10, <1>11, NextCases

(* The manager implements the ledger: the initial states map to initial    *)
(* states, and every step of it is a step of the ledger or none.           *)
THEOREM LedgerCorrect == Spec => LedgerSpec
  <1>1. Init => Abstract!Init
    BY NoOrdersNothing DEF Init, NoFile, Abstract!Init
  <1>2. SoundInv /\ [Next]_vars => [Abstract!Next]_(Abstract!vars)
    BY NextLedger
  <1>3. QED
    BY <1>1, <1>2, SoundAlways, PTL DEF Spec, LedgerSpec, Abstract!Spec
=============================================================================
