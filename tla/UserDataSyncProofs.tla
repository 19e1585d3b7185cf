--------------------------- MODULE UserDataSyncProofs ---------------------------
(***************************************************************************)
(* Proofs about UserDataSync, for any connections, records and bounds.     *)
(***************************************************************************)
EXTENDS UserDataSync, SequenceTheorems, TLAPS

-----------------------------------------------------------------------------
(* The channels.                                                           *)

Messages == UNION {[S -> Nat] : S \in SUBSET Records}

\* The last message of q about r, or without one v, gives it version n.
ComesTo(q, v, r, n) ==
    \/ /\ \A i \in 1..Len(q) : r \notin DOMAIN q[i]
       /\ v[r] = n
    \/ \E i \in 1..Len(q) : /\ r \in DOMAIN q[i] /\ q[i][r] = n
                            /\ \A j \in 1..Len(q) : j > i => r \notin DOMAIN q[j]

\* No version in q is below v, below an earlier one in q, or above ver.
Rising(q, v, ver, r) ==
    /\ v[r] <= ver[r]
    /\ \A i \in 1..Len(q) : r \in DOMAIN q[i] =>
          /\ v[r] <= q[i][r] /\ q[i][r] <= ver[r]
          /\ \A j \in 1..Len(q) : j > i /\ r \in DOMAIN q[j] => q[i][r] <= q[j][r]

LEMMA MessageFacts ==
    /\ \A m \in Messages : DOMAIN m \subseteq Records /\ \A r \in DOMAIN m : m[r] \in Nat
    /\ \A m \in Messages : IsMessage(m)
    /\ Notice \in Messages /\ DOMAIN Notice = {}
    /\ \A S \in SUBSET Records, ver \in [Records -> Nat] :
          /\ Carry(S, ver) \in Messages /\ DOMAIN Carry(S, ver) = S
          /\ \A r \in S : Carry(S, ver)[r] = ver[r]
  <1>1. ASSUME NEW m \in Messages
        PROVE  DOMAIN m \subseteq Records /\ m \in [DOMAIN m -> Nat]
    <2>1. PICK S \in SUBSET Records : m \in [S -> Nat]
      BY DEF Messages
    <2>2. QED
      BY <2>1
  <1>2. ASSUME NEW S \in SUBSET Records, NEW f \in [S -> Nat] PROVE f \in Messages
    BY DEF Messages
  <1>3. Notice \in [{} -> Nat] /\ DOMAIN Notice = {}
    BY DEF Notice
  <1>4. ASSUME NEW S \in SUBSET Records, NEW ver \in [Records -> Nat]
        PROVE  /\ Carry(S, ver) \in [S -> Nat] /\ DOMAIN Carry(S, ver) = S
               /\ \A r \in S : Carry(S, ver)[r] = ver[r]
    BY DEF Carry
  <1>5. Notice \in Messages
    <2>1. {} \in SUBSET Records
      OBVIOUS
    <2>2. QED
      BY <1>2, <1>3, <2>1
  <1>6. ASSUME NEW S \in SUBSET Records, NEW ver \in [Records -> Nat]
        PROVE  Carry(S, ver) \in Messages
    BY <1>2, <1>4
  <1>7. \A m \in Messages : IsMessage(m)
    BY <1>1 DEF IsMessage
  <1>8. \A m \in Messages : DOMAIN m \subseteq Records /\ \A r \in DOMAIN m : m[r] \in Nat
    BY <1>1
  <1>9. QED
    BY <1>3, <1>4, <1>5, <1>6, <1>7, <1>8

LEMMA AppendMessage ==
    ASSUME NEW q \in Seq(Messages), NEW m \in Messages, NEW v, NEW r
    PROVE  LET p == Append(q, m) IN
           /\ r \in DOMAIN m => ComesTo(p, v, r, m[r])
           /\ r \notin DOMAIN m => \A n : ComesTo(q, v, r, n) => ComesTo(p, v, r, n)
  <1> DEFINE p == Append(q, m)
             k == Len(q)
  <1>1. /\ Len(p) = k + 1 /\ k \in Nat
        /\ p[k + 1] = m /\ \A i \in 1..k : p[i] = q[i]
    BY AppendProperties
  <1> HIDE DEF p, k
  <1>2. ASSUME r \in DOMAIN m PROVE ComesTo(p, v, r, m[r])
    BY <1>1, <1>2 DEF ComesTo
  <1>3. ASSUME r \notin DOMAIN m, NEW n, ComesTo(q, v, r, n) PROVE ComesTo(p, v, r, n)
    <2>1. CASE (\A i \in 1..k : r \notin DOMAIN q[i]) /\ v[r] = n
      <3>1. \A i \in 1..(k + 1) : r \notin DOMAIN p[i]
        BY <1>1, <1>3, <2>1
      <3>2. QED
        BY <1>1, <2>1, <3>1 DEF ComesTo
    <2>2. ASSUME NEW i \in 1..k, r \in DOMAIN q[i], q[i][r] = n,
                 \A j \in 1..k : j > i => r \notin DOMAIN q[j]
          PROVE  ComesTo(p, v, r, n)
      <3>1. \A j \in 1..(k + 1) : j > i => r \notin DOMAIN p[j]
        BY <1>1, <1>3, <2>2
      <3>2. i \in 1..(k + 1) /\ p[i] = q[i]
        BY <1>1
      <3>3. QED
        BY <1>1, <2>2, <3>1, <3>2 DEF ComesTo
    <2>3. QED
      BY <1>3, <2>1, <2>2 DEF ComesTo, k
  <1>4. QED
    BY <1>2, <1>3 DEF p

LEMMA TailMessage ==
    ASSUME NEW q \in Seq(Messages), q # <<>>, NEW v, NEW r, NEW n, NEW w,
           w[r] = IF r \in DOMAIN Head(q) THEN Head(q)[r] ELSE v[r]
    PROVE  ComesTo(q, v, r, n) => ComesTo(Tail(q), w, r, n)
  <1> DEFINE p == Tail(q)
             k == Len(q)
  <1>1. /\ k \in Nat /\ k > 0 /\ Len(p) = k - 1 /\ Head(q) = q[1]
        /\ \A i \in 1..(k - 1) : p[i] = q[i + 1]
    BY HeadTailProperties
  <1> HIDE DEF p, k
  <1>2. \A i \in 1..(k - 1) : i + 1 \in 1..k /\ i + 1 > 1
    BY <1>1
  <1>3. CASE (\A i \in 1..k : r \notin DOMAIN q[i]) /\ v[r] = n
    <2>1. w[r] = n
      BY <1>1, <1>3
    <2>2. \A i \in 1..(k - 1) : r \notin DOMAIN p[i]
      BY <1>1, <1>2, <1>3
    <2>3. QED
      BY <1>1, <2>1, <2>2 DEF ComesTo, p
  <1>4. ASSUME NEW i \in 1..k, r \in DOMAIN q[i], q[i][r] = n,
               \A j \in 1..k : j > i => r \notin DOMAIN q[j]
        PROVE  ComesTo(p, w, r, n)
    <2>1. \A j \in 1..(k - 1) : j + 1 > i => r \notin DOMAIN p[j]
      BY <1>1, <1>2, <1>4
    <2>2. CASE i = 1
      <3>1. w[r] = n
        BY <1>1, <1>4, <2>2
      <3>2. \A j \in 1..(k - 1) : r \notin DOMAIN p[j]
        BY <1>1, <2>1, <2>2
      <3>3. QED
        BY <1>1, <3>1, <3>2 DEF ComesTo
    <2>3. CASE i # 1
      <3>1. i - 1 \in 1..(k - 1) /\ p[i - 1] = q[i]
        BY <1>1, <2>3
      <3>2. \A j \in 1..(k - 1) : j > i - 1 => r \notin DOMAIN p[j]
        BY <1>1, <2>1
      <3>3. QED
        BY <1>1, <1>4, <3>1, <3>2 DEF ComesTo
    <2>4. QED
      BY <2>2, <2>3
  <1>5. QED
    BY <1>3, <1>4 DEF ComesTo, p, k

\* What ComesTo says of a channel is what Coming finds there.
LEMMA ComingIs ==
    ASSUME NEW c \in Clients, NEW r, NEW n, Len(queue[c]) \in Nat,
           DOMAIN queue[c] = 1..Len(queue[c]), ComesTo(queue[c], view[c], r, n)
    PROVE  Coming(c, r) = n
  <1> DEFINE at == {i \in DOMAIN queue[c] : r \in DOMAIN queue[c][i]}
  <1>1. CASE at = {}
    BY <1>1 DEF ComesTo, Coming
  <1>2. CASE at # {}
    <2>1. PICK i \in at : queue[c][i][r] = n /\ \A j \in at : j <= i
      BY <1>2 DEF ComesTo
    <2>2. i = CHOOSE k \in at : \A j \in at : j <= k
      BY <2>1
    <2>3. QED
      BY <1>2, <2>1, <2>2 DEF Coming
  <1>3. QED
    BY <1>1, <1>2

-----------------------------------------------------------------------------
TypeInv == TypeOK /\ queue \in [Clients -> Seq(Messages)]

Excused(c) == missed[c] \cup taken[c] \cup lost[c]

(* What an open connection has in its channel, or else its client's view,  *)
(* is the present version of every record it is not excused for.           *)
SyncInv ==
    \A c \in Open \cap writing : \A r \in present \ (changed \cup Excused(c)) :
        ComesTo(queue[c], view[c], r, version[r])

(* Versions rise from the view along the channel to the record itself.     *)
OrderInv == \A c \in Clients, r \in Records : Rising(queue[c], view[c], version, r)

-----------------------------------------------------------------------------
(* Sending.                                                                *)

Channels == [Clients -> Seq(Messages)]
Fits(q) == \A c \in Clients : Len(q[c]) <= Capacity

LEMMA PutFacts ==
    ASSUME NEW q \in Channels, Fits(q), NEW S, NEW m \in Messages
    PROVE  /\ Put(q, S, m) \in Channels /\ Fits(Put(q, S, m))
           /\ \A c \in Clients :
                Put(q, S, m)[c] = IF c \in S /\ Takes(q, c) THEN Append(q[c], m) ELSE q[c]
  <1>1. \A c \in Clients :
          Put(q, S, m)[c] = IF c \in S /\ Takes(q, c) THEN Append(q[c], m) ELSE q[c]
    BY DEF Put
  <1>2. ASSUME NEW c \in Clients
        PROVE  /\ Append(q[c], m) \in Seq(Messages) /\ q[c] \in Seq(Messages)
               /\ Takes(q, c) => Len(Append(q[c], m)) <= Capacity
    <2>1. q[c] \in Seq(Messages)
      BY DEF Channels
    <2>2. Len(Append(q[c], m)) = Len(q[c]) + 1 /\ Len(q[c]) \in Nat
          /\ Append(q[c], m) \in Seq(Messages)
      BY <2>1, AppendProperties
    <2>3. QED
      BY <2>1, <2>2, UserDataAssumption DEF Takes
  <1>3. Put(q, S, m) \in Channels
    BY <1>2 DEF Put, Channels
  <1>4. Fits(Put(q, S, m))
    BY <1>1, <1>2 DEF Fits
  <1>5. QED
    BY <1>1, <1>3, <1>4

(* A channel after a few Notices still brings every record as before.      *)
Noticed(q, p) ==
    \A c \in Clients : \A v, r, n : ComesTo(q[c], v, r, n) => ComesTo(p[c], v, r, n)

LEMMA NoticeFacts ==
    ASSUME NEW q \in Channels, Fits(q), NEW S
    PROVE  Noticed(q, Put(q, S, Notice))
  <1> SUFFICES ASSUME NEW c \in Clients, NEW v, NEW r, NEW n, ComesTo(q[c], v, r, n)
               PROVE  ComesTo(Put(q, S, Notice)[c], v, r, n)
    BY DEF Noticed
  <1>1. q[c] \in Seq(Messages)
    BY DEF Channels
  <1>2. ComesTo(Append(q[c], Notice), v, r, n)
    BY <1>1, AppendMessage, MessageFacts
  <1>3. QED
    BY <1>2, PutFacts, MessageFacts

LEMMA TypeFacts ==
    ASSUME TypeInv
    PROVE  /\ queue \in Channels /\ Fits(queue)
           /\ present \subseteq Records /\ changed \subseteq present /\ nan \subseteq present \cap Accounts
           /\ version \in [Records -> Nat] /\ view \in [Clients -> [Records -> Nat]]
           /\ missed \in [Clients -> SUBSET Records] /\ taken \in [Clients -> SUBSET Records]
           /\ lost \in [Clients -> SUBSET Records]
           /\ updates \in 0..MaxUpdates /\ MaxUpdates \in Nat
  <1>1. Fits(queue)
    BY UserDataAssumption DEF TypeInv, TypeOK, Fits
  <1>2. {missed, taken, lost} \subseteq [Clients -> SUBSET Records]
    BY DEF TypeInv, TypeOK
  <1>3. QED
    BY <1>1, <1>2, UserDataAssumption DEF TypeInv, TypeOK, Channels

(* The part of the type invariant that says of a channel what the code     *)
(* needs of it.                                                            *)
LEMMA ChannelTypes ==
    ASSUME NEW q \in Channels, Fits(q)
    PROVE  /\ DOMAIN q = Clients
           /\ \A c \in Clients : /\ Len(q[c]) \in 0..Capacity
                                 /\ \A i \in 1..Len(q[c]) : IsMessage(q[c][i])
  <1>1. ASSUME NEW c \in Clients
        PROVE  /\ Len(q[c]) \in 0..Capacity
               /\ \A i \in 1..Len(q[c]) : q[c][i] \in Messages
    <2>1. q[c] \in Seq(Messages) /\ Len(q[c]) <= Capacity
      BY DEF Channels, Fits
    <2>2. QED
      BY <2>1, UserDataAssumption, LenProperties, ElementOfSeq
  <1>2. DOMAIN q = Clients
    BY DEF Channels
  <1>3. QED
    BY <1>1, <1>2, MessageFacts

LEMMA VersionFacts ==
    ASSUME TypeInv, NEW S
    PROVE  /\ Raise(S) \in [Records -> Nat]
           /\ \A r \in Records : /\ version[r] <= Raise(S)[r]
                                 /\ r \notin S => Raise(S)[r] = version[r]
  BY TypeFacts DEF Raise

LEMMA RatioFacts ==
    ASSUME TypeInv, NEW A \in SUBSET (present \cap Accounts), NEW Poor, Ratios(A, Poor)
    PROVE  nan' \subseteq present \cap Accounts
  BY TypeFacts DEF Ratios

LEMMA RecalculatedFacts ==
    ASSUME NEW F PROVE Recalculated(F) \subseteq present \cap Accounts
  BY DEF Recalculated

\* What the history remembers of a message to the connections in To.
LEMMA RememberFacts ==
    ASSUME TypeInv, NEW F \in SUBSET Records, NEW S \in SUBSET Records, NEW To \in SUBSET Clients,
           Remember(F, S, To)
    PROVE  /\ {missed, taken, lost}' \subseteq [Clients -> SUBSET Records]
           /\ \A c \in To : Takes(queue, c) /\ Marshals(S) => Excused(c)' = Excused(c) \ S
           /\ \A c \in Open : ~(c \in To /\ Takes(queue, c) /\ Marshals(S)) =>
                 Excused(c)' = Excused(c) \cup F
  <1> DEFINE told(c) == c \in To /\ Takes(queue, c) /\ Marshals(S)
             After(h, c, cause) == IF told(c) THEN h[c] \ S
                                   ELSE IF c \in Open /\ cause THEN h[c] \cup F ELSE h[c]
  <1>1. /\ missed' = [c \in Clients |-> After(missed, c, c \in To /\ ~Takes(queue, c))]
        /\ taken' = [c \in Clients |-> After(taken, c, c \notin To)]
        /\ lost' = [c \in Clients |-> After(lost, c, ~Marshals(S))]
    BY DEF Remember
  <1>2. ASSUME NEW h \in [Clients -> SUBSET Records], NEW c \in Clients, NEW b
        PROVE  After(h, c, b) \in SUBSET Records
    BY <1>2
  <1>3. \A c \in Clients :
          /\ missed'[c] = After(missed, c, c \in To /\ ~Takes(queue, c))
          /\ taken'[c] = After(taken, c, c \notin To)
          /\ lost'[c] = After(lost, c, ~Marshals(S))
    BY <1>1
  <1>4. \A c \in Clients : told(c) => Excused(c)' = Excused(c) \ S
    BY <1>3 DEF Excused
  <1>5. \A c \in Clients : c \in Open /\ ~told(c) => Excused(c)' = Excused(c) \cup F
    BY <1>3 DEF Excused
  <1>6. /\ missed' \in [Clients -> SUBSET Records] /\ taken' \in [Clients -> SUBSET Records]
        /\ lost' \in [Clients -> SUBSET Records]
    <2> HIDE DEF After
    <2>1. QED
      BY <1>1, <1>2, TypeFacts
  <1>7. QED
    BY <1>4, <1>5, <1>6 DEF Open

-----------------------------------------------------------------------------
(* Types, in groups of variables.                                          *)

ControlOK ==
    /\ session \in Sessions
    /\ user \in BOOLEAN /\ managed \in BOOLEAN /\ peek \in BOOLEAN
    /\ conn \in [Clients -> {"new", "open", "closed"}]
    /\ joined \subseteq Clients /\ writing \subseteq Clients
    /\ pushing \subseteq Threads /\ dumping \subseteq Clients /\ greeting \subseteq dumping
    /\ updates \in 0..MaxUpdates /\ logins \in 0..MaxSessions

DataOK ==
    /\ changed \subseteq present /\ present \subseteq Records /\ nan \subseteq present \cap Accounts
    /\ version \in [Records -> Nat]

ChannelOK == queue \in Channels /\ Fits(queue) /\ view \in [Clients -> [Records -> Nat]]
HistoryOK == {missed, taken, lost} \subseteq [Clients -> SUBSET Records]

LEMMA TypeParts == TypeInv <=> ControlOK /\ DataOK /\ ChannelOK /\ HistoryOK
  <1>1. ASSUME TypeInv PROVE ControlOK /\ DataOK /\ ChannelOK /\ HistoryOK
    <2>1. user \in BOOLEAN /\ managed \in BOOLEAN /\ peek \in BOOLEAN
      BY <1>1 DEF TypeInv, TypeOK
    <2>2. ControlOK
      BY <1>1, <2>1 DEF TypeInv, TypeOK, ControlOK
    <2>3. QED
      BY <1>1, <2>2, TypeFacts DEF TypeInv, TypeOK, DataOK, ChannelOK, HistoryOK
  <1>2. ASSUME ControlOK, DataOK, ChannelOK, HistoryOK PROVE TypeInv
    <2>1. {user, managed, peek} \subseteq BOOLEAN
      BY <1>2 DEF ControlOK
    <2>2. /\ DOMAIN queue = Clients
          /\ \A c \in Clients : /\ Len(queue[c]) \in 0..Capacity
                                /\ \A i \in 1..Len(queue[c]) : IsMessage(queue[c][i])
      BY <1>2, ChannelTypes DEF ChannelOK
    <2>3. QED
      BY <1>2, <2>1, <2>2 DEF TypeInv, TypeOK, ControlOK, DataOK, ChannelOK, HistoryOK, Channels
  <1>3. QED
    BY <1>1, <1>2

LEMMA InitTypes == Init => TypeInv
  <1> SUFFICES ASSUME Init PROVE TypeInv
    OBVIOUS
  <1>1. ControlOK
    <2>1. updates \in 0..MaxUpdates /\ logins \in 0..MaxSessions
      BY UserDataAssumption DEF Init
    <2>2. /\ joined \subseteq Clients /\ writing \subseteq Clients /\ pushing \subseteq Threads
          /\ dumping \subseteq Clients /\ greeting \subseteq dumping
      BY DEF Init
    <2>3. user \in BOOLEAN /\ managed \in BOOLEAN /\ peek \in BOOLEAN
      BY DEF Init
    <2>4. QED
      BY <2>1, <2>2, <2>3 DEF Init, ControlOK, Sessions
  <1>2. DataOK
    <2>1. changed \subseteq present /\ present \subseteq Records /\ nan \subseteq present \cap Accounts
      BY DEF Init
    <2>2. QED
      BY <2>1 DEF Init, DataOK
  <1>3. ChannelOK
    <2>1. <<>> \in Seq(Messages) /\ Len(<<>>) <= Capacity
      BY UserDataAssumption
    <2>2. queue \in Channels
      BY <2>1 DEF Init, Channels
    <2>3. Fits(queue)
      BY <2>1 DEF Init, Fits
    <2>4. view \in [Clients -> [Records -> Nat]]
      BY DEF Init
    <2>5. QED
      BY <2>2, <2>3, <2>4 DEF ChannelOK
  <1>4. HistoryOK
    <2>1. [c \in Clients |-> {}] \in [Clients -> SUBSET Records]
      OBVIOUS
    <2>2. QED
      BY <2>1 DEF Init, HistoryOK
  <1>5. QED
    BY <1>1, <1>2, <1>3, <1>4, TypeParts

LEMMA ControlNext == ControlOK /\ [Next]_vars => ControlOK'
  <1> SUFFICES ASSUME ControlOK, [Next]_vars PROVE ControlOK'
    OBVIOUS
  <1> USE DEF ControlOK
  <1>0. ASSUME updates < MaxUpdates PROVE updates + 1 \in 0..MaxUpdates
    BY <1>0, UserDataAssumption
  <1>1. CASE UNCHANGED vars
    BY <1>1 DEF vars, data, net, hist, calls
  <1>2. ASSUME NEW r \in Records, Update(r) PROVE ControlOK'
    BY <1>0, <1>2 DEF Update, net, calls
  <1>3. ASSUME NEW P, NEW moved, NEW Poor, OnQuotesUpdate(P, moved, Poor) PROVE ControlOK'
    BY <1>0, <1>3 DEF OnQuotesUpdate, net, calls
  <1>4. CASE QryAccountRegister \/ OnFrontDisconnected
    BY <1>4 DEF QryAccountRegister, OnFrontDisconnected, net, calls, Sessions
  <1>5. CASE LogIn
    <2>1. logins + 1 \in 0..MaxSessions
      BY <1>5, UserDataAssumption DEF LogIn
    <2>2. QED
      BY <1>5, <2>1 DEF LogIn, net, calls, Sessions
  <1>6. CASE InitUserData
    BY <1>6 DEF InitUserData, net, calls, Sessions
  <1>7. CASE OnSettlementConfirmed
    <2>1. managed' \in BOOLEAN
      BY <1>7, UserDataAssumption DEF OnSettlementConfirmed
    <2>2. QED
      BY <1>7, <2>1 DEF OnSettlementConfirmed, net, calls, Sessions
  <1>8. CASE OnRspQryTrade
    BY <1>8 DEF OnRspQryTrade, net, Threads, Sessions
  <1>9. CASE OnIdle
    BY <1>9 DEF OnIdle, net, Threads
  <1>10. ASSUME NEW S, Notify(S) PROVE ControlOK'
    BY <1>10 DEF Notify, calls
  <1>11. ASSUME NEW c \in Clients, Connect(c) \/ Disconnect(c) PROVE ControlOK'
    BY <1>11 DEF Connect, Disconnect, calls
  <1>12. ASSUME NEW c \in Clients, Write(c) \/ WriteFails(c) PROVE ControlOK'
    BY <1>12 DEF Write, WriteFails, calls
  <1>13. ASSUME NEW c \in Clients, PeekMessage(c) PROVE ControlOK'
    <2>1. peek' \in BOOLEAN
      BY <1>13 DEF PeekMessage
    <2>2. QED
      BY <1>13, <2>1 DEF PeekMessage, net, Threads
  <1>14. ASSUME NEW c \in Clients, JoinSession(c) \/ QryConditionOrder(c) PROVE ControlOK'
    BY <1>14 DEF JoinSession, QryConditionOrder, net
  <1>15. ASSUME NEW c \in Clients, NEW P, NEW Poor, NEW text, SendUserData(c, P, Poor, text)
         PROVE  ControlOK'
    <2>1. peek' \in BOOLEAN
      BY <1>15 DEF SendUserData
    <2>2. updates' \in 0..MaxUpdates
      BY <1>0, <1>15 DEF SendUserData
    <2>3. QED
      BY <1>15, <2>1, <2>2 DEF SendUserData
  <1>16. ASSUME NEW t \in Threads, NEW Poor, SendAllUserData(t, Poor) PROVE ControlOK'
    BY <1>16 DEF SendAllUserData
  <1>17. QED
    BY <1>1, <1>2, <1>3, <1>4, <1>5, <1>6, <1>7, <1>8, <1>9, <1>10, <1>11, <1>12, <1>13, <1>14,
       <1>15, <1>16 DEF Next

\* What a push of the flagged records does, and a full dump.
LEMMA PushFacts ==
    ASSUME TypeInv, NEW t, NEW Poor, SendAllUserData(t, Poor), user, changed # {}
    PROVE  LET accts == Recalculated(changed)
               diff  == changed \cup accts
           IN  /\ diff \in SUBSET Records /\ accts \subseteq present \cap Accounts
               /\ nan' \subseteq present \cap Accounts
               /\ version' = Raise(accts) /\ version' \in [Records -> Nat]
               /\ changed' = {} /\ UNCHANGED <<present, view, conn, writing>>
               /\ Marshal(diff, version') \in Messages
               /\ queue' = Put(queue, Open, Marshal(diff, version'))
               /\ Remember(diff, diff, Clients)
  <1> DEFINE accts == Recalculated(changed)
             diff  == changed \cup accts
  <1>1. /\ Ratios(accts, Poor) /\ version' = Raise(accts) /\ changed' = {}
        /\ queue' = Put(queue, Open, Marshal(diff, version')) /\ Remember(diff, diff, Clients)
        /\ UNCHANGED <<present, view, conn, writing>>
    BY DEF SendAllUserData, Send
  <1>2. accts \subseteq present \cap Accounts
    BY RecalculatedFacts
  <1>3. diff \in SUBSET Records
    BY <1>2, TypeFacts
  <1>4. version' \in [Records -> Nat]
    BY <1>1, VersionFacts
  <1>5. nan' \subseteq present \cap Accounts
    BY <1>1, <1>2, RatioFacts
  <1> HIDE DEF accts, diff
  <1>6. Marshal(diff, version') \in Messages
    BY <1>3, <1>4, MessageFacts DEF Marshal
  <1>7. QED
    BY <1>1, <1>2, <1>3, <1>4, <1>5, <1>6 DEF accts, diff

LEMMA DumpFacts ==
    ASSUME TypeInv, NEW c \in Clients, NEW P \in SUBSET Positions, NEW Poor, NEW text,
           SendUserData(c, P, Poor, text), user
    PROVE  LET accts == Recalculated(changed \cup P)
               told  == Put(queue, {c}, Marshal(present, version'))
           IN  /\ P \cup accts \subseteq present
               /\ changed \cup P \cup accts \in SUBSET Records
               /\ nan' \subseteq present \cap Accounts
               /\ version' = Raise(P \cup accts) /\ version' \in [Records -> Nat]
               /\ changed' = {} /\ UNCHANGED <<present, view, conn, writing>>
               /\ Marshal(present, version') \in Messages
               /\ told \in Channels /\ Fits(told)
               /\ queue' = told \/ queue' = Put(told, Clients, Notice)
               /\ Remember(changed \cup P \cup accts, present, {c})
  <1> DEFINE accts == Recalculated(changed \cup P)
             told  == Put(queue, {c}, Marshal(present, version'))
  <1>1. /\ Ratios(accts, Poor) /\ version' = Raise(P \cup accts) /\ changed' = {}
        /\ queue' = told \/ queue' = Put(told, Clients, Notice)
        /\ Remember(changed \cup P \cup accts, present, {c})
        /\ UNCHANGED <<present, view, conn, writing>>
    BY DEF SendUserData, Send
  <1>2. accts \subseteq present \cap Accounts
    BY RecalculatedFacts
  <1>3. P \subseteq present
    BY DEF SendUserData
  <1>4. version' \in [Records -> Nat]
    BY <1>1, VersionFacts
  <1>5. nan' \subseteq present \cap Accounts
    BY <1>1, <1>2, RatioFacts
  <1>6. Marshal(present, version') \in Messages
    BY <1>4, MessageFacts, TypeFacts DEF Marshal
  <1>7. told \in Channels /\ Fits(told)
    BY <1>6, PutFacts, TypeFacts
  <1>8. P \cup accts \subseteq present /\ changed \cup P \cup accts \in SUBSET Records
    BY <1>2, <1>3, TypeFacts
  <1> HIDE DEF accts, told
  <1>9. QED
    BY <1>1, <1>4, <1>5, <1>6, <1>7, <1>8 DEF accts, told

LEMMA DataNext == TypeInv /\ [Next]_vars => DataOK'
  <1> SUFFICES ASSUME TypeInv, [Next]_vars PROVE DataOK'
    OBVIOUS
  <1> USE DEF DataOK
  <1>0. DataOK
    BY TypeParts
  <1>1. ASSUME UNCHANGED data PROVE DataOK'
    BY <1>0, <1>1 DEF data
  <1>2. CASE UNCHANGED vars
    BY <1>1, <1>2 DEF vars
  <1>3. ASSUME NEW r \in Records, Update(r) PROVE DataOK'
    BY <1>0, <1>3, VersionFacts DEF Update
  <1>4. ASSUME NEW P, NEW moved, NEW Poor, OnQuotesUpdate(P, moved, Poor) PROVE DataOK'
    <2> DEFINE accts == IF moved THEN Recalculated(changed \cup P) ELSE {}
    <2>1. accts \in SUBSET (present \cap Accounts)
      BY RecalculatedFacts
    <2>2. /\ version' = Raise(P \cup accts) /\ changed' = changed \cup P \cup accts
          /\ Ratios(accts, Poor) /\ present' = present /\ P \subseteq present
      BY <1>4 DEF OnQuotesUpdate
    <2> HIDE DEF accts
    <2>3. nan' \subseteq present \cap Accounts
      BY <2>1, <2>2, RatioFacts
    <2>4. QED
      BY <1>0, <2>1, <2>2, <2>3, VersionFacts
  <1>5. CASE QryAccountRegister
    BY <1>0, <1>5, UserDataAssumption DEF QryAccountRegister
  <1>6. CASE InitUserData
    <2>1. present' = {} /\ changed' = {} /\ nan' = {} /\ version' = version
      BY <1>6 DEF InitUserData
    <2>2. QED
      BY <1>0, <2>1
  <1>7. CASE LogIn \/ OnSettlementConfirmed \/ OnRspQryTrade \/ OnFrontDisconnected \/ OnIdle
    BY <1>1, <1>7 DEF LogIn, OnSettlementConfirmed, OnRspQryTrade, OnFrontDisconnected, OnIdle
  <1>8. ASSUME NEW S, Notify(S) PROVE DataOK'
    BY <1>1, <1>8 DEF Notify
  <1>9. ASSUME NEW c, Connect(c) \/ Disconnect(c) \/ Write(c) \/ WriteFails(c) PROVE DataOK'
    BY <1>1, <1>9 DEF Connect, Disconnect, Write, WriteFails
  <1>10. ASSUME NEW c, PeekMessage(c) \/ JoinSession(c) \/ QryConditionOrder(c) PROVE DataOK'
    BY <1>1, <1>10 DEF PeekMessage, JoinSession, QryConditionOrder
  <1>11. ASSUME NEW c \in Clients, NEW P \in SUBSET Positions, NEW Poor, NEW text,
                SendUserData(c, P, Poor, text)
         PROVE  DataOK'
    <2>1. CASE user
      <3>1. /\ nan' \subseteq present \cap Accounts /\ version' \in [Records -> Nat]
            /\ changed' = {} /\ present' = present
        BY <1>11, <2>1, DumpFacts
      <3>2. QED
        BY <1>0, <3>1
    <2>2. CASE ~user
      BY <1>1, <1>11, <2>2 DEF SendUserData, data
    <2>3. QED
      BY <2>1, <2>2
  <1>12. ASSUME NEW t \in Threads, NEW Poor, SendAllUserData(t, Poor) PROVE DataOK'
    <2>1. CASE user /\ changed # {}
      <3>1. /\ nan' \subseteq present \cap Accounts /\ version' \in [Records -> Nat]
            /\ changed' = {} /\ present' = present
        BY <1>12, <2>1, PushFacts
      <3>2. QED
        BY <1>0, <3>1
    <2>2. CASE ~(user /\ changed # {})
      BY <1>1, <1>12, <2>2 DEF SendAllUserData, data
    <2>3. QED
      BY <2>1, <2>2
  <1>13. QED
    BY <1>2, <1>3, <1>4, <1>5, <1>6, <1>7, <1>8, <1>9, <1>10, <1>11, <1>12 DEF Next

LEMMA ChannelNext == TypeInv /\ [Next]_vars => ChannelOK'
  <1> SUFFICES ASSUME TypeInv, [Next]_vars PROVE ChannelOK'
    OBVIOUS
  <1>0. ChannelOK
    BY TypeParts
  <1>1. ASSUME UNCHANGED <<queue, view>> PROVE ChannelOK'
    BY <1>0, <1>1 DEF ChannelOK, Fits
  <1>2. ASSUME queue' \in Channels, Fits(queue'), UNCHANGED view PROVE ChannelOK'
    BY <1>0, <1>2 DEF ChannelOK, Fits
  <1>3. ASSUME NEW q \in Channels, Fits(q), NEW S, queue' = Put(q, S, Notice), UNCHANGED view
        PROVE  ChannelOK'
    BY <1>2, <1>3, PutFacts, MessageFacts
  <1>4. CASE UNCHANGED vars
    BY <1>1, <1>4 DEF vars, net
  <1>5. ASSUME NEW r, Update(r) PROVE ChannelOK'
    BY <1>1, <1>5 DEF Update, net
  <1>6. ASSUME NEW P, NEW moved, NEW Poor, OnQuotesUpdate(P, moved, Poor) PROVE ChannelOK'
    BY <1>1, <1>6 DEF OnQuotesUpdate, net
  <1>7. CASE QryAccountRegister \/ InitUserData \/ LogIn \/ OnSettlementConfirmed
             \/ OnRspQryTrade \/ OnFrontDisconnected \/ OnIdle
    BY <1>1, <1>7 DEF QryAccountRegister, InitUserData, LogIn, OnSettlementConfirmed, OnRspQryTrade,
                      OnFrontDisconnected, OnIdle, net
  <1>8. ASSUME NEW S, Notify(S) PROVE ChannelOK'
    BY <1>3, <1>8, TypeFacts DEF Notify, Send
  <1>9. ASSUME NEW c, Connect(c) \/ PeekMessage(c) \/ QryConditionOrder(c) PROVE ChannelOK'
    BY <1>1, <1>9 DEF Connect, PeekMessage, QryConditionOrder, net
  <1>10. ASSUME NEW c \in Clients, Disconnect(c) PROVE ChannelOK'
    <2>1. <<>> \in Seq(Messages) /\ Len(<<>>) <= Capacity
      BY UserDataAssumption
    <2>2. queue' \in Channels
      BY <1>0, <1>10, <2>1 DEF Disconnect, ChannelOK, Channels
    <2>3. Fits(queue')
      BY <1>0, <1>10, <2>1 DEF Disconnect, ChannelOK, Channels, Fits
    <2>4. view' \in [Clients -> [Records -> Nat]]
      BY <1>0, <1>10 DEF Disconnect, ChannelOK
    <2>5. QED
      BY <2>2, <2>3, <2>4 DEF ChannelOK, Fits
  <1>11. ASSUME NEW c \in Clients, Write(c) \/ WriteFails(c) PROVE ChannelOK'
    <2>1. queue[c] \in Seq(Messages) /\ queue[c] # <<>> /\ Len(queue[c]) <= Capacity
      BY <1>0, <1>11 DEF Write, WriteFails, ChannelOK, Channels, Fits
    <2>2. Tail(queue[c]) \in Seq(Messages) /\ Len(Tail(queue[c])) <= Capacity /\ Head(queue[c]) \in Messages
      BY <2>1, HeadTailProperties, UserDataAssumption
    <2>3. queue' = [queue EXCEPT ![c] = Tail(queue[c])]
      BY <1>11 DEF Write, WriteFails
    <2>4. queue' \in Channels /\ Fits(queue')
      BY <1>0, <2>2, <2>3 DEF ChannelOK, Channels, Fits
    <2>5. view' \in [Clients -> [Records -> Nat]]
      <3>1. \A r \in DOMAIN Head(queue[c]) : Head(queue[c])[r] \in Nat
        BY <2>2, MessageFacts
      <3>2. [r \in Records |-> IF r \in DOMAIN Head(queue[c]) THEN Head(queue[c])[r] ELSE view[c][r]]
              \in [Records -> Nat]
        BY <1>0, <3>1 DEF ChannelOK
      <3>3. CASE Write(c)
        BY <1>0, <3>2, <3>3 DEF Write, ChannelOK
      <3>4. CASE WriteFails(c)
        BY <1>0, <3>4 DEF WriteFails, ChannelOK
      <3>5. QED
        BY <1>11, <3>3, <3>4
    <2>6. QED
      BY <2>4, <2>5 DEF ChannelOK, Fits
  <1>12. ASSUME NEW c \in Clients, JoinSession(c) PROVE ChannelOK'
    <2> DEFINE told == Put(queue, {c}, Notice)
    <2>1. told \in Channels /\ Fits(told)
      BY PutFacts, MessageFacts, TypeFacts
    <2>2. (queue' = told \/ queue' = Put(told, {c}, Notice)) /\ UNCHANGED view
      BY <1>12 DEF JoinSession, Send
    <2> HIDE DEF told
    <2>3. QED
      BY <1>2, <1>3, <2>1, <2>2
  <1>13. ASSUME NEW c \in Clients, NEW P \in SUBSET Positions, NEW Poor, NEW text,
                SendUserData(c, P, Poor, text)
         PROVE  ChannelOK'
    <2>1. CASE user
      <3> DEFINE told == Put(queue, {c}, Marshal(present, version'))
      <3>1. /\ told \in Channels /\ Fits(told) /\ UNCHANGED view
            /\ queue' = told \/ queue' = Put(told, Clients, Notice)
        BY <1>13, <2>1, DumpFacts
      <3> HIDE DEF told
      <3>2. QED
        BY <1>2, <1>3, <3>1
    <2>2. CASE ~user
      <3>1. (queue' = queue \/ queue' = Put(queue, Clients, Notice)) /\ UNCHANGED view
        BY <1>13, <2>2 DEF SendUserData
      <3>2. QED
        BY <1>1, <1>3, <3>1, TypeFacts
    <2>3. QED
      BY <2>1, <2>2
  <1>14. ASSUME NEW t \in Threads, NEW Poor, SendAllUserData(t, Poor) PROVE ChannelOK'
    <2>1. CASE user /\ changed # {}
      <3>1. PICK m \in Messages : queue' = Put(queue, Open, m) /\ UNCHANGED view
        BY <1>14, <2>1, PushFacts
      <3>2. QED
        BY <1>2, <3>1, PutFacts, TypeFacts
    <2>2. CASE ~(user /\ changed # {})
      BY <1>1, <1>14, <2>2 DEF SendAllUserData
    <2>3. QED
      BY <2>1, <2>2
  <1>15. QED
    BY <1>4, <1>5, <1>6, <1>7, <1>8, <1>9, <1>10, <1>11, <1>12, <1>13, <1>14 DEF Next

LEMMA HistoryNext == TypeInv /\ [Next]_vars => HistoryOK'
  <1> SUFFICES ASSUME TypeInv, [Next]_vars PROVE HistoryOK'
    OBVIOUS
  <1>0. HistoryOK
    BY TypeParts
  <1> USE TypeFacts
  <1>1. ASSUME UNCHANGED hist PROVE HistoryOK'
    BY <1>0, <1>1 DEF hist, HistoryOK
  <1>2. ASSUME missed' \in [Clients -> SUBSET Records], taken' \in [Clients -> SUBSET Records],
               lost' \in [Clients -> SUBSET Records]
        PROVE  HistoryOK'
    BY <1>2 DEF HistoryOK
  <1>3. CASE UNCHANGED vars
    BY <1>1, <1>3 DEF vars
  <1>4. ASSUME NEW r, Update(r) PROVE HistoryOK'
    BY <1>1, <1>4 DEF Update
  <1>5. ASSUME NEW P, NEW moved, NEW Poor, OnQuotesUpdate(P, moved, Poor) PROVE HistoryOK'
    BY <1>1, <1>5 DEF OnQuotesUpdate, hist
  <1>6. CASE LogIn \/ OnSettlementConfirmed \/ OnRspQryTrade \/ OnFrontDisconnected \/ OnIdle
    BY <1>1, <1>6 DEF LogIn, OnSettlementConfirmed, OnRspQryTrade, OnFrontDisconnected, OnIdle, hist
  <1>7. CASE QryAccountRegister
    BY <1>2, <1>7 DEF QryAccountRegister
  <1>8. CASE InitUserData
    BY <1>2, <1>8 DEF InitUserData
  <1>9. ASSUME NEW S, Notify(S) PROVE HistoryOK'
    BY <1>1, <1>9 DEF Notify
  <1>10. ASSUME NEW c \in Clients, Connect(c) \/ Disconnect(c) PROVE HistoryOK'
    <2>1. present \ changed \in SUBSET Records /\ {} \in SUBSET Records
      OBVIOUS
    <2>2. QED
      BY <1>2, <1>10, <2>1 DEF Connect, Disconnect
  <1>11. ASSUME NEW c, \/ Write(c) \/ WriteFails(c) \/ PeekMessage(c) \/ JoinSession(c)
                       \/ QryConditionOrder(c)
         PROVE  HistoryOK'
    BY <1>1, <1>11 DEF Write, WriteFails, PeekMessage, JoinSession, QryConditionOrder
  <1>12. ASSUME NEW F \in SUBSET Records, NEW S \in SUBSET Records, NEW To \in SUBSET Clients,
                Remember(F, S, To)
         PROVE  HistoryOK'
    BY <1>12, RememberFacts DEF HistoryOK
  <1>13. ASSUME NEW c \in Clients, NEW P \in SUBSET Positions, NEW Poor, NEW text,
                SendUserData(c, P, Poor, text)
         PROVE  HistoryOK'
    <2>1. CASE user
      <3> DEFINE F == changed \cup P \cup Recalculated(changed \cup P)
      <3>1. Remember(F, present, {c}) /\ F \in SUBSET Records
        BY <1>13, <2>1, DumpFacts
      <3>2. present \in SUBSET Records /\ {c} \in SUBSET Clients
        OBVIOUS
      <3> HIDE DEF F
      <3>3. QED
        BY <1>12, <3>1, <3>2
    <2>2. CASE ~user
      BY <1>1, <1>13, <2>2 DEF SendUserData
    <2>3. QED
      BY <2>1, <2>2
  <1>14. ASSUME NEW t \in Threads, NEW Poor, SendAllUserData(t, Poor) PROVE HistoryOK'
    <2>1. CASE user /\ changed # {}
      <3>1. PICK F \in SUBSET Records : Remember(F, F, Clients)
        BY <1>14, <2>1, PushFacts
      <3>2. Clients \in SUBSET Clients
        OBVIOUS
      <3>3. QED
        BY <1>12, <3>1, <3>2
    <2>2. CASE ~(user /\ changed # {})
      BY <1>1, <1>14, <2>2 DEF SendAllUserData
    <2>3. QED
      BY <2>1, <2>2
  <1>15. QED
    BY <1>3, <1>4, <1>5, <1>6, <1>7, <1>8, <1>9, <1>10, <1>11, <1>13, <1>14 DEF Next

LEMMA TypesNext == TypeInv /\ [Next]_vars => TypeInv'
  BY TypeParts, ControlNext, DataNext, ChannelNext, HistoryNext, PTL

\* Every variable keeps its type; a flagged record is a record of the user, and no
\* channel holds more than it has room for.
THEOREM TypeCorrect == Spec => []TypeOK
  <1>1. TypeInv => TypeOK
    BY DEF TypeInv
  <1>2. QED
    BY <1>1, InitTypes, TypesNext, PTL DEF Spec

-----------------------------------------------------------------------------
(* What the clients have.                                                  *)

\* After the flags of F went with a message of S to the connections in To, every
\* connection has it, or is excused.
LEMMA TellFacts ==
    ASSUME TypeInv, SyncInv, NEW F \in SUBSET Records, NEW S \in SUBSET Records,
           NEW To \in SUBSET Clients, NEW Z, Z \cap Open = To \cap Open,
           changed \subseteq F, present \cap F \subseteq S, Remember(F, S, To),
           version' \in [Records -> Nat], \A r \in Records \ F : version'[r] = version[r],
           NEW c \in Open \cap writing, NEW r \in present \ Excused(c)'
    PROVE  ComesTo(Put(queue, Z, Marshal(S, version'))[c], view[c], r, version'[r])
  <1> DEFINE m == Marshal(S, version')
  <1>1. /\ queue \in Channels /\ Fits(queue) /\ r \in Records /\ c \in Clients
        /\ queue[c] \in Seq(Messages)
    BY TypeFacts DEF Open, Channels
  <1>2. m \in Messages
    BY MessageFacts DEF Marshal
  <1>3. Put(queue, Z, m)[c] = IF c \in To /\ Takes(queue, c) THEN Append(queue[c], m) ELSE queue[c]
    BY <1>1, <1>2, PutFacts
  <1>4. r \notin F /\ r \notin Excused(c) => ComesTo(queue[c], view[c], r, version'[r])
    BY <1>1 DEF SyncInv
  <1>5. CASE c \in To /\ Takes(queue, c) /\ Marshals(S)
    <2>1. m = Carry(S, version') /\ Excused(c)' = Excused(c) \ S
      BY <1>5, RememberFacts DEF Marshal
    <2>2. DOMAIN m = S /\ \A s \in S : m[s] = version'[s]
      BY <2>1, MessageFacts
    <2> HIDE DEF m
    <2>3. ASSUME r \in S PROVE ComesTo(Append(queue[c], m), view[c], r, version'[r])
      BY <1>1, <1>2, <2>2, <2>3, AppendMessage
    <2>4. ASSUME r \notin S PROVE ComesTo(Append(queue[c], m), view[c], r, version'[r])
      BY <1>1, <1>2, <1>4, <2>1, <2>2, <2>4, AppendMessage
    <2>5. ComesTo(Append(queue[c], m), view[c], r, version'[r])
      BY <2>3, <2>4
    <2>6. QED
      BY <1>3, <1>5, <2>5 DEF m
  <1>6. CASE ~(c \in To /\ Takes(queue, c) /\ Marshals(S))
    <2>1. Excused(c)' = Excused(c) \cup F
      BY <1>6, RememberFacts
    <2>2. ComesTo(queue[c], view[c], r, version'[r])
      BY <1>4, <2>1
    <2>3. CASE Marshals(S)
      BY <1>3, <1>6, <2>2, <2>3
    <2>4. CASE ~Marshals(S)
      <3>1. m = Notice
        BY <2>4 DEF Marshal
      <3>2. ComesTo(Append(queue[c], Notice), view[c], r, version'[r])
        BY <1>1, <2>2, MessageFacts, AppendMessage
      <3>3. QED
        BY <1>3, <2>2, <3>1, <3>2
    <2>5. QED
      BY <2>3, <2>4
  <1>7. QED
    BY <1>5, <1>6

LEMMA SyncNext == TypeInv /\ SyncInv /\ [Next]_vars => SyncInv'
  <1> SUFFICES ASSUME TypeInv, SyncInv, [Next]_vars PROVE SyncInv'
    OBVIOUS
  <1>a. Open \subseteq Clients /\ queue \in Channels /\ Fits(queue)
    BY TypeFacts DEF Open
  (* A record may change if it is flagged.                                 *)
  <1>1. ASSUME UNCHANGED <<queue, view, conn, writing, hist>>, present \subseteq present',
               \A r \in present' \ changed' : /\ r \in present \ changed
                                              /\ version'[r] = version[r]
        PROVE  SyncInv'
    BY <1>1 DEF SyncInv, Open, Excused, hist
  (* Nothing happens to the records, and the channels bring them as before. *)
  <1>2. ASSUME UNCHANGED <<view, conn, writing, hist, data>>, Noticed(queue, queue')
        PROVE  SyncInv'
    BY <1>2, <1>a DEF SyncInv, Noticed, Open, Excused, hist, data
  <1>3. Noticed(queue, queue)
    BY DEF Noticed
  <1>4. ASSUME UNCHANGED <<queue, view, conn, writing, hist, data>> PROVE SyncInv'
    BY <1>2, <1>3, <1>4
  <1>5. CASE UNCHANGED vars
    BY <1>4, <1>5 DEF vars, net
  <1>6. ASSUME NEW r \in Records, Update(r) PROVE SyncInv'
    <2>1. \A t \in present' \ changed' : t \in present \ changed /\ version'[t] = version[t]
      BY <1>6, VersionFacts, TypeFacts DEF Update
    <2>2. QED
      BY <1>1, <1>6, <2>1 DEF Update, net
  <1>7. ASSUME NEW P, NEW moved, NEW Poor, OnQuotesUpdate(P, moved, Poor) PROVE SyncInv'
    <2> DEFINE accts == IF moved THEN Recalculated(changed \cup P) ELSE {}
    <2>1. /\ version' = Raise(P \cup accts) /\ changed' = changed \cup P \cup accts
          /\ present' = present
      BY <1>7 DEF OnQuotesUpdate
    <2> HIDE DEF accts
    <2>2. \A t \in present' \ changed' : t \in present \ changed /\ version'[t] = version[t]
      BY <2>1, VersionFacts, TypeFacts
    <2>3. QED
      BY <1>1, <1>7, <2>1, <2>2 DEF OnQuotesUpdate, net
  <1>8. CASE QryAccountRegister
    <2>1. /\ UNCHANGED <<queue, view, conn, writing, version>>
          /\ present' = present \ Banks /\ changed' = changed \ Banks
      BY <1>8 DEF QryAccountRegister, net
    <2>2. \A c \in Clients : Excused(c)' = Excused(c) \ Banks
      BY <1>8 DEF QryAccountRegister, Excused
    <2>3. QED
      BY <1>a, <2>1, <2>2 DEF SyncInv, Open
  <1>9. CASE InitUserData
    <2>1. present' = {}
      BY <1>9 DEF InitUserData
    <2>2. QED
      BY <2>1 DEF SyncInv
  <1>10. CASE LogIn \/ OnSettlementConfirmed \/ OnRspQryTrade \/ OnFrontDisconnected \/ OnIdle
    BY <1>4, <1>10 DEF LogIn, OnSettlementConfirmed, OnRspQryTrade, OnFrontDisconnected, OnIdle, net
  <1>11. ASSUME NEW S, Notify(S) PROVE SyncInv'
    BY <1>2, <1>11, <1>a, NoticeFacts DEF Notify, Send
  <1>12. ASSUME NEW c \in Clients, Connect(c) PROVE SyncInv'
    <2>1. UNCHANGED <<queue, view, data>>
      BY <1>12 DEF Connect
    <2>2. present \ changed \subseteq Excused(c)'
      BY <1>12, TypeFacts DEF Connect, Excused
    <2>3. \A d \in Clients \ {c} : /\ d \in (Open \cap writing)' => d \in Open \cap writing
                                   /\ Excused(d)' = Excused(d)
      BY <1>12, TypeParts, TypeFacts DEF Connect, Open, Excused, ControlOK
    <2>4. QED
      BY <2>1, <2>2, <2>3 DEF SyncInv, data, Open
  <1>13. ASSUME NEW c \in Clients, Disconnect(c) PROVE SyncInv'
    <2>1. UNCHANGED data /\ c \notin (Open \cap writing)'
      BY <1>13 DEF Disconnect
    <2>2. \A d \in Clients \ {c} : /\ d \in (Open \cap writing)' => d \in Open \cap writing
                                   /\ Excused(d)' = Excused(d)
                                   /\ queue'[d] = queue[d] /\ view'[d] = view[d]
      BY <1>13, TypeParts, TypeFacts DEF Disconnect, Open, Excused, ControlOK, Channels
    <2>3. QED
      BY <2>1, <2>2 DEF SyncInv, data, Open
  <1>14. ASSUME NEW c \in Clients, Write(c) PROVE SyncInv'
    <2>1. /\ queue[c] \in Seq(Messages) /\ queue[c] # <<>>
          /\ UNCHANGED <<data, conn, writing, hist>>
      BY <1>14, <1>a DEF Write, Channels
    <2>2. /\ queue'[c] = Tail(queue[c])
          /\ \A r \in Records :
               view'[c][r] = IF r \in DOMAIN Head(queue[c]) THEN Head(queue[c])[r] ELSE view[c][r]
      BY <1>14, <1>a, TypeFacts DEF Write, Channels
    <2>3. \A d \in Clients \ {c} : queue'[d] = queue[d] /\ view'[d] = view[d]
      BY <1>14, <1>a, TypeFacts DEF Write, Channels
    <2>4. \A r \in Records : \A n :
             ComesTo(queue[c], view[c], r, n) => ComesTo(queue'[c], view'[c], r, n)
      BY <2>1, <2>2, TailMessage
    <2>5. QED
      BY <1>a, <2>1, <2>3, <2>4, TypeFacts DEF SyncInv, data, hist, Open, Excused
  <1>15. ASSUME NEW c \in Clients, WriteFails(c) PROVE SyncInv'
    <2>1. /\ UNCHANGED <<data, view, conn, hist>> /\ writing' = writing \ {c}
          /\ \A d \in Clients \ {c} : queue'[d] = queue[d]
      BY <1>15, <1>a DEF WriteFails, Channels
    <2>2. QED
      BY <1>a, <2>1 DEF SyncInv, data, hist, Open, Excused
  <1>16. ASSUME NEW c, PeekMessage(c) \/ QryConditionOrder(c) PROVE SyncInv'
    BY <1>4, <1>16 DEF PeekMessage, QryConditionOrder, net
  <1>17. ASSUME NEW c \in Clients, JoinSession(c) PROVE SyncInv'
    <2> DEFINE told == Put(queue, {c}, Notice)
    <2>1. told \in Channels /\ Fits(told)
      BY <1>a, PutFacts, MessageFacts
    <2>2. Noticed(queue, told) /\ Noticed(told, Put(told, {c}, Notice))
      BY <1>a, <2>1, NoticeFacts
    <2>3. queue' = told \/ queue' = Put(told, {c}, Notice)
      BY <1>17 DEF JoinSession, Send
    <2> HIDE DEF told
    <2>4. Noticed(queue, queue')
      BY <2>2, <2>3 DEF Noticed
    <2>5. QED
      BY <1>2, <1>17, <2>4 DEF JoinSession
  <1>18. ASSUME NEW c \in Clients, NEW P \in SUBSET Positions, NEW Poor, NEW text,
                SendUserData(c, P, Poor, text)
         PROVE  SyncInv'
    <2>1. CASE user
      <3> DEFINE accts == Recalculated(changed \cup P)
                 F     == changed \cup P \cup accts
                 told  == Put(queue, {c}, Marshal(present, version'))
      <3>1. /\ P \cup accts \subseteq present /\ F \in SUBSET Records
            /\ version' = Raise(P \cup accts) /\ version' \in [Records -> Nat]
            /\ changed' = {} /\ UNCHANGED <<present, view, conn, writing>>
            /\ told \in Channels /\ Fits(told)
            /\ queue' = told \/ queue' = Put(told, Clients, Notice)
            /\ Remember(F, present, {c})
        BY <1>18, <2>1, DumpFacts
      <3>2. \A r \in Records \ F : version'[r] = version[r]
        BY <3>1, VersionFacts
      <3>3. present \in SUBSET Records /\ {c} \in SUBSET Clients /\ changed \subseteq F
            /\ present \cap F \subseteq present
        BY TypeFacts
      <3> HIDE DEF accts, F
      <3>4. \A d \in Open \cap writing : \A r \in present \ Excused(d)' :
              ComesTo(told[d], view[d], r, version'[r])
        BY <3>1, <3>2, <3>3, TellFacts
      <3> HIDE DEF told
      <3>5. \A d \in Open \cap writing : \A r \in present \ Excused(d)' :
              ComesTo(queue'[d], view[d], r, version'[r])
        BY <1>a, <3>1, <3>4, NoticeFacts DEF Noticed
      <3>6. QED
        BY <3>1, <3>5 DEF SyncInv, Open
    <2>2. CASE ~user
      <3>1. Noticed(queue, queue')
        BY <1>a, <1>3, <1>18, <2>2, NoticeFacts DEF SendUserData
      <3>2. QED
        BY <1>2, <1>18, <2>2, <3>1 DEF SendUserData, data
    <2>3. QED
      BY <2>1, <2>2
  <1>19. ASSUME NEW t \in Threads, NEW Poor, SendAllUserData(t, Poor) PROVE SyncInv'
    <2>1. CASE user /\ changed # {}
      <3> DEFINE accts == Recalculated(changed)
                 diff  == changed \cup accts
      <3>1. /\ diff \in SUBSET Records
            /\ version' = Raise(accts) /\ version' \in [Records -> Nat]
            /\ changed' = {} /\ UNCHANGED <<present, view, conn, writing>>
            /\ queue' = Put(queue, Open, Marshal(diff, version'))
            /\ Remember(diff, diff, Clients)
        BY <1>19, <2>1, PushFacts
      <3>2. \A r \in Records \ diff : version'[r] = version[r]
        BY <3>1, VersionFacts
      <3>3. Clients \in SUBSET Clients /\ changed \subseteq diff /\ Open \cap Open = Clients \cap Open
            /\ present \cap diff \subseteq diff
        BY <1>a
      <3> HIDE DEF accts, diff
      <3>4. \A d \in Open \cap writing : \A r \in present \ Excused(d)' :
              ComesTo(queue'[d], view[d], r, version'[r])
        BY <3>1, <3>2, <3>3, TellFacts
      <3>5. QED
        BY <3>1, <3>4 DEF SyncInv, Open
    <2>2. CASE ~(user /\ changed # {})
      BY <1>4, <1>19, <2>2 DEF SendAllUserData, data
    <2>3. QED
      BY <2>1, <2>2
  <1>20. QED
    BY <1>5, <1>6, <1>7, <1>8, <1>9, <1>10, <1>11, <1>12, <1>13, <1>14, <1>15, <1>16, <1>17,
       <1>18, <1>19 DEF Next

\* An unflagged record is on every connection in its present version, or on its way
\* there, for any connections, records, capacities and interleavings, except where
\* the history says why not (sendAllUserData, sendUserData and all updates).
THEOREM SyncCorrect == Spec => []Synced
  <1>1. TypeInv /\ SyncInv => Synced
    <2> SUFFICES ASSUME TypeInv, SyncInv, NEW c \in Open \cap writing,
                        NEW r \in present \ (changed \cup Excused(c))
                 PROVE  Coming(c, r) = version[r]
      BY DEF Synced, UpToDate, Excused
    <2>1. queue[c] \in Seq(Messages)
      BY TypeFacts DEF Open, Channels
    <2>2. c \in Clients /\ Len(queue[c]) \in Nat /\ DOMAIN queue[c] = 1..Len(queue[c])
      BY <2>1 DEF Open
    <2>3. QED
      BY <2>2, ComingIs DEF SyncInv
  <1>2. Init => SyncInv
    BY DEF Init, SyncInv
  <1>3. QED
    BY <1>1, <1>2, InitTypes, TypesNext, SyncNext, PTL DEF Spec

-----------------------------------------------------------------------------
(* The order of versions.                                                  *)

LEMMA RisingFacts ==
    ASSUME NEW q \in Seq(Messages), NEW v \in [Records -> Nat], NEW ver \in [Records -> Nat],
           NEW r \in Records, Rising(q, v, ver, r)
    PROVE  /\ \A later \in [Records -> Nat] : ver[r] <= later[r] =>
                /\ Rising(q, v, later, r)
                /\ \A m \in Messages : (r \in DOMAIN m => m[r] = later[r]) =>
                      Rising(Append(q, m), v, later, r)
           /\ q # <<>> =>
                /\ Rising(Tail(q), v, ver, r)
                /\ \A w \in [Records -> Nat] :
                      w[r] = (IF r \in DOMAIN Head(q) THEN Head(q)[r] ELSE v[r]) =>
                         Rising(Tail(q), w, ver, r) /\ v[r] <= w[r]
  <1> DEFINE k == Len(q)
             p == Tail(q)
  <1>1. /\ k \in Nat /\ v[r] \in Nat /\ ver[r] \in Nat
        /\ \A i \in 1..k : r \in DOMAIN q[i] => q[i][r] \in Nat
    <2>1. \A i \in 1..k : q[i] \in Messages
      BY ElementOfSeq
    <2>2. QED
      BY <2>1, MessageFacts
  <1>2. ASSUME NEW later \in [Records -> Nat], ver[r] <= later[r] PROVE Rising(q, v, later, r)
    <2>1. later[r] \in Nat
      OBVIOUS
    <2>2. QED
      BY <1>1, <1>2, <2>1 DEF Rising
  <1>3. ASSUME NEW later \in [Records -> Nat], ver[r] <= later[r],
               NEW m \in Messages, r \in DOMAIN m => m[r] = later[r]
        PROVE  Rising(Append(q, m), v, later, r)
    <2> DEFINE a == Append(q, m)
    <2>1. Len(a) = k + 1 /\ a[k + 1] = m /\ \A i \in 1..k : a[i] = q[i]
      BY AppendProperties
    <2>2. Rising(q, v, later, r) /\ later[r] \in Nat
      BY <1>2, <1>3
    <2> HIDE DEF a, k
    <2>3. ASSUME NEW i \in 1..(k + 1), r \in DOMAIN a[i]
          PROVE  v[r] <= a[i][r] /\ a[i][r] <= later[r]
      <3>1. CASE i = k + 1
        BY <1>1, <1>3, <2>1, <2>2, <2>3, <3>1 DEF Rising
      <3>2. CASE i # k + 1
        BY <1>1, <2>1, <2>2, <2>3, <3>2 DEF Rising, k
      <3>3. QED
        BY <3>1, <3>2
    <2>4. ASSUME NEW i \in 1..(k + 1), r \in DOMAIN a[i],
                 NEW j \in 1..(k + 1), j > i, r \in DOMAIN a[j]
          PROVE  a[i][r] <= a[j][r]
      <3>1. i \in 1..k
        BY <1>1, <2>4
      <3>2. CASE j = k + 1
        BY <1>3, <2>1, <2>3, <2>4, <3>2
      <3>3. CASE j # k + 1
        <4>1. j \in 1..k
          BY <1>1, <3>3
        <4>2. QED
          BY <2>1, <2>2, <2>4, <3>1, <4>1 DEF Rising, k
      <3>4. QED
        BY <3>2, <3>3
    <2>5. v[r] <= later[r]
      BY <2>2 DEF Rising
    <2>6. QED
      BY <2>1, <2>3, <2>4, <2>5 DEF Rising, a
  <1>4. ASSUME q # <<>>,
               NEW w \in [Records -> Nat],
               w[r] = v[r] \/ w[r] = (IF r \in DOMAIN Head(q) THEN Head(q)[r] ELSE v[r])
        PROVE  Rising(p, w, ver, r) /\ v[r] <= w[r]
    <2>1. /\ k > 0 /\ Len(p) = k - 1 /\ Head(q) = q[1]
          /\ \A i \in 1..(k - 1) : p[i] = q[i + 1]
      BY <1>1, <1>4, HeadTailProperties
    <2> HIDE DEF p, k
    <2>2. \A i \in 1..(k - 1) : i + 1 \in 1..k /\ i + 1 > 1
      BY <1>1, <2>1
    <2>3. w[r] = v[r] \/ (r \in DOMAIN q[1] /\ w[r] = q[1][r])
      BY <1>4, <2>1
    <2>4. v[r] <= w[r] /\ w[r] <= ver[r]
      BY <1>1, <2>1, <2>3 DEF Rising, k
    <2>5. ASSUME NEW i \in 1..(k - 1), r \in DOMAIN p[i]
          PROVE  w[r] <= p[i][r] /\ p[i][r] <= ver[r]
      <3>1. i + 1 \in 1..k /\ i + 1 > 1 /\ p[i] = q[i + 1]
        BY <2>1, <2>2
      <3>2. 1 \in 1..k
        BY <1>1, <2>1
      <3>3. r \in DOMAIN q[i + 1]
        BY <2>5, <3>1
      <3>4. v[r] <= q[i + 1][r] /\ q[i + 1][r] <= ver[r]
        BY <1>4, <3>1, <3>3 DEF Rising, k
      <3>5. r \in DOMAIN q[1] => q[1][r] <= q[i + 1][r]
        BY <1>4, <3>1, <3>2, <3>3 DEF Rising, k
      <3>6. QED
        BY <2>3, <3>1, <3>4, <3>5
    <2>6. ASSUME NEW i \in 1..(k - 1), r \in DOMAIN p[i],
                 NEW j \in 1..(k - 1), j > i, r \in DOMAIN p[j]
          PROVE  p[i][r] <= p[j][r]
      <3>1. /\ i + 1 \in 1..k /\ j + 1 \in 1..k /\ j + 1 > i + 1
            /\ p[i] = q[i + 1] /\ p[j] = q[j + 1]
        BY <1>1, <2>1, <2>2, <2>6
      <3>2. QED
        BY <2>6, <3>1 DEF Rising, k
    <2>7. QED
      BY <2>1, <2>4, <2>5, <2>6 DEF Rising
  <1>5. q # <<>> => Rising(Tail(q), v, ver, r)
    BY <1>4
  <1> HIDE DEF k, p
  <1>6. QED
    BY <1>2, <1>3, <1>4, <1>5 DEF p

Risen(q, ver) == \A c \in Clients, r \in Records : Rising(q[c], view[c], ver, r)

LEMMA RisenPut ==
    ASSUME TypeInv, NEW q \in Channels, Fits(q), NEW ver \in [Records -> Nat], Risen(q, ver),
           NEW later \in [Records -> Nat], \A r \in Records : ver[r] <= later[r],
           NEW S, NEW m \in Messages, \A r \in DOMAIN m : m[r] = later[r]
    PROVE  Risen(Put(q, S, m), later)
  <1> SUFFICES ASSUME NEW c \in Clients, NEW r \in Records
               PROVE  Rising(Put(q, S, m)[c], view[c], later, r)
    BY DEF Risen
  <1>1. /\ q[c] \in Seq(Messages) /\ view[c] \in [Records -> Nat]
        /\ Rising(q[c], view[c], ver, r)
    BY TypeFacts DEF Channels, Risen
  <1>2. Rising(q[c], view[c], later, r) /\ Rising(Append(q[c], m), view[c], later, r)
    BY <1>1, RisingFacts
  <1>3. QED
    BY <1>2, PutFacts

LEMMA RisenNotice ==
    ASSUME TypeInv, NEW q \in Channels, Fits(q), NEW ver \in [Records -> Nat], Risen(q, ver), NEW S
    PROVE  Risen(Put(q, S, Notice), ver)
  <1>1. \A r \in Records : ver[r] <= ver[r]
    <2>1. \A n \in Nat : n <= n
      OBVIOUS
    <2>2. QED
      BY <2>1
  <1>2. \A r \in DOMAIN Notice : Notice[r] = ver[r]
    BY MessageFacts
  <1>3. Notice \in Messages
    BY MessageFacts
  <1>4. QED
    BY <1>1, <1>2, <1>3, RisenPut

LEMMA OrderNext ==
    TypeInv /\ OrderInv /\ [Next]_vars =>
        /\ OrderInv'
        /\ \A c \in Clients, r \in Records : conn'[c] = "open" => view'[c][r] >= view[c][r]
  <1> DEFINE Forward == \A c \in Clients, r \in Records :
                           conn'[c] = "open" => view'[c][r] >= view[c][r]
  <1> SUFFICES ASSUME TypeInv, OrderInv, [Next]_vars PROVE OrderInv' /\ Forward
    OBVIOUS
  <1>a. /\ queue \in Channels /\ Fits(queue) /\ version \in [Records -> Nat]
        /\ view \in [Clients -> [Records -> Nat]] /\ Risen(queue, version)
        /\ \A c \in Clients : queue[c] \in Seq(Messages) /\ view[c] \in [Records -> Nat]
    BY TypeFacts DEF OrderInv, Risen, Channels
  <1>b. ASSUME UNCHANGED view PROVE Forward
    BY <1>a, <1>b
  <1>1. ASSUME UNCHANGED view, Risen(queue', version') PROVE OrderInv' /\ Forward
    BY <1>1, <1>b DEF OrderInv, Risen
  <1>2. ASSUME UNCHANGED <<queue, view, version>> PROVE OrderInv' /\ Forward
    BY <1>1, <1>2, <1>a
  <1>3. ASSUME UNCHANGED <<queue, view>>, NEW S, version' = Raise(S) PROVE OrderInv' /\ Forward
    <2>1. version' \in [Records -> Nat] /\ \A r \in Records : version[r] <= version'[r]
      BY <1>3, VersionFacts
    <2>2. Risen(queue, version')
      BY <1>a, <2>1, RisingFacts DEF Risen
    <2>3. QED
      BY <1>1, <1>3, <2>2
  <1>4. ASSUME UNCHANGED <<view, version>>, NEW q \in Channels, Fits(q), Risen(q, version), NEW S,
               queue' = q \/ queue' = Put(q, S, Notice)
        PROVE  OrderInv' /\ Forward
    <2>1. Risen(Put(q, S, Notice), version)
      BY <1>4, <1>a, RisenNotice
    <2>2. QED
      BY <1>1, <1>4, <2>1
  <1>5. CASE UNCHANGED vars
    BY <1>2, <1>5 DEF vars, net, data
  <1>6. ASSUME NEW r, Update(r) PROVE OrderInv' /\ Forward
    BY <1>3, <1>6 DEF Update, net
  <1>7. ASSUME NEW P, NEW moved, NEW Poor, OnQuotesUpdate(P, moved, Poor)
        PROVE  OrderInv' /\ Forward
    BY <1>3, <1>7 DEF OnQuotesUpdate, net
  <1>8. CASE QryAccountRegister \/ InitUserData
    BY <1>2, <1>8 DEF QryAccountRegister, InitUserData, net
  <1>9. CASE LogIn \/ OnSettlementConfirmed \/ OnRspQryTrade \/ OnFrontDisconnected \/ OnIdle
    BY <1>2, <1>9 DEF LogIn, OnSettlementConfirmed, OnRspQryTrade, OnFrontDisconnected, OnIdle,
                      net, data
  <1>10. ASSUME NEW S, Notify(S) PROVE OrderInv' /\ Forward
    BY <1>4, <1>10, <1>a DEF Notify, Send, data
  <1>11. ASSUME NEW c, Connect(c) \/ PeekMessage(c) \/ QryConditionOrder(c) PROVE OrderInv' /\ Forward
    BY <1>2, <1>11 DEF Connect, PeekMessage, QryConditionOrder, net, data
  <1>12. ASSUME NEW c \in Clients, Disconnect(c) PROVE OrderInv' /\ Forward
    <2>1. /\ queue'[c] = <<>> /\ \A r \in Records : view'[c][r] = 0
          /\ conn'[c] # "open" /\ UNCHANGED version
      BY <1>12, <1>a, TypeParts DEF Disconnect, data, ControlOK, Channels
    <2>2. \A d \in Clients \ {c} : queue'[d] = queue[d] /\ view'[d] = view[d]
      BY <1>12, <1>a DEF Disconnect, Channels
    <2>3. \A r \in Records : Rising(queue'[c], view'[c], version', r)
      BY <1>a, <2>1 DEF Rising
    <2>4. OrderInv'
      BY <2>1, <2>2, <2>3 DEF OrderInv
    <2>5. QED
      BY <1>a, <2>1, <2>2, <2>4
  <1>13. ASSUME NEW c \in Clients, Write(c) PROVE OrderInv' /\ Forward
    <2>1. queue[c] # <<>> /\ UNCHANGED version
      BY <1>13 DEF Write, data
    <2>2. /\ queue'[c] = Tail(queue[c])
          /\ \A r \in Records :
               view'[c][r] = IF r \in DOMAIN Head(queue[c]) THEN Head(queue[c])[r] ELSE view[c][r]
      BY <1>13, <1>a DEF Write, Channels
    <2>3. \A d \in Clients \ {c} : queue'[d] = queue[d] /\ view'[d] = view[d]
      BY <1>13, <1>a DEF Write, Channels
    <2>4. view' \in [Clients -> [Records -> Nat]]
      BY ChannelNext DEF ChannelOK
    <2>5. ASSUME NEW r \in Records
          PROVE  Rising(queue'[c], view'[c], version', r) /\ view[c][r] <= view'[c][r]
      <3>1. /\ queue[c] \in Seq(Messages) /\ view[c] \in [Records -> Nat]
            /\ view'[c] \in [Records -> Nat] /\ Rising(queue[c], view[c], version, r)
        BY <1>a, <2>4 DEF OrderInv
      <3>2. Rising(Tail(queue[c]), view'[c], version, r) /\ view[c][r] <= view'[c][r]
        BY <1>a, <2>1, <2>2, <3>1, RisingFacts
      <3>3. QED
        BY <2>1, <2>2, <3>2
    <2>6. OrderInv'
      BY <2>1, <2>3, <2>5 DEF OrderInv
    <2>7. ASSUME NEW d \in Clients, NEW r \in Records PROVE view'[d][r] >= view[d][r]
      <3>1. view'[d][r] \in Nat /\ view[d][r] \in Nat
        BY <1>a, <2>4
      <3>2. QED
        BY <2>3, <2>5, <3>1
    <2>8. QED
      BY <2>6, <2>7
  <1>14. ASSUME NEW c \in Clients, WriteFails(c) PROVE OrderInv' /\ Forward
    <2>1. /\ queue[c] # <<>> /\ UNCHANGED <<version, view>> /\ queue'[c] = Tail(queue[c])
          /\ \A d \in Clients \ {c} : queue'[d] = queue[d]
      BY <1>14, <1>a DEF WriteFails, data, Channels
    <2>2. ASSUME NEW r \in Records PROVE Rising(queue'[c], view[c], version, r)
      <3>1. Rising(queue[c], view[c], version, r)
        BY DEF OrderInv
      <3>2. queue[c] \in Seq(Messages) /\ view[c] \in [Records -> Nat]
        BY <1>a
      <3>3. Rising(Tail(queue[c]), view[c], version, r)
        BY <1>a, <2>1, <3>1, <3>2, RisingFacts
      <3>4. QED
        BY <2>1, <3>3
    <2>3. QED
      BY <1>b, <2>1, <2>2 DEF OrderInv
  <1>15. ASSUME NEW c \in Clients, JoinSession(c) PROVE OrderInv' /\ Forward
    <2> DEFINE told == Put(queue, {c}, Notice)
    <2>1. told \in Channels /\ Fits(told) /\ Risen(told, version)
      BY <1>a, PutFacts, MessageFacts, RisenNotice
    <2>2. (queue' = told \/ queue' = Put(told, {c}, Notice)) /\ UNCHANGED <<view, version>>
      BY <1>15 DEF JoinSession, Send, data
    <2> HIDE DEF told
    <2>3. QED
      BY <1>4, <2>1, <2>2
  <1>16. ASSUME NEW m \in Messages, NEW S, NEW R, version' = Raise(R),
                \A r \in DOMAIN m : m[r] = version'[r]
         PROVE  Risen(Put(queue, S, m), version')
    <2>1. version' \in [Records -> Nat] /\ \A r \in Records : version[r] <= version'[r]
      BY <1>16, VersionFacts
    <2>2. QED
      BY <1>16, <1>a, <2>1, RisenPut
  <1>17. ASSUME NEW S \in SUBSET Records, version' \in [Records -> Nat]
         PROVE  \A r \in DOMAIN Marshal(S, version') : Marshal(S, version')[r] = version'[r]
    BY <1>17, MessageFacts DEF Marshal
  <1>18. ASSUME NEW c \in Clients, NEW P \in SUBSET Positions, NEW Poor, NEW text,
                SendUserData(c, P, Poor, text)
         PROVE  OrderInv' /\ Forward
    <2>1. CASE user
      <3> DEFINE m    == Marshal(present, version')
                 told == Put(queue, {c}, m)
      <3>1. /\ version' = Raise(P \cup Recalculated(changed \cup P)) /\ version' \in [Records -> Nat]
            /\ m \in Messages /\ told \in Channels /\ Fits(told) /\ UNCHANGED view
            /\ queue' = told \/ queue' = Put(told, Clients, Notice)
        BY <1>18, <2>1, DumpFacts
      <3>2. \A r \in DOMAIN m : m[r] = version'[r]
        BY <1>17, <3>1, TypeFacts
      <3> HIDE DEF m
      <3>3. Risen(told, version')
        BY <1>16, <3>1, <3>2
      <3> HIDE DEF told
      <3>4. Risen(Put(told, Clients, Notice), version')
        BY <3>1, <3>3, RisenNotice
      <3>5. QED
        BY <1>1, <3>1, <3>3, <3>4
    <2>2. CASE ~user
      <3>1. (queue' = queue \/ queue' = Put(queue, Clients, Notice)) /\ UNCHANGED <<view, version>>
        BY <1>18, <2>2 DEF SendUserData
      <3>2. QED
        BY <1>4, <1>a, <3>1
    <2>3. QED
      BY <2>1, <2>2
  <1>19. ASSUME NEW t \in Threads, NEW Poor, SendAllUserData(t, Poor) PROVE OrderInv' /\ Forward
    <2>1. CASE user /\ changed # {}
      <3> DEFINE diff == changed \cup Recalculated(changed)
                 m    == Marshal(diff, version')
      <3>1. /\ version' = Raise(Recalculated(changed)) /\ version' \in [Records -> Nat]
            /\ diff \in SUBSET Records /\ m \in Messages /\ UNCHANGED view
            /\ queue' = Put(queue, Open, m)
        BY <1>19, <2>1, PushFacts
      <3>2. \A r \in DOMAIN m : m[r] = version'[r]
        BY <1>17, <3>1
      <3> HIDE DEF m
      <3>3. QED
        BY <1>1, <1>16, <3>1, <3>2
    <2>2. CASE ~(user /\ changed # {})
      BY <1>2, <1>19, <2>2 DEF SendAllUserData
    <2>3. QED
      BY <2>1, <2>2
  <1>20. QED
    BY <1>5, <1>6, <1>7, <1>8, <1>9, <1>10, <1>11, <1>12, <1>13, <1>14, <1>15, <1>18, <1>19 DEF Next

\* No client is ever shown an older version of a record after a newer one, for any
\* connections, records and interleavings (messages are built and queued under userMu,
\* and one writeLoop writes them in order).
THEOREM OrderCorrect == Spec => ViewsNeverRegress
  <1>1. Init => OrderInv
    <2> SUFFICES ASSUME Init, NEW c \in Clients, NEW r \in Records
                 PROVE  Rising(queue[c], view[c], version, r)
      BY DEF OrderInv
    <2>1. queue[c] = <<>> /\ view[c][r] = 0 /\ version[r] = 0
      BY DEF Init
    <2>2. QED
      BY <2>1 DEF Rising
  <1>2. TypeInv /\ OrderInv /\ [Next]_vars =>
           [\A c \in Clients, r \in Records : conn'[c] = "open" => view'[c][r] >= view[c][r]]_vars
    BY OrderNext
  <1>3. TypeInv /\ OrderInv /\ [Next]_vars => OrderInv'
    BY OrderNext
  <1>4. QED
    BY <1>1, <1>2, <1>3, InitTypes, TypesNext, PTL DEF Spec, ViewsNeverRegress
=============================================================================
