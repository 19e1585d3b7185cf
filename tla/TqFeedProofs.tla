------------------------------ MODULE TqFeedProofs -----------------------------
(***************************************************************************)
(* Proofs about TqFeed, for any symbols, capacities of the channels and    *)
(* number of connections.                                                  *)
(***************************************************************************)
EXTENDS TqFeed, FiniteSetTheorems, SequenceTheorems, TLAPS

-----------------------------------------------------------------------------
(* The queue of requests, txC.                                             *)

Requests == {Peek} \cup {SubscribeQuote(l) : l \in Lists}

NoLists(q) == \A i \in 1..Len(q) : q[i].peek
HasPeek(q) == \E i \in 1..Len(q) : q[i].peek

\* The last list in q, if there is one, is l.
LastListIs(q, l) ==
    \A i \in 1..Len(q) : ~q[i].peek /\ (\A j \in 1..Len(q) : j > i => q[j].peek) => q[i].list = l

\* Behind every list of q comes a peek_message.
Followed(q) == \A i \in 1..Len(q) : ~q[i].peek => \E j \in 1..Len(q) : j > i /\ q[j].peek

LEMMA RequestFacts ==
    /\ Peek \in Requests /\ Peek.peek
    /\ \A l \in Lists : /\ SubscribeQuote(l) \in Requests
                        /\ ~SubscribeQuote(l).peek /\ SubscribeQuote(l).list = l
    /\ \A m \in Requests : m.peek \in BOOLEAN /\ m.list \in Lists
  <1>1. Peek \in Requests /\ Peek.peek
    BY DEF Requests, Peek
  <1>2. ASSUME NEW l \in Lists
        PROVE  /\ SubscribeQuote(l) \in Requests
               /\ ~SubscribeQuote(l).peek /\ SubscribeQuote(l).list = l
    BY DEF Requests, SubscribeQuote
  <1>3. {} \in Lists
    BY DEF Lists
  <1>4. ASSUME NEW m \in Requests PROVE m.peek \in BOOLEAN /\ m.list \in Lists
    <2>1. CASE m = Peek
      BY <1>3, <2>1 DEF Peek
    <2>2. CASE m # Peek
      <3>1. PICK l \in Lists : m = SubscribeQuote(l)
        BY <2>2 DEF Requests
      <3>2. QED
        BY <3>1 DEF SubscribeQuote
    <2>3. QED
      BY <2>1, <2>2
  <1>5. QED
    BY <1>1, <1>2, <1>4

LEMMA AppendFacts ==
    ASSUME NEW q \in Seq(Requests), NEW m \in Requests
    PROVE  LET r == Append(q, m) IN
           /\ r \in Seq(Requests) /\ Len(r) = Len(q) + 1 /\ Len(q) \in Nat
           /\ m.peek => /\ Followed(r) /\ HasPeek(r)
                        /\ NoLists(r) <=> NoLists(q)
                        /\ \A l : LastListIs(q, l) => LastListIs(r, l)
           /\ ~m.peek => ~NoLists(r) /\ LastListIs(r, m.list)
           /\ HasPeek(q) => HasPeek(r)
  <1> DEFINE r == Append(q, m)
             n == Len(q)
  <1>1. /\ r \in Seq(Requests) /\ Len(r) = n + 1 /\ n \in Nat
        /\ r[n + 1] = m /\ \A i \in 1..n : r[i] = q[i]
    BY AppendProperties
  <1> HIDE DEF r, n
  <1>2. ASSUME m.peek
        PROVE  Followed(r) /\ HasPeek(r)
    BY <1>1, <1>2 DEF Followed, HasPeek
  <1>3. ASSUME m.peek
        PROVE  NoLists(r) <=> NoLists(q)
    BY <1>1, <1>3 DEF NoLists, n
  <1>4. ASSUME m.peek, NEW l, LastListIs(q, l)
        PROVE  LastListIs(r, l)
    <2> SUFFICES ASSUME NEW i \in 1..(n + 1), ~r[i].peek,
                        \A j \in 1..(n + 1) : j > i => r[j].peek
                 PROVE  r[i].list = l
      BY <1>1 DEF LastListIs
    <2>1. i \in 1..n
      BY <1>1, <1>4
    <2>2. \A j \in 1..n : j > i => q[j].peek
      BY <1>1
    <2>3. QED
      BY <1>1, <1>4, <2>1, <2>2 DEF LastListIs, n
  <1>5. ASSUME ~m.peek
        PROVE  ~NoLists(r) /\ LastListIs(r, m.list)
    <2>1. ~NoLists(r)
      BY <1>1, <1>5 DEF NoLists
    <2> SUFFICES ASSUME NEW i \in 1..(n + 1), ~r[i].peek,
                        \A j \in 1..(n + 1) : j > i => r[j].peek
                 PROVE  r[i].list = m.list
      BY <1>1, <2>1 DEF LastListIs
    <2>2. i = n + 1
      BY <1>1, <1>5
    <2>3. QED
      BY <1>1, <2>2
  <1>6. HasPeek(q) => HasPeek(r)
    BY <1>1 DEF HasPeek, n
  <1>7. QED
    BY <1>1, <1>2, <1>3, <1>4, <1>5, <1>6 DEF r, n

LEMMA TailFacts ==
    ASSUME NEW q \in Seq(Requests), q # <<>>
    PROVE  LET t == Tail(q) IN
           /\ t \in Seq(Requests) /\ Len(t) = Len(q) - 1 /\ Len(q) \in Nat /\ Head(q) \in Requests
           /\ Followed(q) => Followed(t)
           /\ \A l : LastListIs(q, l) => LastListIs(t, l)
           /\ Head(q).peek => (NoLists(t) <=> NoLists(q))
           /\ ~Head(q).peek => /\ Followed(q) => HasPeek(t)
                               /\ HasPeek(q) => HasPeek(t)
                               /\ \A l : NoLists(t) /\ LastListIs(q, l) => Head(q).list = l
  <1> DEFINE t == Tail(q)
             n == Len(q)
  <1>1. /\ t \in Seq(Requests) /\ n \in Nat /\ n > 0 /\ Len(t) = n - 1
        /\ Head(q) = q[1] /\ Head(q) \in Requests
        /\ \A i \in 1..(n - 1) : t[i] = q[i + 1]
    BY HeadTailProperties
  <1>2. \A i \in 2..n : i - 1 \in 1..(n - 1) /\ t[i - 1] = q[i]
    BY <1>1
  <1>3. \A i \in 1..(n - 1) : i + 1 \in 1..n /\ i + 1 > 1
    BY <1>1
  <1> HIDE DEF t, n
  <1>4. ASSUME Followed(q) PROVE Followed(t)
    <2> SUFFICES ASSUME NEW i \in 1..(n - 1), ~t[i].peek
                 PROVE  \E j \in 1..(n - 1) : j > i /\ t[j].peek
      BY <1>1 DEF Followed
    <2>1. PICK j \in 1..n : j > i + 1 /\ q[j].peek
      BY <1>1, <1>3, <1>4 DEF Followed, n
    <2>2. j - 1 \in 1..(n - 1) /\ j - 1 > i /\ t[j - 1] = q[j]
      BY <1>1, <1>2, <2>1
    <2>3. QED
      BY <2>1, <2>2
  <1>5. ASSUME NEW l, LastListIs(q, l) PROVE LastListIs(t, l)
    <2> SUFFICES ASSUME NEW i \in 1..(n - 1), ~t[i].peek,
                        \A j \in 1..(n - 1) : j > i => t[j].peek
                 PROVE  t[i].list = l
      BY <1>1 DEF LastListIs
    <2>1. ASSUME NEW j \in 1..n, j > i + 1 PROVE q[j].peek
      <3>1. j - 1 \in 1..(n - 1) /\ j - 1 > i /\ t[j - 1] = q[j]
        BY <1>1, <1>2, <2>1
      <3>2. QED
        BY <3>1
    <2>2. i + 1 \in 1..n /\ t[i] = q[i + 1]
      BY <1>1, <1>3
    <2>3. QED
      BY <1>5, <2>1, <2>2 DEF LastListIs, n
  <1>6. ASSUME Head(q).peek PROVE NoLists(t) <=> NoLists(q)
    <2>1. ASSUME NoLists(t), NEW i \in 1..n PROVE q[i].peek
      <3>1. CASE i = 1
        BY <1>1, <1>6, <3>1
      <3>2. CASE i # 1
        <4>1. i \in 2..n
          BY <1>1, <2>1, <3>2
        <4>2. QED
          BY <1>1, <1>2, <2>1, <4>1 DEF NoLists
      <3>3. QED
        BY <3>1, <3>2
    <2>2. NoLists(q) => NoLists(t)
      BY <1>1, <1>3 DEF NoLists, n
    <2>3. QED
      BY <2>1, <2>2 DEF NoLists, n
  <1>7. ASSUME ~Head(q).peek, Followed(q) \/ HasPeek(q) PROVE HasPeek(t)
    <2>1. PICK j \in 1..n : q[j].peek
      BY <1>1, <1>7 DEF Followed, HasPeek, n
    <2>2. j # 1
      BY <1>1, <1>7, <2>1
    <2>3. j \in 2..n
      BY <1>1, <2>1, <2>2
    <2>4. QED
      BY <1>1, <1>2, <2>1, <2>3 DEF HasPeek
  <1>8. ASSUME ~Head(q).peek, NEW l, NoLists(t), LastListIs(q, l) PROVE Head(q).list = l
    <2>1. ASSUME NEW j \in 1..n, j > 1 PROVE q[j].peek
      <3>1. j \in 2..n
        BY <1>1, <2>1
      <3>2. QED
        BY <1>1, <1>2, <1>8, <3>1 DEF NoLists
    <2>2. QED
      BY <1>1, <1>8, <2>1 DEF LastListIs, n
  <1>9. QED
    BY <1>1, <1>4, <1>5, <1>6, <1>7, <1>8 DEF t, n

-----------------------------------------------------------------------------
TypeInv == TypeOK /\ txC \in Seq(Requests)

Working == {"top", "reading", "delivering", "handing", "dialing"}

(* The connection in c.conn has the one writer and the one reader there    *)
(* may be; a reader dials only when its writer has ended.                  *)
WorkerInv ==
    \A g \in Gens :
        /\ writer[g] => g = gen
        /\ reader[g] \in Working => g = gen
        /\ g > gen => reader[g] = "off"
        /\ reader[g] = "dialing" => \A w \in Gens : ~writer[w]

(* Whatever is on its way to the server ends with the client's list, or    *)
(* the goroutine that changed the list is about to send it.                *)
ListInv ==
    /\ caller.at = "list" => caller.list = subSet
    /\ caller.at = "idle" => caller = Idle
    /\ ~overtaken =>
        /\ \A g \in Gens : reader[g] = "list" => built[g] = subSet
        /\ caller.at = "list" \/ LastListIs(txC, subSet)
        /\ link = "up" /\ NoLists(txC) =>
            \/ server.list = subSet \/ caller.at = "list"
            \/ server.list = {} /\ \E g \in Gens : reader[g] \in {"back", "building", "list"}

AboutToPeek == caller.at = "peek" \/ \E g \in Gens : reader[g] = "peek"

(* The next exchange of peek_message and rtn_data is somewhere.            *)
Token ==
    \/ server.peeked \/ rxC > 0 \/ recv \in {"calling", "peeking"}
    \/ \E g \in Gens : reader[g] = "delivering"
    \/ HasPeek(txC) \/ AboutToPeek

PeekInv ==
    /\ Followed(txC) \/ AboutToPeek
    /\ link = "up" /\ server.list # {} => Token

FeedInv == TypeInv /\ WorkerInv /\ ListInv /\ PeekInv

LEMMA InitFeed == Init => FeedInv
  <1> SUFFICES ASSUME Init PROVE FeedInv
    OBVIOUS
  <1>1. /\ MaxGen \in Nat /\ MaxGen >= 1 /\ 1 \in Gens /\ {} \in Lists
        /\ txC = <<>> /\ Len(txC) = 0 /\ txC \in Seq(Requests)
    BY TqFeedAssumption DEF Init, Gens, Lists
  <1>2. TypeInv
    <2>1. reader \in [Gens -> ReaderSteps] /\ writer \in [Gens -> BOOLEAN] /\ built \in [Gens -> Lists]
      BY <1>1 DEF Init, ReaderSteps
    <2>2. alive \in BOOLEAN /\ writeFailed \in BOOLEAN /\ overtaken \in BOOLEAN
      BY DEF Init
    <2>3. rxC \in 0..Rx /\ Len(txC) <= Tx /\ DOMAIN txC = {}
      BY <1>1, TqFeedAssumption DEF Init
    <2>4. QED
      BY <1>1, <2>1, <2>2, <2>3 DEF Init, TypeInv, TypeOK, Idle, Fresh
  <1>3. WorkerInv
    <2>1. \A g \in Gens : reader[g] = (IF g = 1 THEN "top" ELSE "off") /\ writer[g] = (g = 1)
      BY DEF Init
    <2>2. gen = 1 /\ \A g \in Gens : g > 1 => g # 1
      BY DEF Init, Gens
    <2>3. QED
      BY <2>1, <2>2 DEF WorkerInv, Working
  <1>4. ListInv
    BY <1>1 DEF Init, ListInv, LastListIs, Idle, Fresh
  <1>5. PeekInv
    BY <1>1 DEF Init, PeekInv, Followed, Fresh
  <1>6. QED
    BY <1>2, <1>3, <1>4, <1>5 DEF FeedInv

-----------------------------------------------------------------------------
(* Types.                                                                  *)

LEMMA QueueTypes ==
    ASSUME NEW q \in Seq(Requests)
    PROVE  \A i \in DOMAIN q : q[i] \in {Peek} \cup {SubscribeQuote(l) : l \in Lists}
  BY DEF Requests

LEMMA ReaderTypes ==
    ASSUME TypeInv, NEW g \in Gens, ReaderStep(g)
    PROVE  TypeInv'
  <1> USE DEF TypeInv, TypeOK, At, Go, hist
  <1>1. ASSUME NEW s \in ReaderSteps, Go(g, s) PROVE reader' \in [Gens -> ReaderSteps]
    BY <1>1
  <1>2. CASE ReadTop(g)
    BY <1>1, <1>2 DEF ReadTop, ReaderSteps
  <1>3. CASE Read(g)
    <2>1. server' \in [list: Lists, peeked: BOOLEAN]
      BY <1>3 DEF Read
    <2>2. QED
      BY <1>1, <1>3, <2>1 DEF Read, ReaderSteps
  <1>4. CASE Deliver(g)
    <2>1. rxC' \in 0..Rx
      BY <1>4, TqFeedAssumption DEF Deliver
    <2>2. QED
      BY <1>1, <1>4, <2>1 DEF Deliver, ReaderSteps
  <1>5. CASE ReadFails(g)
    BY <1>1, <1>5 DEF ReadFails, ReaderSteps
  <1>6. CASE HandOver(g)
    <2>1. writer' \in [Gens -> BOOLEAN]
      BY <1>6 DEF HandOver
    <2>2. QED
      BY <1>1, <1>6, <2>1 DEF HandOver, ReaderSteps
  <1>7. CASE Dial(g)
    <2>1. gen' \in Gens
      BY <1>7, TqFeedAssumption DEF Dial, Gens
    <2>2. reader' \in [Gens -> ReaderSteps] /\ writer' \in [Gens -> BOOLEAN]
      BY <1>7 DEF Dial, ReaderSteps
    <2>3. server' \in [list: Lists, peeked: BOOLEAN]
      BY <1>7 DEF Dial, Fresh, Lists
    <2>4. QED
      BY <1>7, <2>1, <2>2, <2>3 DEF Dial
  <1>8. CASE OnReconnect(g)
    BY <1>1, <1>8 DEF OnReconnect, ReaderSteps
  <1>9. CASE BuildList(g)
    BY <1>1, <1>9 DEF BuildList, ReaderSteps
  <1>10. CASE Resend(g)
    <2>1. ASSUME NEW m \in Requests, Len(txC) < Tx, txC' = Append(txC, m)
          PROVE  txC' \in Seq(Requests) /\ Len(txC') <= Tx
      BY <2>1, AppendFacts, TqFeedAssumption
    <2>2. txC' \in Seq(Requests) /\ Len(txC') <= Tx
      <3>1. built[g] \in Lists
        OBVIOUS
      <3>2. QED
        BY <1>10, <2>1, <3>1, RequestFacts DEF Resend
    <2>3. built' \in [Gens -> Lists] /\ reader' \in [Gens -> ReaderSteps]
      <3>1. {} \in Lists
        BY DEF Lists
      <3>2. built' \in [Gens -> Lists]
        BY <1>10, <3>1 DEF Resend
      <3>3. QED
        BY <1>1, <1>10, <3>2 DEF Resend, ReaderSteps
    <2>4. QED
      BY <1>10, <2>2, <2>3, QueueTypes DEF Resend
  <1>11. QED
    BY <1>2, <1>3, <1>4, <1>5, <1>6, <1>7, <1>8, <1>9, <1>10 DEF ReaderStep

LEMMA TypesNext == TypeInv /\ [Next]_vars => TypeInv'
  <1> SUFFICES ASSUME TypeInv, [Next]_vars PROVE TypeInv'
    OBVIOUS
  <1> USE DEF TypeInv, TypeOK
  <1>1. CASE UNCHANGED vars
    BY <1>1 DEF vars, conns, hist
  <1>2. ASSUME NEW w \in Gens, Write(w) \/ WriteFails(w) \/ WriterQuits(w) PROVE TypeInv'
    <2>1. txC' \in Seq(Requests) /\ Len(txC') <= Tx
      <3>1. ASSUME txC # <<>>, txC' = Tail(txC) PROVE txC' \in Seq(Requests) /\ Len(txC') <= Tx
        BY <3>1, TailFacts, TqFeedAssumption
      <3>2. QED
        BY <1>2, <3>1 DEF Write, WriteFails, WriterQuits
    <2>2. CASE Write(w)
      <3>1. Head(txC).peek \in BOOLEAN /\ Head(txC).list \in Lists
        BY <2>2, TailFacts, RequestFacts DEF Write
      <3>2. server' \in [list: Lists, peeked: BOOLEAN]
        BY <2>2, <3>1 DEF Write
      <3>3. QED
        BY <2>1, <2>2, <3>2, QueueTypes DEF Write, hist
    <2>3. CASE WriteFails(w)
      BY <2>1, <2>3, QueueTypes DEF WriteFails
    <2>4. CASE WriterQuits(w)
      BY <2>4 DEF WriterQuits, hist
    <2>5. QED
      BY <1>2, <2>2, <2>3, <2>4
  <1>3. CASE Receive
    <2>1. rxC' \in 0..Rx
      BY <1>3, TqFeedAssumption DEF Receive
    <2>2. QED
      BY <1>3, <2>1 DEF Receive, conns, hist
  <1>4. CASE OnQuotes \/ RecvQuits
    BY <1>4 DEF OnQuotes, RecvQuits, conns, hist
  <1>5. ASSUME NEW m \in Requests, Len(txC) < Tx, txC' = Append(txC, m)
        PROVE  txC' \in Seq(Requests) /\ Len(txC') <= Tx
    BY <1>5, AppendFacts, TqFeedAssumption
  <1>6. CASE PeekAgain
    <2>1. txC' \in Seq(Requests) /\ Len(txC') <= Tx
      BY <1>5, <1>6, RequestFacts DEF PeekAgain
    <2>2. QED
      BY <1>6, <2>1, QueueTypes DEF PeekAgain, conns, hist
  <1>7. CASE SendRequest
    <2>1. txC' \in Seq(Requests) /\ Len(txC') <= Tx
      BY <1>5, <1>7, RequestFacts DEF SendRequest
    <2>2. caller' \in [at: {"idle", "list", "peek"}, list: Lists] /\ userMu' \in {"free", "caller"}
      BY <1>7 DEF SendRequest, Idle, Lists
    <2>3. QED
      BY <1>7, <2>1, <2>2, QueueTypes DEF SendRequest, conns, hist
  <1>8. ASSUME NEW S \in Lists, Subscribe(S) \/ Unsubscribe(S) PROVE TypeInv'
    <2>1. subSet' \in Lists
      <3>1. subSet \cup S \in Lists /\ subSet \ S \in Lists
        BY DEF Lists
      <3>2. QED
        BY <1>8, <3>1 DEF Subscribe, Unsubscribe, Change
    <2>2. caller' \in [at: {"idle", "list", "peek"}, list: Lists] /\ userMu' \in {"free", "caller"}
      <3>1. caller' = [at |-> "list", list |-> subSet']
        BY <1>8 DEF Subscribe, Unsubscribe, Change
      <3>2. userMu' \in {"free", "caller"}
        BY <1>8 DEF Subscribe, Unsubscribe
      <3>3. QED
        BY <2>1, <3>1, <3>2
    <2>3. alive' \in BOOLEAN /\ overtaken' \in BOOLEAN
      BY <1>8 DEF Subscribe, Unsubscribe, Change
    <2>4. QED
      BY <1>8, <2>1, <2>2, <2>3 DEF Subscribe, Unsubscribe, conns
  <1>9. CASE Close \/ LoseConnection
    BY <1>9 DEF Close, CloseStep, LoseConnection, hist
  <1>10. QED
    BY <1>1, <1>2, <1>3, <1>4, <1>6, <1>7, <1>8, <1>9, ReaderTypes DEF Next, WriterStep, RecvStep

\* Every variable of the feed keeps its type, whatever the goroutines and the server do.
THEOREM TypeCorrect == Spec => []TypeOK
  <1>1. Init => TypeInv
    BY InitFeed DEF FeedInv
  <1>2. TypeInv => TypeOK
    BY DEF TypeInv
  <1>3. QED
    BY <1>1, <1>2, TypesNext, PTL DEF Spec

-----------------------------------------------------------------------------
(* The goroutines.                                                         *)

LEMMA GensFacts ==
    ASSUME TypeInv
    PROVE  /\ gen \in Nat /\ MaxGen \in Nat /\ Gens \subseteq Nat
           /\ gen < MaxGen => gen + 1 \in Gens /\ gen + 1 # gen
  BY TqFeedAssumption DEF TypeInv, TypeOK, Gens

LEMMA WorkerNext == TypeInv /\ WorkerInv /\ [Next]_vars => WorkerInv'
  <1> SUFFICES ASSUME TypeInv, WorkerInv, [Next]_vars PROVE WorkerInv'
    OBVIOUS
  <1>0. /\ reader \in [Gens -> ReaderSteps] /\ writer \in [Gens -> BOOLEAN]
        /\ gen \in Gens
    BY DEF TypeInv, TypeOK
  <1>1. ASSUME UNCHANGED <<gen, reader, writer>> PROVE WorkerInv'
    BY <1>1 DEF WorkerInv
  <1>2. CASE UNCHANGED vars
    BY <1>1, <1>2 DEF vars, conns
  <1>3. ASSUME NEW g \in Gens, NEW s, Go(g, s), s # "dialing", reader[g] # "off",
               s \in Working => reader[g] \in Working, UNCHANGED <<gen, writer>>
        PROVE  WorkerInv'
    BY <1>0, <1>3 DEF WorkerInv, Go
  <1>4. ASSUME NEW w \in Gens, writer' = [writer EXCEPT ![w] = FALSE], UNCHANGED <<gen, reader>>
        PROVE  WorkerInv'
    BY <1>0, <1>4 DEF WorkerInv
  <1>5. ASSUME NEW g \in Gens, ReaderStep(g) PROVE WorkerInv'
    <2> USE DEF At
    <2>1. CASE ReadTop(g)
      BY <1>3, <2>1 DEF ReadTop, Working
    <2>2. CASE Read(g)
      BY <1>3, <2>2 DEF Read, Working
    <2>3. CASE Deliver(g)
      BY <1>3, <2>3 DEF Deliver, Working
    <2>4. CASE ReadFails(g)
      BY <1>3, <2>4 DEF ReadFails, Working
    <2>5. CASE HandOver(g)
      <3>1. PICK w \in Gens : writer[w] /\ writer' = [writer EXCEPT ![w] = FALSE]
        BY <2>5 DEF HandOver
      <3>2. \A v \in Gens : ~writer'[v]
        BY <1>0, <3>1 DEF WorkerInv
      <3>3. /\ \A h \in Gens : reader'[h] = IF h = g THEN "dialing" ELSE reader[h]
            /\ g = gen /\ gen' = gen
        BY <1>0, <2>5 DEF HandOver, Go, WorkerInv, Working
      <3>4. QED
        BY <3>2, <3>3, GensFacts DEF WorkerInv, Working
    <2>6. CASE Dial(g)
      <3>1. g = gen /\ \A w \in Gens : ~writer[w]
        BY <2>6 DEF Dial, WorkerInv, Working
      <3>2. gen' = gen + 1 /\ gen + 1 \in Gens /\ gen + 1 # gen
        BY <2>6, GensFacts DEF Dial
      <3>3. \A h \in Gens :
              /\ reader'[h] = IF h = gen + 1 THEN "top" ELSE IF h = gen THEN "back" ELSE reader[h]
              /\ writer'[h] = IF h = gen + 1 THEN TRUE ELSE writer[h]
        BY <1>0, <2>6, <3>1, <3>2 DEF Dial
      <3>4. ASSUME NEW h \in Gens, h # gen + 1 PROVE ~writer'[h] /\ reader'[h] \notin Working
        <4>1. h # gen => reader[h] \notin Working
          BY DEF WorkerInv
        <4>2. "back" \notin Working
          BY DEF Working
        <4>3. QED
          BY <3>1, <3>3, <3>4, <4>1, <4>2
      <3>5. ASSUME NEW h \in Gens PROVE h > gen + 1 => reader'[h] = "off"
        <4>1. h > gen + 1 => h > gen /\ h # gen /\ h # gen + 1
          BY GensFacts
        <4>2. QED
          BY <3>3, <4>1 DEF WorkerInv
      <3>7. \A h \in Gens : reader'[h] # "dialing"
        BY <3>3, <3>4 DEF Working
      <3>6. QED
        BY <3>2, <3>4, <3>5, <3>7 DEF WorkerInv
    <2>7. CASE OnReconnect(g)
      BY <1>3, <2>7 DEF OnReconnect, Working
    <2>8. CASE BuildList(g)
      BY <1>3, <2>8 DEF BuildList, Working
    <2>9. CASE Resend(g)
      BY <1>3, <2>9 DEF Resend, Working
    <2>10. QED
      BY <1>5, <2>1, <2>2, <2>3, <2>4, <2>5, <2>6, <2>7, <2>8, <2>9 DEF ReaderStep
  <1>6. ASSUME NEW w \in Gens, WriterStep(w) PROVE WorkerInv'
    BY <1>1, <1>4, <1>6 DEF WriterStep, Write, WriteFails, WriterQuits
  <1>7. CASE RecvStep \/ SendRequest \/ Close \/ LoseConnection
    BY <1>1, <1>7 DEF RecvStep, Receive, OnQuotes, PeekAgain, RecvQuits, SendRequest, Close,
                      LoseConnection, conns
  <1>8. ASSUME NEW S \in Lists, Subscribe(S) \/ Unsubscribe(S) PROVE WorkerInv'
    BY <1>1, <1>8 DEF Subscribe, Unsubscribe, conns
  <1>9. QED
    BY <1>2, <1>5, <1>6, <1>7, <1>8 DEF Next

LEMMA AtMostOne ==
    ASSUME NEW S \in SUBSET Gens, gen \in Gens, \A g \in S : g = gen
    PROVE  Cardinality(S) <= 1
  <1>1. S \subseteq {gen}
    OBVIOUS
  <1>2. IsFiniteSet({gen}) /\ Cardinality({gen}) = 1
    BY FS_Singleton
  <1>3. Cardinality(S) <= Cardinality({gen})
    BY <1>1, <1>2, FS_Subset
  <1>4. QED
    BY <1>2, <1>3

\* Two goroutines never write, or read, at the same time, however often connections
\* are lost and dialled again (the hand-over in reconnect, and Close beside it).
THEOREM OneWorkerCorrect == Spec => []OneWriterOneReader
  <1>1. TypeInv /\ WorkerInv => OneWriterOneReader
    <2> SUFFICES ASSUME TypeInv, WorkerInv PROVE OneWriterOneReader
      OBVIOUS
    <2>1. gen \in Gens
      BY DEF TypeInv, TypeOK
    <2>2. Cardinality({w \in Gens : writer[w]}) <= 1
      BY <2>1, AtMostOne DEF WorkerInv
    <2>3. Cardinality({g \in Gens : reader[g] \in Working}) <= 1
      BY <2>1, AtMostOne DEF WorkerInv
    <2>4. QED
      BY <2>2, <2>3 DEF OneWriterOneReader, Working
  <1>2. Init => TypeInv /\ WorkerInv
    BY InitFeed DEF FeedInv
  <1>3. QED
    BY <1>1, <1>2, TypesNext, WorkerNext, PTL DEF Spec

-----------------------------------------------------------------------------
(* The lists.                                                              *)

LEMMA TypeFacts ==
    ASSUME TypeInv
    PROVE  /\ reader \in [Gens -> ReaderSteps] /\ built \in [Gens -> Lists]
           /\ txC \in Seq(Requests) /\ subSet \in Lists
           /\ server \in [list: Lists, peeked: BOOLEAN]
           /\ caller \in [at: {"idle", "list", "peek"}, list: Lists]
  BY DEF TypeInv, TypeOK

LEMMA ListNext == TypeInv /\ WorkerInv /\ ListInv /\ [Next]_vars => ListInv'
  <1> SUFFICES ASSUME TypeInv, WorkerInv, ListInv, [Next]_vars PROVE ListInv'
    OBVIOUS
  <1> USE TypeFacts
  <1> DEFINE Listing(s) == s \in {"back", "building", "list"}
  (* A step of a reader that sends nothing.                                *)
  <1>1. ASSUME NEW g \in Gens, NEW s, Go(g, s), UNCHANGED <<subSet, txC, caller, overtaken>>,
               s = "list" => built'[g] = subSet,
               \A h \in Gens \ {g} : built'[h] = built[h],
               link' # "up" \/ UNCHANGED <<link, server>>,
               Listing(reader[g]) => Listing(s) \/ subSet = {}
        PROVE  ListInv'
    <2>1. /\ reader'[g] = s
          /\ \A h \in Gens \ {g} : reader'[h] = reader[h]
      BY <1>1 DEF Go
    <2>2. \A h \in Gens : Listing(reader[h]) => Listing(reader'[h]) \/ subSet = {}
      BY <1>1, <2>1
    <2>3. ~overtaken => \A h \in Gens : reader'[h] = "list" => built'[h] = subSet
      BY <1>1, <2>1 DEF ListInv
    <2>4. QED
      BY <1>1, <2>2, <2>3 DEF ListInv
  (* A step that sends nothing, elsewhere.                                 *)
  <1>2. ASSUME UNCHANGED <<subSet, txC, caller, overtaken, reader, built>>,
               link' # "up" \/ UNCHANGED <<link, server>>
        PROVE  ListInv'
    BY <1>2 DEF ListInv
  (* A peek_message is sent.                                               *)
  <1>3. ASSUME txC' = Append(txC, Peek), UNCHANGED <<subSet, overtaken, built, link, server>>,
               caller' = caller \/ (caller.at = "peek" /\ caller' = Idle),
               \A h \in Gens : \/ reader'[h] = reader[h]
                               \/ reader[h] = "peek" /\ reader'[h] = "off"
        PROVE  ListInv'
    <2>1. /\ NoLists(txC') <=> NoLists(txC)
          /\ LastListIs(txC, subSet) => LastListIs(txC', subSet)
      BY <1>3, AppendFacts, RequestFacts
    <2>2. caller'.at = "list" <=> caller.at = "list"
      BY <1>3 DEF Idle
    <2>3. \A h \in Gens : /\ Listing(reader'[h]) <=> Listing(reader[h])
                          /\ reader'[h] = "list" <=> reader[h] = "list"
      BY <1>3
    <2>4. QED
      BY <1>3, <2>1, <2>2, <2>3 DEF ListInv, Idle
  (* A list is sent.                                                       *)
  <1>4. ASSUME NEW l \in Lists, txC' = Append(txC, SubscribeQuote(l)), ~overtaken => l = subSet,
               UNCHANGED <<subSet, overtaken, link, server>>,
               caller' = caller \/ caller'.at = "peek",
               ~overtaken => \A h \in Gens : reader'[h] = "list" => built'[h] = subSet
        PROVE  ListInv'
    <2>1. /\ SubscribeQuote(l) \in Requests
          /\ ~SubscribeQuote(l).peek /\ SubscribeQuote(l).list = l
      BY RequestFacts
    <2>2. ~NoLists(txC') /\ LastListIs(txC', l)
      BY <1>4, <2>1, AppendFacts
    <2>3. QED
      BY <1>4, <2>2 DEF ListInv
  <1>5. CASE UNCHANGED vars
    BY <1>2, <1>5 DEF vars, conns, hist
  <1>6. ASSUME NEW g \in Gens, ReaderStep(g) PROVE ListInv'
    <2> USE DEF At
    <2>1. CASE ReadTop(g)
      BY <1>1, <2>1 DEF ReadTop, hist
    <2>2. CASE Read(g)
      <3>1. server'.list = server.list
        BY <2>2 DEF Read
      <3>2. \A h \in Gens : reader'[h] = IF h = g THEN "delivering" ELSE reader[h]
        BY <2>2 DEF Read, Go
      <3>3. \A h \in Gens : /\ Listing(reader'[h]) <=> Listing(reader[h])
                            /\ reader'[h] = "list" <=> reader[h] = "list"
        BY <2>2, <3>2 DEF Read
      <3>4. QED
        BY <2>2, <3>1, <3>3 DEF Read, ListInv, hist
    <2>3. CASE Deliver(g)
      BY <1>1, <2>3 DEF Deliver, hist
    <2>4. CASE ReadFails(g)
      BY <1>1, <2>4 DEF ReadFails, hist
    <2>5. CASE HandOver(g)
      BY <1>1, <2>5 DEF HandOver, hist
    <2>6. CASE Dial(g)
      <3>1. g = gen /\ gen + 1 # gen
        BY <2>6, GensFacts DEF Dial, WorkerInv, Working
      <3>2. \A h \in Gens :
              reader'[h] = IF h = gen + 1 THEN "top" ELSE IF h = gen THEN "back" ELSE reader[h]
        BY <2>6, <3>1 DEF Dial
      <3>3. server'.list = {} /\ \E h \in Gens : reader'[h] = "back"
        BY <2>6, <3>1, <3>2 DEF Dial, Fresh
      <3>4. \A h \in Gens : reader'[h] = "list" => reader[h] = "list"
        BY <3>2
      <3>5. QED
        BY <2>6, <3>3, <3>4 DEF Dial, ListInv, hist
    <2>7. CASE OnReconnect(g)
      BY <1>1, <2>7 DEF OnReconnect, hist
    <2>8. CASE BuildList(g)
      BY <1>1, <2>8 DEF BuildList, hist
    <2>9. CASE Resend(g)
      <3>1. CASE reader[g] = "list"
        <4>1. /\ txC' = Append(txC, SubscribeQuote(built[g])) /\ Go(g, "peek")
              /\ built' = [built EXCEPT ![g] = {}] /\ built[g] \in Lists
          BY <2>9, <3>1 DEF Resend
        <4>2. \A h \in Gens : reader'[h] = "list" => reader[h] = "list" /\ built'[h] = built[h]
          BY <4>1 DEF Go
        <4>3. QED
          BY <1>4, <2>9, <3>1, <4>1, <4>2 DEF Resend, ListInv, hist
      <3>2. CASE reader[g] = "peek"
        <4>1. \A h \in Gens : reader'[h] = IF h = g THEN "off" ELSE reader[h]
          BY <2>9, <3>2 DEF Resend, Go
        <4>2. QED
          BY <1>3, <2>9, <3>2, <4>1 DEF Resend, hist
      <3>3. QED
        BY <2>9, <3>1, <3>2 DEF Resend
    <2>10. QED
      BY <1>6, <2>1, <2>2, <2>3, <2>4, <2>5, <2>6, <2>7, <2>8, <2>9 DEF ReaderStep
  (* A request leaves the queue.                                           *)
  <1>7. ASSUME NEW w \in Gens, WriterStep(w) PROVE ListInv'
    <2>1. ASSUME txC # <<>>, txC' = Tail(txC)
          PROVE  LastListIs(txC, subSet) => LastListIs(txC', subSet)
      BY <2>1, TailFacts
    <2>2. CASE Write(w)
      <3>1. CASE link # "up"
        BY <2>1, <2>2, <3>1 DEF Write, ListInv, hist
      <3>2. CASE link = "up" /\ Head(txC).peek
        <4>1. NoLists(txC') <=> NoLists(txC)
          BY <2>2, <3>2, TailFacts DEF Write
        <4>2. server'.list = server.list
          BY <2>2, <3>2 DEF Write
        <4>3. QED
          BY <2>1, <2>2, <4>1, <4>2 DEF Write, ListInv, hist
      <3>3. CASE link = "up" /\ ~Head(txC).peek
        <4>1. NoLists(txC') /\ LastListIs(txC, subSet) => Head(txC).list = subSet
          BY <2>2, <3>3, TailFacts DEF Write
        <4>2. server'.list = Head(txC).list
          BY <2>2, <3>3 DEF Write
        <4>3. QED
          BY <2>1, <2>2, <4>1, <4>2 DEF Write, ListInv, hist
      <3>4. QED
        BY <3>1, <3>2, <3>3
    <2>3. CASE WriteFails(w)
      BY <2>1, <2>3 DEF WriteFails, ListInv
    <2>4. CASE WriterQuits(w)
      BY <1>2, <2>4 DEF WriterQuits, hist
    <2>5. QED
      BY <1>7, <2>2, <2>3, <2>4 DEF WriterStep
  <1>8. CASE Receive \/ OnQuotes \/ RecvQuits
    BY <1>2, <1>8 DEF Receive, OnQuotes, RecvQuits, conns, hist
  <1>9. CASE PeekAgain
    BY <1>3, <1>9 DEF PeekAgain, conns, hist
  <1>10. CASE SendRequest
    <2>1. CASE caller.at = "list"
      <3>1. caller.list \in Lists /\ txC' = Append(txC, SubscribeQuote(caller.list))
            /\ caller'.at = "peek"
        BY <1>10, <2>1 DEF SendRequest
      <3>2. QED
        BY <1>4, <1>10, <2>1, <3>1 DEF SendRequest, ListInv, conns, hist
    <2>2. CASE caller.at = "peek"
      BY <1>3, <1>10, <2>2 DEF SendRequest, conns, hist
    <2>3. QED
      BY <1>10, <2>1, <2>2 DEF SendRequest
  <1>11. ASSUME NEW S \in Lists, Subscribe(S) \/ Unsubscribe(S) PROVE ListInv'
    <2>1. caller' = [at |-> "list", list |-> subSet']
      BY <1>11 DEF Subscribe, Unsubscribe, Change
    <2>2. ~overtaken' => \A g \in Gens : reader'[g] # "list"
      BY <1>11 DEF Subscribe, Unsubscribe, Change, conns
    <2>3. QED
      BY <2>1, <2>2 DEF ListInv
  <1>12. CASE Close \/ LoseConnection
    BY <1>2, <1>12 DEF Close, LoseConnection, hist
  <1>13. QED
    BY <1>5, <1>6, <1>7, <1>8, <1>9, <1>10, <1>11, <1>12 DEF Next, RecvStep

\* At rest the server has the client's list, for any losses, dials and calls in
\* between, unless a list built before a change was sent after it (Subscribe,
\* Unsubscribe and the resubscription of OnReconnect on one queue).
THEOREM ListCorrect == Spec => []ListReached
  <1>1. ListInv => ListReached
    <2> SUFFICES ASSUME ListInv, Quiet, ~overtaken PROVE server.list = subSet
      BY DEF ListReached
    <2>1. NoLists(txC)
      BY DEF Quiet, NoLists
    <2>2. QED
      BY <2>1 DEF ListInv, Quiet, Idle
  <1>2. Init => TypeInv /\ WorkerInv /\ ListInv
    BY InitFeed DEF FeedInv
  <1>3. QED
    BY <1>1, <1>2, TypesNext, WorkerNext, ListNext, PTL DEF Spec

-----------------------------------------------------------------------------
(* The exchange of peek_message and rtn_data.                              *)

LEMMA PeekNext == TypeInv /\ WorkerInv /\ PeekInv /\ [Next]_vars => PeekInv'
  <1> SUFFICES ASSUME TypeInv, WorkerInv, PeekInv, [Next]_vars PROVE PeekInv'
    OBVIOUS
  <1> USE TypeFacts
  <1>a. /\ rxC \in Nat /\ server.peeked \in BOOLEAN
        /\ recv \in {"waiting", "calling", "peeking", "off"}
    BY TqFeedAssumption DEF TypeInv, TypeOK
  (* A step that neither sends nor ends an exchange.                       *)
  <1>1. ASSUME UNCHANGED <<txC, rxC, server>>,
               caller'.at = caller.at \/ caller.at = "idle",
               recv' = recv \/ recv' = "peeking" \/ (recv = "waiting" /\ recv' = "off"),
               \A h \in Gens : reader[h] \in {"peek", "delivering"} => reader'[h] = reader[h],
               link' = "up" => link = "up"
        PROVE  PeekInv'
    <2>1. AboutToPeek => AboutToPeek'
      BY <1>1 DEF AboutToPeek
    <2>2. Token => Token'
      BY <1>1, <2>1 DEF Token
    <2>3. QED
      BY <1>1, <2>1, <2>2 DEF PeekInv
  (* A peek_message is sent.                                               *)
  <1>2. ASSUME txC' = Append(txC, Peek) PROVE PeekInv'
    <2>1. Followed(txC') /\ HasPeek(txC')
      BY <1>2, AppendFacts, RequestFacts
    <2>2. QED
      BY <2>1 DEF PeekInv, Token
  (* A list is sent, and its peek_message is to follow.                    *)
  <1>3. ASSUME AboutToPeek' PROVE PeekInv'
    BY <1>3 DEF PeekInv, Token
  (* A step that keeps the queue, and after which something is handled.    *)
  <1>4. ASSUME UNCHANGED txC, AboutToPeek => AboutToPeek',
               link' = "up" /\ server'.list # {} => Token'
        PROVE  PeekInv'
    BY <1>4 DEF PeekInv
  <1>5. CASE UNCHANGED vars
    BY <1>1, <1>5 DEF vars, conns
  <1>6. ASSUME NEW g \in Gens, ReaderStep(g) PROVE PeekInv'
    <2> USE DEF At
    <2>0. ASSUME NEW s, Go(g, s), reader[g] # "peek"
          PROVE  /\ reader'[g] = s
                 /\ \A h \in Gens : reader[h] = "peek" => reader'[h] = "peek"
                 /\ reader[g] # "delivering" =>
                      \A h \in Gens : reader[h] \in {"peek", "delivering"} => reader'[h] = reader[h]
      BY <2>0 DEF Go
    <2>1. CASE ReadTop(g)
      BY <1>1, <2>0, <2>1 DEF ReadTop
    <2>2. CASE Read(g)
      <3>1. Token'
        BY <2>0, <2>2 DEF Read, Token
      <3>2. AboutToPeek => AboutToPeek'
        BY <2>0, <2>2 DEF Read, AboutToPeek
      <3>3. QED
        BY <1>4, <2>2, <3>1, <3>2 DEF Read
    <2>3. CASE Deliver(g)
      <3>1. Token'
        BY <1>a, <2>3 DEF Deliver, Token
      <3>2. AboutToPeek => AboutToPeek'
        BY <2>0, <2>3 DEF Deliver, AboutToPeek
      <3>3. QED
        BY <1>4, <2>3, <3>1, <3>2 DEF Deliver
    <2>4. CASE ReadFails(g)
      BY <1>1, <2>0, <2>4 DEF ReadFails
    <2>5. CASE HandOver(g)
      BY <1>1, <2>0, <2>5 DEF HandOver
    <2>6. CASE Dial(g)
      <3>1. g = gen /\ gen + 1 # gen /\ gen + 1 \in Gens /\ reader[gen + 1] = "off"
        BY <2>6, GensFacts DEF Dial, WorkerInv, Working
      <3>2. \A h \in Gens :
              reader'[h] = IF h = gen + 1 THEN "top" ELSE IF h = gen THEN "back" ELSE reader[h]
        BY <2>6, <3>1 DEF Dial
      <3>3. \A h \in Gens : reader[h] = "peek" => reader'[h] = "peek"
        BY <2>6, <3>1, <3>2 DEF Dial
      <3>4. AboutToPeek => AboutToPeek'
        BY <2>6, <3>3 DEF Dial, AboutToPeek
      <3>5. server'.list = {}
        BY <2>6 DEF Dial, Fresh
      <3>6. QED
        BY <1>4, <2>6, <3>4, <3>5 DEF Dial
    <2>7. CASE OnReconnect(g)
      BY <1>1, <2>0, <2>7 DEF OnReconnect
    <2>8. CASE BuildList(g)
      BY <1>1, <2>0, <2>8 DEF BuildList
    <2>9. CASE Resend(g)
      <3>1. CASE reader[g] = "list"
        BY <1>3, <2>0, <2>9, <3>1 DEF Resend, AboutToPeek
      <3>2. CASE reader[g] = "peek"
        BY <1>2, <2>9, <3>2 DEF Resend
      <3>3. QED
        BY <2>9, <3>1, <3>2 DEF Resend
    <2>10. QED
      BY <1>6, <2>1, <2>2, <2>3, <2>4, <2>5, <2>6, <2>7, <2>8, <2>9 DEF ReaderStep
  (* A request leaves the queue.                                           *)
  <1>7. ASSUME NEW w \in Gens, WriterStep(w) PROVE PeekInv'
    <2>1. CASE Write(w)
      <3>1. /\ txC # <<>> /\ txC' = Tail(txC) /\ UNCHANGED <<rxC, link, reader, recv, caller>>
            /\ AboutToPeek <=> AboutToPeek'
        BY <2>1 DEF Write, AboutToPeek
      <3>2. Followed(txC) => Followed(txC')
        BY <3>1, TailFacts
      <3>3. ASSUME link = "up", Head(txC).peek PROVE Token'
        BY <2>1, <3>3 DEF Write, Token
      <3>4. ASSUME ~Head(txC).peek PROVE Token'
        <4>1. Followed(txC) => HasPeek(txC')
          BY <3>1, <3>4, TailFacts
        <4>2. QED
          BY <3>1, <4>1 DEF PeekInv, Token
      <3>5. QED
        BY <3>1, <3>2, <3>3, <3>4 DEF PeekInv
    <2>2. CASE WriteFails(w)
      <3>1. Followed(txC) => Followed(txC')
        BY <2>2, TailFacts DEF WriteFails
      <3>2. link' # "up" /\ (AboutToPeek => AboutToPeek')
        BY <2>2 DEF WriteFails, AboutToPeek
      <3>3. QED
        BY <3>1, <3>2 DEF PeekInv
    <2>3. CASE WriterQuits(w)
      BY <1>1, <2>3 DEF WriterQuits
    <2>4. QED
      BY <1>7, <2>1, <2>2, <2>3 DEF WriterStep
  <1>8. CASE Receive
    <2>1. Token' /\ (AboutToPeek => AboutToPeek')
      BY <1>8 DEF Receive, Token, AboutToPeek, conns
    <2>2. QED
      BY <1>4, <1>8, <2>1 DEF Receive
  <1>9. CASE OnQuotes \/ RecvQuits
    BY <1>1, <1>9 DEF OnQuotes, RecvQuits, conns
  <1>10. CASE PeekAgain
    BY <1>2, <1>10 DEF PeekAgain
  <1>11. CASE SendRequest
    <2>1. CASE caller.at = "list"
      BY <1>3, <1>11, <2>1 DEF SendRequest, AboutToPeek
    <2>2. CASE caller.at = "peek"
      BY <1>2, <1>11, <2>2 DEF SendRequest
    <2>3. QED
      BY <1>11, <2>1, <2>2 DEF SendRequest
  <1>12. ASSUME NEW S \in Lists, Subscribe(S) \/ Unsubscribe(S) PROVE PeekInv'
    <2>1. caller.at = "idle"
      BY <1>12 DEF Subscribe, Unsubscribe, Idle
    <2>2. QED
      BY <1>1, <1>12, <2>1 DEF Subscribe, Unsubscribe, conns
  <1>13. CASE Close \/ LoseConnection
    BY <1>1, <1>13 DEF Close, LoseConnection
  <1>14. QED
    BY <1>5, <1>6, <1>7, <1>8, <1>9, <1>10, <1>11, <1>12, <1>13 DEF Next, RecvStep

\* The exchange of peek_message and rtn_data never runs dry on a connection that has
\* a list, for any capacities, losses and calls (every list is followed by a
\* peek_message, and every answer by another: sendSubscribeRequest, doRecv).
THEOREM NeverMuteCorrect == Spec => []NeverMute
  <1>1. PeekInv => NeverMute
    <2> SUFFICES ASSUME PeekInv, Quiet, server.list # {}
                 PROVE  \/ server.peeked \/ rxC > 0 \/ recv \in {"calling", "peeking"}
                        \/ \E g \in Gens : reader[g] = "delivering"
      BY DEF NeverMute
    <2>1. ~HasPeek(txC)
      BY DEF Quiet, HasPeek
    <2>2. ~AboutToPeek
      BY DEF Quiet, AboutToPeek, Idle
    <2>3. QED
      BY <2>1, <2>2 DEF PeekInv, Token, Quiet
  <1>2. Init => TypeInv /\ WorkerInv /\ PeekInv
    BY InitFeed DEF FeedInv
  <1>3. QED
    BY <1>1, <1>2, TypesNext, WorkerNext, PeekNext, PTL DEF Spec
=============================================================================
