-------------------------------- MODULE TqFeed --------------------------------
(***************************************************************************)
(* The TianQin market feed: TqMarketClient over one TqConnection.          *)
(*                                                                         *)
(* Each WebSocket connection has a reader and a writer goroutine, indexed  *)
(* here by its generation; both use the one field c.conn, so that what is  *)
(* read and written is always the connection dialled last.  A reader that  *)
(* meets an error hands the writer a token to make it end (the unbuffered  *)
(* reconnC), dials again, which starts the next pair, and then resends the *)
(* subscriptions.  doRecv, a caller of Subscribe or Unsubscribe and Close  *)
(* run beside them.  The trader calls Subscribe, and its callback for the  *)
(* quotes, under userMu.                                                   *)
(*                                                                         *)
(* The quote server is modelled as the client sees it: it keeps the last   *)
(* list of symbols it was sent over a connection, and answers a            *)
(* peek_message once, when it has something to say.                        *)
(***************************************************************************)
EXTENDS Naturals, Sequences, FiniteSets

CONSTANTS
    Symbols,  \* what can be subscribed to
    Tx, Rx,   \* capacities of txC and rxC (1024 in NewTqConnection)
    MaxGen,   \* bound: connections dialled
    MayClose  \* may the program call Close?

Gens == 1..MaxGen
Lists == SUBSET Symbols
Peek == [peek |-> TRUE, list |-> {}]              \* PeekMsg
SubscribeQuote(l) == [peek |-> FALSE, list |-> l] \* {"aid": "subscribe_quote", ...}

ASSUME TqFeedAssumption ==
    /\ Tx \in Nat \ {0} /\ Rx \in Nat \ {0} /\ MaxGen \in Nat \ {0} /\ MayClose \in BOOLEAN

VARIABLES
    alive,     \* FALSE once the Go runtime has thrown
    subSet,    \* TqMarketClient.subSet
    txC, rxC,  \* the channels; of rxC only the number of messages
    gen, link, \* the connection in c.conn, and its state
    reader,    \* where each reader goroutine is
    built,     \* the list each reader has built and not yet sent
    writer,    \* the writer goroutines
    recv,      \* where doRecv is
    caller,    \* the goroutine in Subscribe or Unsubscribe, and its list
    userMu,    \* who holds TraderCTP.userMu
    closing,   \* how far Close has got
    server     \* the server's list and whether it has a peek_message to answer

\* History: a write has failed; a list was built that an older one may follow.
VARIABLES writeFailed, overtaken

conns == <<gen, link, reader, writer>>
hist  == <<writeFailed, overtaken>>
vars  == <<alive, subSet, txC, rxC, conns, built, recv, caller, userMu, closing,
           server, hist>>

ReaderSteps == {"off", "top", "reading", "delivering", "handing", "dialing", "back",
                "building", "list", "peek"}
Fresh == [list |-> {}, peeked |-> FALSE]
Idle  == [at |-> "idle", list |-> {}]
Quit  == closing # "open"

TypeOK ==
    /\ alive \in BOOLEAN /\ subSet \in Lists
    /\ Len(txC) <= Tx /\ \A i \in DOMAIN txC : txC[i] \in {Peek} \cup {SubscribeQuote(l) : l \in Lists}
    /\ rxC \in 0..Rx
    /\ gen \in Gens /\ link \in {"up", "broken", "closed"}
    /\ reader \in [Gens -> ReaderSteps] /\ built \in [Gens -> Lists]
    /\ writer \in [Gens -> BOOLEAN]
    /\ recv \in {"waiting", "calling", "peeking", "off"}
    /\ caller \in [at: {"idle", "list", "peek"}, list: Lists]
    /\ userMu \in {"free", "caller"}
    /\ closing \in {"open", "quit", "cut", "closed"}
    /\ server \in [list: Lists, peeked: BOOLEAN]
    /\ writeFailed \in BOOLEAN /\ overtaken \in BOOLEAN

\* Start: connected, and doRecv running.
Init ==
    /\ alive = TRUE /\ subSet = {} /\ txC = <<>> /\ rxC = 0
    /\ gen = 1 /\ link = "up"
    /\ reader = [g \in Gens |-> IF g = 1 THEN "top" ELSE "off"]
    /\ writer = [g \in Gens |-> g = 1]
    /\ built = [g \in Gens |-> {}]
    /\ recv = "waiting" /\ caller = Idle /\ userMu = "free" /\ closing = "open"
    /\ server = Fresh /\ writeFailed = FALSE /\ overtaken = FALSE

-----------------------------------------------------------------------------
(*                                 doRead                                  *)

At(g, s) == alive /\ reader[g] = s
Go(g, s) == reader' = [reader EXCEPT ![g] = s]

ReadTop(g) ==
    /\ At(g, "top")
    /\ Go(g, IF Quit THEN "off" ELSE "reading")
    /\ UNCHANGED <<alive, subSet, txC, rxC, gen, link, writer, built, recv, caller,
                   userMu, closing, server, hist>>

\* The server answers a peek_message.
Read(g) ==
    /\ At(g, "reading") /\ link = "up" /\ server.peeked
    /\ Go(g, "delivering")
    /\ server' = [server EXCEPT !.peeked = FALSE]
    /\ UNCHANGED <<alive, subSet, txC, rxC, gen, link, writer, built, recv, caller,
                   userMu, closing, hist>>

Deliver(g) ==
    /\ At(g, "delivering") /\ rxC < Rx
    /\ rxC' = rxC + 1
    /\ Go(g, "top")
    /\ UNCHANGED <<alive, subSet, txC, gen, link, writer, built, recv, caller,
                   userMu, closing, server, hist>>

\* CloseNow, and the first line of reconnect.
ReadFails(g) ==
    /\ At(g, "reading") /\ link # "up"
    /\ link' = "closed"
    /\ Go(g, IF closing = "closed" THEN "off" ELSE "handing")
    /\ UNCHANGED <<alive, subSet, txC, rxC, gen, writer, built, recv, caller, userMu,
                   closing, server, hist>>

\* Mutant: the reader dials without waiting for the writer to end.
HandOver_NoWait(g) ==
    /\ At(g, "handing")
    /\ Go(g, "dialing")
    /\ UNCHANGED <<alive, subSet, txC, rxC, gen, link, writer, built, recv, caller,
                   userMu, closing, server, hist>>

\* c.reconnC <- struct{}{}, which a writer in its select receives.
HandOver(g) ==
    /\ At(g, "handing")
    /\ \E w \in Gens : writer[w] /\ writer' = [writer EXCEPT ![w] = FALSE]
    /\ Go(g, "dialing")
    /\ UNCHANGED <<alive, subSet, txC, rxC, gen, link, built, recv, caller, userMu,
                   closing, server, hist>>

\* Connect succeeds; until it does, it is tried again.
Dial(g) ==
    /\ At(g, "dialing") /\ gen < MaxGen
    /\ gen' = gen + 1 /\ link' = "up" /\ server' = Fresh
    /\ reader' = [reader EXCEPT ![g] = "back", ![gen + 1] = "top"]
    /\ writer' = [writer EXCEPT ![gen + 1] = TRUE]
    /\ UNCHANGED <<alive, subSet, txC, rxC, built, recv, caller, userMu, closing, hist>>

\* Mutant: OnReconnect leaves the subscriptions to the next call.
OnReconnect_Nothing(g) ==
    /\ At(g, "back")
    /\ Go(g, "off")
    /\ UNCHANGED <<alive, subSet, txC, rxC, gen, link, writer, built, recv, caller,
                   userMu, closing, server, hist>>

\* OnReconnect, on the goroutine of the old reader.
OnReconnect(g) ==
    /\ At(g, "back")
    /\ Go(g, IF subSet = {} THEN "off" ELSE "building")
    /\ UNCHANGED <<alive, subSet, txC, rxC, gen, link, writer, built, recv, caller,
                   userMu, closing, server, hist>>

\* sendSubscribeRequest: the loop over subSet, and the two sends.
BuildList(g) ==
    /\ At(g, "building")
    /\ built' = [built EXCEPT ![g] = subSet]
    /\ Go(g, "list")
    /\ UNCHANGED <<alive, subSet, txC, rxC, gen, link, writer, recv, caller, userMu,
                   closing, server, hist>>

Resend(g) ==
    /\ Len(txC) < Tx
    /\ \/ /\ At(g, "list") /\ Go(g, "peek")
          /\ txC' = Append(txC, SubscribeQuote(built[g]))
          /\ built' = [built EXCEPT ![g] = {}]
       \/ /\ At(g, "peek") /\ Go(g, "off")
          /\ txC' = Append(txC, Peek)
          /\ UNCHANGED built
    /\ UNCHANGED <<alive, subSet, rxC, gen, link, writer, recv, caller, userMu,
                   closing, server, hist>>

-----------------------------------------------------------------------------
(*                                 doWrite                                 *)

\* Mutant: the writer waits for the callback of the quotes.
Write_AfterQuotes(w) ==
    /\ alive /\ writer[w] /\ txC # <<>> /\ link # "closed" /\ recv # "calling"
    /\ txC' = Tail(txC)
    /\ server' = IF link # "up" THEN server
                 ELSE IF Head(txC).peek THEN [server EXCEPT !.peeked = TRUE]
                 ELSE [server EXCEPT !.list = Head(txC).list]
    /\ UNCHANGED <<alive, subSet, rxC, gen, link, reader, writer, built, recv, caller,
                   userMu, closing, hist>>

\* Over a connection the peer has lost, a write may still seem to succeed.
Write(w) ==
    /\ alive /\ writer[w] /\ txC # <<>> /\ link # "closed"
    /\ txC' = Tail(txC)
    /\ server' = IF link # "up" THEN server
                 ELSE IF Head(txC).peek THEN [server EXCEPT !.peeked = TRUE]
                 ELSE [server EXCEPT !.list = Head(txC).list]
    /\ UNCHANGED <<alive, subSet, rxC, gen, link, reader, writer, built, recv, caller,
                   userMu, closing, hist>>

\* The writer ends without anyone asking it to.
WriteFails(w) ==
    /\ alive /\ writer[w] /\ txC # <<>> /\ link # "up"
    /\ txC' = Tail(txC)
    /\ link' = "closed"
    /\ writer' = [writer EXCEPT ![w] = FALSE]
    /\ writeFailed' = TRUE
    /\ UNCHANGED <<alive, subSet, rxC, gen, reader, built, recv, caller, userMu,
                   closing, server, overtaken>>

WriterQuits(w) ==
    /\ alive /\ writer[w] /\ Quit
    /\ writer' = [writer EXCEPT ![w] = FALSE]
    /\ UNCHANGED <<alive, subSet, txC, rxC, gen, link, reader, built, recv, caller,
                   userMu, closing, server, hist>>

-----------------------------------------------------------------------------
(*                                 doRecv                                  *)

\* Mutant: a message without quotes is not answered.
Receive_NoQuotes ==
    /\ alive /\ recv = "waiting" /\ rxC > 0
    /\ rxC' = rxC - 1
    /\ recv' \in {"calling", "waiting"}
    /\ UNCHANGED <<alive, subSet, txC, conns, built, caller, userMu, closing, server, hist>>

\* A message with quotes goes to OnQuotes, one without straight on.
Receive ==
    /\ alive /\ recv = "waiting" /\ rxC > 0
    /\ rxC' = rxC - 1
    /\ recv' \in {"calling", "peeking"}
    /\ UNCHANGED <<alive, subSet, txC, conns, built, caller, userMu, closing, server, hist>>

\* onQuotesUpdate of the trader locks userMu and unlocks it.
OnQuotes ==
    /\ alive /\ recv = "calling" /\ userMu = "free"
    /\ recv' = "peeking"
    /\ UNCHANGED <<alive, subSet, txC, rxC, conns, built, caller, userMu, closing,
                   server, hist>>

PeekAgain ==
    /\ alive /\ recv = "peeking" /\ Len(txC) < Tx
    /\ txC' = Append(txC, Peek)
    /\ recv' = "waiting"
    /\ UNCHANGED <<alive, subSet, rxC, conns, built, caller, userMu, closing, server, hist>>

RecvQuits ==
    /\ alive /\ recv = "waiting" /\ Quit
    /\ recv' = "off"
    /\ UNCHANGED <<alive, subSet, txC, rxC, conns, built, caller, userMu, closing,
                   server, hist>>

-----------------------------------------------------------------------------
(*                         Subscribe, Unsubscribe                          *)

\* The writing of subSet and the building of the list.  While a reader loops
\* over subSet the runtime may notice the concurrent write and throw.
Change(s) ==
    /\ subSet' = s
    /\ caller' = [at |-> "list", list |-> s]
    /\ overtaken' = (overtaken \/ \E g \in Gens : reader[g] = "list")
    /\ \/ alive' = TRUE
       \/ alive' = FALSE /\ \E g \in Gens : reader[g] = "building"

Subscribe(S) ==
    /\ alive /\ caller = Idle /\ userMu = "free"
    /\ Change(subSet \cup S)
    /\ userMu' = "caller"
    /\ UNCHANGED <<txC, rxC, conns, built, recv, closing, server, writeFailed>>

\* Not called by the trader, and so not under userMu.
Unsubscribe(S) ==
    /\ alive /\ caller = Idle
    /\ Change(subSet \ S)
    /\ UNCHANGED <<txC, rxC, conns, built, recv, userMu, closing, server, writeFailed>>

SendRequest ==
    /\ alive /\ Len(txC) < Tx
    /\ \/ /\ caller.at = "list"
          /\ txC' = Append(txC, SubscribeQuote(caller.list))
          /\ caller' = [at |-> "peek", list |-> {}]
          /\ UNCHANGED userMu
       \/ /\ caller.at = "peek"
          /\ txC' = Append(txC, Peek)
          /\ caller' = Idle
          /\ userMu' = "free"
    /\ UNCHANGED <<alive, subSet, rxC, conns, built, recv, closing, server, hist>>

-----------------------------------------------------------------------------
(*                          Close, and the network                         *)

CloseStep(from, to) == closing = from /\ closing' = to

Close ==
    /\ alive /\ MayClose
    /\ \/ CloseStep("open", "quit") /\ UNCHANGED link  \* close(quitC)
       \/ CloseStep("quit", "cut") /\ link' = "closed" \* CloseNow
       \/ CloseStep("cut", "closed") /\ UNCHANGED link \* closed.Store(true)
    /\ UNCHANGED <<alive, subSet, txC, rxC, gen, reader, writer, built, recv, caller,
                   userMu, server, hist>>

\* The connection breaks; a further one is within the bound.
LoseConnection ==
    /\ alive /\ link = "up" /\ gen < MaxGen
    /\ link' = "broken"
    /\ UNCHANGED <<alive, subSet, txC, rxC, gen, reader, writer, built, recv, caller,
                   userMu, closing, server, hist>>

ReaderStep(g) == \/ ReadTop(g) \/ Read(g) \/ Deliver(g) \/ ReadFails(g) \/ HandOver(g)
                 \/ Dial(g) \/ OnReconnect(g) \/ BuildList(g) \/ Resend(g)
WriterStep(w) == Write(w) \/ WriteFails(w) \/ WriterQuits(w)
RecvStep == Receive \/ OnQuotes \/ PeekAgain \/ RecvQuits

Next ==
    \/ \E g \in Gens : ReaderStep(g) \/ WriterStep(g)
    \/ RecvStep \/ SendRequest \/ Close \/ LoseConnection
    \/ \E S \in Lists \ {{}} : Subscribe(S) \/ Unsubscribe(S)

Spec == Init /\ [][Next]_vars

\* Goroutines that can run do, dialling succeeds in the end, and the goroutines
\* that wait for room in txC or for userMu get it in turn.
Fairness ==
    /\ \A g \in Gens : /\ WF_vars(ReaderStep(g)) /\ WF_vars(WriterStep(g))
                       /\ SF_vars(Resend(g))
    /\ WF_vars(RecvStep) /\ SF_vars(PeekAgain) /\ SF_vars(OnQuotes) /\ SF_vars(SendRequest)

LiveSpec == Spec /\ Fairness

-----------------------------------------------------------------------------
(*                               Properties                                *)

\* Requests are written by one goroutine and read by one at a time: the hand-over
\* in reconnect ends the old writer before Connect starts the new pair.
OneWriterOneReader ==
    /\ Cardinality({w \in Gens : writer[w]}) <= 1
    /\ Cardinality({g \in Gens : reader[g] \in {"top", "reading", "delivering", "handing",
                                                "dialing"}}) <= 1

\* Nothing is on its way to the server, and the connection works.
Quiet ==
    /\ alive /\ closing = "open" /\ link = "up" /\ writer[gen] /\ caller = Idle
    /\ \A g \in Gens : reader[g] \notin {"back", "building", "list", "peek"}
    /\ txC = <<>>

\* At rest the server has the client's list, whatever was lost and dialled again
\* in between, unless a list built before a change was sent after it
\* (sendSubscribeRequest, OnReconnect).
ListReached == Quiet /\ ~overtaken => server.list = subSet

\* The same without the exception: Subscribe sends the server the full list,
\* "然后将完整的订阅列表发送给服务端".
ListAlwaysReached == Quiet => server.list = subSet

\* The exchange of peek_message and rtn_data never runs dry: at rest the server
\* owes an answer, or one is being handled (doRecv, sendSubscribeRequest).
NeverMute ==
    Quiet /\ server.list # {} =>
        \/ server.peeked \/ rxC > 0 \/ recv \in {"calling", "peeking"}
        \/ \E g \in Gens : reader[g] = "delivering"

\* "所有方法都是并发安全的": no call makes the runtime throw.
NeverThrown == alive

\* A lost connection is replaced and told every symbol again, unless a writer met it
\* first and ended (doRead, reconnect).
Resubscribes ==
    \A s \in Symbols :
        (alive /\ link = "broken" /\ s \in subSet)
        ~> \/ link = "up" /\ s \in server.list
           \/ s \notin subSet \/ writeFailed \/ overtaken \/ closing # "open" \/ ~alive

\* "自动重连和重新订阅": the same without the exception for the writer.
AlwaysReconnects ==
    (alive /\ link = "broken") ~> (link = "up" \/ closing # "open" \/ ~alive)

\* A caller of Subscribe comes back, and with it userMu, while the feed has a
\* writer or gets one (txC, doRecv and onQuotesUpdate cannot wait in a circle).
CallerReturns ==
    (caller # Idle) ~> (caller = Idle \/ writeFailed \/ closing # "open" \/ ~alive)
=============================================================================
