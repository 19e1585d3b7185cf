--------------------------- MODULE LoginSessionProofs ---------------------------
(***************************************************************************)
(* Proofs about LoginSession, for any clients, logins, instances, days and *)
(* numbers of losses, errors and timeouts.                                 *)
(***************************************************************************)
EXTENDS LoginSession, FiniteSetTheorems, SequenceTheorems, TLAPS

-----------------------------------------------------------------------------
(* The responses an instance owes.                                         *)

Owed(q) == {q[i] : i \in 1..Len(q)}

Entries == {"auth", "login"}

Single(q) == \A i, j \in 1..Len(q) : q[i] \in Entries /\ q[j] \in Entries => i = j

LEMMA OwedTail ==
    ASSUME NEW q \in Seq(Kinds), q # <<>>
    PROVE  /\ Tail(q) \in Seq(Kinds) /\ Head(q) \in Owed(q) /\ Owed(Tail(q)) \subseteq Owed(q)
           /\ Single(q) => Single(Tail(q))
           /\ Single(q) /\ Head(q) \in Entries => Owed(Tail(q)) \cap Entries = {}
  <1> DEFINE t == Tail(q)
             n == Len(q)
  <1>1. /\ t \in Seq(Kinds) /\ n \in Nat /\ n > 0 /\ Len(t) = n - 1 /\ Head(q) = q[1]
        /\ \A i \in 1..(n - 1) : t[i] = q[i + 1]
    BY HeadTailProperties
  <1>2. \A i \in 1..(n - 1) : i + 1 \in 1..n /\ i + 1 # 1
    BY <1>1
  <1>3. 1 \in 1..n
    BY <1>1
  <1> HIDE DEF t, n
  <1>4. Head(q) \in Owed(q)
    BY <1>1, <1>3 DEF Owed, n
  <1>5. Owed(t) \subseteq Owed(q)
    BY <1>1, <1>2 DEF Owed, n
  <1>6. ASSUME Single(q) PROVE Single(t)
    <2> SUFFICES ASSUME NEW i \in 1..(n - 1), NEW j \in 1..(n - 1), t[i] \in Entries, t[j] \in Entries
                 PROVE  i = j
      BY <1>1 DEF Single
    <2>1. i + 1 = j + 1
      BY <1>1, <1>2, <1>6 DEF Single, n
    <2>2. QED
      BY <1>1, <2>1
  <1>7. ASSUME Single(q), Head(q) \in Entries, NEW x \in Owed(t) PROVE x \notin Entries
    <2>1. PICK i \in 1..(n - 1) : x = t[i]
      BY <1>1, <1>7 DEF Owed
    <2>2. QED
      BY <1>1, <1>2, <1>3, <1>7, <2>1 DEF Single, n
  <1>8. QED
    BY <1>1, <1>4, <1>5, <1>6, <1>7 DEF t

LEMMA OwedAppend ==
    ASSUME NEW q \in Seq(Kinds), NEW x \in Kinds
    PROVE  /\ Append(q, x) \in Seq(Kinds) /\ Owed(Append(q, x)) = Owed(q) \cup {x}
           /\ Single(q) /\ (x \notin Entries \/ Owed(q) \cap Entries = {}) => Single(Append(q, x))
  <1> DEFINE a == Append(q, x)
             n == Len(q)
  <1>1. /\ a \in Seq(Kinds) /\ n \in Nat /\ Len(a) = n + 1
        /\ a[n + 1] = x /\ \A i \in 1..n : a[i] = q[i]
    BY AppendProperties
  <1>2. \A i \in 1..(n + 1) : i = n + 1 \/ i \in 1..n
    BY <1>1
  <1>3. n + 1 \in 1..(n + 1) /\ \A i \in 1..n : i \in 1..(n + 1)
    BY <1>1
  <1> HIDE DEF a, n
  <1>4. Owed(a) \subseteq Owed(q) \cup {x}
    BY <1>1, <1>2 DEF Owed, n
  <1>5. x \in Owed(a) /\ Owed(q) \subseteq Owed(a)
    BY <1>1, <1>3 DEF Owed, n
  <1>6. ASSUME Single(q), x \notin Entries \/ Owed(q) \cap Entries = {} PROVE Single(a)
    <2> SUFFICES ASSUME NEW i \in 1..(n + 1), NEW j \in 1..(n + 1), a[i] \in Entries, a[j] \in Entries
                 PROVE  i = j
      BY <1>1 DEF Single
    <2>1. ASSUME NEW k \in 1..n PROVE q[k] \in Owed(q)
      BY DEF Owed, n
    <2>2. CASE x \in Entries
      BY <1>1, <1>2, <1>6, <2>1, <2>2
    <2>3. CASE x \notin Entries
      BY <1>1, <1>2, <1>6, <2>3 DEF Single, n
    <2>4. QED
      BY <2>2, <2>3
  <1>7. QED
    BY <1>1, <1>4, <1>5, <1>6 DEF a

LEMMA OwedNone == <<>> \in Seq(Kinds) /\ Owed(<<>>) = {} /\ Single(<<>>)
  BY DEF Owed, Single

-----------------------------------------------------------------------------
(* The instances are created one after the other, and the last one is the  *)
(* trader's own; before the first of them has its API the trader is not on *)
(* its way to a session, and no idle loop runs.                            *)
CreatedInv ==
    /\ \A k \in Ids : IF k > current THEN apis[k] = Unused ELSE apis[k].link # "none"
    /\ ~Begun => /\ state = "Init" \/ (stop # "no" /\ state \in {"Stopping", "Stopped"})
                 /\ loops = 0 /\ idling = 0

(* A connection has at most one login before it, and none behind it; only  *)
(* the last instance can still be without its API.                         *)
LinkInv ==
    \A k \in Ids :
        /\ apis[k].link # "up" => apis[k].rsp = <<>> /\ ~apis[k].session
        /\ Single(apis[k].rsp)
        /\ apis[k].session => Owed(apis[k].rsp) \cap Entries = {}
        /\ apis[k].session /\ ~apis[k].entering => user # 0
        /\ apis[k].entering /\ apis[k].link = "up" => apis[k].session
        /\ apis[k].link = "new" => k = current /\ ~apis[k].entering /\ apis[k].waiter = "off"

(* A confirmation is one of the user's present day.                        *)
ConfirmInv == confirmed => confirmedOn = user /\ user # 0

\* A request of the chain that is on its way: those it follows were answered.
Due(x) ==
    /\ x \in {"instr"} \cup Parts => confirmed
    /\ x \in Parts => instrReady
    /\ x \in {"pos", "ord", "trade"} => "acct" \in loaded
    /\ x \in {"ord", "trade"} => "pos" \in loaded
    /\ x = "trade" => "ord" \in loaded

\* What clients may ask for before the session is there, and what strays into it.
Early == Entries \cup {"confirm", "settle"}

Strays(sp) == IF sp.stray THEN {"pos", "acct"} ELSE {}

(* Every query comes after those it follows in the chain, in this session. *)
ChainInv ==
    current <= 1 =>
    \A k \in Ids :
        /\ ~apis[k].session \/ apis[k].entering =>
              Owed(apis[k].rsp) \subseteq Early \cup Strays(spent)
        /\ ~spent.stray => \A x \in Owed(apis[k].rsp) : Due(x)

(* Ready outlives the connection, and not the next one.                    *)
ReadyInv ==
    current <= 1 /\ ~spent.stray /\ state = "Ready" =>
        /\ confirmed /\ instrReady /\ inited /\ loaded = Parts
        /\ \A k \in Ids : ~apis[k].entering /\ (apis[k].link = "up" => apis[k].session)

(* The SPI keeps the API it was given until a login times out.             *)
HeldInv ==
    spent.timeouts = 0 =>
        \A k \in Ids : /\ apis[k].link \in {"down", "up", "released"} => apis[k].held
                       /\ apis[k].waiter # "stopping"

(* Nobody stops waiting before a login is through, if no client confirmed  *)
(* a settlement.                                                           *)
WatchInv ==
    spent.timeouts = 0 /\ ~spent.early /\ user = 0 /\ stop = "no" =>
        /\ \A k \in Ids : apis[k].session <=> apis[k].entering
        /\ IsLoggedIn => \E k \in Ids : apis[k].entering
        /\ Begun => \E k \in Ids : apis[k].entering \/ apis[k].waiter = "waiting"

-----------------------------------------------------------------------------
(* What the actions do to the instances.                                   *)

Instances == [Ids -> Instance]

\* Two instances that differ in what they owe at most.
Same(a, b) ==
    /\ a.held = b.held /\ a.link = b.link /\ a.session = b.session /\ a.login = b.login
    /\ a.entering = b.entering /\ a.waiter = b.waiter

LEMMA FieldTypes ==
    ASSUME NEW as \in Instances, NEW k \in Ids
    PROVE  /\ as[k].held \in BOOLEAN /\ as[k].link \in {"none", "new", "down", "up", "released"}
           /\ as[k].session \in BOOLEAN /\ as[k].login \in Login \cup {NoLogin}
           /\ as[k].rsp \in Seq(Kinds) /\ as[k].entering \in BOOLEAN
           /\ as[k].waiter \in {"off", "waiting", "stopping"}
  BY DEF Instances, Instance

LEMMA PoppedFacts ==
    ASSUME apis \in Instances, NEW k \in Ids, apis[k].rsp # <<>>
    PROVE  /\ Popped(k) \in Instances
           /\ \A j \in Ids \ {k} : Popped(k)[j] = apis[j]
           /\ Same(Popped(k)[k], apis[k]) /\ Popped(k)[k].rsp = Tail(apis[k].rsp)
  <1>1. apis[k].rsp \in Seq(Kinds) /\ Tail(apis[k].rsp) \in Seq(Kinds)
    BY FieldTypes, HeadTailProperties
  <1>2. Popped(k) \in Instances
    BY <1>1 DEF Popped, Instances, Instance
  <1>3. \A j \in Ids \ {k} : Popped(k)[j] = apis[j]
    BY DEF Popped, Instances
  <1>4. Same(Popped(k)[k], apis[k]) /\ Popped(k)[k].rsp = Tail(apis[k].rsp)
    BY DEF Popped, Instances, Instance, Same
  <1>5. QED
    BY <1>2, <1>3, <1>4

LEMMA CallFacts ==
    ASSUME NEW as \in Instances, NEW m \in Ids, NEW kind \in Kinds, Call(as, m, kind)
    PROVE  /\ apis' \in Instances
           /\ \A j \in Ids \ {m} : apis'[j] = as[j]
           /\ Same(apis'[m], as[m])
           /\ apis'[m].rsp = IF as[m].held /\ as[m].link = "up" THEN Append(as[m].rsp, kind)
                             ELSE as[m].rsp
           /\ ~(as[m].held /\ as[m].link = "up") => apis' = as
           /\ proc' = IF as[m].held THEN proc ELSE "panicked"
  <1>1. as[m].rsp \in Seq(Kinds) /\ Append(as[m].rsp, kind) \in Seq(Kinds)
    BY FieldTypes, AppendProperties
  <1>2. CASE as[m].held /\ as[m].link = "up"
    <2>1. apis' = [as EXCEPT ![m].rsp = Append(@, kind)]
      BY <1>2 DEF Call
    <2>2. apis' \in Instances
      BY <1>1, <2>1 DEF Instances, Instance
    <2>3. \A j \in Ids \ {m} : apis'[j] = as[j]
      BY <2>1 DEF Instances
    <2>4. Same(apis'[m], as[m]) /\ apis'[m].rsp = Append(as[m].rsp, kind)
      BY <2>1 DEF Instances, Instance, Same
    <2>5. QED
      BY <1>2, <2>2, <2>3, <2>4 DEF Call
  <1>3. CASE ~(as[m].held /\ as[m].link = "up")
    BY <1>3 DEF Call, Same
  <1>4. QED
    BY <1>2, <1>3

Inv == /\ TypeOK /\ CreatedInv /\ LinkInv /\ ConfirmInv /\ ChainInv /\ ReadyInv /\ HeldInv

-----------------------------------------------------------------------------
(* The steps that change no more of an instance than what it owes.         *)

\* Whatever is answered, no more than added becomes owed, by instance m.
Moved(m, added) ==
    /\ apis' \in Instances
    /\ \A j \in Ids :
        /\ Same(apis'[j], apis[j])
        /\ Owed(apis'[j].rsp) \subseteq Owed(apis[j].rsp) \cup (IF j = m THEN added ELSE {})
        /\ Single(apis[j].rsp) => Single(apis'[j].rsp)
        /\ apis[j].link # "up" /\ apis[j].rsp = <<>> => apis'[j] = apis[j]

LEMMA StayMoves ==
    ASSUME apis \in Instances, UNCHANGED apis, NEW m \in Ids, NEW added
    PROVE  Moved(m, added)
  BY DEF Moved, Same

LEMMA MoreMoves ==
    ASSUME NEW m, NEW n, NEW added, Moved(n, {})
    PROVE  Moved(m, added)
  BY DEF Moved

LEMMA PopMoves ==
    ASSUME apis \in Instances, NEW k \in Ids, apis[k].rsp # <<>>, apis' = Popped(k), NEW added
    PROVE  Moved(k, added)
  <1>1. /\ apis' \in Instances
        /\ \A j \in Ids \ {k} : apis'[j] = apis[j]
        /\ Same(apis'[k], apis[k]) /\ apis'[k].rsp = Tail(apis[k].rsp)
    BY PoppedFacts
  <1>2. apis[k].rsp \in Seq(Kinds)
    BY FieldTypes
  <1>3. /\ Owed(apis'[k].rsp) \subseteq Owed(apis[k].rsp)
        /\ Single(apis[k].rsp) => Single(apis'[k].rsp)
    BY <1>1, <1>2, OwedTail
  <1>4. \A j \in Ids \ {k} : Same(apis'[j], apis[j])
    BY <1>1 DEF Same
  <1>5. QED
    BY <1>1, <1>3, <1>4 DEF Moved

LEMMA CallMoves ==
    ASSUME apis \in Instances, NEW m \in Ids, NEW kind \in Kinds \ Entries, Call(apis, m, kind)
    PROVE  /\ Moved(m, {kind})
           /\ proc' = IF apis[m].held THEN proc ELSE "panicked"
  <1>1. /\ apis' \in Instances
        /\ \A j \in Ids \ {m} : apis'[j] = apis[j]
        /\ Same(apis'[m], apis[m])
        /\ apis'[m].rsp = IF apis[m].held /\ apis[m].link = "up" THEN Append(apis[m].rsp, kind)
                          ELSE apis[m].rsp
        /\ ~(apis[m].held /\ apis[m].link = "up") => apis' = apis
        /\ proc' = IF apis[m].held THEN proc ELSE "panicked"
    BY CallFacts
  <1>2. apis[m].rsp \in Seq(Kinds)
    BY FieldTypes
  <1>3. /\ Owed(apis'[m].rsp) \subseteq Owed(apis[m].rsp) \cup {kind}
        /\ Single(apis[m].rsp) => Single(apis'[m].rsp)
    BY <1>1, <1>2, OwedAppend
  <1>4. \A j \in Ids \ {m} : Same(apis'[j], apis[j])
    BY <1>1 DEF Same
  <1>5. Moved(m, {kind})
    BY <1>1, <1>3, <1>4 DEF Moved
  <1>6. QED
    BY <1>1, <1>5

LEMMA PopCallMoves ==
    ASSUME apis \in Instances, NEW k \in Ids, apis[k].rsp # <<>>, NEW m \in Ids, NEW kind \in Kinds,
           kind \notin Entries \/ (m = k /\ Head(apis[k].rsp) \in Entries),
           Call(Popped(k), m, kind)
    PROVE  /\ Moved(m, {kind})
           /\ proc' = IF apis[m].held THEN proc ELSE "panicked"
  <1> DEFINE as == Popped(k)
  <1>1. /\ as \in Instances
        /\ \A j \in Ids \ {k} : as[j] = apis[j]
        /\ Same(as[k], apis[k]) /\ as[k].rsp = Tail(apis[k].rsp)
    BY PoppedFacts
  <1> HIDE DEF as
  <1>2. Call(as, m, kind)
    BY DEF as
  <1>3. /\ apis' \in Instances
        /\ \A j \in Ids \ {m} : apis'[j] = as[j]
        /\ Same(apis'[m], as[m])
        /\ apis'[m].rsp = IF as[m].held /\ as[m].link = "up" THEN Append(as[m].rsp, kind)
                          ELSE as[m].rsp
        /\ ~(as[m].held /\ as[m].link = "up") => apis' = as
        /\ proc' = IF as[m].held THEN proc ELSE "panicked"
    BY <1>1, <1>2, CallFacts
  <1>4. \A j \in Ids : Same(as[j], apis[j])
    BY <1>1 DEF Same
  <1>5. \A j \in Ids : Same(apis'[j], as[j])
    BY <1>3 DEF Same
  <1>6. \A j \in Ids : Same(apis'[j], apis[j])
    BY <1>4, <1>5 DEF Same
  <1>7. apis[k].rsp \in Seq(Kinds) /\ as[m].rsp \in Seq(Kinds)
    BY <1>1, FieldTypes
  <1>8. /\ Owed(as[k].rsp) \subseteq Owed(apis[k].rsp)
        /\ Single(apis[k].rsp) => Single(as[k].rsp)
        /\ Single(apis[k].rsp) /\ Head(apis[k].rsp) \in Entries => Owed(as[k].rsp) \cap Entries = {}
    BY <1>1, <1>7, OwedTail
  <1>9. \A j \in Ids : Owed(as[j].rsp) \subseteq Owed(apis[j].rsp)
    BY <1>1, <1>8
  <1>10. /\ Owed(apis'[m].rsp) \subseteq Owed(as[m].rsp) \cup {kind}
         /\ Single(as[m].rsp) /\ (kind \notin Entries \/ Owed(as[m].rsp) \cap Entries = {})
                => Single(apis'[m].rsp)
    BY <1>3, <1>7, OwedAppend
  <1>11. \A j \in Ids : Single(apis[j].rsp) => Single(apis'[j].rsp)
    BY <1>1, <1>3, <1>8, <1>10
  <1>12. \A j \in Ids : Owed(apis'[j].rsp) \subseteq Owed(apis[j].rsp) \cup (IF j = m THEN {kind} ELSE {})
    BY <1>3, <1>9, <1>10
  <1>13. \A j \in Ids : apis[j].link # "up" /\ apis[j].rsp = <<>> => apis'[j] = apis[j]
    BY <1>1, <1>3, <1>4 DEF Same
  <1>14. Moved(m, {kind})
    BY <1>3, <1>6, <1>11, <1>12, <1>13 DEF Moved
  <1>15. QED
    BY <1>3, <1>4, <1>14 DEF Same

LEMMA PopCallIfHeldMoves ==
    ASSUME apis \in Instances, NEW k \in Ids, apis[k].rsp # <<>>, NEW m \in Ids,
           NEW kind \in Kinds \ Entries, CallIfHeld(Popped(k), m, kind)
    PROVE  Moved(m, {kind}) /\ proc' = proc
  <1>1. Popped(k)[m].held = apis[m].held
    BY PoppedFacts DEF Same
  <1>2. CASE apis[m].held
    <2>1. Call(Popped(k), m, kind)
      BY <1>1, <1>2 DEF CallIfHeld
    <2>2. QED
      BY <1>2, <2>1, PopCallMoves
  <1>3. CASE ~apis[m].held
    <2>1. apis' = Popped(k) /\ proc' = proc
      BY <1>1, <1>3 DEF CallIfHeld
    <2>2. Moved(k, {})
      BY <2>1, PopMoves
    <2>3. QED
      BY <2>1, <2>2, MoreMoves
  <1>4. QED
    BY <1>2, <1>3

LEMMA CreatedFacts ==
    ASSUME TypeOK, CreatedInv
    PROVE  /\ 1 \in Ids /\ MaxApis \in Nat /\ current \in 0..MaxApis
           /\ \A k \in Ids : apis[k].link # "none" => k <= current /\ current \in Ids
           /\ \A k \in Ids : apis[k] # Unused => apis[k].link # "none"
           /\ \A k \in Ids : k > current => apis[k] = Unused
           /\ \A k \in Ids : k <= current => apis[k].link # "none"
           /\ Created = 1..current /\ Cardinality(Created) = current
           /\ Begun => current \in Ids
  <1>1. MaxApis \in Nat \ {0} /\ current \in 0..MaxApis
    BY LoginSessionAssumption DEF TypeOK
  <1>2. Unused.link = "none"
    BY DEF Unused
  <1>3. \A k \in Ids : k > current => apis[k] = Unused
    BY DEF CreatedInv
  <1>4. \A k \in Ids : ~(k > current) => apis[k].link # "none"
    BY DEF CreatedInv
  <1>5. \A k \in Ids : k \in 1..MaxApis /\ k \in Nat
    BY DEF Ids
  <1>6. \A k \in Ids : k <= current <=> ~(k > current)
    BY <1>1, <1>5
  <1>7. \A k \in Ids : apis[k].link # "none" => k <= current
    BY <1>2, <1>3, <1>6
  <1>8. Created = 1..current
    <2>1. \A k \in Created : k \in 1..current
      BY <1>1, <1>5, <1>7 DEF Created
    <2>2. \A k \in 1..current : k \in Ids /\ ~(k > current)
      BY <1>1 DEF Ids
    <2>3. QED
      BY <1>4, <2>1, <2>2 DEF Created
  <1>9. Cardinality(1..current) = current
    BY <1>1, FS_Interval
  <1>10. \A k \in Ids : k <= current => current \in Ids
    BY <1>1, <1>5 DEF Ids
  <1>11. 1 \in Ids
    BY <1>1 DEF Ids
  <1>12. Begun => current \in Ids
    <2>1. ASSUME NEW k \in Ids, apis[k].link \in {"down", "up", "released"}
          PROVE  current \in Ids
      BY <1>7, <1>10, <2>1
    <2>2. QED
      BY <2>1 DEF Begun
  <1>13. QED
    BY <1>1, <1>2, <1>3, <1>4, <1>6, <1>7, <1>8, <1>9, <1>10, <1>11, <1>12

\* What else a step that moves the instances leaves as it was, and what must have
\* been true when it makes instance m owe something more.
Advance(m, added) ==
    /\ TypeOK' /\ ConfirmInv' /\ Moved(m, added)
    /\ added \subseteq Kinds /\ (added \cap Entries # {} => ~apis[m].session)
    /\ current <= 1 /\ apis[m].link = "up" =>
         /\ (apis[m].session /\ ~apis[m].entering) \/ added \subseteq Early \cup Strays(spent')
         /\ ~spent'.stray => \A x \in added : Due(x)'
    /\ UNCHANGED <<current, user, spent.timeouts>> /\ (stop' = "no" => stop = "no")
    /\ (spent.early => spent'.early) /\ (spent.stray => spent'.stray)
    /\ (confirmed => confirmed') /\ (instrReady => instrReady') /\ (inited => inited')
    /\ loaded \subseteq loaded'
    /\ Begun \/ UNCHANGED <<loops, idling>>
    /\ \/ UNCHANGED state
       \/ stop' # "no" /\ state' \in {"Stopping", "Stopped"}
       \/ /\ Begun
          /\ state' = "Ready" /\ current <= 1 /\ ~spent'.stray =>
               /\ confirmed' /\ instrReady' /\ inited' /\ loaded' = Parts
               /\ \A j \in Ids : ~apis[j].entering /\ (apis[j].link = "up" => apis[j].session)
          /\ state' \in LoggedInStates => IsLoggedIn \/ user # 0 \/ spent'.early
    /\ UNCHANGED proc \/ stop # "no" \/ (Begun /\ m <= current /\ ~apis[m].held)

\* What a step must have found when it brings the process down.
Overlap == Up /\ ~Up' /\ spent.timeouts = 0 /\ stop = "no" =>
               Begun /\ apis[current].link = "new"

LEMMA DueGrows ==
    ASSUME NEW x, Due(x), confirmed => confirmed', instrReady => instrReady', loaded \subseteq loaded'
    PROVE  Due(x)'
  BY DEF Due

LEMMA AdvanceKeeps ==
    ASSUME Inv, NEW m \in Ids, NEW added, Advance(m, added)
    PROVE  Inv' /\ (WatchInv => WatchInv') /\ Overlap
  <1> USE DEF Inv
  <1>1. Moved(m, added) /\ current' = current /\ user' = user
    BY DEF Advance
  <1>2. \A j \in Ids :
          /\ Same(apis'[j], apis[j])
          /\ Owed(apis'[j].rsp) \subseteq Owed(apis[j].rsp) \cup (IF j = m THEN added ELSE {})
          /\ Single(apis[j].rsp) => Single(apis'[j].rsp)
          /\ apis[j].link # "up" => apis'[j] = apis[j] /\ apis'[j].rsp = <<>>
    BY <1>1 DEF Moved, LinkInv
  <1>3. CreatedInv' /\ (Begun' <=> Begun)
    <2>1. \A j \in Ids : j > current => apis'[j] = Unused
      <3>1. Unused.link # "up"
        BY DEF Unused
      <3>2. QED
        BY <1>2, <3>1 DEF CreatedInv
    <2>2. \A j \in Ids : ~(j > current) => apis'[j].link # "none"
      BY <1>2 DEF CreatedInv, Same
    <2>3. Begun' <=> Begun
      BY <1>2 DEF Begun, Same
    <2>4. ~Begun => /\ state' = "Init" \/ (stop' # "no" /\ state' \in {"Stopping", "Stopped"})
                    /\ loops' = 0 /\ idling' = 0
      BY DEF Advance, CreatedInv
    <2>5. QED
      BY <1>1, <2>1, <2>2, <2>3, <2>4 DEF CreatedInv
  <1>4. LinkInv'
    <2> SUFFICES ASSUME NEW j \in Ids
                 PROVE  /\ apis'[j].link # "up" => apis'[j].rsp = <<>> /\ ~apis'[j].session
                        /\ Single(apis'[j].rsp)
                        /\ apis'[j].session => Owed(apis'[j].rsp) \cap Entries = {}
                        /\ apis'[j].session /\ ~apis'[j].entering => user' # 0
                        /\ apis'[j].entering /\ apis'[j].link = "up" => apis'[j].session
                        /\ apis'[j].link = "new" =>
                              j = current' /\ ~apis'[j].entering /\ apis'[j].waiter = "off"
      BY DEF LinkInv
    <2>1. Same(apis'[j], apis[j])
      BY <1>2
    <2>2. apis'[j].link # "up" => apis'[j].rsp = <<>> /\ ~apis'[j].session
      BY <1>2, <2>1 DEF LinkInv, Same
    <2>3. Single(apis'[j].rsp)
      BY <1>2 DEF LinkInv
    <2>4. apis'[j].session => Owed(apis'[j].rsp) \cap Entries = {}
      BY <1>2, <2>1 DEF LinkInv, Same, Advance
    <2>5. apis'[j].session /\ ~apis'[j].entering => user' # 0
      BY <1>1, <2>1 DEF LinkInv, Same
    <2>6. apis'[j].entering /\ apis'[j].link = "up" => apis'[j].session
      BY <2>1 DEF LinkInv, Same
    <2>7. apis'[j].link = "new" => j = current' /\ ~apis'[j].entering /\ apis'[j].waiter = "off"
      BY <1>1, <2>1 DEF LinkInv, Same
    <2>8. QED
      BY <2>2, <2>3, <2>4, <2>5, <2>6, <2>7
  <1>5. ChainInv'
    <2> SUFFICES ASSUME current <= 1, NEW j \in Ids
                 PROVE  /\ ~apis'[j].session \/ apis'[j].entering =>
                             Owed(apis'[j].rsp) \subseteq Early \cup Strays(spent')
                        /\ ~spent'.stray => \A x \in Owed(apis'[j].rsp) : Due(x)'
      BY <1>1 DEF ChainInv
    <2>1. CASE apis[j].link # "up"
      BY <1>2, <2>1, OwedNone
    <2>2. CASE apis[j].link = "up"
      <3>1. ~apis[j].session \/ apis[j].entering => Owed(apis[j].rsp) \subseteq Early \cup Strays(spent')
        BY DEF ChainInv, Strays, Advance
      <3>2. ~spent'.stray => \A x \in Owed(apis[j].rsp) : Due(x)'
        BY DueGrows DEF ChainInv, Advance
      <3>3. apis'[j].session = apis[j].session /\ apis'[j].entering = apis[j].entering
        BY <1>2 DEF Same
      <3>4. CASE j = m
        <4>1. /\ (apis[m].session /\ ~apis[m].entering) \/ added \subseteq Early \cup Strays(spent')
              /\ ~spent'.stray => \A x \in added : Due(x)'
          BY <2>2, <3>4 DEF Advance
        <4>2. QED
          BY <1>2, <3>1, <3>2, <3>3, <3>4, <4>1
      <3>5. CASE j # m
        BY <1>2, <3>1, <3>2, <3>3, <3>5
      <3>6. QED
        BY <3>4, <3>5
    <2>3. QED
      BY <2>1, <2>2
  <1>6. ReadyInv'
    <2> SUFFICES ASSUME current <= 1, ~spent'.stray, state' = "Ready"
                 PROVE  /\ confirmed' /\ instrReady' /\ inited' /\ loaded' = Parts
                        /\ \A j \in Ids : ~apis'[j].entering
                                          /\ (apis'[j].link = "up" => apis'[j].session)
      BY <1>1 DEF ReadyInv
    <2>1. loaded' \subseteq Parts
      BY DEF Advance, TypeOK
    <2>2. /\ confirmed' /\ instrReady' /\ inited' /\ loaded' = Parts
          /\ \A j \in Ids : ~apis[j].entering /\ (apis[j].link = "up" => apis[j].session)
      BY <2>1 DEF Advance, ReadyInv
    <2>3. QED
      BY <1>2, <2>2 DEF Same
  <1>7. HeldInv'
    BY <1>1, <1>2 DEF HeldInv, Same, Advance
  <1>8. ASSUME WatchInv PROVE WatchInv'
    <2> SUFFICES ASSUME spent.timeouts = 0, ~spent'.early, user = 0, stop' = "no"
                 PROVE  /\ \A k \in Ids : apis'[k].session <=> apis'[k].entering
                        /\ IsLoggedIn' => \E k \in Ids : apis'[k].entering
                        /\ Begun => \E k \in Ids : apis'[k].entering \/ apis'[k].waiter = "waiting"
      BY <1>1, <1>3 DEF WatchInv, Advance
    <2>1. /\ \A k \in Ids : apis[k].session <=> apis[k].entering
          /\ IsLoggedIn => \E k \in Ids : apis[k].entering
          /\ Begun => \E k \in Ids : apis[k].entering \/ apis[k].waiter = "waiting"
      BY <1>8 DEF Advance, WatchInv
    <2>2. IsLoggedIn' => IsLoggedIn
      BY <1>8 DEF Advance, IsLoggedIn
    <2>3. QED
      BY <1>2, <2>1, <2>2 DEF Same
  <1>9. TypeOK' /\ ConfirmInv'
    BY DEF Advance
  <1>10. Overlap
    <2> SUFFICES ASSUME proc' # proc, spent.timeouts = 0, stop = "no"
                 PROVE  Begun /\ apis[current].link = "new"
      BY DEF Overlap, Up
    <2>1. Begun /\ m <= current /\ ~apis[m].held
      BY DEF Advance
    <2>2. apis[m].link # "none" /\ apis[m].link \in {"none", "new", "down", "up", "released"}
      BY <2>1, CreatedFacts, FieldTypes DEF TypeOK, Instances
    <2>3. apis[m].link = "new"
      BY <2>1, <2>2 DEF HeldInv
    <2>4. QED
      BY <2>1, <2>3 DEF LinkInv
  <1>11. QED
    BY <1>3, <1>4, <1>5, <1>6, <1>7, <1>8, <1>9, <1>10

-----------------------------------------------------------------------------
(* The actions that are such steps.                                        *)

LEMMA ApisType == ASSUME Inv PROVE apis \in Instances /\ 1 \in Ids
  BY CreatedFacts DEF Inv, TypeOK, Instances

LEMMA QuietAdvance ==
    ASSUME Inv, TypeOK',
           UNCHANGED <<apis, current, session, spent, proc>>, stop' = "no" => stop = "no",
           Begun \/ UNCHANGED <<loops, idling>>,
           UNCHANGED state \/ (stop' # "no" /\ state' \in {"Stopping", "Stopped"})
    PROVE  \E m \in Ids, added \in SUBSET Kinds : Advance(m, added)
  <1>1. apis \in Instances /\ 1 \in Ids
    BY ApisType
  <1>2. Moved(1, {})
    BY <1>1, StayMoves
  <1>3. UNCHANGED <<user, loaded, confirmed, confirmedOn, inited, instrReady>>
    BY DEF session
  <1>4. ConfirmInv'
    BY <1>3 DEF Inv, ConfirmInv
  <1>5. Advance(1, {})
    BY <1>2, <1>3, <1>4 DEF Advance
  <1>6. QED
    BY <1>1, <1>5

LEMMA QuietActions ==
    ASSUME Inv,
           \/ \E c \in Clients : OnConnect(c) \/ OnDisconnect(c)
           \/ \E c \in Clients, l \in Logins : JoinSession(c, l) \/ BrokerNotFound(c, l)
           \/ Stop \/ FinishStop \/ NextDay \/ OnIdle
    PROVE  \E m \in Ids, added \in SUBSET Kinds : Advance(m, added)
  <1> USE DEF Inv
  <1>1. CASE \E c \in Clients : OnConnect(c) \/ OnDisconnect(c)
    <2>1. PICK c \in Clients : OnConnect(c) \/ OnDisconnect(c)
      BY <1>1
    <2>2. TypeOK'
      BY <2>1 DEF OnConnect, OnDisconnect, TypeOK, session, tasks
    <2>3. QED
      BY <2>1, <2>2, QuietAdvance DEF OnConnect, OnDisconnect, tasks
  <1>2. CASE \E c \in Clients, l \in Logins : JoinSession(c, l) \/ BrokerNotFound(c, l)
    <2>1. PICK c \in Clients, l \in Logins : JoinSession(c, l) \/ BrokerNotFound(c, l)
      BY <1>2
    <2>2. l \in Login \cup {NoLogin}
      BY DEF Login
    <2>3. TypeOK'
      BY <2>1, <2>2 DEF JoinSession, BrokerNotFound, TypeOK, session, tasks
    <2>4. QED
      BY <2>1, <2>3, QuietAdvance DEF JoinSession, BrokerNotFound, tasks
  <1>3. CASE Stop \/ FinishStop
    <2>1. TypeOK'
      BY <1>3 DEF Stop, FinishStop, TypeOK, session, tasks, States
    <2>2. QED
      BY <1>3, <2>1, QuietAdvance DEF Stop, FinishStop, tasks
  <1>4. CASE NextDay
    <2>1. MaxDay \in Nat \ {0}
      BY LoginSessionAssumption
    <2>2. TypeOK'
      BY <1>4, <2>1 DEF NextDay, TypeOK, session, tasks
    <2>3. QED
      BY <1>4, <2>2, QuietAdvance DEF NextDay, tasks
  <1>5. CASE OnIdle
    <2>1. state = "Ready" /\ Begun /\ idling' = idling + 1
      BY <1>5 DEF OnIdle, CreatedInv
    <2>2. TypeOK'
      BY <1>5, <2>1 DEF OnIdle, TypeOK, session
    <2>3. QED
      BY <1>5, <2>1, <2>2, QuietAdvance DEF OnIdle
  <1>6. QED
    BY <1>1, <1>2, <1>3, <1>4, <1>5

\* A response an SPI may be handed came over a connection of the trader.
LEMMA AnsweredFacts ==
    ASSUME Inv, NEW k \in Ids, Free(k), apis[k].rsp # <<>>
    PROVE  /\ Up /\ apis[k].link = "up" /\ ~apis[k].entering
           /\ Begun /\ k <= current /\ current \in Ids
           /\ Head(apis[k].rsp) \in Owed(apis[k].rsp) /\ Head(apis[k].rsp) \in Kinds
           /\ current <= 1 => k = current
           /\ apis[k].session => user # 0
  <1> USE DEF Inv
  <1>1. Up /\ apis[k].link = "up" /\ ~apis[k].entering
    BY DEF Free, LinkInv
  <1>2. Begun /\ k <= current /\ current \in Ids
    BY <1>1, CreatedFacts DEF Begun
  <1>3. apis[k].rsp \in Seq(Kinds)
    BY ApisType, FieldTypes
  <1>4. Head(apis[k].rsp) \in Owed(apis[k].rsp) /\ Head(apis[k].rsp) \in Kinds
    BY <1>3, OwedTail, HeadTailProperties
  <1>5. current <= 1 => k = current
    BY <1>2, CreatedFacts DEF Ids
  <1>6. QED
    BY <1>1, <1>2, <1>4, <1>5 DEF LinkInv

LEMMA OnRspErrorAdvances ==
    ASSUME Inv, NEW k \in Ids, OnRspError(k)
    PROVE  Advance(k, {})
  <1> USE DEF Inv
  <1>1. Free(k) /\ apis[k].rsp # <<>> /\ apis' = Popped(k)
    BY DEF OnRspError
  <1>2. Moved(k, {})
    BY <1>1, ApisType, PopMoves
  <1>3. UNCHANGED <<state, conns, reqLogin, current, ctpApi, stop, proc, day, user, loaded,
                    confirmed, confirmedOn, inited, instrReady, loops, idling, mgr, checkers>>
    BY DEF OnRspError, session, tasks
  <1>4. spent' \in Spent
        /\ spent'.timeouts = spent.timeouts /\ spent'.early = spent.early
        /\ spent'.stray = spent.stray
    <2>1. spent \in Spent
      BY DEF TypeOK
    <2>2. spent' = spent \/ (spent.errors < MaxErrors /\ spent' = [spent EXCEPT !.errors = @ + 1])
      BY DEF OnRspError, Spend
    <2>3. MaxErrors \in Nat
      BY LoginSessionAssumption
    <2>4. QED
      BY <2>1, <2>2, <2>3 DEF Spent
  <1>5. TypeOK'
    BY <1>2, <1>3, <1>4 DEF TypeOK, Moved, Instances
  <1>6. ConfirmInv'
    BY <1>3 DEF ConfirmInv
  <1>7. QED
    BY <1>2, <1>3, <1>4, <1>5, <1>6 DEF Advance

LEMMA ConfirmSettlementAdvances ==
    ASSUME Inv, NEW c \in Clients, ConfirmSettlement(c)
    PROVE  Begun /\ Advance(current, {"confirm"})
  <1> USE DEF Inv
  <1>1. Begun /\ current \in Ids
    <2>1. Begun
      BY DEF ConfirmSettlement, CreatedInv
    <2>2. QED
      BY <2>1, CreatedFacts
  <1>2. /\ CallIfHeld(apis, current, "confirm")
        /\ state' = IF apis[current].held THEN "SettlementConfirming" ELSE state
    BY DEF ConfirmSettlement, Confirm
  <1>3. Moved(current, {"confirm"}) /\ proc' = proc
    <2>1. CASE apis[current].held
      <3>1. Call(apis, current, "confirm")
        BY <1>2, <2>1 DEF CallIfHeld
      <3>2. QED
        BY <1>1, <2>1, <3>1, ApisType, CallMoves DEF Kinds, Entries
    <2>2. CASE ~apis[current].held
      <3>1. apis' = apis /\ proc' = proc
        BY <1>2, <2>2 DEF CallIfHeld
      <3>2. QED
        BY <1>1, <3>1, ApisType, StayMoves
    <2>3. QED
      BY <2>1, <2>2
  <1>4. UNCHANGED <<conns, reqLogin, current, ctpApi, stop, day, user, loaded, confirmed,
                    confirmedOn, inited, instrReady, loops, idling, mgr, checkers>>
    BY DEF ConfirmSettlement, session, tasks
  <1>5. state' \in States
    BY <1>2 DEF States, TypeOK
  <1>6. /\ spent' \in Spent /\ spent'.timeouts = spent.timeouts
        /\ (spent.early => spent'.early) /\ (user = 0 => spent'.early)
        /\ spent'.stray = spent.stray
    <2>1. spent \in Spent /\ spent' = [spent EXCEPT !.early = @ \/ user = 0]
      BY DEF ConfirmSettlement, TypeOK
    <2>2. /\ spent' = [spent EXCEPT !.early = spent.early \/ user = 0]
          /\ (spent.early \/ user = 0) \in BOOLEAN
      BY <2>1
    <2>3. QED
      BY <2>1, <2>2 DEF Spent
  <1>7. TypeOK'
    BY <1>3, <1>4, <1>5, <1>6 DEF TypeOK, Moved, Instances
  <1>8. ConfirmInv'
    BY <1>4 DEF ConfirmInv
  <1>9. \A x \in {"confirm"} : Due(x)'
    BY DEF Due, Parts
  <1>10. UNCHANGED state \/ state' # "Ready"
    BY <1>2
  <1>11. {"confirm"} \subseteq Kinds /\ {"confirm"} \cap Entries = {} /\ {"confirm"} \subseteq Early
    BY DEF Kinds, Entries, Early
  <1>12. QED
    BY <1>1, <1>3, <1>4, <1>7, <1>8, <1>6, <1>9, <1>10, <1>11 DEF Advance

LEMMA QrySettlementInfoAdvances ==
    ASSUME Inv, NEW c \in Clients, QrySettlementInfo(c)
    PROVE  \E m \in Ids, added \in SUBSET Kinds : Advance(m, added)
  <1> USE DEF Inv
  <1>1. IsLoggedIn /\ (~Begun => stop # "no")
    BY DEF QrySettlementInfo, CreatedInv, IsLoggedIn, LoggedInStates
  <1>2. UNCHANGED <<state, conns, reqLogin, current, ctpApi, stop, day, spent, user, loaded, confirmed,
                    confirmedOn, inited, instrReady, loops, idling, mgr, checkers>>
    BY DEF QrySettlementInfo, session, tasks
  <1>3. ConfirmInv'
    BY <1>2 DEF ConfirmInv
  <1>4. CASE current = 0
    <2>1. proc' = "panicked" /\ apis' = apis /\ stop # "no"
      BY <1>1, <1>4, CreatedFacts DEF QrySettlementInfo, Ids
    <2>2. TypeOK'
      BY <1>2, <2>1 DEF TypeOK
    <2>3. 1 \in Ids /\ Moved(1, {})
      BY <2>1, ApisType, StayMoves
    <2>4. Advance(1, {})
      BY <1>2, <1>3, <2>1, <2>2, <2>3 DEF Advance
    <2>5. QED
      BY <2>3, <2>4
  <1>5. CASE current # 0
    <2>1. current \in Ids /\ Call(apis, current, "settle")
      BY <1>5, CreatedFacts DEF QrySettlementInfo, Ids
    <2>2. Moved(current, {"settle"}) /\ proc' = IF apis[current].held THEN proc ELSE "panicked"
      BY <2>1, ApisType, CallMoves DEF Kinds, Entries
    <2>3. proc' \in {"up", "panicked"}
      BY <2>2 DEF TypeOK
    <2>4. TypeOK'
      BY <1>2, <2>2, <2>3 DEF TypeOK, Moved, Instances
    <2>5. \A x \in {"settle"} : Due(x)'
      BY DEF Due, Parts
    <2>6. {"settle"} \subseteq Kinds /\ {"settle"} \cap Entries = {} /\ {"settle"} \subseteq Early
      BY DEF Kinds, Entries, Early
    <2>7. UNCHANGED proc \/ stop # "no" \/ (Begun /\ current <= current /\ ~apis[current].held)
      BY <1>1, <2>1, <2>2 DEF Ids
    <2>8. Advance(current, {"settle"})
      BY <1>2, <1>3, <2>2, <2>4, <2>5, <2>6, <2>7 DEF Advance
    <2>9. QED
      BY <2>1, <2>6, <2>8
  <1>6. QED
    BY <1>4, <1>5

LEMMA OnRspAuthenticateAdvances ==
    ASSUME Inv, NEW k \in Ids, OnRspAuthenticate(k)
    PROVE  Advance(k, {"login"})
  <1> USE DEF Inv
  <1>1. /\ Free(k) /\ apis[k].rsp # <<>> /\ Head(apis[k].rsp) = "auth" /\ Call(Popped(k), k, "login")
        /\ state' = IF apis[k].held THEN "LoggingIn" ELSE "Authenticated"
    BY DEF OnRspAuthenticate, Answered
  <1>2. Moved(k, {"login"}) /\ proc' = IF apis[k].held THEN proc ELSE "panicked"
    BY <1>1, ApisType, PopCallMoves DEF Kinds, Entries
  <1>3. Begun /\ k <= current /\ "auth" \in Owed(apis[k].rsp)
    BY <1>1, AnsweredFacts
  <1>4. ~apis[k].session
    BY <1>3 DEF LinkInv, Entries
  <1>5. UNCHANGED <<conns, reqLogin, current, ctpApi, stop, day, spent, user, loaded, confirmed,
                    confirmedOn, inited, instrReady, loops, idling, mgr, checkers>>
    BY DEF OnRspAuthenticate, session, tasks
  <1>6. state' \in States /\ state' \notin LoggedInStates /\ state' # "Ready"
    BY <1>1 DEF States, LoggedInStates
  <1>7. proc' \in {"up", "panicked"}
    BY <1>2 DEF TypeOK
  <1>8. TypeOK'
    BY <1>2, <1>5, <1>6, <1>7 DEF TypeOK, Moved, Instances
  <1>9. ConfirmInv'
    BY <1>5 DEF ConfirmInv
  <1>10. \A x \in {"login"} : Due(x)'
    BY DEF Due, Parts
  <1>11. {"login"} \subseteq Kinds /\ {"login"} \subseteq Early
    BY DEF Kinds, Entries, Early
  <1>12. UNCHANGED proc \/ (Begun /\ k <= current /\ ~apis[k].held)
    BY <1>2, <1>3
  <1>13. QED
    BY <1>2, <1>3, <1>4, <1>5, <1>6, <1>8, <1>9, <1>10, <1>11, <1>12 DEF Advance

LEMMA OnRspQrySettlementInfoAdvances ==
    ASSUME Inv, NEW k \in Ids, OnRspQrySettlementInfo(k)
    PROVE  Advance(current, {"confirm"})
  <1> USE DEF Inv
  <1>1. Free(k) /\ apis[k].rsp # <<>> /\ apis[k].session
    BY DEF OnRspQrySettlementInfo, Answered
  <1>2. Begun /\ current \in Ids /\ user # 0
    BY <1>1, AnsweredFacts
  <1>3. /\ Moved(current, {"confirm"}) /\ proc' = proc
        /\ state' = state \/ state' = "SettlementConfirming"
    <2>1. CASE AutoConfirm
      <3>1. CallIfHeld(Popped(k), current, "confirm")
            /\ state' = IF Popped(k)[current].held THEN "SettlementConfirming" ELSE state
        BY <2>1 DEF OnRspQrySettlementInfo, Confirm
      <3>2. Moved(current, {"confirm"}) /\ proc' = proc
        BY <1>1, <1>2, <3>1, ApisType, PopCallIfHeldMoves DEF Kinds, Entries
      <3>3. QED
        BY <3>1, <3>2
    <2>2. CASE ~AutoConfirm
      <3>1. apis' = Popped(k) /\ proc' = proc /\ state' = state
        BY <2>2 DEF OnRspQrySettlementInfo
      <3>2. Moved(k, {})
        BY <1>1, <3>1, ApisType, PopMoves
      <3>3. QED
        BY <3>1, <3>2, MoreMoves
    <2>3. QED
      BY <2>1, <2>2
  <1>4. UNCHANGED <<conns, reqLogin, current, ctpApi, stop, day, spent, user, loaded, confirmed,
                    confirmedOn, inited, instrReady, loops, idling, mgr, checkers>>
    BY DEF OnRspQrySettlementInfo, session, tasks
  <1>5. state' \in States
    BY <1>3 DEF States, TypeOK
  <1>6. TypeOK'
    BY <1>3, <1>4, <1>5 DEF TypeOK, Moved, Instances
  <1>7. ConfirmInv'
    BY <1>4 DEF ConfirmInv
  <1>8. \A x \in {"confirm"} : Due(x)'
    BY DEF Due, Parts
  <1>9. {"confirm"} \subseteq Kinds /\ {"confirm"} \cap Entries = {} /\ {"confirm"} \subseteq Early
    BY DEF Kinds, Entries, Early
  <1>10. UNCHANGED state \/ state' # "Ready"
    BY <1>3
  <1>11. QED
    BY <1>2, <1>3, <1>4, <1>6, <1>7, <1>8, <1>9, <1>10 DEF Advance

LEMMA OnRspSettlementInfoConfirmAdvances ==
    ASSUME Inv, NEW k \in Ids, OnRspSettlementInfoConfirm(k)
    PROVE  Advance(current, {"instr"})
  <1> USE DEF Inv
  <1>1. Free(k) /\ apis[k].rsp # <<>> /\ apis[k].session /\ CallIfHeld(Popped(k), current, "instr")
    BY DEF OnRspSettlementInfoConfirm, Answered
  <1>2. /\ Begun /\ current \in Ids /\ user # 0 /\ ~apis[k].entering
        /\ current <= 1 => k = current
    BY <1>1, AnsweredFacts
  <1>3. Moved(current, {"instr"}) /\ proc' = proc
    BY <1>1, <1>2, ApisType, PopCallIfHeldMoves DEF Kinds, Entries
  <1>4. UNCHANGED <<state, conns, reqLogin, current, ctpApi, user, loaded, inited, instrReady,
                    stop, day, spent, idling>>
    BY DEF OnRspSettlementInfoConfirm
  <1>5. confirmed' = TRUE /\ confirmedOn' = user /\ loops' \in Nat /\ checkers' \in Nat
        /\ mgr' \in BOOLEAN
    BY DEF OnRspSettlementInfoConfirm, TypeOK
  <1>6. TypeOK'
    BY <1>3, <1>4, <1>5 DEF TypeOK, Moved, Instances
  <1>7. ConfirmInv'
    BY <1>2, <1>4, <1>5 DEF ConfirmInv
  <1>8. \A x \in {"instr"} : Due(x)'
    BY <1>5 DEF Due, Parts
  <1>9. {"instr"} \subseteq Kinds /\ {"instr"} \cap Entries = {}
    BY DEF Kinds, Entries
  <1>10. QED
    BY <1>1, <1>2, <1>3, <1>4, <1>5, <1>6, <1>7, <1>8, <1>9 DEF Advance

LEMMA OnRspQryInstrumentAdvances ==
    ASSUME Inv, NEW k \in Ids, OnRspQryInstrument(k)
    PROVE  Advance(current, {"acct"})
  <1> USE DEF Inv
  <1>1. /\ Free(k) /\ apis[k].rsp # <<>> /\ apis[k].session /\ Call(Popped(k), current, "acct")
        /\ Head(apis[k].rsp) = "instr"
    BY DEF OnRspQryInstrument, Answered
  <1>2. /\ Begun /\ current \in Ids /\ ~apis[k].entering /\ (current <= 1 => k = current)
        /\ "instr" \in Owed(apis[k].rsp)
    BY <1>1, AnsweredFacts
  <1>3. Moved(current, {"acct"}) /\ proc' = IF apis[current].held THEN proc ELSE "panicked"
    BY <1>1, <1>2, ApisType, PopCallMoves DEF Kinds, Entries, Parts
  <1>4. UNCHANGED <<state, conns, reqLogin, current, ctpApi, user, loaded, confirmed, confirmedOn,
                    inited, stop, day, spent, loops, idling, mgr, checkers>>
    BY DEF OnRspQryInstrument, tasks
  <1>5. instrReady' = TRUE
    BY DEF OnRspQryInstrument
  <1>6. proc' \in {"up", "panicked"}
    BY <1>3 DEF TypeOK
  <1>7. TypeOK'
    BY <1>3, <1>4, <1>5, <1>6 DEF TypeOK, Moved, Instances
  <1>8. ConfirmInv'
    BY <1>4 DEF ConfirmInv
  <1>9. current <= 1 /\ ~spent.stray => \A x \in {"acct"} : Due(x)'
    <2>1. current <= 1 /\ ~spent.stray => Due("instr")
      BY <1>2 DEF ChainInv
    <2>2. QED
      BY <1>4, <1>5, <2>1 DEF Due, Parts
  <1>10. {"acct"} \subseteq Kinds /\ {"acct"} \cap Entries = {}
    BY DEF Kinds, Entries, Parts
  <1>11. UNCHANGED proc \/ (Begun /\ current <= current /\ ~apis[current].held)
    BY <1>2, <1>3 DEF Ids
  <1>12. QED
    BY <1>1, <1>2, <1>3, <1>4, <1>5, <1>7, <1>8, <1>9, <1>10, <1>11 DEF Advance

LEMMA OnRspQueryAdvances ==
    ASSUME Inv, NEW k \in Ids, NEW kind \in DOMAIN After, OnRspQuery(k, kind)
    PROVE  Advance(k, {After[kind]})
  <1> USE DEF Inv
  <1>1. /\ Free(k) /\ apis[k].rsp # <<>> /\ apis[k].session /\ Call(Popped(k), k, After[kind])
        /\ Head(apis[k].rsp) = kind
    BY DEF OnRspQuery, Answered
  <1>2. /\ Begun /\ k <= current /\ ~apis[k].entering /\ kind \in Owed(apis[k].rsp)
    BY <1>1, AnsweredFacts
  <1>3. kind \in {"acct", "pos", "ord"}
    BY DEF After
  <1>4. After[kind] \in Parts /\ After[kind] \in Kinds /\ After[kind] \notin Entries
    BY <1>3 DEF After, Kinds, Entries, Parts
  <1>5. Moved(k, {After[kind]}) /\ proc' = IF apis[k].held THEN proc ELSE "panicked"
    BY <1>1, <1>4, ApisType, PopCallMoves
  <1>6. UNCHANGED <<state, conns, reqLogin, current, ctpApi, user, confirmed, confirmedOn,
                    inited, instrReady, stop, day, spent, loops, idling, mgr, checkers>>
    BY DEF OnRspQuery, tasks
  <1>7. loaded' = loaded \cup {kind} /\ loaded' \subseteq Parts
    BY <1>3 DEF OnRspQuery, TypeOK, Parts
  <1>8. proc' \in {"up", "panicked"}
    BY <1>5 DEF TypeOK
  <1>9. TypeOK'
    BY <1>5, <1>6, <1>7, <1>8 DEF TypeOK, Moved, Instances
  <1>10. ConfirmInv'
    BY <1>6 DEF ConfirmInv
  <1>11. current <= 1 /\ ~spent.stray => Due(After[kind])'
    <2>1. current <= 1 /\ ~spent.stray => Due(kind)
      BY <1>2 DEF ChainInv
    <2>2. QED
      BY <1>3, <1>6, <1>7, <2>1 DEF Due, Parts, After
  <1>12. UNCHANGED proc \/ (Begun /\ k <= current /\ ~apis[k].held)
    BY <1>2, <1>5
  <1>13. QED
    BY <1>1, <1>2, <1>4, <1>5, <1>6, <1>7, <1>9, <1>10, <1>11, <1>12 DEF Advance

LEMMA OnRspQryTradeAdvances ==
    ASSUME Inv, NEW k \in Ids, OnRspQryTrade(k)
    PROVE  Advance(k, {})
  <1> USE DEF Inv
  <1>1. /\ Free(k) /\ apis[k].rsp # <<>> /\ apis[k].session /\ apis' = Popped(k)
        /\ Head(apis[k].rsp) = "trade"
    BY DEF OnRspQryTrade, Answered
  <1>2. /\ Begun /\ current \in Ids /\ ~apis[k].entering /\ (current <= 1 => k = current)
        /\ "trade" \in Owed(apis[k].rsp) /\ user # 0
    BY <1>1, AnsweredFacts
  <1>3. Moved(k, {})
    BY <1>1, ApisType, PopMoves
  <1>4. UNCHANGED <<conns, reqLogin, current, ctpApi, user, confirmed, confirmedOn, instrReady,
                    proc, stop, day, spent, loops, idling, mgr, checkers>>
    BY DEF OnRspQryTrade, tasks
  <1>5. loaded' = loaded \cup {"trade"} /\ inited' = TRUE /\ state' = "Ready"
    BY DEF OnRspQryTrade
  <1>6. loaded' \subseteq Parts /\ state' \in States
    BY <1>5 DEF TypeOK, Parts, States
  <1>7. TypeOK'
    BY <1>3, <1>4, <1>5, <1>6 DEF TypeOK, Moved, Instances
  <1>8. ConfirmInv'
    BY <1>4 DEF ConfirmInv
  <1>9. ASSUME current <= 1, ~spent.stray
        PROVE  /\ confirmed' /\ instrReady' /\ inited' /\ loaded' = Parts
               /\ \A j \in Ids : ~apis[j].entering /\ (apis[j].link = "up" => apis[j].session)
    <2>1. Due("trade")
      BY <1>2, <1>9 DEF ChainInv
    <2>2. {"acct", "pos", "ord", "trade"} \subseteq loaded'
      BY <1>5, <2>1 DEF Due
    <2>3. confirmed' /\ instrReady' /\ inited' /\ loaded' = Parts
      BY <1>4, <1>5, <1>6, <2>1, <2>2 DEF Due, Parts
    <2>4. \A j \in Ids \ {k} : apis[j] = Unused
      BY <1>2, <1>9, CreatedFacts DEF Ids
    <2>5. ~Unused.entering /\ Unused.link # "up"
      BY DEF Unused
    <2>6. QED
      BY <1>1, <1>2, <2>3, <2>4, <2>5
  <1>10. QED
    BY <1>2, <1>3, <1>4, <1>5, <1>7, <1>8, <1>9 DEF Advance

LEMMA IdleQueryAdvances ==
    ASSUME Inv, IdleQuery
    PROVE  \E m \in Ids, added \in SUBSET Kinds : Advance(m, added)
  <1> USE DEF Inv
  <1>1. Begun /\ current \in Ids /\ idling \in Nat /\ idling > 0 /\ idling' = idling - 1
    BY CreatedFacts DEF IdleQuery, CreatedInv, TypeOK
  <1>2. UNCHANGED <<state, conns, reqLogin, current, ctpApi, user, loaded, confirmed, confirmedOn,
                    inited, instrReady, stop, day, loops, mgr, checkers>>
    BY DEF IdleQuery, session
  <1>3. ConfirmInv' /\ idling' \in Nat
    BY <1>1, <1>2 DEF ConfirmInv
  <1>4. CASE UNCHANGED <<apis, proc, spent>>
    <2>1. TypeOK'
      BY <1>2, <1>3, <1>4 DEF TypeOK
    <2>2. Moved(current, {})
      BY <1>1, <1>4, ApisType, StayMoves
    <2>3. Advance(current, {})
      BY <1>1, <1>2, <1>3, <1>4, <2>1, <2>2 DEF Advance
    <2>4. QED
      BY <1>1, <2>3
  <1>5. ASSUME NEW kind \in {"pos", "acct"}, Call(apis, current, kind),
               spent' = [spent EXCEPT !.stray = @ \/ (apis' # apis /\ ~Through)]
        PROVE  \E m \in Ids, added \in SUBSET Kinds : Advance(m, added)
    <2>1. kind \in Kinds /\ kind \notin Entries
      BY DEF Kinds, Entries, Parts
    <2>2. Moved(current, {kind}) /\ proc' = IF apis[current].held THEN proc ELSE "panicked"
      BY <1>1, <1>5, <2>1, ApisType, CallMoves
    <2>3. /\ spent' \in Spent /\ spent'.timeouts = spent.timeouts /\ spent'.early = spent.early
          /\ (spent.stray => spent'.stray) /\ (apis' # apis /\ ~Through => spent'.stray)
      <3>1. spent \in Spent
        BY DEF TypeOK
      <3>2. (spent.stray \/ (apis' # apis /\ ~Through)) \in BOOLEAN
        BY <3>1 DEF Spent
      <3>3. QED
        BY <1>5, <3>1, <3>2 DEF Spent
    <2>4. proc' \in {"up", "panicked"}
      BY <2>2 DEF TypeOK
    <2>5. TypeOK'
      BY <1>2, <1>3, <2>2, <2>3, <2>4 DEF TypeOK, Moved, Instances
    <2>6. UNCHANGED proc \/ (Begun /\ current <= current /\ ~apis[current].held)
      BY <1>1, <2>2 DEF Ids
    <2>7. CASE apis' = apis
      <3>1. Moved(current, {})
        BY <1>1, <2>7, ApisType, StayMoves
      <3>2. Advance(current, {})
        BY <1>1, <1>2, <1>3, <2>3, <2>5, <2>6, <3>1 DEF Advance
      <3>3. QED
        BY <1>1, <3>2
    <2>8. CASE spent'.stray
      <3>1. {kind} \subseteq Early \cup Strays(spent')
        BY <2>8 DEF Strays
      <3>2. Advance(current, {kind})
        BY <1>1, <1>2, <1>3, <2>1, <2>2, <2>3, <2>5, <2>6, <2>8, <3>1 DEF Advance
      <3>3. QED
        BY <1>1, <2>1, <3>2
    <2>9. CASE Through
      <3>1. /\ confirmed /\ instrReady /\ loaded = Parts
            /\ apis[current].session /\ ~apis[current].entering
        BY <2>9 DEF Through
      <3>2. \A x \in {kind} : Due(x)'
        BY <1>2, <3>1 DEF Due, Parts
      <3>3. Advance(current, {kind})
        BY <1>1, <1>2, <1>3, <2>1, <2>2, <2>3, <2>5, <2>6, <3>1, <3>2 DEF Advance
      <3>4. QED
        BY <1>1, <2>1, <3>3
    <2>10. QED
      BY <2>3, <2>7, <2>8, <2>9
  <1>6. QED
    BY <1>4, <1>5 DEF IdleQuery

-----------------------------------------------------------------------------
(* The other actions change one instance in a way of their own.            *)

\* An EXCEPT of several fields of an instance, a field at a time.
LEMMA SetTypes ==
    ASSUME NEW as \in Instances, NEW k \in Ids
    PROVE  /\ [as EXCEPT ![k].link = "up"] \in Instances
           /\ [as EXCEPT ![k].link = "down"] \in Instances
           /\ [as EXCEPT ![k].link = "released"] \in Instances
           /\ [as EXCEPT ![k].session = FALSE] \in Instances
           /\ [as EXCEPT ![k].session = TRUE] \in Instances
           /\ [as EXCEPT ![k].entering = FALSE] \in Instances
           /\ [as EXCEPT ![k].entering = TRUE] \in Instances
           /\ [as EXCEPT ![k].rsp = <<>>] \in Instances
           /\ [as EXCEPT ![k].waiter = "off"] \in Instances
           /\ [as EXCEPT ![k].waiter = "stopping"] \in Instances
           /\ [as EXCEPT ![k].held = FALSE] \in Instances
  <1>1. <<>> \in Seq(Kinds)
    BY OwedNone
  <1>2. [as EXCEPT ![k].link = "up"] \in Instances
    BY DEF Instances, Instance
  <1>3. [as EXCEPT ![k].link = "down"] \in Instances
    BY DEF Instances, Instance
  <1>4. [as EXCEPT ![k].link = "released"] \in Instances
    BY DEF Instances, Instance
  <1>5. [as EXCEPT ![k].session = FALSE] \in Instances
    BY DEF Instances, Instance
  <1>6. [as EXCEPT ![k].session = TRUE] \in Instances
    BY DEF Instances, Instance
  <1>7. [as EXCEPT ![k].entering = FALSE] \in Instances
    BY DEF Instances, Instance
  <1>8. [as EXCEPT ![k].entering = TRUE] \in Instances
    BY DEF Instances, Instance
  <1>9. [as EXCEPT ![k].rsp = <<>>] \in Instances
    BY <1>1 DEF Instances, Instance
  <1>10. [as EXCEPT ![k].waiter = "off"] \in Instances
    BY DEF Instances, Instance
  <1>11. [as EXCEPT ![k].waiter = "stopping"] \in Instances
    BY DEF Instances, Instance
  <1>12. [as EXCEPT ![k].held = FALSE] \in Instances
    BY DEF Instances, Instance
  <1>13. QED
    BY <1>2, <1>3, <1>4, <1>5, <1>6, <1>7, <1>8, <1>9, <1>10, <1>11, <1>12

LEMMA OnFrontDisconnectedFacts ==
    ASSUME apis \in Instances, NEW k \in Ids,
           apis' = [apis EXCEPT ![k].link = "down", ![k].session = FALSE, ![k].rsp = <<>>]
    PROVE  /\ apis' \in Instances
           /\ \A j \in Ids \ {k} : apis'[j] = apis[j]
           /\ apis'[k].link = "down" /\ apis'[k].session = FALSE /\ apis'[k].rsp = <<>>
           /\ apis'[k].held = apis[k].held /\ apis'[k].entering = apis[k].entering
           /\ apis'[k].waiter = apis[k].waiter
  <1> DEFINE as == [apis EXCEPT ![k].link = "down"]
             bs == [as EXCEPT ![k].session = FALSE]
             cs == [bs EXCEPT ![k].rsp = <<>>]
  <1>1. as \in Instances
    BY SetTypes
  <1> HIDE DEF as
  <1>2. bs \in Instances
    BY <1>1, SetTypes
  <1> HIDE DEF bs
  <1>3. cs \in Instances
    BY <1>2, SetTypes
  <1>4. apis' = cs
    BY DEF as, bs, cs, Instances, Instance
  <1>5. \A j \in Ids \ {k} : apis'[j] = apis[j]
    BY DEF Instances
  <1>6. /\ apis'[k].link = "down" /\ apis'[k].session = FALSE /\ apis'[k].rsp = <<>>
        /\ apis'[k].held = apis[k].held /\ apis'[k].entering = apis[k].entering
        /\ apis'[k].waiter = apis[k].waiter
    BY DEF Instances, Instance
  <1>7. QED
    BY <1>3, <1>4, <1>5, <1>6

\* A step that changes instance k, and the state with it, but nothing that was
\* learned from CTP.
Change(k) ==
    /\ TypeOK' /\ apis' \in Instances /\ k <= current
    /\ \A j \in Ids \ {k} : apis'[j] = apis[j]
    /\ UNCHANGED <<current, session, loops, idling, stop, spent.timeouts, spent.early, spent.stray>>
    /\ state' = "Ready" => state = "Ready"
    /\ apis[k].link # "new" /\ apis'[k].link \in {"down", "up", "released"}
    /\ apis'[k].link # "up" => apis'[k].rsp = <<>> /\ ~apis'[k].session
    /\ Single(apis'[k].rsp)
    /\ apis'[k].session => Owed(apis'[k].rsp) \cap Entries = {}
    /\ apis'[k].session /\ ~apis'[k].entering => user # 0
    /\ apis'[k].entering /\ apis'[k].link = "up" => apis'[k].session
    /\ Owed(apis'[k].rsp) \subseteq Owed(apis[k].rsp) \cup Entries
    /\ current <= 1 /\ (~apis'[k].session \/ apis'[k].entering) =>
          Owed(apis'[k].rsp) \subseteq Early \cup Strays(spent)
    /\ state' = "Ready" /\ current <= 1 /\ ~spent.stray =>
          ~apis'[k].entering /\ (apis'[k].link = "up" => apis'[k].session)
    /\ apis'[k].held = apis[k].held
    /\ spent.timeouts = 0 => UNCHANGED proc /\ apis'[k].waiter # "stopping"
    /\ spent.timeouts = 0 /\ ~spent.early /\ user = 0 /\ WatchInv /\ stop = "no" =>
          /\ apis'[k].session <=> apis'[k].entering
          /\ apis[k].entering => apis'[k].entering
          /\ IsLoggedIn' => IsLoggedIn \/ apis'[k].entering
          /\ apis[k].waiter = "waiting" =>
                apis'[k].waiter = "waiting" \/ \E j \in Ids : apis'[j].entering

LEMMA ChangeKeeps ==
    ASSUME Inv, NEW k \in Ids, Change(k)
    PROVE  Inv' /\ (WatchInv => WatchInv') /\ Overlap
  <1> USE DEF Inv
  <1>1. /\ \A j \in Ids \ {k} : apis'[j] = apis[j]
        /\ UNCHANGED <<current, stop, spent.timeouts, spent.early, spent.stray, user, loaded,
                       confirmed, confirmedOn, inited, instrReady>>
    BY DEF Change, session
  <1>2. k <= current /\ current \in 0..MaxApis /\ MaxApis \in Nat /\ ~(k > current)
    BY CreatedFacts DEF Change, Ids
  <1>3. /\ apis[k].link \in {"down", "up", "released"} /\ apis'[k].link \in {"down", "up", "released"}
        /\ Begun /\ Begun'
    <2>1. apis[k].link # "none" /\ apis[k].link \in {"none", "new", "down", "up", "released"}
      BY <1>2, CreatedFacts, ApisType, FieldTypes
    <2>2. QED
      BY <2>1 DEF Change, Begun
  <1>4. CreatedInv'
    BY <1>1, <1>2, <1>3 DEF CreatedInv
  <1>5. LinkInv'
    <2>1. ASSUME NEW j \in Ids \ {k}
          PROVE  /\ apis'[j].link # "up" => apis'[j].rsp = <<>> /\ ~apis'[j].session
                 /\ Single(apis'[j].rsp)
                 /\ apis'[j].session => Owed(apis'[j].rsp) \cap Entries = {}
                 /\ apis'[j].session /\ ~apis'[j].entering => user # 0
                 /\ apis'[j].entering /\ apis'[j].link = "up" => apis'[j].session
                 /\ apis'[j].link = "new" =>
                       j = current /\ ~apis'[j].entering /\ apis'[j].waiter = "off"
      BY <1>1 DEF LinkInv
    <2>2. QED
      BY <1>1, <1>3, <2>1 DEF LinkInv, Change
  <1>6. ConfirmInv'
    BY <1>1 DEF ConfirmInv
  <1>7. ChainInv'
    <2> SUFFICES ASSUME current <= 1, NEW j \in Ids
                 PROVE  /\ ~apis'[j].session \/ apis'[j].entering =>
                             Owed(apis'[j].rsp) \subseteq Early \cup Strays(spent)
                        /\ ~spent.stray => \A x \in Owed(apis'[j].rsp) : Due(x)'
      BY <1>1 DEF ChainInv, Strays
    <2>1. ~spent.stray => \A x \in Owed(apis[j].rsp) \cup Entries : Due(x)
      BY DEF ChainInv, Due, Entries, Parts
    <2>2. ~spent.stray => \A x \in Owed(apis[j].rsp) \cup Entries : Due(x)'
      BY <1>1, <2>1, DueGrows
    <2>3. CASE j = k
      BY <2>2, <2>3 DEF Change
    <2>4. CASE j # k
      BY <1>1, <2>2, <2>4 DEF ChainInv
    <2>5. QED
      BY <2>3, <2>4
  <1>8. ReadyInv'
    BY <1>1 DEF ReadyInv, Change
  <1>9. HeldInv' /\ Overlap
    BY <1>1, <1>3 DEF HeldInv, Change, Overlap, Up
  <1>10. ASSUME WatchInv PROVE WatchInv'
    <2> SUFFICES ASSUME spent.timeouts = 0, ~spent.early, user = 0, stop = "no"
                 PROVE  /\ \A j \in Ids : apis'[j].session <=> apis'[j].entering
                        /\ IsLoggedIn' => \E j \in Ids : apis'[j].entering
                        /\ \E j \in Ids : apis'[j].entering \/ apis'[j].waiter = "waiting"
      BY <1>1, <1>3 DEF WatchInv
    <2>1. /\ \A j \in Ids : apis[j].session <=> apis[j].entering
          /\ IsLoggedIn => \E j \in Ids : apis[j].entering
          /\ \E j \in Ids : apis[j].entering \/ apis[j].waiter = "waiting"
      BY <1>3, <1>10 DEF WatchInv
    <2>2. /\ apis'[k].session <=> apis'[k].entering
          /\ apis[k].entering => apis'[k].entering
          /\ IsLoggedIn' => IsLoggedIn \/ apis'[k].entering
          /\ apis[k].waiter = "waiting" =>
                apis'[k].waiter = "waiting" \/ \E j \in Ids : apis'[j].entering
      BY <1>10 DEF Change
    <2>3. QED
      BY <1>1, <2>1, <2>2
  <1>11. TypeOK'
    BY DEF Change
  <1>12. QED
    BY <1>5, <1>6, <1>7, <1>8, <1>9, <1>10, <1>11, <1>4

LEMMA OnFrontConnectedChanges ==
    ASSUME Inv, NEW k \in Ids, OnFrontConnected(k)
    PROVE  Change(k)
  <1> USE DEF Inv
  <1> DEFINE as == [apis EXCEPT ![k].link = "up"]
  <1>1. /\ Up /\ apis[k].link = "down" /\ ~apis[k].entering /\ Call(as, k, "auth")
        /\ state' = IF apis[k].held THEN "Authenticating" ELSE "Connected"
    BY DEF OnFrontConnected, Free
  <1>2. apis[k].rsp = <<>> /\ ~apis[k].session
    BY <1>1 DEF LinkInv
  <1>3. as \in Instances
    BY ApisType, SetTypes
  <1>4. /\ \A j \in Ids \ {k} : as[j] = apis[j]
        /\ as[k].link = "up" /\ as[k].rsp = apis[k].rsp /\ as[k].session = apis[k].session
        /\ as[k].held = apis[k].held /\ as[k].entering = apis[k].entering
        /\ as[k].waiter = apis[k].waiter
    BY ApisType DEF Instances, Instance
  <1> HIDE DEF as
  <1>5. /\ apis' \in Instances
        /\ \A j \in Ids \ {k} : apis'[j] = as[j]
        /\ Same(apis'[k], as[k])
        /\ apis'[k].rsp = IF as[k].held /\ as[k].link = "up" THEN Append(as[k].rsp, "auth")
                          ELSE as[k].rsp
        /\ proc' = IF as[k].held THEN proc ELSE "panicked"
    <2>1. "auth" \in Kinds
      BY DEF Kinds
    <2>2. QED
      BY <1>1, <1>3, <2>1, CallFacts
  <1>6. /\ apis'[k].link = "up" /\ ~apis'[k].session /\ ~apis'[k].entering
        /\ apis'[k].held = apis[k].held /\ apis'[k].waiter = apis[k].waiter
        /\ apis'[k].rsp = IF apis[k].held THEN Append(apis[k].rsp, "auth") ELSE apis[k].rsp
    BY <1>1, <1>2, <1>4, <1>5 DEF Same
  <1>7. Single(apis'[k].rsp) /\ Owed(apis'[k].rsp) \subseteq Entries
    <2>1. "auth" \in Kinds /\ "auth" \in Entries
      BY DEF Kinds, Entries
    <2>2. apis[k].rsp \in Seq(Kinds) /\ Owed(apis[k].rsp) = {} /\ Single(apis[k].rsp)
      BY <1>2, OwedNone
    <2>3. /\ Owed(Append(apis[k].rsp, "auth")) = {"auth"}
          /\ Single(Append(apis[k].rsp, "auth"))
      BY <2>1, <2>2, OwedAppend
    <2>4. QED
      BY <1>6, <2>1, <2>2, <2>3
  <1>8. k <= current
    BY <1>1, CreatedFacts
  <1>9. UNCHANGED <<conns, reqLogin, current, ctpApi, stop, day, spent, user, loaded, confirmed,
                    confirmedOn, inited, instrReady, loops, idling, mgr, checkers>>
    BY DEF OnFrontConnected, session, tasks
  <1>10. state' \in States /\ state' \notin LoggedInStates /\ state' # "Ready"
    BY <1>1 DEF States, LoggedInStates
  <1>11. proc' \in {"up", "panicked"}
    BY <1>5 DEF TypeOK
  <1>12. TypeOK'
    BY <1>5, <1>9, <1>10, <1>11 DEF TypeOK, Instances
  <1>13. spent.timeouts = 0 => UNCHANGED proc /\ apis'[k].waiter # "stopping"
    BY <1>1, <1>4, <1>5, <1>6 DEF HeldInv
  <1>14. ~IsLoggedIn'
    BY <1>10 DEF IsLoggedIn
  <1>15. Owed(apis'[k].rsp) \subseteq Early
    BY <1>7 DEF Early
  <1>16. QED
    BY <1>1, <1>2, <1>4, <1>5, <1>6, <1>7, <1>8, <1>9, <1>10, <1>12, <1>13, <1>14, <1>15
       DEF Change, session

LEMMA OnFrontDisconnectedChanges ==
    ASSUME Inv, NEW k \in Ids, OnFrontDisconnected(k)
    PROVE  Change(k)
  <1> USE DEF Inv
  <1>1. /\ Up /\ apis[k].link = "up" /\ ~apis[k].entering
        /\ apis' = [apis EXCEPT ![k].link = "down", ![k].session = FALSE, ![k].rsp = <<>>]
        /\ state' = IF IsLoggedIn THEN state ELSE "Init"
    BY DEF OnFrontDisconnected, Free
  <1>2. /\ apis' \in Instances
        /\ \A j \in Ids \ {k} : apis'[j] = apis[j]
        /\ apis'[k].link = "down" /\ apis'[k].session = FALSE /\ apis'[k].rsp = <<>>
        /\ apis'[k].held = apis[k].held /\ apis'[k].entering = apis[k].entering
        /\ apis'[k].waiter = apis[k].waiter
    BY <1>1, ApisType, OnFrontDisconnectedFacts
  <1>3. k <= current
    BY <1>1, CreatedFacts
  <1>4. UNCHANGED <<conns, reqLogin, current, ctpApi, stop, proc, day, user, loaded, confirmed,
                    confirmedOn, inited, instrReady, loops, idling, mgr, checkers>>
    BY DEF OnFrontDisconnected, session, tasks
  <1>5. spent' \in Spent
        /\ spent'.timeouts = spent.timeouts /\ spent'.early = spent.early
        /\ spent'.stray = spent.stray
    <2>1. spent \in Spent
      BY DEF TypeOK
    <2>2. spent.drops < MaxDrops /\ spent' = [spent EXCEPT !.drops = @ + 1]
      BY DEF OnFrontDisconnected, Spend
    <2>3. MaxDrops \in Nat
      BY LoginSessionAssumption
    <2>4. QED
      BY <2>1, <2>2, <2>3 DEF Spent
  <1>6. state' \in States /\ (IsLoggedIn' => IsLoggedIn) /\ (state' = "Ready" => state = "Ready")
    BY <1>1 DEF States, TypeOK, IsLoggedIn, LoggedInStates
  <1>7. TypeOK'
    BY <1>2, <1>4, <1>5, <1>6 DEF TypeOK, Instances
  <1>8. spent.timeouts = 0 => apis'[k].waiter # "stopping"
    BY <1>2 DEF HeldInv
  <1>9. QED
    BY <1>1, <1>2, <1>3, <1>4, <1>5, <1>6, <1>7, <1>8, OwedNone DEF Change, session

LEMMA OnRspUserLoginChanges ==
    ASSUME Inv, NEW k \in Ids, OnRspUserLogin(k)
    PROVE  Change(k)
  <1> USE DEF Inv
  <1> DEFINE as == Popped(k)
             bs == [as EXCEPT ![k].session = TRUE]
             cs == [bs EXCEPT ![k].entering = TRUE]
  <1>1. /\ Free(k) /\ apis[k].rsp # <<>> /\ Head(apis[k].rsp) = "login"
        /\ apis' = [as EXCEPT ![k].session = TRUE, ![k].entering = TRUE]
        /\ state' = IF IsLoggedIn THEN state ELSE "LoggedIn"
    BY DEF OnRspUserLogin, Answered
  <1>2. /\ Up /\ apis[k].link = "up" /\ ~apis[k].entering /\ k <= current
        /\ "login" \in Owed(apis[k].rsp)
    BY <1>1, AnsweredFacts
  <1>3. ~apis[k].session /\ Single(apis[k].rsp)
    BY <1>2 DEF LinkInv, Entries
  <1>4. /\ as \in Instances
        /\ \A j \in Ids \ {k} : as[j] = apis[j]
        /\ Same(as[k], apis[k]) /\ as[k].rsp = Tail(apis[k].rsp)
    BY <1>1, ApisType, PoppedFacts
  <1> HIDE DEF as
  <1>5. /\ apis' = cs
        /\ \A j \in Ids \ {k} : apis'[j] = as[j]
        /\ apis'[k].session = TRUE /\ apis'[k].entering = TRUE
        /\ apis'[k].link = as[k].link /\ apis'[k].held = as[k].held /\ apis'[k].rsp = as[k].rsp
        /\ apis'[k].waiter = as[k].waiter
    <2>1. apis' = cs
      BY <1>1, <1>4 DEF Instances, Instance
    <2>2. \A j \in Ids \ {k} : apis'[j] = as[j]
      BY <1>1, <1>4 DEF Instances
    <2>3. /\ apis'[k].session = TRUE /\ apis'[k].entering = TRUE
          /\ apis'[k].link = as[k].link /\ apis'[k].held = as[k].held /\ apis'[k].rsp = as[k].rsp
          /\ apis'[k].waiter = as[k].waiter
      BY <1>1, <1>4 DEF Instances, Instance
    <2>4. QED
      BY <2>1, <2>2, <2>3
  <1>6. bs \in Instances
    BY <1>4, SetTypes
  <1> HIDE DEF bs
  <1>7. apis' \in Instances
    BY <1>5, <1>6, SetTypes
  <1> HIDE DEF cs
  <1>8. /\ \A j \in Ids \ {k} : apis'[j] = apis[j]
        /\ apis'[k].session /\ apis'[k].entering /\ apis'[k].link = "up"
        /\ apis'[k].held = apis[k].held /\ apis'[k].waiter = apis[k].waiter
        /\ apis'[k].rsp = Tail(apis[k].rsp)
    BY <1>2, <1>4, <1>5 DEF Same
  <1>9. /\ Owed(apis'[k].rsp) \subseteq Owed(apis[k].rsp) /\ Single(apis'[k].rsp)
        /\ Owed(apis'[k].rsp) \cap Entries = {}
    <2>1. apis[k].rsp \in Seq(Kinds)
      BY ApisType, FieldTypes
    <2>2. Head(apis[k].rsp) \in Entries
      BY <1>1 DEF Entries
    <2>3. apis[k].rsp # <<>>
      BY <1>1
    <2>4. /\ Owed(Tail(apis[k].rsp)) \subseteq Owed(apis[k].rsp)
          /\ Single(apis[k].rsp) => Single(Tail(apis[k].rsp))
          /\ Single(apis[k].rsp) /\ Head(apis[k].rsp) \in Entries
                => Owed(Tail(apis[k].rsp)) \cap Entries = {}
      BY <2>1, <2>3, OwedTail
    <2>5. apis'[k].rsp = Tail(apis[k].rsp)
      BY <1>8
    <2>6. QED
      BY <1>3, <2>2, <2>4, <2>5
  <1>10. UNCHANGED <<conns, reqLogin, current, ctpApi, stop, proc, day, spent, user, loaded,
                     confirmed, confirmedOn, inited, instrReady, loops, idling, mgr, checkers>>
    BY DEF OnRspUserLogin, session, tasks
  <1>11. state' \in States /\ (state' = "Ready" => state = "Ready")
    BY <1>1 DEF States, TypeOK
  <1>12. TypeOK'
    BY <1>7, <1>10, <1>11 DEF TypeOK, Instances
  <1>13. current <= 1 => /\ ~spent.stray => state # "Ready"
                         /\ Owed(apis[k].rsp) \subseteq Early \cup Strays(spent)
    BY <1>2, <1>3 DEF ReadyInv, ChainInv
  <1>14. spent.timeouts = 0 => apis'[k].waiter # "stopping"
    BY <1>8 DEF HeldInv
  <1>15. QED
    BY <1>2, <1>3, <1>7, <1>8, <1>9, <1>10, <1>11, <1>12, <1>13, <1>14 DEF Change, session

LEMMA WaiterDoneChanges ==
    ASSUME Inv, NEW k \in Ids, WaiterDone(k)
    PROVE  Change(k)
  <1> USE DEF Inv
  <1>1. /\ Up /\ apis[k].waiter = "waiting" /\ (IsLoggedIn \/ stop # "no")
        /\ apis' = [apis EXCEPT ![k].waiter = "off"]
    BY DEF WaiterDone
  <1>2. apis \in Instances
    BY ApisType
  <1>3. /\ apis' \in Instances
        /\ \A j \in Ids \ {k} : apis'[j] = apis[j]
        /\ apis'[k].waiter = "off" /\ apis'[k].session = apis[k].session
        /\ apis'[k].link = apis[k].link /\ apis'[k].held = apis[k].held
        /\ apis'[k].entering = apis[k].entering /\ apis'[k].rsp = apis[k].rsp
    <2>1. apis' \in Instances
      BY <1>1, <1>2, SetTypes
    <2>2. \A j \in Ids \ {k} : apis'[j] = apis[j]
      BY <1>1, <1>2 DEF Instances
    <2>3. /\ apis'[k].waiter = "off" /\ apis'[k].session = apis[k].session
          /\ apis'[k].link = apis[k].link /\ apis'[k].held = apis[k].held
          /\ apis'[k].entering = apis[k].entering /\ apis'[k].rsp = apis[k].rsp
      BY <1>1, <1>2 DEF Instances, Instance
    <2>4. QED
      BY <2>1, <2>2, <2>3
  <1>4. k <= current /\ apis[k].link \in {"down", "up", "released"}
    <2>1. Unused.waiter # "waiting"
      BY DEF Unused
    <2>2. k <= current /\ apis[k].link # "none" /\ apis[k].link # "new"
      BY <1>1, <2>1, CreatedFacts DEF LinkInv
    <2>3. QED
      BY <1>2, <2>2, FieldTypes
  <1>5. UNCHANGED <<state, conns, reqLogin, current, ctpApi, stop, proc, day, spent, user, loaded,
                    confirmed, confirmedOn, inited, instrReady, loops, idling, mgr, checkers>>
    BY DEF WaiterDone, session, tasks
  <1>6. TypeOK'
    BY <1>3, <1>5 DEF TypeOK, Instances
  <1>7. /\ apis[k].link # "up" => apis[k].rsp = <<>> /\ ~apis[k].session
        /\ Single(apis[k].rsp)
        /\ apis[k].session => Owed(apis[k].rsp) \cap Entries = {}
        /\ apis[k].session /\ ~apis[k].entering => user # 0
        /\ apis[k].entering /\ apis[k].link = "up" => apis[k].session
    BY DEF LinkInv
  <1>8. current <= 1 /\ (~apis[k].session \/ apis[k].entering) =>
            Owed(apis[k].rsp) \subseteq Early \cup Strays(spent)
    BY DEF ChainInv
  <1>9. state = "Ready" /\ current <= 1 /\ ~spent.stray =>
           ~apis[k].entering /\ (apis[k].link = "up" => apis[k].session)
    BY DEF ReadyInv
  <1>10. spent.timeouts = 0 /\ ~spent.early /\ user = 0 /\ WatchInv /\ stop = "no" =>
            /\ apis'[k].session <=> apis'[k].entering
            /\ \E j \in Ids : apis'[j].entering
    BY <1>1, <1>3 DEF WatchInv
  <1>11. IsLoggedIn' => IsLoggedIn
    BY <1>5 DEF IsLoggedIn
  <1>12. QED
    BY <1>3, <1>4, <1>5, <1>6, <1>7, <1>8, <1>9, <1>10, <1>11 DEF Change, session

LEMMA ReleaseApiChanges ==
    ASSUME Inv, NEW k \in Ids, ReleaseApi(k)
    PROVE  Change(k)
  <1> USE DEF Inv
  <1> DEFINE as == [apis EXCEPT ![k].waiter = "off"]
             bs == [as EXCEPT ![k].link = "released"]
             cs == [bs EXCEPT ![k].session = FALSE]
             ds == [cs EXCEPT ![k].rsp = <<>>]
  <1>1. /\ Up /\ apis[k].waiter = "stopping"
        /\ apis' = [apis EXCEPT ![k].waiter = "off", ![k].link = "released",
                                ![k].session = FALSE, ![k].rsp = <<>>]
    BY DEF ReleaseApi
  <1>2. apis \in Instances
    BY ApisType
  <1>3. apis' = ds
    BY <1>1, <1>2 DEF Instances, Instance
  <1>4. as \in Instances
    BY <1>2, SetTypes
  <1> HIDE DEF as
  <1>5. bs \in Instances
    BY <1>4, SetTypes
  <1> HIDE DEF bs
  <1>6. cs \in Instances
    BY <1>5, SetTypes
  <1> HIDE DEF cs
  <1>7. apis' \in Instances
    BY <1>3, <1>6, SetTypes
  <1> HIDE DEF ds
  <1>8. \A j \in Ids \ {k} : apis'[j] = apis[j]
    BY <1>1, <1>2 DEF Instances
  <1>9. /\ apis'[k].waiter = "off" /\ apis'[k].session = FALSE
        /\ apis'[k].link = "released" /\ apis'[k].held = apis[k].held
        /\ apis'[k].entering = apis[k].entering /\ apis'[k].rsp = <<>>
    BY <1>1, <1>2 DEF Instances, Instance
  <1>10. k <= current /\ apis[k].link # "new"
    <2>1. Unused.waiter # "stopping"
      BY DEF Unused
    <2>2. QED
      BY <1>1, <2>1, CreatedFacts DEF LinkInv
  <1>11. UNCHANGED <<state, conns, reqLogin, current, stop, proc, day, spent, user, loaded,
                     confirmed, confirmedOn, inited, instrReady, loops, idling, mgr, checkers>>
    BY DEF ReleaseApi, session, tasks
  <1>12. ctpApi' \in 0..MaxApis
    <2>1. ctpApi' = 0 /\ MaxApis \in Nat
      BY CreatedFacts DEF ReleaseApi
    <2>2. QED
      BY <2>1
  <1>13. TypeOK'
    BY <1>7, <1>11, <1>12 DEF TypeOK, Instances
  <1>14. spent.timeouts # 0
    BY <1>1 DEF HeldInv
  <1>15. state = "Ready" /\ current <= 1 /\ ~spent.stray => ~apis[k].entering
    BY DEF ReadyInv
  <1>16. QED
    BY <1>7, <1>8, <1>9, <1>10, <1>11, <1>13, <1>14, <1>15, OwedNone DEF Change, session

LEMMA LoginTimeoutKeeps ==
    ASSUME Inv, NEW k \in Ids, LoginTimeout(k)
    PROVE  Inv' /\ (WatchInv => WatchInv') /\ Overlap
  <1> USE DEF Inv
  <1> DEFINE as == [apis EXCEPT ![k].waiter = "stopping"]
             bs == [as EXCEPT ![current].held = FALSE]
  <1>1. /\ Up /\ apis[k].waiter = "waiting" /\ state' = "Stopping"
        /\ apis' = [apis EXCEPT ![k].waiter = "stopping", ![current].held = FALSE]
    BY DEF LoginTimeout
  <1>2. apis \in Instances
    BY ApisType
  <1>3. current \in Ids /\ k <= current /\ apis[k].link \in {"down", "up", "released"}
    <2>1. Unused.waiter # "waiting"
      BY DEF Unused
    <2>2. /\ current \in Ids /\ k <= current
          /\ apis[k].link # "none" /\ apis[k].link # "new"
      BY <1>1, <2>1, CreatedFacts DEF LinkInv
    <2>3. QED
      BY <1>2, <2>2, FieldTypes
  <1>4. apis' = bs
    BY <1>1, <1>2, <1>3 DEF Instances, Instance
  <1>5. as \in Instances
    BY <1>2, SetTypes
  <1> HIDE DEF as
  <1>6. apis' \in Instances
    BY <1>3, <1>4, <1>5, SetTypes
  <1> HIDE DEF bs
  <1>7. \A j \in Ids : /\ apis'[j].link = apis[j].link /\ apis'[j].session = apis[j].session
                       /\ apis'[j].entering = apis[j].entering /\ apis'[j].rsp = apis[j].rsp
                       /\ j # k => apis'[j].waiter = apis[j].waiter
    BY <1>1, <1>2, <1>3 DEF Instances, Instance
  <1>8. \A j \in Ids : j > current => apis'[j] = apis[j]
    <2>1. \A j \in Ids : j > current => j # k /\ j # current
      BY <1>3 DEF Ids
    <2>2. \A j \in Ids \ {k, current} : apis'[j] = apis[j]
      BY <1>1, <1>2, <1>3 DEF Instances
    <2>3. QED
      BY <2>1, <2>2
  <1>9. UNCHANGED <<conns, reqLogin, current, ctpApi, stop, proc, day, user, loaded, confirmed,
                    confirmedOn, inited, instrReady, loops, idling, mgr, checkers>>
    BY DEF LoginTimeout, session, tasks
  <1>10. spent' \in Spent /\ spent'.timeouts # 0 /\ spent'.stray = spent.stray
    <2>1. spent \in Spent
      BY DEF TypeOK
    <2>2. spent.timeouts < MaxTimeouts /\ spent' = [spent EXCEPT !.timeouts = @ + 1]
      BY DEF LoginTimeout, Spend
    <2>3. MaxTimeouts \in Nat
      BY LoginSessionAssumption
    <2>4. QED
      BY <2>1, <2>2, <2>3 DEF Spent
  <1>11. TypeOK'
    BY <1>1, <1>6, <1>9, <1>10 DEF TypeOK, Instances, States
  <1>12. CreatedInv'
    <2>1. Begun'
      BY <1>3, <1>7 DEF Begun
    <2>2. QED
      BY <1>7, <1>8, <1>9, <2>1 DEF CreatedInv
  <1>13. LinkInv'
    BY <1>3, <1>7, <1>9 DEF LinkInv
  <1>14. ConfirmInv'
    BY <1>9 DEF ConfirmInv
  <1>15. ChainInv'
    BY <1>7, <1>9, <1>10 DEF ChainInv, Due, Strays
  <1>16. ReadyInv' /\ HeldInv' /\ WatchInv' /\ Overlap
    BY <1>1, <1>9, <1>10 DEF ReadyInv, HeldInv, WatchInv, Overlap, Up
  <1>17. QED
    BY <1>11, <1>12, <1>13, <1>14, <1>15, <1>16

LEMMA StartSessionKeeps ==
    ASSUME Inv, NEW c \in Clients, NEW l \in Logins, StartSession(c, l)
    PROVE  Inv' /\ (WatchInv => WatchInv') /\ Overlap
  <1> USE DEF Inv
  <1> DEFINE k == current + 1
             new == [Unused EXCEPT !.link = "new", !.login = l]
  <1>1. /\ Up /\ k \in Ids /\ reqLogin' = l /\ apis' = [apis EXCEPT ![k] = new]
        /\ current' = k /\ ~IsLoggedIn /\ \A j \in Ids : apis[j].link # "new"
    BY CreatedFacts DEF StartSession
  <1>2. apis \in Instances /\ current \in 0..MaxApis /\ MaxApis \in Nat
    BY ApisType, CreatedFacts
  <1>3. new \in Instance
    <2>1. l \in Login /\ <<>> \in Seq(Kinds)
      BY OwedNone DEF Login
    <2>2. QED
      BY <2>1 DEF Instance, Unused
  <1>4. /\ new.link = "new" /\ new.session = FALSE /\ new.rsp = <<>>
        /\ new.entering = FALSE /\ new.waiter = "off"
    BY DEF Unused
  <1> HIDE DEF new
  <1>5. apis' \in Instances /\ apis'[k] = new /\ \A j \in Ids \ {k} : apis'[j] = apis[j]
    BY <1>1, <1>2, <1>3 DEF Instances
  <1>6. UNCHANGED <<state, ctpApi, conns, stop, proc, day, spent, user, loaded, confirmed,
                    confirmedOn, inited, instrReady, loops, idling, mgr, checkers>>
    BY DEF StartSession, session, tasks
  <1>7. k \in 0..MaxApis /\ l \in Login
    BY <1>1, <1>2 DEF Ids, Login
  <1>8. TypeOK'
    BY <1>1, <1>5, <1>6, <1>7 DEF TypeOK, Instances
  <1>9. /\ \A j \in Ids : j > k => j > current /\ j # k
        /\ \A j \in Ids \ {k} : ~(j > k) => ~(j > current)
        /\ k # 0 /\ ~(k > k) /\ (k <= 1 => \A j \in Ids \ {k} : j > current)
    BY <1>1, <1>2 DEF Ids
  <1>10. apis[k] = Unused /\ (Begun' <=> Begun)
    <2>1. k > current
      BY <1>2
    <2>2. apis[k] = Unused
      BY <1>1, <2>1, CreatedFacts
    <2>3. QED
      BY <1>1, <1>4, <1>5, <2>2 DEF Begun, Unused
  <1>11. CreatedInv'
    <2>1. \A j \in Ids : j > current => apis[j] = Unused
      BY DEF CreatedInv
    <2>2. \A j \in Ids : ~(j > current) => apis[j].link # "none"
      BY DEF CreatedInv
    <2>3. \A j \in Ids : j > k => apis'[j] = Unused
      BY <1>5, <1>9, <2>1
    <2>4. \A j \in Ids : ~(j > k) => apis'[j].link # "none"
      BY <1>4, <1>5, <1>9, <2>2
    <2>5. QED
      BY <1>1, <1>6, <1>10, <2>3, <2>4 DEF CreatedInv
  <1>12. LinkInv'
    <2>1. ASSUME NEW j \in Ids \ {k}
          PROVE  /\ apis'[j].link # "up" => apis'[j].rsp = <<>> /\ ~apis'[j].session
                 /\ Single(apis'[j].rsp)
                 /\ apis'[j].session => Owed(apis'[j].rsp) \cap Entries = {}
                 /\ apis'[j].session /\ ~apis'[j].entering => user' # 0
                 /\ apis'[j].entering /\ apis'[j].link = "up" => apis'[j].session
                 /\ apis'[j].link # "new"
      BY <1>1, <1>5, <1>6 DEF LinkInv
    <2>2. QED
      BY <1>1, <1>4, <1>5, <2>1, OwedNone DEF LinkInv
  <1>13. ConfirmInv'
    BY <1>6 DEF ConfirmInv
  <1>14. ChainInv'
    <2> SUFFICES ASSUME k <= 1, NEW j \in Ids PROVE apis'[j].rsp = <<>>
      BY <1>1, OwedNone DEF ChainInv
    <2>1. Unused.rsp = <<>>
      BY DEF Unused
    <2>2. QED
      BY <1>4, <1>5, <1>9, <2>1 DEF CreatedInv
  <1>15. ReadyInv'
    BY <1>1, <1>6 DEF ReadyInv, IsLoggedIn, LoggedInStates
  <1>16. HeldInv' /\ Overlap
    BY <1>4, <1>5, <1>6 DEF HeldInv, Overlap, Up
  <1>17. ASSUME WatchInv PROVE WatchInv'
    <2> SUFFICES ASSUME spent.timeouts = 0, ~spent.early, user = 0, stop = "no"
                 PROVE  /\ \A j \in Ids : apis'[j].session <=> apis'[j].entering
                        /\ Begun => \E j \in Ids : apis'[j].entering \/ apis'[j].waiter = "waiting"
      BY <1>1, <1>6, <1>10 DEF WatchInv, IsLoggedIn
    <2>1. /\ \A j \in Ids : apis[j].session <=> apis[j].entering
          /\ Begun => \E j \in Ids : apis[j].entering \/ apis[j].waiter = "waiting"
      BY <1>17 DEF WatchInv
    <2>2. ~Unused.entering /\ Unused.waiter # "waiting"
      BY DEF Unused
    <2>3. QED
      BY <1>4, <1>5, <1>10, <2>1, <2>2
  <1>18. QED
    BY <1>8, <1>11, <1>12, <1>13, <1>14, <1>15, <1>16, <1>17

LEMMA InitApiKeeps ==
    ASSUME Inv, NEW k \in Ids, InitApi(k)
    PROVE  Inv' /\ (WatchInv => WatchInv') /\ Overlap
  <1> USE DEF Inv
  <1>1. /\ Up /\ apis[k].link = "new" /\ ctpApi' = k /\ state' = "Connecting"
        /\ apis' = [apis EXCEPT ![k].held = TRUE, ![k].link = "down", ![k].waiter = "waiting"]
    BY DEF InitApi
  <1>2. apis \in Instances /\ MaxApis \in Nat /\ k \in 0..MaxApis
    BY ApisType, CreatedFacts DEF Ids
  <1>3. /\ apis' \in Instances
        /\ \A j \in Ids \ {k} : apis'[j] = apis[j]
        /\ apis'[k].held = TRUE /\ apis'[k].link = "down" /\ apis'[k].waiter = "waiting"
        /\ apis'[k].session = apis[k].session /\ apis'[k].entering = apis[k].entering
        /\ apis'[k].rsp = apis[k].rsp
    <2>1. apis' \in Instances
      BY <1>1, <1>2 DEF Instances, Instance
    <2>2. QED
      BY <1>1, <1>2, <2>1 DEF Instances, Instance
  <1>4. UNCHANGED <<conns, reqLogin, current, stop, proc, day, spent, user, loaded, confirmed,
                    confirmedOn, inited, instrReady, loops, idling, mgr, checkers>>
    BY DEF InitApi, session, tasks
  <1>5. /\ apis[k].rsp = <<>> /\ ~apis[k].session /\ ~apis[k].entering
    BY <1>1 DEF LinkInv
  <1>6. TypeOK'
    BY <1>1, <1>2, <1>3, <1>4 DEF TypeOK, Instances, States
  <1>7. CreatedInv'
    <2>1. Begun'
      BY <1>3 DEF Begun
    <2>2. ~(k > current)
      BY <1>1 DEF CreatedInv, Unused
    <2>3. QED
      BY <1>3, <1>4, <2>1, <2>2 DEF CreatedInv
  <1>8. LinkInv'
    <2>1. ASSUME NEW j \in Ids \ {k}
          PROVE  /\ apis'[j].link # "up" => apis'[j].rsp = <<>> /\ ~apis'[j].session
                 /\ Single(apis'[j].rsp)
                 /\ apis'[j].session => Owed(apis'[j].rsp) \cap Entries = {}
                 /\ apis'[j].session /\ ~apis'[j].entering => user # 0
                 /\ apis'[j].entering /\ apis'[j].link = "up" => apis'[j].session
                 /\ apis'[j].link = "new" =>
                       j = current /\ ~apis'[j].entering /\ apis'[j].waiter = "off"
      BY <1>3 DEF LinkInv
    <2>2. QED
      BY <1>3, <1>4, <1>5, <2>1, OwedNone DEF LinkInv
  <1>9. ConfirmInv'
    BY <1>4 DEF ConfirmInv
  <1>10. ChainInv'
    BY <1>3, <1>4 DEF ChainInv, Due, Strays
  <1>11. ReadyInv' /\ HeldInv' /\ Overlap
    BY <1>1, <1>3, <1>4 DEF ReadyInv, HeldInv, Overlap, Up
  <1>12. ASSUME WatchInv PROVE WatchInv'
    BY <1>1, <1>3, <1>4, <1>5, <1>12 DEF WatchInv, IsLoggedIn, LoggedInStates
  <1>13. QED
    BY <1>6, <1>7, <1>8, <1>9, <1>10, <1>11, <1>12

LEMMA EnterSessionKeeps ==
    ASSUME Inv, NEW k \in Ids, EnterSession(k)
    PROVE  Inv' /\ (WatchInv => WatchInv') /\ Overlap
  <1> USE DEF Inv
  <1> DEFINE as == [apis EXCEPT ![k].entering = FALSE]
  <1>1. /\ Up /\ apis[k].entering /\ Call(as, k, "settle")
        /\ user' = day /\ loaded' = {} /\ state' = "SettlementQuerying"
        /\ (user \notin {0, day} => ~confirmed' /\ ~inited')
        /\ (user \in {0, day} => UNCHANGED <<confirmed, inited>>)
        /\ confirmed' \in BOOLEAN /\ inited' \in BOOLEAN
    BY DEF EnterSession, TypeOK
  <1>2. apis \in Instances /\ as \in Instances
    BY ApisType, SetTypes
  <1>3. /\ \A j \in Ids \ {k} : as[j] = apis[j]
        /\ as[k].entering = FALSE
        /\ as[k].link = apis[k].link /\ as[k].rsp = apis[k].rsp
        /\ as[k].session = apis[k].session
        /\ as[k].held = apis[k].held /\ as[k].waiter = apis[k].waiter
    BY <1>2 DEF Instances, Instance
  <1> HIDE DEF as
  <1>4. /\ apis' \in Instances
        /\ \A j \in Ids \ {k} : apis'[j] = as[j]
        /\ Same(apis'[k], as[k])
        /\ apis'[k].rsp = IF as[k].held /\ as[k].link = "up" THEN Append(as[k].rsp, "settle")
                          ELSE as[k].rsp
        /\ proc' = IF as[k].held THEN proc ELSE "panicked"
    <2>1. "settle" \in Kinds
      BY DEF Kinds
    <2>2. as \in Instances
      BY <1>2
    <2>3. Call(as, k, "settle")
      BY <1>1
    <2>4. /\ apis' \in Instances
          /\ \A j \in Ids \ {k} : apis'[j] = as[j]
          /\ Same(apis'[k], as[k])
          /\ apis'[k].rsp = IF as[k].held /\ as[k].link = "up" THEN Append(as[k].rsp, "settle")
                            ELSE as[k].rsp
          /\ ~(as[k].held /\ as[k].link = "up") => apis' = as
          /\ proc' = IF as[k].held THEN proc ELSE "panicked"
      BY <2>1, <2>2, <2>3, CallFacts
    <2>5. QED
      BY <2>4
  <1>5. /\ \A j \in Ids \ {k} : apis'[j] = apis[j]
        /\ apis'[k].entering = FALSE /\ apis'[k].link = apis[k].link
        /\ apis'[k].session = apis[k].session
        /\ apis'[k].held = apis[k].held /\ apis'[k].waiter = apis[k].waiter
        /\ apis'[k].rsp = IF apis[k].held /\ apis[k].link = "up" THEN Append(apis[k].rsp, "settle")
                          ELSE apis[k].rsp
    BY <1>3, <1>4 DEF Same
  <1>6. /\ Owed(apis'[k].rsp) \subseteq Owed(apis[k].rsp) \cup {"settle"}
        /\ Single(apis'[k].rsp)
    <2>1. apis[k].rsp \in Seq(Kinds) /\ "settle" \in Kinds /\ "settle" \notin Entries
          /\ Single(apis[k].rsp)
      BY <1>2, FieldTypes DEF Kinds, Entries, LinkInv
    <2>2. QED
      BY <1>5, <2>1, OwedAppend
  <1>7. UNCHANGED <<conns, reqLogin, current, ctpApi, confirmedOn, instrReady, loops, idling, mgr,
                    checkers, stop, day>>
    BY DEF EnterSession, tasks
  <1>8. proc' \in {"up", "panicked"} /\ state' \in States /\ day \in 1..MaxDay /\ MaxDay \in Nat
    BY <1>1, <1>4, LoginSessionAssumption DEF TypeOK, States
  <1>9. user' \in 0..MaxDay /\ user' # 0
    BY <1>1, <1>8
  <1>10. /\ spent' \in Spent /\ spent'.timeouts = spent.timeouts /\ spent'.early = spent.early
         /\ ~spent'.stray => ~spent.stray \/ Owed(apis[k].rsp) \cap Parts = {}
    <2>1. spent \in Spent
      BY DEF TypeOK
    <2>2. (spent.stray /\ \E i \in 1..Len(apis[k].rsp) : apis[k].rsp[i] \in Parts) \in BOOLEAN
      BY <2>1 DEF Spent
    <2>3. QED
      BY <2>1, <2>2 DEF EnterSession, ForgetStray, Spent, Owed
  <1>11. TypeOK'
    <2>1. loaded' \subseteq Parts
      BY <1>1
    <2>2. QED
      BY <1>1, <1>4, <1>7, <1>8, <1>9, <1>10, <2>1 DEF TypeOK, Instances
  <1>12. ConfirmInv'
    BY <1>1, <1>7, <1>9 DEF ConfirmInv
  <1>13. k <= current /\ apis[k].link \in {"down", "up", "released"}
    <2>1. ~Unused.entering
      BY DEF Unused
    <2>2. k <= current /\ apis[k].link # "none" /\ apis[k].link # "new"
      BY <1>1, <2>1, CreatedFacts DEF LinkInv
    <2>3. QED
      BY <1>2, <2>2, FieldTypes
  <1>14. CreatedInv'
    <2>1. ~(k > current)
      BY <1>13, CreatedFacts DEF Ids
    <2>2. Begun'
      BY <1>5, <1>13 DEF Begun
    <2>3. QED
      BY <1>5, <1>7, <1>13, <2>1, <2>2 DEF CreatedInv
  <1>15. LinkInv'
    <2>1. ASSUME NEW j \in Ids \ {k}
          PROVE  /\ apis'[j].link # "up" => apis'[j].rsp = <<>> /\ ~apis'[j].session
                 /\ Single(apis'[j].rsp)
                 /\ apis'[j].session => Owed(apis'[j].rsp) \cap Entries = {}
                 /\ apis'[j].session /\ ~apis'[j].entering => user' # 0
                 /\ apis'[j].entering /\ apis'[j].link = "up" => apis'[j].session
                 /\ apis'[j].link = "new" =>
                       j = current' /\ ~apis'[j].entering /\ apis'[j].waiter = "off"
      BY <1>5, <1>7, <1>9 DEF LinkInv
    <2>2. /\ apis'[k].link # "up" => apis'[k].rsp = <<>> /\ ~apis'[k].session
          /\ apis'[k].session => Owed(apis'[k].rsp) \cap Entries = {}
      <3>1. "settle" \notin Entries
        BY DEF Entries
      <3>2. QED
        BY <1>5, <1>6, <3>1 DEF LinkInv
    <2>3. QED
      BY <1>5, <1>6, <1>9, <1>13, <2>1, <2>2 DEF LinkInv
  <1>16. ChainInv'
    <2> SUFFICES ASSUME current <= 1, NEW j \in Ids
                 PROVE  /\ ~apis'[j].session \/ apis'[j].entering =>
                             Owed(apis'[j].rsp) \subseteq Early \cup Strays(spent')
                        /\ ~spent'.stray => \A x \in Owed(apis'[j].rsp) : Due(x)'
      BY <1>7 DEF ChainInv
    <2>1. CASE j = k
      <3>1. Owed(apis[k].rsp) \subseteq Early \cup Strays(spent)
        BY <1>1 DEF ChainInv
      <3>2. ~spent'.stray => Owed(apis'[k].rsp) \subseteq Early
        BY <1>6, <1>10, <3>1 DEF Early, Strays, Parts
      <3>3. ~spent'.stray => \A x \in Owed(apis'[k].rsp) : Due(x)'
        BY <3>2 DEF Due, Early, Entries, Parts
      <3>4. spent'.stray => Owed(apis'[k].rsp) \subseteq Early \cup Strays(spent')
        BY <1>6, <3>1 DEF Early, Strays
      <3>5. QED
        BY <1>5, <2>1, <3>2, <3>3, <3>4
    <2>2. CASE j # k
      <3>1. apis[j] = Unused
        BY <1>13, <2>2, CreatedFacts DEF Ids
      <3>2. apis'[j].rsp = <<>>
        BY <1>5, <2>2, <3>1 DEF Unused
      <3>3. QED
        BY <3>2, OwedNone
    <2>3. QED
      BY <2>1, <2>2
  <1>17. ReadyInv'
    BY <1>1 DEF ReadyInv
  <1>18. HeldInv' /\ Overlap
    <2>1. spent.timeouts = 0 => proc' = proc
      BY <1>3, <1>4, <1>13 DEF HeldInv
    <2>2. QED
      BY <1>5, <1>10, <2>1 DEF HeldInv, Overlap, Up
  <1>19. WatchInv'
    BY <1>9 DEF WatchInv
  <1>20. QED
    BY <1>11, <1>12, <1>14, <1>15, <1>16, <1>17, <1>18, <1>19

-----------------------------------------------------------------------------
(* Every step keeps the invariants.                                        *)

LEMMA StutterKeeps ==
    ASSUME Inv, UNCHANGED vars
    PROVE  Inv' /\ (WatchInv => WatchInv') /\ Overlap
  <1>1. UNCHANGED <<state, conns, reqLogin, apis, current, ctpApi, user, loaded, confirmed,
                    confirmedOn, inited, instrReady, loops, idling, mgr, checkers, stop, proc, day, spent>>
    BY DEF vars, session, tasks
  <1>2. TypeOK' /\ CreatedInv' /\ LinkInv' /\ ConfirmInv'
    BY <1>1 DEF Inv, TypeOK, CreatedInv, LinkInv, ConfirmInv, Begun
  <1>3. ChainInv' /\ ReadyInv'
    BY <1>1 DEF Inv, ChainInv, Due, Strays, ReadyInv
  <1>4. HeldInv' /\ (WatchInv => WatchInv') /\ Overlap
    BY <1>1 DEF Inv, HeldInv, WatchInv, IsLoggedIn, Begun, Overlap, Up
  <1>5. QED
    BY <1>2, <1>3, <1>4 DEF Inv

LEMMA NextKeeps ==
    ASSUME Inv, [Next]_vars
    PROVE  Inv' /\ (WatchInv => WatchInv') /\ Overlap
  <1>1. ASSUME NEW m \in Ids, NEW added, Advance(m, added)
        PROVE  Inv' /\ (WatchInv => WatchInv') /\ Overlap
    BY <1>1, AdvanceKeeps
  <1>2. ASSUME NEW k \in Ids, Change(k)
        PROVE  Inv' /\ (WatchInv => WatchInv') /\ Overlap
    BY <1>2, ChangeKeeps
  <1>3. CASE UNCHANGED vars
    BY <1>3, StutterKeeps
  <1>4. CASE \/ \E c \in Clients : OnConnect(c) \/ OnDisconnect(c)
             \/ \E c \in Clients, l \in Logins : JoinSession(c, l) \/ BrokerNotFound(c, l)
             \/ Stop \/ FinishStop \/ NextDay \/ OnIdle
    <2>1. PICK m \in Ids, added \in SUBSET Kinds : Advance(m, added)
      BY <1>4, QuietActions
    <2>2. QED
      BY <1>1, <2>1
  <1>5. CASE \/ \E c \in Clients, l \in Logins : StartSession(c, l)
             \/ \E k \in Ids : InitApi(k)
    BY <1>5, StartSessionKeeps, InitApiKeeps
  <1>6. CASE \/ \E c \in Clients : ConfirmSettlement(c) \/ QrySettlementInfo(c)
             \/ IdleQuery
    <2>1. CASE \E c \in Clients : ConfirmSettlement(c)
      <3>1. current \in Ids
        BY <2>1, ConfirmSettlementAdvances, CreatedFacts DEF Inv
      <3>2. QED
        BY <1>1, <2>1, <3>1, ConfirmSettlementAdvances
    <2>2. CASE IdleQuery \/ \E c \in Clients : QrySettlementInfo(c)
      BY <1>1, <2>2, IdleQueryAdvances, QrySettlementInfoAdvances
    <2>3. QED
      BY <1>6, <2>1, <2>2
  <1>7. CASE \E k \in Ids : Callback(k)
    <2>1. PICK k \in Ids : Callback(k)
      BY <1>7
    <2>2. CASE OnFrontConnected(k)
      BY <1>2, <2>2, OnFrontConnectedChanges
    <2>3. CASE OnRspAuthenticate(k)
      BY <1>1, <2>3, OnRspAuthenticateAdvances
    <2>4. CASE OnRspUserLogin(k)
      BY <1>2, <2>4, OnRspUserLoginChanges
    <2>5. CASE EnterSession(k)
      BY <2>5, EnterSessionKeeps
    <2>6. CASE OnRspQrySettlementInfo(k)
      <3>1. current \in Ids
        BY <2>6, AnsweredFacts DEF OnRspQrySettlementInfo, Answered
      <3>2. QED
        BY <1>1, <2>6, <3>1, OnRspQrySettlementInfoAdvances
    <2>7. CASE OnRspSettlementInfoConfirm(k)
      <3>1. current \in Ids
        BY <2>7, AnsweredFacts DEF OnRspSettlementInfoConfirm, Answered
      <3>2. QED
        BY <1>1, <2>7, <3>1, OnRspSettlementInfoConfirmAdvances
    <2>8. CASE OnRspQryInstrument(k)
      <3>1. current \in Ids
        BY <2>8, AnsweredFacts DEF OnRspQryInstrument, Answered
      <3>2. QED
        BY <1>1, <2>8, <3>1, OnRspQryInstrumentAdvances
    <2>9. CASE \E kind \in DOMAIN After : OnRspQuery(k, kind)
      BY <1>1, <2>9, OnRspQueryAdvances
    <2>10. CASE OnRspQryTrade(k)
      BY <1>1, <2>10, OnRspQryTradeAdvances
    <2>11. CASE OnRspError(k)
      BY <1>1, <2>11, OnRspErrorAdvances
    <2>12. QED
      BY <2>1, <2>2, <2>3, <2>4, <2>5, <2>6, <2>7, <2>8, <2>9, <2>10, <2>11 DEF Callback
  <1>8. CASE \E k \in Ids : OnFrontDisconnected(k)
    BY <1>2, <1>8, OnFrontDisconnectedChanges
  <1>9. CASE \E k \in Ids : WaiterDone(k)
    BY <1>2, <1>9, WaiterDoneChanges
  <1>10. CASE \E k \in Ids : LoginTimeout(k)
    BY <1>10, LoginTimeoutKeeps
  <1>11. CASE \E k \in Ids : ReleaseApi(k)
    BY <1>2, <1>11, ReleaseApiChanges
  <1>12. QED
    BY <1>3, <1>4, <1>5, <1>6, <1>7, <1>8, <1>9, <1>10, <1>11 DEF Next

LEMMA InitKeeps == ASSUME Init PROVE Inv /\ WatchInv
  <1> USE DEF Init
  <1>1. /\ MaxApis \in Nat \ {0} /\ MaxDay \in Nat \ {0} /\ MaxDrops \in Nat /\ MaxErrors \in Nat
        /\ MaxTimeouts \in Nat
    BY LoginSessionAssumption
  <1>2. \A k \in Ids : apis[k] = Unused
    OBVIOUS
  <1>3. Unused \in Instance
    BY OwedNone DEF Unused, Instance
  <1>4. apis \in [Ids -> Instance]
    BY <1>3
  <1>5. spent \in Spent
    BY <1>1 DEF Spent
  <1>6. /\ current \in 0..MaxApis /\ ctpApi \in 0..MaxApis /\ user \in 0..MaxDay
        /\ confirmedOn \in 0..MaxDay /\ day \in 1..MaxDay
    BY <1>1
  <1>7. loaded \subseteq Parts
    OBVIOUS
  <1>8. TypeOK
    BY <1>4, <1>5, <1>6, <1>7 DEF TypeOK, States
  <1>9. \A k \in Ids : k > 0
    BY DEF Ids
  <1>10. CreatedInv
    BY <1>2, <1>9 DEF CreatedInv, Begun, Unused
  <1>11. /\ Unused.link = "none" /\ Unused.rsp = <<>> /\ Unused.session = FALSE
         /\ Unused.entering = FALSE /\ Unused.waiter = "off"
    BY DEF Unused
  <1>12. LinkInv /\ ChainInv
    BY <1>2, <1>11, OwedNone DEF LinkInv, ChainInv
  <1>13. ConfirmInv /\ ReadyInv
    BY DEF ConfirmInv, ReadyInv
  <1>14. HeldInv
    BY <1>2, <1>11 DEF HeldInv
  <1>15. WatchInv
    BY <1>2, <1>11 DEF WatchInv, IsLoggedIn, LoggedInStates, Begun
  <1>16. QED
    BY <1>8, <1>10, <1>12, <1>13, <1>14, <1>15 DEF Inv

LEMMA Invariance == Spec => []Inv
  <1>1. Init => Inv
    BY InitKeeps
  <1>2. Inv /\ [Next]_vars => Inv'
    BY NextKeeps
  <1>3. QED
    BY <1>1, <1>2, PTL DEF Spec

-----------------------------------------------------------------------------
(* Every variable has its type in every state, and no instance is ever     *)
(* created beyond those there are.                                         *)
THEOREM TypeCorrect == Spec => []TypeOK
  <1>1. Inv => TypeOK
    BY DEF Inv
  <1>2. QED
    BY <1>1, Invariance, PTL

(* A confirmation counts for the trading day it was given on, whatever     *)
(* instances run beside each other.                                        *)
THEOREM ConfirmationCorrect == Spec => []ConfirmationIsCurrent
  <1>1. Inv => ConfirmationIsCurrent
    BY DEF Inv, ConfirmInv, ConfirmationIsCurrent
  <1>2. QED
    BY <1>1, Invariance, PTL

(* As long as no login has timed out and the trader is not stopped, the     *)
(* process comes down only where a later login has installed its SPI but    *)
(* not its API; no callback, no request of a client and no idle loop meets  *)
(* an SPI without its API in any other state.                               *)
THEOREM PanicCorrect == Spec => PanicIsOverlap
  <1>1. Inv /\ [Next]_vars => [Overlap]_vars
    BY NextKeeps
  <1>2. [][Overlap]_vars <=> PanicIsOverlap
    BY DEF PanicIsOverlap, Overlap
  <1>3. QED
    BY <1>1, <1>2, Invariance, PTL DEF Spec

(* As long as there is one instance, and no query of an idle loop strayed  *)
(* into a session on its way, the state Ready means that the settlement is *)
(* confirmed and all of the user's data has arrived in the present session,*)
(* whatever was lost, refused, confirmed again or asked for once more.     *)
THEOREM ReadyCorrect == Spec => []ReadyIsComplete
  <1>1. Inv => ReadyIsComplete
    <2> SUFFICES ASSUME Inv, SoleSession, ~spent.stray, state = "Ready"
                 PROVE  confirmed /\ instrReady /\ inited /\ loaded = Parts
      BY DEF ReadyIsComplete
    <2>1. current <= 1
      BY CreatedFacts DEF Inv, SoleSession
    <2>2. QED
      BY <2>1 DEF Inv, ReadyInv
  <1>2. QED
    BY <1>1, Invariance, PTL

(* While no client has confirmed a settlement itself, a login that         *)
(* has not yet led to a session has a goroutine that watches it, as long   *)
(* as no other has timed out and the trader is not stopped.                *)
THEOREM WatchedCorrect == Spec => []LoginWatched
  <1>1. Init => Inv /\ WatchInv
    BY InitKeeps
  <1>2. Inv /\ WatchInv /\ [Next]_vars => Inv' /\ WatchInv'
    BY NextKeeps
  <1>3. Inv /\ WatchInv => LoginWatched
    <2> SUFFICES ASSUME Inv, WatchInv, stop = "no", spent.timeouts = 0, ~spent.early,
                        user = 0, \A k \in Ids : ~apis[k].session,
                        state \in {"Connecting", "Connected", "Authenticating", "Authenticated",
                                   "LoggingIn"}
                 PROVE  \E k \in Ids : apis[k].waiter = "waiting"
      BY DEF LoginWatched
    <2>1. Begun
      BY DEF Inv, CreatedInv
    <2>2. \A k \in Ids : ~apis[k].entering
      BY DEF WatchInv
    <2>3. QED
      BY <2>1, <2>2 DEF WatchInv
  <1>4. QED
    BY <1>1, <1>2, <1>3, PTL DEF Spec
=============================================================================
