---------------------------- MODULE PositionVolumes ----------------------------
(***************************************************************************)
(* The volumes of a position of one instrument, by side and by age: what a *)
(* trade does to them (adjustPositionByTradeInternal).                     *)
(***************************************************************************)
EXTENDS Integers

CONSTANT Distinct  \* is the exchange SHFE or INE, where yesterday's lots are closed apart?

ASSUME PositionVolumesAssumption == Distinct \in BOOLEAN

Sides   == {"long", "short"}
Parts   == [today : Int, his : Int]
Volumes == [Sides -> Parts]

\* CTP's offsets; other: forced closes, and the close of yesterday's lots by name.
Offsets == {"open", "close", "closetoday", "other"}
IsTrade(t) == t.direction \in {"buy", "sell"} /\ t.offset \in Offsets /\ t.volume \in Nat \ {0}

\* updateTrade tells three offsets apart and leaves that of NewTrade, open, otherwise.
Booked(t) == [direction |-> t.direction, volume |-> t.volume,
              offset    |-> IF t.offset = "other" THEN "open" ELSE t.offset]

\* The side of the position that t changes: a buy closes short lots.
Side(t) == IF (t.direction = "buy") <=> (t.offset = "open") THEN "long" ELSE "short"

ClosesHis(t) == Distinct /\ t.offset # "closetoday"

Total(p) == p.today + p.his

\* initPositionVolume: yesterday's volume, before the trades of the day.
InitVolume(yd) == [s \in Sides |-> [today |-> 0, his |-> yd[s]]]

Empty == InitVolume([s \in Sides |-> 0])

\* Lots missing in one part are taken from the other, today's first.
Borrowed(p) ==
    LET q == IF p.today < 0 THEN [today |-> 0, his |-> p.his + p.today] ELSE p
    IN  IF q.his < 0 THEN [today |-> q.today + q.his, his |-> 0] ELSE q

Opened(v, t) == [v EXCEPT ![Side(t)].today = @ + t.volume]

Closed(v, t) == IF ClosesHis(t) THEN [v EXCEPT ![Side(t)].his = @ - t.volume]
                                ELSE [v EXCEPT ![Side(t)].today = @ - t.volume]

Short(v) == \E s \in Sides : Total(v[s]) < 0

\* Mutant: only today's part borrows.
Adjust_TodayOnly(v, t) ==
    IF t.offset = "open" THEN Opened(v, t)
    ELSE LET w == Closed(v, t)
             B(p) == IF p.today < 0 THEN [today |-> 0, his |-> p.his + p.today] ELSE p
         IN  IF Short(w) THEN w ELSE [s \in Sides |-> B(w[s])]

\* Mutant: what is taken from the other part is not taken off there.
Adjust_Forgets(v, t) ==
    IF t.offset = "open" THEN Opened(v, t)
    ELSE LET w == Closed(v, t)
             B(p) == [today |-> IF p.today < 0 THEN 0 ELSE p.today,
                      his   |-> IF p.his < 0 THEN 0 ELSE p.his]
         IN  IF Short(w) THEN w ELSE [s \in Sides |-> B(w[s])]

\* A total below zero is logged and left as it is.
Adjust(v, t) ==
    IF t.offset = "open" THEN Opened(v, t)
    ELSE LET w == Closed(v, t) IN
         IF Short(w) THEN w ELSE [s \in Sides |-> Borrowed(w[s])]

\* The lots t adds to side s.
Effect(t, s) == IF s # Side(t) THEN 0 ELSE IF t.offset = "open" THEN t.volume ELSE -t.volume
=============================================================================
