----------------------------- MODULE HeldProofs -----------------------------
(***************************************************************************)
(* The memory copy of a holding, its shares, its high and its stops, for   *)
(* all prices, lots, targets and distances, whatever the price handler,    *)
(* the reset thread, the report, the operator and crashes do in between.   *)
(***************************************************************************)
EXTENDS HeldPosition, TLAPS

----------------------------------------------------------------------------
(* Rows.                                                                   *)

HRow == {r \in Rows : r.qty > 0}

LEMMA DivNat == \A a \in Nat, b \in Nat \ {0} : a \div b \in Nat
OBVIOUS

LEMMA MaxTyped ==
    \A a, b \in Int : /\ MaxOf(a, b) \in {a, b}
                      /\ MaxOf(a, b) >= a /\ MaxOf(a, b) >= b
BY DEF MaxOf

LEMMA Blanks ==
    /\ New \in HRow /\ Unset \in HRow /\ Closed \in HRow
    /\ New.status = "open" /\ Unset.status = "unset" /\ Closed.status = "closed"
    /\ New.qty = Lot
<1>1. New \in Rows /\ New.qty = Lot /\ New.status = "open"
  <2>1. /\ Lot \in Nat /\ Entry \in Nat /\ Entry - StopDist \in Int /\ 0 \in 0..MaxHold
    BY HoldingAssumption
  <2> QED
    BY <2>1 DEF New, Rows
<1>2. Unset \in Rows /\ Unset.qty = Lot /\ Unset.status = "unset"
  BY <1>1 DEF Unset, Rows
<1>3. Closed \in Rows /\ Closed.qty = Lot /\ Closed.status = "closed"
  BY <1>1 DEF Closed, Rows
<1> QED
  BY <1>1, <1>2, <1>3, HoldingAssumption DEF HRow

LEMMA Fields ==
    \A r \in HRow : /\ r.qty \in Nat \ {0} /\ r.entry \in Nat /\ r.stop \in Int
                    /\ r.high \in Nat /\ r.days \in 0..MaxHold
BY DEF HRow, Rows

\* What each write makes of a row is a row.
LEMMA Written ==
    ASSUME NEW r \in HRow
    PROVE  /\ r.qty \in Nat \ {0} /\ r.entry \in Nat /\ r.stop \in Int /\ r.high \in Nat
           /\ r.days \in 0..MaxHold /\ r.scaled \in BOOLEAN /\ r.tp1 \in BOOLEAN
           /\ \A h \in Nat : [r EXCEPT !.high = h] \in HRow
           /\ \A s \in Int : [r EXCEPT !.stop = s] \in HRow
           /\ \A h \in Nat, s \in Int : [r EXCEPT !.high = h, !.stop = s] \in HRow
           /\ \A d \in 0..MaxHold : [r EXCEPT !.days = d] \in HRow
           /\ \A q \in Nat \ {0}, a \in Nat, s \in Int :
                  [r EXCEPT !.qty = q, !.entry = a, !.stop = s, !.scaled = TRUE] \in HRow
           /\ \A q \in Nat \ {0}, b \in BOOLEAN :
                  [r EXCEPT !.qty = q, !.tp1 = TRUE, !.tp2 = b] \in HRow
<1>1. /\ r.qty \in Nat \ {0} /\ r.entry \in Nat /\ r.stop \in Int /\ r.high \in Nat
      /\ r.days \in 0..MaxHold /\ r.scaled \in BOOLEAN /\ r.tp1 \in BOOLEAN
  BY DEF HRow, Rows
<1>2. \A h \in Nat : [r EXCEPT !.high = h] \in HRow
  BY DEF HRow, Rows
<1>3. \A s \in Int : [r EXCEPT !.stop = s] \in HRow
  BY DEF HRow, Rows
<1>4. \A h \in Nat, s \in Int : [r EXCEPT !.high = h, !.stop = s] \in HRow
  BY DEF HRow, Rows
<1>5. \A d \in 0..MaxHold : [r EXCEPT !.days = d] \in HRow
  BY DEF HRow, Rows
<1>6. \A q \in Nat \ {0}, a \in Nat, s \in Int :
          [r EXCEPT !.qty = q, !.entry = a, !.stop = s, !.scaled = TRUE] \in HRow
  <2> SUFFICES ASSUME NEW q \in Nat \ {0}, NEW a \in Nat, NEW s \in Int
               PROVE  [r EXCEPT !.qty = q, !.entry = a, !.stop = s, !.scaled = TRUE]
                          \in HRow
    OBVIOUS
  <2> DEFINE sum == [r EXCEPT !.qty = q, !.entry = a, !.stop = s, !.scaled = TRUE]
  <2>1. sum \in Rows
    BY Zenon DEF HRow, Rows
  <2>2. sum.qty = q
    BY Zenon DEF HRow, Rows
  <2>3. sum.qty > 0
    BY <2>2
  <2> HIDE DEF sum
  <2>4. sum \in HRow
    BY <2>1, <2>3 DEF HRow
  <2> USE DEF sum
  <2> QED
    BY <2>4
<1>7. \A q \in Nat \ {0}, b \in BOOLEAN :
          [r EXCEPT !.qty = q, !.tp1 = TRUE, !.tp2 = b] \in HRow
  <2> SUFFICES ASSUME NEW q \in Nat \ {0}, NEW b \in BOOLEAN
               PROVE  [r EXCEPT !.qty = q, !.tp1 = TRUE, !.tp2 = b] \in HRow
    OBVIOUS
  <2> DEFINE part == [r EXCEPT !.qty = q, !.tp1 = TRUE, !.tp2 = b]
  <2>1. part \in Rows
    BY Zenon DEF HRow, Rows
  <2>2. part.qty = q
    BY Zenon DEF HRow, Rows
  <2>3. part.qty > 0
    BY <2>2
  <2> HIDE DEF part
  <2>4. part \in HRow
    BY <2>1, <2>3 DEF HRow
  <2> USE DEF part
  <2> QED
    BY <2>4
<1> QED
  BY <1>1, <1>2, <1>3, <1>4, <1>5, <1>6, <1>7

LEMMA PartTyped == \A r \in HRow : PartQty(r) \in Nat \ {0}
<1> SUFFICES ASSUME NEW r \in HRow PROVE PartQty(r) \in Nat \ {0}
  OBVIOUS
<1> DEFINE x == (IF r.tp1 THEN Lot ELSE r.qty) * TpPct
<1>1. x \in Nat
  <2>1. Lot \in Nat /\ TpPct \in Nat /\ r.qty \in Nat
    BY HoldingAssumption DEF HRow, Rows
  <2> QED
    BY <2>1
<1>2. x \div 100 \in Nat
  BY <1>1, DivNat
<1> QED
  BY <1>2, MaxTyped DEF PartQty

----------------------------------------------------------------------------
(* Types, with the quantities positive.                                    *)

HTypes ==
    /\ up \in BOOLEAN /\ halted \in BOOLEAN
    /\ row \in HRow /\ row.status # "unset"
    /\ cache \in HRow /\ pos \in HRow
    /\ got \in [{"loop", "report"} -> HRow]
    /\ pc \in Places /\ price \in Prices \cup {0}
    /\ reset \in {"idle", "days", "high", "update", "flush"} /\ read \in Nat
    /\ phase \in {"night", "market"} /\ due \in BOOLEAN
    /\ age \in 0..MaxHold /\ ticked \in BOOLEAN /\ stopped \in BOOLEAN
    /\ candle \in Nat

HistoryTypes ==
    /\ best \in Nat /\ last \in Nat
    /\ balance \in Int /\ overlooked \in BOOLEAN /\ raced \in BOOLEAN

LEMMA HistoryTyped ==
    ASSUME HistoryTypes, NEW b \in Nat, NEW l \in Nat, NEW n \in Int,
           NEW o \in BOOLEAN, NEW met \in BOOLEAN, Race(met), Histories(b, l, n, o)
    PROVE  HistoryTypes'
BY DEF HistoryTypes, Race, Histories, Known

\* Where a tick, a reset and a report may be.
PlacesFit ==
    /\ phase = "night" => reset = "idle" /\ ~due
    /\ Reading("report") => phase = "night"
    /\ pc \in {"raised", "scaled", "pnl"} => price # 0
    /\ price # 0 => phase = "market" /\ pc # "idle"
    /\ Reading("loop") <=> pc = "store"
    /\ ~up => /\ cache = Unset /\ got = NoReads
              /\ pc = "idle" /\ reset = "idle" /\ ~due

----------------------------------------------------------------------------
(* What the copies of the row say of it, while nothing has raced.          *)

CacheAgrees ==
    /\ cache.status = row.status /\ cache.qty = row.qty
    /\ cache.entry = row.entry /\ cache.stop = row.stop
    /\ cache.tp1 = row.tp1 /\ cache.tp2 = row.tp2 /\ cache.scaled = row.scaled
    /\ reset # "flush" => cache.high = row.high
    /\ reset \in {"idle", "days"} \/ (~Held(row) /\ reset # "flush")
       => cache.days = row.days

\* Between the read and the write of a tick the handler's quantity is the
\* row's, but for a second tranche of that tick.
PosAgrees ==
    /\ pc = "raised" => Held(row) /\ pos.qty = row.qty /\ pos.scaled = row.scaled
    /\ pc = "scaled" => /\ Held(row)
                        /\ \/ pos.qty = row.qty /\ pos.scaled = row.scaled
                           \/ /\ row.scaled /\ ~pos.scaled /\ ~overlooked
                              /\ row.qty = pos.qty + ScaleQty

\* A tranche can be overlooked once: there is no third.
Shares ==
    /\ balance = (IF Held(row) THEN row.qty ELSE 0)
                 + (IF overlooked THEN ScaleQty ELSE 0)
    /\ overlooked /\ Held(row) => row.scaled

Agrees ==
    /\ \A w \in {"loop", "report"} : Reading(w) => got[w] = row
    /\ cache # Unset => CacheAgrees
    /\ PosAgrees /\ Shares

HeldInv == HTypes /\ HistoryTypes /\ PlacesFit /\ (~raced => Agrees)

LEMMA SameRow ==
    \A r, s \in HRow :
        /\ r.status = s.status /\ r.qty = s.qty /\ r.entry = s.entry
        /\ r.stop = s.stop /\ r.high = s.high /\ r.days = s.days
        /\ r.tp1 = s.tp1 /\ r.tp2 = s.tp2 /\ r.scaled = s.scaled
        => r = s
BY DEF HRow, Rows

----------------------------------------------------------------------------
(* Steps by what they leave alone.                                         *)

agreeVars == <<row, cache, got, pc, pos, reset, price, history>>

LEMMA Untouched ==
    ASSUME HeldInv, HTypes', PlacesFit', UNCHANGED agreeVars
    PROVE  HeldInv'
BY DEF HeldInv, HistoryTypes, Agrees, CacheAgrees, PosAgrees, Shares, Reading, Held,
       agreeVars, history

\* A look at memory begins; the rows are read when there are none.
LEMMA Looked ==
    ASSUME HeldInv, up, pc = "idle", Look,
           price' \in Prices \cup {0}, price' # 0 => phase = "market",
           UNCHANGED <<up, halted, rowVars, pos, resetVars, clockVars, history>>
    PROVE  HeldInv'
<1> USE Blanks DEF rowVars, resetVars, clockVars
<1>1. CASE cache = Unset
  <2>1. pc' = "store" /\ got' = [got EXCEPT !["loop"] = row]
    BY <1>1 DEF Look
  <2>2. HTypes'
    BY <2>1 DEF HeldInv, HTypes, Places
  <2>3. /\ got'["loop"] = row /\ got'["report"] = got["report"]
    BY <2>1 DEF HeldInv, HTypes
  <2>4. PlacesFit'
    BY <2>1, <2>3 DEF HeldInv, HTypes, PlacesFit, Reading
  <2>5. ~raced => Agrees'
    BY <1>1, <2>1, <2>3
    DEF HeldInv, Agrees, CacheAgrees, PosAgrees, Shares, Reading, Held, history
  <2> QED
    BY <2>2, <2>4, <2>5 DEF HeldInv, HistoryTypes, history
<1>2. CASE cache # Unset
  <2>1. pc' = "return" /\ got' = got
    BY <1>2 DEF Look
  <2>2. HTypes'
    BY <2>1 DEF HeldInv, HTypes, Places
  <2>3. PlacesFit'
    BY <2>1 DEF HeldInv, HTypes, PlacesFit, Reading
  <2>4. ~raced => Agrees'
    BY <2>1 DEF HeldInv, Agrees, CacheAgrees, PosAgrees, Shares, Reading, Held, history
  <2> QED
    BY <2>2, <2>3, <2>4 DEF HeldInv, HistoryTypes, history
<1> QED
  BY <1>1, <1>2

\* The handler moves on in a tick; memory stays or is filled.
LEMMA MovesOn ==
    ASSUME HeldInv, pc \in {"return", "raised", "pnl"},
           pc' \in {"idle", "scaled", "pnl"},
           pc' = "scaled" => pc = "raised" /\ UNCHANGED pos,
           pc' = "idle" => price' = 0,
           pc' # "idle" => price' = price /\ price # 0,
           pos' \in {pos, Unset}, cache' \in {cache, Filled},
           halted' \in BOOLEAN, ticked' \in BOOLEAN,
           UNCHANGED <<up, row, got, resetVars, phase, due, age, stopped, candle,
                       history>>
    PROVE  HeldInv'
<1> USE Blanks DEF resetVars
<1>1. HTypes'
  BY DEF HeldInv, HTypes, Places, Filled
<1>2. PlacesFit'
  BY DEF HeldInv, PlacesFit, Reading
<1>3. ASSUME ~raced PROVE Agrees'
  <2>1. Agrees /\ (cache' # Unset => cache' = row \/ (cache' = cache /\ cache # Unset))
    BY <1>3 DEF HeldInv, Filled
  <2>2. cache' # Unset => CacheAgrees'
    BY <2>1 DEF Agrees, CacheAgrees, Held
  <2>3. PosAgrees'
    BY <2>1 DEF Agrees, PosAgrees, Held
  <2> QED
    BY <2>1, <2>2, <2>3 DEF Agrees, Shares, Reading, Held, history
<1> QED
  BY <1>1, <1>2, <1>3 DEF HeldInv, HistoryTypes, history

----------------------------------------------------------------------------
(* The steps that write the row.                                           *)

\* What a tick that raises the stop writes to the row, to memory and to the
\* Position.
LEMMA RaiseWrites ==
    ASSUME HeldInv, RaiseStop
    PROVE  \E high \in Nat, stop \in Int :
              /\ high = MaxOf(cache.high, price) /\ stop >= cache.stop
              /\ row' \in HRow /\ row'.status = row.status /\ row'.qty = row.qty
              /\ row'.entry = row.entry /\ row'.days = row.days /\ row'.tp1 = row.tp1
              /\ row'.tp2 = row.tp2 /\ row'.scaled = row.scaled
              /\ row'.high = IF high > cache.high THEN high ELSE row.high
              /\ row'.stop = IF stop # cache.stop THEN stop ELSE row.stop
              /\ cache' \in HRow /\ cache'.status = cache.status
              /\ cache'.qty = cache.qty /\ cache'.entry = cache.entry
              /\ cache'.days = cache.days /\ cache'.tp1 = cache.tp1
              /\ cache'.tp2 = cache.tp2 /\ cache'.scaled = cache.scaled
              /\ cache'.high = high /\ cache'.stop = stop
              /\ pos' \in HRow /\ pos'.qty = cache'.qty
              /\ pos'.scaled = cache'.scaled /\ pos'.entry = cache'.entry
              /\ pos'.high = cache'.high /\ pos'.stop = cache'.stop
<1>1. PICK dist \in TrailDists :
         LET high == MaxOf(cache.high, price)
             stop == TrailingStop([cache EXCEPT !.high = high], dist)
         IN  /\ row' = [HighPersisted(row, high) EXCEPT
                           !.stop = IF stop # cache.stop THEN stop ELSE @]
             /\ cache' = [cache EXCEPT !.high = high, !.stop = stop]
             /\ pos' = ToPosition(cache')
  BY DEF RaiseStop
<1> DEFINE high == MaxOf(cache.high, price)
           stop == TrailingStop([cache EXCEPT !.high = high], dist)
<1>2. /\ cache \in HRow /\ row \in HRow /\ age \in 0..MaxHold
      /\ price \in Nat /\ dist \in Nat /\ Held(cache) /\ price # 0
      /\ pc = "return" /\ pc' = "raised" /\ phase = "market"
      /\ UNCHANGED <<up, halted, got, price, resetVars, clockVars>>
  BY HoldingAssumption DEF RaiseStop, HeldInv, HTypes, PlacesFit
<1>3. high \in Nat /\ high >= cache.high
  <2>1. cache.high \in Nat
    BY <1>2, Fields
  <2> QED
    BY <1>2, <2>1, MaxTyped
<1>4. stop \in Int /\ stop >= cache.stop
  <2>1. \A r \in HRow : TrailingStop(r, dist) \in Int /\ TrailingStop(r, dist) >= r.stop
    <3> SUFFICES ASSUME NEW r \in HRow
                 PROVE  TrailingStop(r, dist) \in Int /\ TrailingStop(r, dist) >= r.stop
      OBVIOUS
    <3>1. r.stop \in Int /\ r.high - dist \in Int
      BY <1>2, Fields
    <3> QED
      BY <3>1, MaxTyped DEF TrailingStop
  <2>2. /\ [cache EXCEPT !.high = high] \in HRow
        /\ [cache EXCEPT !.high = high].stop = cache.stop
    BY <1>2, <1>3, Written DEF HRow, Rows
  <2> QED
    BY <2>1, <2>2
<1>5. /\ row' \in HRow /\ row'.status = row.status /\ row'.qty = row.qty
      /\ row'.entry = row.entry /\ row'.days = row.days /\ row'.tp1 = row.tp1
      /\ row'.tp2 = row.tp2 /\ row'.scaled = row.scaled
      /\ row'.high = IF high > cache.high THEN high ELSE row.high
      /\ row'.stop = IF stop # cache.stop THEN stop ELSE row.stop
  <2> DEFINE persisted == HighPersisted(row, high)
  <2> HIDE DEF high, stop
  <2>1. /\ persisted \in HRow /\ persisted.stop = row.stop
        /\ persisted.status = row.status /\ persisted.qty = row.qty
        /\ persisted.entry = row.entry /\ persisted.days = row.days
        /\ persisted.tp1 = row.tp1 /\ persisted.tp2 = row.tp2
        /\ persisted.scaled = row.scaled
        /\ persisted.high = IF high > cache.high THEN high ELSE row.high
    BY <1>2, <1>3, Written DEF HighPersisted, HRow, Rows
  <2>2. row' = [persisted EXCEPT !.stop = IF stop # cache.stop THEN stop ELSE @]
    BY <1>1 DEF high, stop
  <2> HIDE DEF persisted
  <2>3. row' \in HRow
    BY <1>4, <2>1, <2>2, Written
  <2> QED
    BY <2>1, <2>2, <2>3 DEF HRow, Rows
<1>6. /\ cache' \in HRow /\ cache'.status = cache.status /\ cache'.qty = cache.qty
      /\ cache'.entry = cache.entry /\ cache'.days = cache.days
      /\ cache'.tp1 = cache.tp1 /\ cache'.tp2 = cache.tp2
      /\ cache'.scaled = cache.scaled /\ cache'.high = high /\ cache'.stop = stop
  <2> HIDE DEF high, stop
  <2>1. cache' = [cache EXCEPT !.high = high, !.stop = stop]
    BY <1>1 DEF high, stop
  <2>2. cache' \in HRow
    BY <1>2, <1>3, <1>4, <2>1, Written
  <2> QED
    BY <1>2, <2>1, <2>2 DEF HRow, Rows
<1> HIDE DEF high, stop
<1>7. /\ pos' \in HRow /\ pos'.qty = cache'.qty /\ pos'.scaled = cache'.scaled
      /\ pos'.entry = cache'.entry /\ pos'.high = cache'.high /\ pos'.stop = cache'.stop
  <2>1. pos' = [cache' EXCEPT !.days = IF @ = 0 THEN age ELSE @]
    BY <1>1 DEF ToPosition
  <2>2. (IF cache'.days = 0 THEN age ELSE cache'.days) \in 0..MaxHold
    BY <1>2, <1>6, Fields
  <2>3. pos' \in HRow
    BY <1>6, <2>1, <2>2, Written
  <2> QED
    BY <1>6, <2>1, <2>3 DEF HRow, Rows
<1>8. high = MaxOf(cache.high, price)
  BY DEF high
<1> QED
  BY <1>3, <1>4, <1>5, <1>6, <1>7, <1>8

LEMMA HistoryFlag == HeldInv => overlooked \in BOOLEAN
BY DEF HeldInv, HistoryTypes

LEMMA StopRaised == HeldInv /\ RaiseStop => HeldInv'
<1> SUFFICES ASSUME HeldInv, RaiseStop PROVE HeldInv'
  OBVIOUS
<1>1. PICK high \in Nat, stop \in Int :
         /\ high = MaxOf(cache.high, price) /\ stop >= cache.stop
         /\ row' \in HRow /\ row'.status = row.status /\ row'.qty = row.qty
         /\ row'.entry = row.entry /\ row'.days = row.days /\ row'.tp1 = row.tp1
         /\ row'.tp2 = row.tp2 /\ row'.scaled = row.scaled
         /\ row'.high = IF high > cache.high THEN high ELSE row.high
         /\ row'.stop = IF stop # cache.stop THEN stop ELSE row.stop
         /\ cache' \in HRow /\ cache'.status = cache.status
         /\ cache'.qty = cache.qty /\ cache'.entry = cache.entry
         /\ cache'.days = cache.days /\ cache'.tp1 = cache.tp1
         /\ cache'.tp2 = cache.tp2 /\ cache'.scaled = cache.scaled
         /\ cache'.high = high /\ cache'.stop = stop
         /\ pos' \in HRow /\ pos'.qty = cache'.qty /\ pos'.scaled = cache'.scaled
  BY RaiseWrites
<1>2. /\ cache \in HRow /\ row \in HRow /\ age \in 0..MaxHold
      /\ price \in Nat /\ Held(cache) /\ price # 0
      /\ pc = "return" /\ pc' = "raised" /\ phase = "market"
      /\ UNCHANGED <<up, halted, got, price, resetVars, clockVars>>
  BY HoldingAssumption DEF RaiseStop, HeldInv, HTypes, PlacesFit
<1>3. high >= cache.high
  BY <1>1, <1>2, Fields, MaxTyped
<1>8. HTypes'
  BY <1>1, <1>2 DEF HeldInv, HTypes, Places, resetVars, clockVars
<1>9. PlacesFit'
  BY <1>2, Blanks DEF HeldInv, PlacesFit, Reading, resetVars, clockVars, Held
<1>10. HistoryTypes'
  <2>1. /\ Race(reset \in {"update", "flush"})
        /\ Histories(MaxOf(best, price), last, balance, overlooked)
    BY DEF RaiseStop
  <2>2. /\ HistoryTypes /\ last \in Nat /\ balance \in Int /\ overlooked \in BOOLEAN
        /\ (reset \in {"update", "flush"}) \in BOOLEAN
    BY DEF HeldInv, HistoryTypes
  <2>3. MaxOf(best, price) \in Nat
    BY <1>2, <2>2, MaxTyped DEF HistoryTypes
  <2> QED
    BY <2>1, <2>2, <2>3, HistoryTyped
<1>11. ASSUME ~raced' PROVE Agrees'
  <2>1. ~raced /\ reset \notin {"update", "flush"}
        /\ balance' = balance /\ overlooked' = overlooked
    BY <1>11, HistoryFlag DEF RaiseStop, Race, Histories, Known
  <2>2. Agrees /\ CacheAgrees /\ Held(row)
    BY <1>2, <2>1, Blanks DEF HeldInv, Agrees, CacheAgrees, Held
  <2>3. CacheAgrees'
    <3>1. cache'.high = row'.high /\ cache'.stop = row'.stop
      <4>1. cache.high = row.high /\ cache.stop = row.stop /\ cache.high \in Nat
        BY <1>2, <2>1, <2>2, Fields DEF CacheAgrees
      <4> QED
        BY <1>1, <1>3, <4>1
    <3>2. /\ cache'.status = row'.status /\ cache'.qty = row'.qty
          /\ cache'.entry = row'.entry /\ cache'.tp1 = row'.tp1
          /\ cache'.tp2 = row'.tp2 /\ cache'.scaled = row'.scaled
      BY <1>1, <2>2 DEF CacheAgrees
    <3>3. reset' \in {"idle", "days"} \/ (~Held(row') /\ reset' # "flush")
          => cache'.days = row'.days
      BY <1>1, <1>2, <2>2 DEF CacheAgrees, Held, resetVars
    <3> QED
      BY <3>1, <3>2, <3>3 DEF CacheAgrees
  <2>4. PosAgrees' /\ Shares'
    BY <1>1, <1>2, <2>1, <2>2 DEF Agrees, CacheAgrees, PosAgrees, Shares, Held
  <2>5. \A w \in {"loop", "report"} : ~Reading(w)'
    BY <1>2 DEF HeldInv, PlacesFit, Reading
  <2> QED
    BY <2>3, <2>4, <2>5 DEF Agrees
<1> QED
  BY <1>8, <1>9, <1>10, <1>11 DEF HeldInv

\* Memory dropped, the row written, shares booked: what is left to show.
LEMMA Booked ==
    ASSUME HeldInv, Invalidate, row' \in HRow, row'.status # "unset",
           pc \in {"idle", "raised", "scaled"}, pc' \in {pc, "scaled", "pnl"},
           pc = "idle" => pc' = pc, pc # "idle" => pc' # "raised" /\ pc' # "idle",
           age' \in 0..MaxHold, candle' \in Nat,
           UNCHANGED <<up, halted, got, price, pos, resetVars, phase, due, ticked,
                       stopped>>,
           HistoryTypes',
           ~raced' => /\ ~raced /\ PosAgrees' /\ Shares'
                      /\ \A w \in {"loop", "report"} : ~Reading(w)
    PROVE  HeldInv'
<1> USE Blanks DEF resetVars, Invalidate
<1>1. HTypes'
  BY DEF HeldInv, HTypes, Places
<1>2. PlacesFit'
  BY DEF HeldInv, PlacesFit, Reading
<1>3. ASSUME ~raced' PROVE Agrees'
  BY <1>3 DEF Agrees, Reading
<1> QED
  BY <1>1, <1>2, <1>3 DEF HeldInv

\* In a tick nobody is reading rows.
LEMMA NobodyReads ==
    ASSUME HeldInv, \/ pc \in {"raised", "scaled", "pnl"}
                    \/ phase = "market" /\ pc # "store"
    PROVE  \A w \in {"loop", "report"} : ~Reading(w)
BY DEF HeldInv, PlacesFit

LEMMA TrancheAdded == HeldInv /\ ScaleIn => HeldInv'
<1> SUFFICES ASSUME HeldInv, ScaleIn PROVE HeldInv'
  OBVIOUS
<1> DEFINE qty == pos.qty + ScaleQty
           avg == (pos.entry * pos.qty + price * ScaleQty) \div qty
<1>1. /\ pc = "raised" /\ pc' = "scaled" /\ ~pos.scaled /\ Invalidate
      /\ row' = [row EXCEPT !.qty = qty, !.entry = avg,
                           !.stop = StopAfterScaleIn(avg), !.scaled = TRUE]
      /\ Race(FALSE) /\ Histories(best, last, balance + ScaleQty, overlooked)
      /\ UNCHANGED <<up, halted, got, price, pos, resetVars, clockVars>>
  BY DEF ScaleIn, SecondTranche
<1>2. HTypes /\ HistoryTypes /\ row \in HRow /\ price \in Nat
      /\ pos.qty \in Nat \ {0} /\ pos.entry \in Nat /\ ScaleQty \in Nat
  BY HoldingAssumption, Fields DEF HeldInv, HTypes
<1>3. qty \in Nat \ {0} /\ pos.entry * pos.qty + price * ScaleQty \in Nat
  BY <1>2
<1>4. avg \in Nat /\ StopAfterScaleIn(avg) \in Int
  <2>1. avg \in Nat
    BY <1>3, DivNat
  <2> HIDE DEF avg
  <2> QED
    BY <2>1, HoldingAssumption DEF StopAfterScaleIn
<1> HIDE DEF avg
<1>5. row' \in HRow /\ row'.qty = qty /\ row'.scaled /\ row'.status = row.status
  <2>1. row' \in HRow
    BY <1>1, <1>2, <1>3, <1>4, Written
  <2>2. row'.qty = qty /\ row'.scaled = TRUE /\ row'.status = row.status
    BY <1>1, <1>2, Zenon DEF HRow, Rows
  <2> QED
    BY <2>1, <2>2
<1>6. HistoryTypes'
  <2>1. best \in Nat /\ last \in Nat /\ balance + ScaleQty \in Int
        /\ overlooked \in BOOLEAN
    BY <1>2 DEF HistoryTypes
  <2> QED
    BY <1>1, <1>2, <2>1, HistoryTyped
<1>7. ASSUME ~raced' PROVE ~raced /\ PosAgrees' /\ Shares'
  <2>1. ~raced /\ balance' = balance + ScaleQty /\ overlooked' = overlooked
    BY <1>1, <1>7, HistoryFlag DEF Race, Histories, Known
  <2>2. Held(row) /\ pos.qty = row.qty /\ balance = row.qty /\ ~overlooked
    BY <1>1, <1>2, <2>1, HistoryFlag DEF HeldInv, Agrees, PosAgrees, Shares
  <2>3. row'.qty = pos.qty + ScaleQty /\ balance' = row'.qty /\ ~overlooked'
    BY <1>2, <1>5, <2>1, <2>2
  <2>4. PosAgrees'
    BY <1>1, <1>5, <2>2, <2>3 DEF PosAgrees, Held
  <2>5. Shares'
    BY <1>2, <1>3, <1>5, <2>2, <2>3 DEF Shares, Held
  <2> QED
    BY <2>1, <2>4, <2>5
<1>8. row'.status # "unset" /\ age' \in 0..MaxHold /\ candle' \in Nat
  BY <1>1, <1>2, <1>5 DEF HTypes, clockVars
<1> QED
  BY <1>1, <1>5, <1>6, <1>7, <1>8, NobodyReads, Booked DEF clockVars

LEMMA ExitDecided == HeldInv /\ DecideExit => HeldInv'
<1> SUFFICES ASSUME HeldInv, DecideExit PROVE HeldInv'
  OBVIOUS
<1>1. /\ pc = "scaled" /\ pc' = "pnl" /\ Race(FALSE)
      /\ UNCHANGED <<up, halted, got, price, pos, resetVars, clockVars>>
  BY DEF DecideExit
<1>2. /\ HTypes /\ HistoryTypes /\ row \in HRow /\ pos \in HRow
      /\ price \in Nat /\ age' \in 0..MaxHold /\ candle' \in Nat
      /\ pos.qty \in Nat \ {0} /\ row.qty \in Nat \ {0} /\ PartQty(pos) \in Nat \ {0}
      /\ pos.tp1 \in BOOLEAN
  <2>1. /\ HTypes /\ HistoryTypes /\ row \in HRow /\ pos \in HRow
        /\ price \in Nat /\ age' \in 0..MaxHold /\ candle' \in Nat
    BY <1>1, HoldingAssumption DEF HeldInv, HTypes, clockVars
  <2> QED
    BY <2>1, Fields, PartTyped DEF HRow, Rows
<1>3. overlooked \in BOOLEAN /\ ScaleQty \in Nat
  BY HistoryFlag, HoldingAssumption
<1> DEFINE between == row.scaled /\ ~pos.scaled
           gap == IF overlooked THEN ScaleQty ELSE 0
<1>4. ASSUME NEW n \in Nat, Sells(n) PROVE HistoryTypes'
  <2>1. /\ best \in Nat /\ balance - n \in Int /\ (overlooked \/ between) \in BOOLEAN
        /\ Histories(best, price, balance - n, overlooked \/ between)
    BY <1>2, <1>3, <1>4 DEF HistoryTypes, Sells
  <2> QED
    BY <1>1, <1>2, <2>1, HistoryTyped
<1>5. ASSUME ~raced'
      PROVE  /\ ~raced /\ Held(row) /\ balance = row.qty + gap
             /\ overlooked => row.scaled
             /\ \/ pos.qty = row.qty /\ ~between
                \/ row.qty = pos.qty + ScaleQty /\ between /\ ~overlooked
             /\ \A n \in Nat : Sells(n) =>
                    /\ balance' = balance - n
                    /\ overlooked' = (overlooked \/ between)
  <2>1. ~raced
    BY <1>1, <1>5 DEF Race
  <2>2. ASSUME NEW n \in Nat, Sells(n)
        PROVE  balance' = balance - n /\ overlooked' = (overlooked \/ between)
    BY <1>3, <1>5, <2>2 DEF Histories, Known, Sells
  <2>3. /\ Held(row) /\ Shares /\ PosAgrees
    BY <1>1, <2>1 DEF HeldInv, Agrees, PosAgrees
  <2> QED
    BY <1>1, <2>1, <2>2, <2>3 DEF PosAgrees, Shares
<1>6. CASE ExitReason(pos) = "none"
  <2>1. Histories(best, price, balance, overlooked) /\ UNCHANGED rowVars
    BY <1>6 DEF DecideExit
  <2>2. HTypes'
    BY <1>1, <1>2, <2>1 DEF HTypes, Places, rowVars, resetVars, clockVars
  <2>3. PlacesFit'
    BY <1>1, <2>1 DEF HeldInv, PlacesFit, Reading, rowVars, resetVars, clockVars
  <2>4. ASSUME ~raced' PROVE Agrees'
    <3>1. balance' = balance /\ overlooked' = overlooked /\ ~raced
      BY <1>1, <1>3, <2>1, <2>4 DEF Race, Histories, Known
    <3> QED
      BY <1>1, <2>1, <3>1 DEF HeldInv, Agrees, CacheAgrees, PosAgrees, Shares, Reading,
                              Held, rowVars, resetVars
  <2>5. HistoryTypes'
    <3>1. best \in Nat /\ balance \in Int
      BY <1>2 DEF HistoryTypes
    <3> QED
      BY <1>1, <1>2, <1>3, <2>1, <3>1, HistoryTyped
  <2> QED
    BY <2>2, <2>3, <2>4, <2>5 DEF HeldInv
<1> HIDE DEF gap, between
<1>7. CASE ExitReason(pos) = "target" /\ IsPartial(pos)
  <2>1. /\ SellPart /\ Sells(PartQty(pos)) /\ Invalidate
    BY <1>7 DEF DecideExit, AfterSale
  <2>2. Remaining(pos) \in Nat \ {0} /\ Remaining(pos) = pos.qty - PartQty(pos)
    BY <1>2, <1>7 DEF Remaining, IsPartial
  <2>3. /\ row' \in HRow /\ row'.qty = Remaining(pos) /\ row'.status = row.status
        /\ row'.scaled = row.scaled
    <3>1. row' \in HRow
      BY <1>2, <2>1, <2>2, Written DEF SellPart
    <3> QED
      BY <1>2, <2>1, <3>1, Zenon DEF SellPart, HRow, Rows
  <2>4. HistoryTypes'
    BY <1>2, <1>4, <2>1
  <2>5. ASSUME ~raced' PROVE ~raced /\ PosAgrees' /\ Shares'
    <3>1. /\ balance' = (row.qty + gap) - PartQty(pos)
          /\ overlooked' = (overlooked \/ between) /\ Held(row')
      BY <1>2, <1>5, <2>1, <2>3, <2>5 DEF Held
    <3>2. CASE between
      <4>1. gap = 0 /\ overlooked' /\ row'.scaled /\ row.qty = pos.qty + ScaleQty
        BY <1>5, <2>3, <2>5, <3>1, <3>2 DEF gap, between
      <4> QED
        BY <1>1, <1>2, <1>3, <1>5, <2>2, <2>3, <2>5, <3>1, <4>1 DEF PosAgrees, Shares
    <3>3. CASE ~between
      <4>1. overlooked' = overlooked /\ row.qty = pos.qty /\ gap \in Nat
        BY <1>3, <1>5, <2>5, <3>1, <3>3 DEF gap
      <4>2. balance' = row'.qty + gap
        BY <1>2, <2>2, <2>3, <3>1, <4>1
      <4>3. gap = IF overlooked' THEN ScaleQty ELSE 0
        BY <4>1 DEF gap
      <4> QED
        BY <1>1, <1>5, <2>3, <2>5, <3>1, <4>1, <4>2, <4>3 DEF PosAgrees, Shares
    <3> QED
      BY <3>2, <3>3
  <2>6. row'.status # "unset"
    BY <1>2, <2>3 DEF HTypes
  <2> QED
    BY <1>1, <1>2, <2>1, <2>3, <2>4, <2>5, <2>6, NobodyReads, Booked DEF clockVars
<1>8. CASE ExitReason(pos) # "none" /\ ~(ExitReason(pos) = "target" /\ IsPartial(pos))
  <2>1. /\ row' = Closed /\ Sells(pos.qty) /\ Invalidate
    BY <1>8 DEF DecideExit, AfterSale, SellOut
  <2>2. HistoryTypes'
    BY <1>2, <1>4, <2>1
  <2>3. ASSUME ~raced' PROVE ~raced /\ PosAgrees' /\ Shares'
    <3>1. /\ balance' = (row.qty + gap) - pos.qty
          /\ overlooked' = (overlooked \/ between) /\ ~Held(row')
      BY <1>2, <1>5, <2>1, <2>3, Blanks DEF Held
    <3>2. balance' = IF overlooked' THEN ScaleQty ELSE 0
      <4>1. CASE between
        <5>1. row.qty = pos.qty + ScaleQty /\ ~overlooked
          BY <1>5, <2>3, <4>1
        <5>2. gap = 0 /\ overlooked'
          BY <3>1, <4>1, <5>1 DEF gap
        <5> QED
          BY <1>2, <1>3, <3>1, <5>1, <5>2
      <4>2. CASE ~between
        <5>1. row.qty = pos.qty /\ gap \in Nat /\ overlooked' = overlooked
          BY <1>3, <1>5, <2>3, <3>1, <4>2 DEF gap
        <5>2. balance' = gap
          BY <1>2, <3>1, <5>1
        <5> QED
          BY <5>1, <5>2 DEF gap
      <4> QED
        BY <4>1, <4>2
    <3> QED
      BY <1>1, <1>3, <1>5, <2>3, <3>1, <3>2 DEF PosAgrees, Shares
  <2> QED
    BY <1>1, <1>2, <2>1, <2>2, <2>3, NobodyReads, Blanks, Booked DEF clockVars
<1> QED
  BY <1>6, <1>7, <1>8

----------------------------------------------------------------------------
(* The end of the process, and every step.                                 *)

LEMMA GoesDown == HeldInv /\ Down => HeldInv'
<1> SUFFICES ASSUME HeldInv, Down PROVE HeldInv'
  OBVIOUS
<1> USE Blanks DEF Down, ToIdle
<1>1. \A w \in {"loop", "report"} : got'[w] = Unset
  BY DEF NoReads
<1>2. HTypes'
  BY <1>1 DEF HeldInv, HTypes, Places, NoReads
<1>3. PlacesFit'
  BY <1>1 DEF HeldInv, PlacesFit, Reading
<1>4. ~raced => Agrees'
  BY <1>1 DEF HeldInv, Agrees, PosAgrees, Shares, Reading, Held
<1> QED
  BY <1>2, <1>3, <1>4 DEF HeldInv, HistoryTypes

\* Rows that were read become the memory copy.
LEMMA Stored ==
    ASSUME HeldInv, NEW w \in {"loop", "report"}, Reading(w),
           w = "report" => pc' = pc, w = "loop" => pc' = "return",
           cache' = got[w], got' = [got EXCEPT ![w] = Unset],
           UNCHANGED <<up, halted, row, price, pos, resetVars, clockVars, history>>
    PROVE  HeldInv'
<1> USE Blanks DEF resetVars, clockVars, history
<1>1. got'[w] = Unset /\ \A v \in {"loop", "report"} \ {w} : got'[v] = got[v]
  BY DEF HeldInv, HTypes
<1>2. HTypes'
  BY DEF HeldInv, HTypes, Places
<1>3. up
  BY DEF HeldInv, PlacesFit, Reading, NoReads
<1>4. PlacesFit'
  BY <1>1, <1>3 DEF HeldInv, HTypes, PlacesFit, Reading
<1>5. ASSUME ~raced PROVE Agrees'
  <2>1. got[w] = row /\ Agrees
    BY <1>5 DEF HeldInv, Agrees
  <2>2. CacheAgrees'
    BY <2>1 DEF CacheAgrees
  <2>3. PosAgrees'
    BY <2>1 DEF HeldInv, PlacesFit, Agrees, PosAgrees, Held
  <2> QED
    BY <1>1, <2>1, <2>2, <2>3 DEF Agrees, Shares, Reading, Held
<1> QED
  BY <1>2, <1>4, <1>5 DEF HeldInv, HistoryTypes

LEMMA ResetPreserves == HeldInv /\ ResetStep => HeldInv'
<1> SUFFICES ASSUME HeldInv, ResetStep PROVE HeldInv'
  OBVIOUS
<1>1. CASE ResetBegins
  <2>1. /\ up /\ due /\ reset = "idle" /\ due' = FALSE /\ reset' = "days"
        /\ cache' = Unset /\ halted' = FALSE
        /\ UNCHANGED <<up, row, got, pc, price, pos, read, phase, age, ticked, stopped,
                       candle, history>>
    BY <1>1 DEF ResetBegins, HaltCleared, Invalidate, loopVars
  <2>2. HTypes'
    BY <2>1, Blanks DEF HeldInv, HTypes
  <2>3. PlacesFit'
    BY <2>1 DEF HeldInv, PlacesFit, Reading
  <2>4. ~raced => Agrees'
    BY <2>1 DEF HeldInv, Agrees, PosAgrees, Shares, Reading, Held, history
  <2> QED
    BY <2>1, <2>2, <2>3, <2>4 DEF HeldInv, HistoryTypes, history
<1>2. CASE CountDays
  <2>1. /\ reset = "days" /\ reset' = "high" /\ Race(LoopAtWork)
        /\ row' = IF Held(row) THEN [row EXCEPT !.days = age] ELSE row
        /\ Histories(best, last, balance, overlooked)
        /\ UNCHANGED <<up, halted, cache, got, pc, price, pos, read, clockVars>>
    BY <1>2 DEF CountDays, loopVars
  <2>2. /\ row' \in HRow /\ row'.status = row.status /\ row'.qty = row.qty
        /\ row'.entry = row.entry /\ row'.stop = row.stop /\ row'.high = row.high
        /\ row'.tp1 = row.tp1 /\ row'.tp2 = row.tp2 /\ row'.scaled = row.scaled
        /\ ~Held(row) => row' = row
    <3>1. row \in HRow /\ age \in 0..MaxHold
      BY DEF HeldInv, HTypes
    <3>2. row' \in HRow
      BY <2>1, <3>1, Written
    <3> QED
      BY <2>1, <3>1, <3>2 DEF HRow, Rows
  <2>3. HTypes'
    BY <2>1, <2>2 DEF HeldInv, HTypes, clockVars
  <2>4. PlacesFit'
    BY <2>1 DEF HeldInv, PlacesFit, Reading, clockVars
  <2>5. HistoryTypes'
    <3>1. HistoryTypes /\ best \in Nat /\ last \in Nat /\ balance \in Int
          /\ overlooked \in BOOLEAN
          /\ LoopAtWork \in BOOLEAN
      BY DEF HeldInv, HistoryTypes, LoopAtWork, Reading
    <3> QED
      BY <2>1, <3>1, HistoryTyped
  <2>6. ASSUME ~raced' PROVE Agrees'
    <3>1. ~raced /\ ~LoopAtWork /\ balance' = balance /\ overlooked' = overlooked
          /\ Agrees
      BY <2>1, <2>6, HistoryFlag DEF Race, Histories, Known, HeldInv
    <3>2. \A w \in {"loop", "report"} : ~Reading(w)'
      BY <2>1, <3>1 DEF LoopAtWork, HeldInv, PlacesFit, Reading
    <3>3. cache' # Unset => CacheAgrees'
      BY <2>1, <2>2, <3>1 DEF Agrees, CacheAgrees, Held
    <3>4. PosAgrees' /\ Shares'
      BY <2>1, <2>2, <3>1 DEF Agrees, PosAgrees, LoopAtWork, Shares, Held
    <3> QED
      BY <3>2, <3>3, <3>4 DEF Agrees
  <2> QED
    BY <2>3, <2>4, <2>5, <2>6 DEF HeldInv
<1>3. CASE ReadHigh
  <2>1. /\ reset = "high" /\ reset' \in {"update", "idle"}
        /\ reset' = "idle" => ~Held(row)
        /\ read' \in {read, row.high}
        /\ UNCHANGED <<up, halted, row, cache, got, pc, price, pos, clockVars, history>>
    BY <1>3 DEF ReadHigh, loopVars, rowVars
  <2>2. HTypes'
    <3>1. row.high \in Nat
      BY Fields DEF HeldInv, HTypes
    <3> QED
      BY <2>1, <3>1 DEF HeldInv, HTypes, clockVars
  <2>3. PlacesFit'
    BY <2>1 DEF HeldInv, PlacesFit, Reading, clockVars
  <2>4. ~raced => Agrees'
    BY <2>1 DEF HeldInv, Agrees, CacheAgrees, PosAgrees, Shares, Reading, Held, history
  <2> QED
    BY <2>1, <2>2, <2>3, <2>4 DEF HeldInv, HistoryTypes, history
<1>4. CASE SyncHigh
  <2>1. /\ reset = "update" /\ reset' = "flush" /\ Race(LoopAtWork)
        /\ row' = IF candle > read THEN [row EXCEPT !.high = candle] ELSE row
        /\ Histories(best, 0, balance, overlooked)
        /\ UNCHANGED <<up, halted, cache, got, pc, price, pos, read, clockVars>>
    BY <1>4 DEF SyncHigh, loopVars
  <2>2. /\ row' \in HRow /\ row'.status = row.status /\ row'.qty = row.qty
        /\ row'.entry = row.entry /\ row'.stop = row.stop
        /\ row'.tp1 = row.tp1 /\ row'.tp2 = row.tp2 /\ row'.scaled = row.scaled
    <3>1. row \in HRow /\ candle \in Nat
      BY DEF HeldInv, HTypes
    <3>2. row' \in HRow
      BY <2>1, <3>1, Written
    <3> QED
      BY <2>1, <3>1, <3>2 DEF HRow, Rows
  <2>3. HTypes'
    BY <2>1, <2>2 DEF HeldInv, HTypes, clockVars
  <2>4. PlacesFit'
    BY <2>1 DEF HeldInv, PlacesFit, Reading, clockVars
  <2>5. HistoryTypes'
    <3>1. HistoryTypes /\ best \in Nat /\ 0 \in Nat /\ balance \in Int
          /\ overlooked \in BOOLEAN
          /\ LoopAtWork \in BOOLEAN
      BY DEF HeldInv, HistoryTypes, LoopAtWork, Reading
    <3> QED
      BY <2>1, <3>1, HistoryTyped
  <2>6. ASSUME ~raced' PROVE Agrees'
    <3>1. ~raced /\ ~LoopAtWork /\ balance' = balance /\ overlooked' = overlooked
          /\ Agrees
      BY <2>1, <2>6, HistoryFlag DEF Race, Histories, Known, HeldInv
    <3>2. \A w \in {"loop", "report"} : ~Reading(w)'
      BY <2>1, <3>1 DEF LoopAtWork, HeldInv, PlacesFit, Reading
    <3>3. cache' # Unset => CacheAgrees'
      BY <2>1, <2>2, <3>1 DEF Agrees, CacheAgrees, Held
    <3>4. PosAgrees' /\ Shares'
      BY <2>1, <2>2, <3>1 DEF Agrees, PosAgrees, LoopAtWork, Shares, Held
    <3> QED
      BY <3>2, <3>3, <3>4 DEF Agrees
  <2> QED
    BY <2>3, <2>4, <2>5, <2>6 DEF HeldInv
<1>5. CASE FlushCache
  <2>1. /\ reset = "flush" /\ reset' = "idle" /\ read' = 0 /\ cache' = Unset
        /\ UNCHANGED <<up, halted, row, got, pc, price, pos, clockVars, history>>
    BY <1>5 DEF FlushCache, Invalidate, loopVars
  <2>2. HTypes'
    BY <2>1, Blanks DEF HeldInv, HTypes, clockVars
  <2>3. PlacesFit'
    BY <2>1 DEF HeldInv, PlacesFit, Reading, clockVars
  <2>4. ~raced => Agrees'
    BY <2>1 DEF HeldInv, Agrees, PosAgrees, Shares, Reading, Held, history
  <2> QED
    BY <2>1, <2>2, <2>3, <2>4 DEF HeldInv, HistoryTypes, history
<1> QED
  BY <1>1, <1>2, <1>3, <1>4, <1>5 DEF ResetStep

LEMMA Inductive ==
    /\ Init => HeldInv
    /\ HeldInv /\ [Next]_vars => HeldInv'
<1>1. ASSUME Init PROVE HeldInv
  <2>1. \A w \in {"loop", "report"} : got[w] = Unset
    BY <1>1 DEF Init, NoReads
  <2>2. Entry \in Nat /\ Lot \in Nat /\ MaxHold \in Nat
    BY HoldingAssumption
  <2>3. HTypes /\ HistoryTypes
    <3>1. /\ row = New /\ cache = Unset /\ pos = Unset /\ got = NoReads
          /\ up = TRUE /\ halted = FALSE /\ due = FALSE /\ ticked = FALSE
          /\ stopped = FALSE /\ overlooked = FALSE /\ raced = FALSE
          /\ pc = "idle" /\ price = 0 /\ reset = "idle" /\ read = 0 /\ phase = "market"
          /\ age = 0 /\ candle = Entry /\ best = Entry /\ last = 0 /\ balance = Lot
      BY <1>1 DEF Init
    <3>2. 0 \in 0..MaxHold /\ NoReads \in [{"loop", "report"} -> HRow]
      BY <2>2, Blanks DEF NoReads
    <3>3. HistoryTypes
      <4>1. raced \in BOOLEAN /\ overlooked \in BOOLEAN
        BY <1>1 DEF Init
      <4>2. best \in Nat /\ last \in Nat /\ balance \in Int
        BY <1>1, <2>2 DEF Init
      <4> QED
        BY <4>1, <4>2 DEF HistoryTypes
    <3>4. row \in HRow /\ row.status # "unset" /\ cache \in HRow /\ pos \in HRow
          /\ got \in [{"loop", "report"} -> HRow]
      BY <3>1, <3>2, Blanks
    <3> QED
      BY <2>2, <3>1, <3>2, <3>3, <3>4 DEF HTypes, Places
  <2>4. PlacesFit /\ Agrees
    BY <1>1, <2>1, <2>2, Blanks DEF Init, PlacesFit, Agrees, PosAgrees, Shares, Reading, Held
  <2> QED
    BY <2>3, <2>4 DEF HeldInv
<1>2. ASSUME HeldInv, [Next]_vars PROVE HeldInv'
  <2>1. CASE TickArrives
    <3>1. price' # 0 => phase = "market"
      BY <2>1 DEF TickArrives
    <3> QED
      BY <1>2, <2>1, <3>1, Looked DEF TickArrives
  <2>2. CASE StatusLine
    BY <1>2, <2>2, Looked DEF StatusLine
  <2>3. CASE StoreRows
    <3>1. Reading("loop")
      BY <1>2, <2>3 DEF StoreRows, HeldInv, PlacesFit
    <3> QED
      BY <1>2, <2>3, <3>1, Stored DEF StoreRows
  <2>4. CASE ReportStores
    BY <1>2, <2>4, Stored DEF ReportStores
  <2>5. CASE ReportReads
    <3>1. /\ up /\ phase = "night" /\ cache = Unset /\ ~Reading("report")
          /\ got' = [got EXCEPT !["report"] = row]
          /\ UNCHANGED <<up, halted, row, cache, pc, price, pos, resetVars, clockVars,
                         history>>
      BY <2>5 DEF ReportReads, rowVars
    <3>2. HTypes' /\ got'["report"] = row /\ got'["loop"] = got["loop"]
      BY <1>2, <3>1 DEF HeldInv, HTypes, resetVars, clockVars
    <3>3. PlacesFit'
      BY <1>2, <3>1, <3>2 DEF HeldInv, PlacesFit, Reading, resetVars, clockVars
    <3>4. ~raced => Agrees'
      BY <1>2, <3>1, <3>2 DEF HeldInv, Agrees, CacheAgrees, PosAgrees, Shares, Reading,
                              Held, resetVars, history
    <3> QED
      BY <1>2, <3>1, <3>2, <3>3, <3>4 DEF HeldInv, HistoryTypes, history
  <2>6. CASE TickGetsNone \/ StatusShown
    BY <1>2, <2>6, MovesOn
    DEF TickGetsNone, StatusShown, ToIdle, rowVars, clockVars, HeldInv, HTypes
  <2>7. CASE StatusGetsNone \/ Crash
    BY <1>2, <2>7, GoesDown DEF StatusGetsNone, Crash
  <2>8. CASE RaiseStop
    BY <1>2, <2>8, StopRaised
  <2>9. CASE NothingHeld
    BY <1>2, <2>9, MovesOn
    DEF NothingHeld, rowVars, clockVars, HeldInv, HTypes
  <2>10. CASE ScaleIn
    BY <1>2, <2>10, TrancheAdded
  <2>11. CASE NoScaleIn
    <3>1. price # 0
      BY <1>2, <2>11 DEF NoScaleIn, HeldInv, PlacesFit
    <3> QED
      BY <1>2, <2>11, <3>1, MovesOn DEF NoScaleIn, clockVars, HeldInv, HTypes
  <2>12. CASE DecideExit
    BY <1>2, <2>12, ExitDecided
  <2>13. CASE UpdateDailyPnl
    <3>1. halted' \in BOOLEAN
      BY <1>2, <2>13 DEF UpdateDailyPnl, HeldInv, HTypes
    <3> QED
      BY <1>2, <2>13, <3>1, MovesOn DEF UpdateDailyPnl, ToIdle
  <2>14. CASE Buy
    <3>1. /\ phase = "market" /\ pc = "idle" /\ row' = New /\ Invalidate
          /\ age' = 0 /\ candle' = Entry /\ Race(FALSE) /\ Histories(Entry, 0, Lot, FALSE)
          /\ UNCHANGED <<up, halted, got, pc, price, pos, resetVars, phase, due, ticked,
                         stopped>>
      BY <2>14 DEF Buy, Bought, loopVars
    <3>2. Entry \in Nat /\ Lot \in Int /\ 0 \in 0..MaxHold /\ HistoryTypes
          /\ FALSE \in BOOLEAN
      BY <1>2, HoldingAssumption DEF HeldInv
    <3>3. HistoryTypes'
      BY <3>1, <3>2, HistoryTyped
    <3>4. ASSUME ~raced' PROVE ~raced /\ PosAgrees' /\ Shares'
      <4>1. ~raced /\ balance' = Lot /\ ~overlooked' /\ pc' = "idle"
        BY <3>1, <3>4 DEF Race, Histories, Known
      <4>2. Held(row') /\ row'.qty = Lot
        BY <3>1 DEF Held, New
      <4> QED
        BY <3>2, <4>1, <4>2 DEF PosAgrees, Shares
    <3> QED
      BY <1>2, <3>1, <3>2, <3>3, <3>4, Blanks, NobodyReads, Booked
  <2>15. CASE TrendExit
    <3>1. /\ phase = "night" /\ pc = "idle" /\ Held(row) /\ row' = Closed /\ Invalidate
          /\ Race(Reading("report"))
          /\ Histories(best, last, balance - row.qty, overlooked)
          /\ UNCHANGED <<up, halted, got, pc, price, pos, resetVars, clockVars>>
      BY <2>15 DEF TrendExit, loopVars
    <3>2. HTypes /\ HistoryTypes /\ row.qty \in Nat
      BY <1>2, Fields DEF HeldInv, HTypes
    <3>3. HistoryTypes'
      <4>1. best \in Nat /\ last \in Nat /\ balance - row.qty \in Int
            /\ Reading("report") \in BOOLEAN /\ overlooked \in BOOLEAN
        BY <3>2 DEF HistoryTypes, Reading
      <4> QED
        BY <3>1, <3>2, <4>1, HistoryTyped
    <3>4. ASSUME ~raced'
          PROVE  /\ ~raced /\ PosAgrees' /\ Shares'
                 /\ \A w \in {"loop", "report"} : ~Reading(w)
      <4>1. ~raced /\ ~Reading("report") /\ balance' = balance - row.qty
            /\ overlooked' = overlooked
        BY <1>2, <3>1, <3>4, HistoryFlag DEF Race, Histories, Known
      <4>2. ~Reading("loop")
            /\ balance = row.qty + (IF overlooked THEN ScaleQty ELSE 0)
        BY <1>2, <3>1, <4>1 DEF HeldInv, Agrees, Shares, PlacesFit
      <4>3. ~Held(row') /\ pc' = "idle"
        BY <3>1, Blanks DEF Held
      <4>4. balance' = IF overlooked' THEN ScaleQty ELSE 0
        BY <3>2, <4>1, <4>2, HoldingAssumption
      <4>5. Shares'
        BY <4>3, <4>4, HoldingAssumption DEF Shares
      <4> QED
        BY <3>1, <4>1, <4>2, <4>3, <4>5 DEF PosAgrees
    <3>5. age' \in 0..MaxHold /\ candle' \in Nat
      BY <3>1, <3>2 DEF HTypes, clockVars
    <3> QED
      BY <1>2, <3>1, <3>3, <3>4, <3>5, Blanks, Booked DEF clockVars
  <2>16. CASE ResetStep
    BY <1>2, <2>16, ResetPreserves
  <2>17. CASE Halt \/ Resume
    <3>1. UNCHANGED <<up, rowVars, loopVars, resetVars, phase, due, age, ticked, candle,
                      history>>
          /\ halted' \in BOOLEAN /\ stopped' \in BOOLEAN
      BY <1>2, <2>17 DEF Halt, Resume, clockVars, HeldInv, HTypes
    <3>2. HTypes' /\ PlacesFit'
      BY <1>2, <3>1
      DEF HeldInv, HTypes, PlacesFit, Reading, rowVars, loopVars, resetVars
    <3> QED
      BY <1>2, <3>1, <3>2, Untouched DEF agreeVars, rowVars, loopVars, resetVars
  <2>18. CASE Boot
    <3>1. /\ ~up /\ up'
          /\ row' = IF Held(row) THEN [row EXCEPT !.high = MaxOf(@, candle)] ELSE row
          /\ UNCHANGED <<halted, cache, got, pc, price, pos, resetVars, clockVars,
                         history>>
      BY <2>18 DEF Boot, loopVars
    <3>2. row' \in HRow /\ row'.status = row.status /\ row'.qty = row.qty
          /\ row'.scaled = row.scaled
      <4>1. row \in HRow /\ row.high \in Nat /\ candle \in Nat
        BY <1>2, Fields DEF HeldInv, HTypes
      <4>2. MaxOf(row.high, candle) \in Nat
        BY <4>1, MaxTyped
      <4>3. row' \in HRow
        BY <3>1, <4>1, <4>2, Written
      <4> QED
        BY <3>1, <4>1, <4>3 DEF HRow, Rows
    <3>3. HTypes'
      BY <1>2, <2>18, <3>1, <3>2 DEF Boot, HeldInv, HTypes, resetVars, clockVars
    <3>4. PlacesFit'
      BY <1>2, <3>1 DEF HeldInv, PlacesFit, Reading, resetVars, clockVars
    <3>5. /\ cache = Unset /\ pc = "idle"
          /\ \A w \in {"loop", "report"} : ~Reading(w)
      BY <1>2, <3>1, Blanks DEF HeldInv, PlacesFit, Reading, NoReads
    <3>6. ~raced => Agrees'
      BY <1>2, <3>1, <3>2, <3>5
      DEF HeldInv, Agrees, PosAgrees, Shares, Reading, Held, history
    <3> QED
      BY <1>2, <3>1, <3>3, <3>4, <3>6 DEF HeldInv, HistoryTypes, history
  <2>19. CASE CloseMarket
    <3>1. /\ ~due /\ reset = "idle" /\ pc = "idle" /\ phase' = "night"
          /\ candle' \in Nat
          /\ UNCHANGED <<up, halted, rowVars, loopVars, resetVars, due, age, ticked,
                         stopped, history>>
      BY <1>2, <2>19, HoldingAssumption DEF CloseMarket, HeldInv, HTypes
    <3>2. HTypes' /\ PlacesFit'
      BY <1>2, <3>1
      DEF HeldInv, HTypes, PlacesFit, Reading, rowVars, loopVars, resetVars
    <3> QED
      BY <1>2, <3>1, <3>2, Untouched DEF agreeVars, rowVars, loopVars, resetVars
  <2>20. CASE OpenMarket
    <3>1. /\ pc = "idle" /\ reset = "idle" /\ ~Reading("report") /\ phase' = "market"
          /\ due' = up /\ ticked' = FALSE /\ stopped' = FALSE
          /\ age' = IF Held(row) /\ age < MaxHold THEN age + 1 ELSE age
          /\ UNCHANGED <<up, halted, rowVars, loopVars, resetVars, candle, history>>
      BY <2>20 DEF OpenMarket
    <3>2. age' \in 0..MaxHold
      <4>1. age \in 0..MaxHold /\ MaxHold \in Nat
        BY <1>2, HoldingAssumption DEF HeldInv, HTypes
      <4> QED
        BY <3>1, <4>1
    <3>3. HTypes' /\ PlacesFit'
      BY <1>2, <3>1, <3>2
      DEF HeldInv, HTypes, PlacesFit, Reading, rowVars, loopVars, resetVars
    <3> QED
      BY <1>2, <3>1, <3>3, Untouched DEF agreeVars, rowVars, loopVars, resetVars
  <2>21. CASE UNCHANGED vars
    <3>1. HTypes' /\ PlacesFit' /\ UNCHANGED agreeVars
      BY <1>2, <2>21 DEF vars, HeldInv, HTypes, PlacesFit, Reading, rowVars, loopVars,
                         resetVars, clockVars, agreeVars
    <3> QED
      BY <1>2, <3>1, Untouched
  <2> QED
    BY <1>2, <2>1, <2>2, <2>3, <2>4, <2>5, <2>6, <2>7, <2>8, <2>9, <2>10, <2>11, <2>12,
       <2>13, <2>14, <2>15, <2>16, <2>17, <2>18, <2>19, <2>20, <2>21
    DEF Next, FillStep, TickStep
<1> QED
  BY <1>1, <1>2

(***************************************************************************)
(* Types: no quantity, count or price leaves its range, also when threads  *)
(* race.                                                                   *)
(***************************************************************************)
THEOREM HeldTypes == Spec => []TypeOK
<1>1. HeldInv => TypeOK
  BY DEF HeldInv, HTypes, HistoryTypes, TypeOK, HRow
<1> QED
  BY <1>1, Inductive, PTL DEF Spec

(***************************************************************************)
(* Between ticks the memory copy is the table, unless a thread wrote       *)
(* between another's read and its store.                                   *)
(***************************************************************************)
THEOREM MemoryCurrent == Spec => []CacheCurrent
<1>1. HeldInv => CacheCurrent
  BY SameRow DEF HeldInv, HTypes, Agrees, CacheAgrees, CacheCurrent, AtRest
<1> QED
  BY <1>1, Inductive, PTL DEF Spec

(***************************************************************************)
(* The row holds what was bought and not sold, and after a tick that both  *)
(* buys the second tranche and sells it holds exactly one tranche less:    *)
(* for every lot, ratio and target.                                        *)
(***************************************************************************)
THEOREM SharesKept == Spec => []SharesAccounted
<1>1. HeldInv => SharesAccounted
  BY DEF HeldInv, Agrees, Shares, SharesAccounted
<1> QED
  BY <1>1, Inductive, PTL DEF Spec

----------------------------------------------------------------------------
(* Highs and stops, while nothing has raced.                               *)

Top == MaxOf(best, candle)

\* The high lies between what was handled and what the daily bars add; on a
\* trading day with the sync behind it is the highest of both.  The sync
\* writes the bars' high over the one it has read, or leaves the row.
HighFits ==
    /\ Held(row) => Entry <= row.high /\ best <= row.high /\ row.high <= Top
    /\ Held(row) /\ up /\ phase = "market" /\ ~due /\ reset \in {"idle", "flush"}
       => row.high = Top
    /\ reset = "update" => /\ Entry <= read
                           /\ Held(row) => row.high = IF candle > read THEN read ELSE Top

\* The handler's stop and high are the row's; after a second tranche a price
\* above the old stop is above the new one too.
PosFits ==
    /\ pc \in {"raised", "scaled"} => pos.high = row.high
    /\ pc = "raised" => pos.stop = row.stop /\ pos.entry = row.entry
    /\ pc = "scaled" /\ price > pos.stop => price > row.stop

LastAbove ==
    /\ ~up => last = 0
    /\ Held(row) /\ last # 0 /\ pc \notin {"raised", "scaled"}
       => last > row.stop /\ last > row.high - ExitTrail

FirstEntry == Held(row) /\ ~row.scaled => row.entry = Entry

PriceInv == ~raced => HighFits /\ PosFits /\ LastAbove /\ FirstEntry

\* What the arithmetic needs to know of the state.
LEMMA Numbers ==
    ASSUME HeldInv
    PROVE  /\ row \in HRow /\ row.high \in Nat /\ row.stop \in Int /\ row.entry \in Nat
           /\ pos \in HRow /\ pos.high \in Nat /\ pos.stop \in Int
           /\ pos.entry \in Nat /\ pos.qty \in Nat \ {0}
           /\ best \in Nat /\ last \in Nat /\ candle \in Nat /\ read \in Nat
           /\ price \in Nat /\ Entry \in Nat /\ Top \in Nat
BY HoldingAssumption, Fields, MaxTyped DEF HeldInv, HTypes, HistoryTypes, Top

\* A mean of two prices lies between them.
LEMMA Mean ==
    ASSUME NEW a \in Nat, NEW b \in Nat, a <= b, NEW q \in Nat \ {0}, NEW s \in Nat
    PROVE  LET avg == (a * q + b * s) \div (q + s) IN avg \in a..b
<1> DEFINE sum == a * q + b * s
           n == q + s
<1>1. n \in Nat \ {0} /\ sum \in Nat
  OBVIOUS
<1>2. sum = a * n + (b - a) * s /\ b * n = sum + (b - a) * q
  OBVIOUS
<1>3. (b - a) * s \in Nat /\ (b - a) * q \in Nat /\ a * n \in Nat /\ b * n \in Nat
  OBVIOUS
<1>4. a * n <= sum /\ sum <= b * n
  BY <1>1, <1>2, <1>3
<1>5. \A x \in Nat, m \in Nat \ {0}, c, d \in Nat :
          c * m <= x /\ x <= d * m => x \div m \in c..d
  OBVIOUS
<1> HIDE DEF sum, n
<1>6. sum \div n \in a..b
  BY <1>1, <1>4, <1>5
<1> QED
  BY <1>6 DEF sum, n

\* The handler is not between its writes, and stays away from them.
LEMMA PricesUntouched ==
    ASSUME HeldInv, PriceInv, pc \notin {"raised", "scaled"},
           pc' \notin {"raised", "scaled"},
           UNCHANGED <<row, best, last, raced, candle, up, phase, due, reset, read>>
    PROVE  PriceInv'
BY DEF PriceInv, HighFits, PosFits, LastAbove, FirstEntry, Top, Held

NeverFalls ==
    Held(row) /\ Held(row') /\ ~raced' =>
        IF row.scaled = row'.scaled
        THEN row'.stop >= row.stop /\ row'.high >= row.high
        ELSE row'.stop >= Entry - StopDist

LEMMA RaisesKeep ==
    ASSUME HeldInv, PriceInv, RaiseStop
    PROVE  PriceInv' /\ NeverFalls
<1> SUFFICES ASSUME ~raced' PROVE PriceInv' /\ NeverFalls
  BY DEF PriceInv, NeverFalls
<1>1. PICK high \in Nat, stop \in Int :
         /\ high = MaxOf(cache.high, price) /\ stop >= cache.stop
         /\ row'.status = row.status /\ row'.entry = row.entry
         /\ row'.scaled = row.scaled
         /\ row'.high = IF high > cache.high THEN high ELSE row.high
         /\ row'.stop = IF stop # cache.stop THEN stop ELSE row.stop
         /\ cache'.entry = cache.entry /\ cache'.high = high /\ cache'.stop = stop
         /\ pos'.entry = cache'.entry
         /\ pos'.high = cache'.high /\ pos'.stop = cache'.stop
  BY RaiseWrites
<1>2. /\ ~raced /\ reset \notin {"update", "flush"} /\ pc' = "raised"
      /\ best' = MaxOf(best, price) /\ Held(cache) /\ up
      /\ UNCHANGED <<up, price, resetVars, clockVars, last>>
  BY DEF RaiseStop, Race, Histories, Known, HeldInv, PlacesFit
<1>3. /\ Held(row) /\ cache.high = row.high /\ cache.stop = row.stop
      /\ cache.entry = row.entry
  BY <1>2, Blanks DEF HeldInv, Agrees, CacheAgrees, Held
<1>4. row'.high = MaxOf(row.high, price) /\ row'.stop >= row.stop
  BY <1>1, <1>3, Numbers DEF MaxOf
<1>5. HighFits'
  BY <1>1, <1>2, <1>3, <1>4, Numbers
  DEF PriceInv, HighFits, Top, MaxOf, Held, resetVars, clockVars
<1>6. PosFits' /\ LastAbove' /\ FirstEntry'
  BY <1>1, <1>2, <1>3, Numbers
  DEF PriceInv, PosFits, LastAbove, FirstEntry, Held, MaxOf
<1>7. NeverFalls
  BY <1>1, <1>4, Numbers DEF NeverFalls, MaxOf
<1> QED
  BY <1>5, <1>6, <1>7 DEF PriceInv

LEMMA TrancheKeeps ==
    ASSUME HeldInv, PriceInv, ScaleIn
    PROVE  PriceInv' /\ NeverFalls
<1> SUFFICES ASSUME ~raced' PROVE PriceInv' /\ NeverFalls
  BY DEF PriceInv, NeverFalls
<1> DEFINE qty == pos.qty + ScaleQty
           avg == (pos.entry * pos.qty + price * ScaleQty) \div qty
<1>1. /\ pc = "raised" /\ pc' = "scaled" /\ ~pos.scaled /\ price >= ScaleAt
      /\ row' = [row EXCEPT !.qty = qty, !.entry = avg,
                           !.stop = StopAfterScaleIn(avg), !.scaled = TRUE]
      /\ ~raced /\ UNCHANGED <<up, price, pos, resetVars, clockVars, best, last>>
  BY DEF ScaleIn, SecondTranche, Race, Histories, Known
<1>2. Held(row) /\ pos.scaled = row.scaled /\ pos.entry = row.entry /\ pos.high = row.high
  BY <1>1 DEF HeldInv, Agrees, PosAgrees, PriceInv, PosFits
<1>3. pos.entry = Entry /\ Entry <= price
  BY <1>1, <1>2, HoldingAssumption, Numbers DEF PriceInv, FirstEntry
<1>4. avg \in Entry..price
  BY <1>3, HoldingAssumption, Numbers, Mean
<1> HIDE DEF avg, qty
<1>5. /\ row'.stop = avg - StopDist /\ row'.scaled = TRUE /\ row'.high = row.high
      /\ row'.status = row.status
  BY <1>1, Numbers, Zenon DEF HRow, Rows, StopAfterScaleIn
<1>6. Entry - StopDist <= row'.stop /\ row'.stop < price
  BY <1>4, <1>5, HoldingAssumption, Numbers
<1>7. HighFits'
  BY <1>1, <1>5 DEF PriceInv, HighFits, Top, Held, resetVars, clockVars
<1>8. PosFits' /\ LastAbove' /\ FirstEntry'
  BY <1>1, <1>2, <1>5, <1>6, Numbers DEF PriceInv, PosFits, LastAbove, FirstEntry, Held
<1>9. NeverFalls
  BY <1>1, <1>2, <1>5, <1>6 DEF NeverFalls
<1> QED
  BY <1>7, <1>8, <1>9 DEF PriceInv

LEMMA ExitKeeps ==
    ASSUME HeldInv, PriceInv, DecideExit
    PROVE  PriceInv' /\ NeverFalls
<1> SUFFICES ASSUME ~raced' PROVE PriceInv' /\ NeverFalls
  BY DEF PriceInv, NeverFalls
<1>1. /\ pc = "scaled" /\ pc' = "pnl" /\ ~raced /\ best' = best /\ last' = price
      /\ UNCHANGED <<up, price, pos, resetVars, clockVars>>
  BY DEF DecideExit, Race, Sells, Histories, Known
<1>2. Held(row) /\ pos.high = row.high /\ (price > pos.stop => price > row.stop) /\ up
  BY <1>1 DEF HeldInv, Agrees, PosAgrees, PriceInv, PosFits, PlacesFit
<1>3. CASE row' = Closed
  BY <1>1, <1>3, Blanks
  DEF PriceInv, HighFits, PosFits, LastAbove, FirstEntry, NeverFalls, Held, PlacesFit,
      HeldInv, resetVars
<1>4. CASE row' # Closed
  <2>1. /\ ExitReason(pos) \in {"none", "target"}
        /\ row' = row \/ SellPart
    BY <1>4 DEF DecideExit, rowVars, SellOut
  <2>2. price > pos.stop /\ price > pos.high - ExitTrail
    BY <2>1, HoldingAssumption, Numbers DEF ExitReason, BelowStop, MaxOf
  <2>3. /\ row'.status = row.status /\ row'.stop = row.stop /\ row'.high = row.high
        /\ row'.entry = row.entry /\ row'.scaled = row.scaled
    BY <2>1, Numbers, Zenon DEF SellPart, HRow, Rows
  <2>4. HighFits'
    BY <1>1, <2>3 DEF PriceInv, HighFits, Top, Held, resetVars, clockVars
  <2>5. PosFits' /\ LastAbove' /\ FirstEntry'
    BY <1>1, <1>2, <2>2, <2>3, Numbers
    DEF PriceInv, PosFits, LastAbove, FirstEntry, Held
  <2>6. NeverFalls
    BY <2>3, Numbers DEF NeverFalls
  <2> QED
    BY <2>4, <2>5, <2>6 DEF PriceInv
<1> QED
  BY <1>3, <1>4

LEMMA ResetKeeps ==
    ASSUME HeldInv, PriceInv, ResetStep
    PROVE  PriceInv' /\ NeverFalls
<1> SUFFICES ASSUME ~raced' PROVE PriceInv' /\ NeverFalls
  BY DEF PriceInv, NeverFalls
<1>1. CASE ResetBegins
  <2>1. /\ reset' = "days" /\ ~raced
        /\ UNCHANGED <<up, row, pc, price, pos, best, last, candle>>
    BY <1>1 DEF ResetBegins, loopVars, history
  <2> QED
    BY <2>1, Numbers
    DEF PriceInv, HighFits, PosFits, LastAbove, FirstEntry, NeverFalls, Top, Held
<1>2. CASE CountDays
  <2>1. /\ reset' = "high" /\ ~raced
        /\ row' = IF Held(row) THEN [row EXCEPT !.days = age] ELSE row
        /\ UNCHANGED <<up, pc, price, pos, best, last, candle>>
    BY <1>2 DEF CountDays, Race, Histories, Known, loopVars, clockVars
  <2>2. /\ row'.status = row.status /\ row'.stop = row.stop /\ row'.high = row.high
        /\ row'.entry = row.entry /\ row'.scaled = row.scaled
    BY <2>1, Numbers, Zenon DEF HRow, Rows
  <2> QED
    BY <2>1, <2>2, Numbers
    DEF PriceInv, HighFits, PosFits, LastAbove, FirstEntry, NeverFalls, Top, Held
<1>3. CASE ReadHigh
  <2>1. /\ reset' \in {"update", "idle"} /\ ~raced
        /\ reset' = "update" => Held(row) /\ read' = row.high
        /\ reset' = "idle" => ~Held(row)
        /\ UNCHANGED <<up, row, pc, price, pos, best, last, candle>>
    BY <1>3 DEF ReadHigh, rowVars, loopVars, clockVars, history
  <2>2. HighFits'
    BY <2>1, Numbers DEF PriceInv, HighFits, Top, Held, MaxOf
  <2> QED
    BY <2>1, <2>2, Numbers DEF PriceInv, PosFits, LastAbove, FirstEntry, NeverFalls, Held
<1>4. CASE SyncHigh
  <2>1. /\ reset = "update" /\ reset' = "flush" /\ ~raced /\ ~LoopAtWork
        /\ row' = IF candle > read THEN [row EXCEPT !.high = candle] ELSE row
        /\ best' = best /\ last' = 0 /\ pc' = pc /\ candle' = candle
    BY <1>4 DEF SyncHigh, Race, Histories, Known, loopVars, clockVars
  <2>2. /\ row'.status = row.status /\ row'.stop = row.stop
        /\ row'.high = IF candle > read THEN candle ELSE row.high
        /\ row'.entry = row.entry /\ row'.scaled = row.scaled
    BY <2>1, Numbers, Zenon DEF HRow, Rows
  <2>3. pc \notin {"raised", "scaled"}
    BY <2>1 DEF LoopAtWork
  <2>4. HighFits' /\ (Held(row) => row'.high >= row.high)
    BY <2>1, <2>2, Numbers DEF PriceInv, HighFits, Top, Held, MaxOf
  <2> QED
    BY <2>1, <2>2, <2>3, <2>4, Numbers
    DEF PriceInv, PosFits, LastAbove, FirstEntry, NeverFalls, Held
<1>5. CASE FlushCache
  <2>1. /\ reset = "flush" /\ reset' = "idle" /\ ~raced
        /\ UNCHANGED <<up, row, pc, price, pos, best, last, clockVars>>
    BY <1>5 DEF FlushCache, loopVars, history
  <2> QED
    BY <2>1, Numbers
    DEF PriceInv, HighFits, PosFits, LastAbove, FirstEntry, NeverFalls, Top, Held,
        clockVars
<1> QED
  BY <1>1, <1>2, <1>3, <1>4, <1>5 DEF ResetStep

LEMMA PricesKept ==
    /\ Init => PriceInv
    /\ HeldInv /\ PriceInv /\ [Next]_vars => PriceInv' /\ NeverFalls
<1>1. ASSUME Init PROVE PriceInv
  <2>1. New.high = Entry /\ New.entry = Entry /\ Entry \in Nat
    BY HoldingAssumption DEF New
  <2> QED
    BY <1>1, <2>1
    DEF Init, PriceInv, HighFits, PosFits, LastAbove, FirstEntry, Top, MaxOf
<1>2. ASSUME HeldInv, PriceInv, [Next]_vars PROVE PriceInv' /\ NeverFalls
  <2>1. UNCHANGED row => NeverFalls
    BY <1>2, Numbers DEF NeverFalls
  <2>2. CASE \/ TickArrives \/ StatusLine \/ StoreRows \/ TickGetsNone \/ StatusShown
             \/ NothingHeld \/ UpdateDailyPnl \/ ReportReads \/ ReportStores
             \/ Halt \/ Resume
    <3>1. /\ pc \notin {"raised", "scaled"} /\ pc' \notin {"raised", "scaled"}
          /\ UNCHANGED <<row, best, last, raced, candle, up, phase, due, reset, read>>
      <4>1. CASE TickArrives \/ StatusLine
        BY <4>1 DEF TickArrives, StatusLine, Look, rowVars, resetVars, clockVars, history
      <4>2. CASE StoreRows \/ TickGetsNone \/ StatusShown \/ NothingHeld \/ UpdateDailyPnl
        BY <4>2 DEF StoreRows, TickGetsNone, StatusShown, NothingHeld, UpdateDailyPnl,
                    ToIdle, rowVars, resetVars, clockVars, history
      <4>3. CASE ReportReads \/ ReportStores
        BY <1>2, <4>3
        DEF ReportReads, ReportStores, HeldInv, PlacesFit, rowVars, resetVars, clockVars,
            history
      <4>4. CASE Halt \/ Resume
        BY <4>4
        DEF Halt, Resume, Quiet, rowVars, loopVars, resetVars, clockVars, history
      <4> QED
        BY <2>2, <4>1, <4>2, <4>3, <4>4
    <3> QED
      BY <1>2, <2>1, <3>1, PricesUntouched
  <2>3. CASE StatusGetsNone \/ Crash
    <3>1. /\ up' = FALSE /\ pc' = "idle" /\ reset' = "idle" /\ last' = 0
          /\ UNCHANGED <<row, best, raced, candle>>
      BY <2>3 DEF StatusGetsNone, Crash, Down, ToIdle
    <3> QED
      BY <1>2, <2>1, <3>1
      DEF PriceInv, HighFits, PosFits, LastAbove, FirstEntry, Top, Held
  <2>4. CASE RaiseStop
    BY <1>2, <2>4, RaisesKeep
  <2>5. CASE ScaleIn
    BY <1>2, <2>5, TrancheKeeps
  <2>6. CASE NoScaleIn
    <3>1. /\ pc = "raised" /\ pc' = "scaled"
          /\ UNCHANGED <<up, row, price, pos, resetVars, clockVars, history>>
      BY <2>6 DEF NoScaleIn
    <3> QED
      BY <1>2, <2>1, <3>1
      DEF PriceInv, HighFits, PosFits, LastAbove, FirstEntry, Top, Held, resetVars,
          clockVars, history
  <2>7. CASE DecideExit
    BY <1>2, <2>7, ExitKeeps
  <2>8. CASE Buy
    <3>1. /\ pc = "idle" /\ pc' = "idle" /\ ~Held(row) /\ row' = New /\ candle' = Entry
          /\ reset' = reset /\ read' = read /\ up /\ up' = up /\ Race(FALSE)
          /\ Histories(Entry, 0, Lot, FALSE)
      BY <2>8 DEF Buy, Bought, loopVars, resetVars
    <3>2. New.high = Entry /\ New.entry = Entry /\ Entry \in Nat
      BY HoldingAssumption DEF New
    <3>3. ASSUME ~raced' PROVE ~raced /\ best' = Entry /\ last' = 0
      BY <3>1, <3>3 DEF Race, Histories, Known
    <3>4. PriceInv'
      BY <1>2, <3>1, <3>2, <3>3, Numbers
      DEF PriceInv, HighFits, PosFits, LastAbove, FirstEntry, Top, MaxOf
    <3> QED
      BY <3>1, <3>4 DEF NeverFalls
  <2>9. CASE TrendExit
    <3>1. /\ pc = "idle" /\ pc' = "idle" /\ row' = Closed /\ up /\ up' = up
          /\ phase = "night" /\ reset' = reset /\ Race(Reading("report"))
      BY <2>9 DEF TrendExit, loopVars, resetVars
    <3>2. reset = "idle" /\ ~Held(row')
      BY <1>2, <3>1, Blanks DEF HeldInv, PlacesFit, Held
    <3> QED
      BY <3>1, <3>2
      DEF PriceInv, HighFits, PosFits, LastAbove, FirstEntry, NeverFalls
  <2>10. CASE ResetStep
    BY <1>2, <2>10, ResetKeeps
  <2>11. CASE Boot
    <3>1. /\ ~up /\ pc = "idle" /\ pc' = "idle" /\ reset = "idle" /\ reset' = "idle"
          /\ row' = IF Held(row) THEN [row EXCEPT !.high = MaxOf(@, candle)] ELSE row
          /\ UNCHANGED <<best, last, raced, candle>>
      BY <1>2, <2>11
      DEF Boot, HeldInv, PlacesFit, loopVars, resetVars, clockVars, history
    <3>2. /\ row'.status = row.status /\ row'.stop = row.stop
          /\ row'.high = IF Held(row) THEN MaxOf(row.high, candle) ELSE row.high
          /\ row'.entry = row.entry /\ row'.scaled = row.scaled
      BY <1>2, <3>1, Numbers, Zenon DEF HRow, Rows
    <3>3. ASSUME ~raced PROVE HighFits'
      BY <1>2, <3>1, <3>2, <3>3, Numbers DEF PriceInv, HighFits, Top, Held, MaxOf
    <3>4. PriceInv'
      BY <1>2, <3>1, <3>2, <3>3 DEF PriceInv, PosFits, LastAbove, FirstEntry, Held
    <3> QED
      BY <1>2, <3>2, <3>4, Numbers DEF NeverFalls, MaxOf
  <2>12. CASE CloseMarket
    <3>1. /\ pc = "idle" /\ pc' = "idle" /\ reset' = "idle" /\ phase' = "night"
          /\ UNCHANGED <<up, row, best, last, raced>>
      BY <2>12 DEF CloseMarket, rowVars, loopVars, resetVars, history
    <3>2. candle' \in Nat /\ candle' >= candle
      <4>1. candle' = candle \/ (candle' \in Prices /\ candle' >= MaxOf(row.high, candle))
        BY <2>12 DEF CloseMarket
      <4>2. candle \in Nat /\ row.high \in Nat /\ Prices \subseteq Nat
        BY <1>2, HoldingAssumption, Numbers
      <4>3. MaxOf(row.high, candle) >= candle /\ MaxOf(row.high, candle) \in Nat
        BY <4>2 DEF MaxOf
      <4>4. candle' \in Nat
        BY <4>1, <4>2
      <4> QED
        BY <4>1, <4>2, <4>3, <4>4
    <3> QED
      BY <1>2, <2>1, <3>1, <3>2, Numbers
      DEF PriceInv, HighFits, PosFits, LastAbove, FirstEntry, Top, Held, MaxOf
  <2>13. CASE OpenMarket
    <3>1. /\ pc = "idle" /\ pc' = "idle" /\ reset' = "idle" /\ due' = up
          /\ UNCHANGED <<up, row, best, last, raced, candle>>
      BY <1>2, <2>13 DEF OpenMarket, rowVars, loopVars, resetVars, history
    <3> QED
      BY <1>2, <2>1, <3>1
      DEF PriceInv, HighFits, PosFits, LastAbove, FirstEntry, Top, Held
  <2>14. CASE UNCHANGED vars
    BY <1>2, <2>1, <2>14
    DEF vars, rowVars, loopVars, resetVars, clockVars, history, PriceInv, HighFits,
        PosFits, LastAbove, FirstEntry, Top, Held
  <2> QED
    BY <1>2, <2>2, <2>3, <2>4, <2>5, <2>6, <2>7, <2>8, <2>9, <2>10, <2>11, <2>12, <2>13,
       <2>14
    DEF Next, FillStep, TickStep
<1> QED
  BY <1>1, <1>2

LEMMA PricesAlways == Spec => [](HeldInv /\ PriceInv)
BY Inductive, PricesKept, PTL DEF Spec

(***************************************************************************)
(* On a trading day the table has the highest price handled or found in    *)
(* the daily bars, whatever crashed, was sold or synced in between: for    *)
(* every price, not only those of the run.                                 *)
(***************************************************************************)
THEOREM HighOfTable == Spec => []HighKept
<1>1. HeldInv /\ PriceInv => HighKept
  BY DEF HighKept, AtRest, PriceInv, HighFits, Top
<1> QED
  BY <1>1, PricesAlways, PTL

(***************************************************************************)
(* No handled price leaves a holding open that stands at or below its stop *)
(* or its trailing stop; after a second tranche because the mean of the    *)
(* two prices is not above the last.                                       *)
(***************************************************************************)
THEOREM StopsHold == Spec => []StopHolds
<1>1. HeldInv /\ PriceInv => StopHolds
  BY DEF StopHolds, AtRest, PriceInv, LastAbove
<1> QED
  BY <1>1, PricesAlways, PTL

(***************************************************************************)
(* No step lowers a holding's stop or its high, but the second tranche,    *)
(* and that one not below the first stop of the purchase.                  *)
(***************************************************************************)
THEOREM StopsNeverFall == Spec => StopNeverFalls
<1>1. HeldInv /\ PriceInv /\ [Next]_vars =>
          [Held(row) /\ Held(row') /\ ~raced' =>
              IF row.scaled = row'.scaled
              THEN row'.stop >= row.stop /\ row'.high >= row.high
              ELSE row'.stop >= Entry - StopDist]_vars
  BY PricesKept DEF NeverFalls
<1> QED
  BY <1>1, PricesAlways, PTL DEF Spec, StopNeverFalls
=============================================================================
