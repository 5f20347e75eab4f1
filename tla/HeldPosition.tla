---------------------------- MODULE HeldPosition ----------------------------
(***************************************************************************)
(* One holding through its life in paper mode: its row in the positions    *)
(* table, the engine's memory copy of the table (portfolio.py), the price  *)
(* handler that raises the stop, adds a second tranche and decides exits   *)
(* (exit_handler.py, stop_manager.py, scaling.py, exit_evaluator.py), and  *)
(* what runs in other threads meanwhile: the 09:00 reset, the 16:00 report. *)
(*                                                                         *)
(* Prices are a few whole numbers in one tick-size band.  The paper        *)
(* handler never waits, so a step of it is what lies between two accesses  *)
(* of the state that the threads share.                                    *)
(***************************************************************************)
EXTENDS Integers

CONSTANTS
    Prices,      \* prices a tick or a daily bar can bring
    Entry, Lot,  \* a purchase
    StopDist,    \* ATR at entry times stop_loss_atr
    ExitTrail,   \* ATR at entry times trailing_atr
    TrailDists,  \* trailing_atr times the ATR of the day
    ActivatePct, \* trailing_activate_pct
    Tp1, Tp2, TpPct,      \* targets; sell ratio in percent
    ScaleAt, ScaleQty,    \* scale_in_price; the second tranche
    MaxHold      \* max_hold_days

ASSUME HoldingAssumption ==
    /\ Prices \subseteq Nat \ {0} /\ Entry \in Nat
    /\ Lot \in Nat \ {0} /\ ScaleQty \in Nat
    /\ StopDist \in Nat \ {0} /\ ExitTrail \in Nat \ {0}
    /\ TrailDists \subseteq Nat \ {0}
    /\ {ActivatePct, Tp1, Tp2, TpPct, ScaleAt} \subseteq Nat
    /\ ScaleAt >= Entry  \* the entry price and a multiple of the ATR
    /\ MaxHold \in Nat \ {0}

VARIABLES
    up, halted,   \* the engine runs; RiskManager._halted
    row,          \* the row of the positions table
    cache,        \* _positions_cache: Unset, or the row as it was read
    got,          \* rows the loop and the report have read for the cache
    pc, price,    \* where the event loop stands in a tick; the price
    pos,          \* the handler's Position object
    reset, read,  \* where _daily_reset stands; the high it has read
    phase, due,   \* night, market; the reset is due
    age, ticked, stopped, \* trading days since entry; a tick was handled today;
                  \* the operator has halted today
    candle,       \* highest daily bar since entry
    best, last,   \* history: highest price the engine knows; last tick
    balance,      \* history: shares of the holding bought, less those sold
    overlooked,   \* history: one of its ticks bought a second tranche and sold
    raced         \* history: a fill or a tick met another thread's update

rowVars == <<row, cache>>
loopVars == <<got, pc, price, pos>>
resetVars == <<reset, read>>
clockVars == <<phase, due, age, ticked, stopped, candle>>
history == <<best, last, balance, overlooked, raced>>
vars == <<up, halted, rowVars, loopVars, resetVars, clockVars, history>>

New == [status |-> "open", qty |-> Lot, entry |-> Entry,
        stop |-> Entry - StopDist, high |-> Entry, days |-> 0,
        tp1 |-> FALSE, tp2 |-> FALSE, scaled |-> FALSE]
Unset == [New EXCEPT !.status = "unset"]
\* What else the row of a closed position holds is read no more.
Closed == [New EXCEPT !.status = "closed"]

Rows == [status : {"unset", "open", "closed"}, qty : Nat, entry : Nat,
         stop : Int, high : Nat, days : 0..MaxHold,
         tp1 : BOOLEAN, tp2 : BOOLEAN, scaled : BOOLEAN]
Places == {"idle", "store", "return", "raised", "scaled", "pnl"}

TypeOK ==
    /\ up \in BOOLEAN /\ halted \in BOOLEAN
    /\ row \in Rows /\ row.status # "unset"
    /\ cache \in Rows /\ pos \in Rows
    /\ got \in [{"loop", "report"} -> Rows]
    /\ pc \in Places /\ price \in Prices \cup {0}
    /\ reset \in {"idle", "days", "high", "update", "flush"} /\ read \in Nat
    /\ phase \in {"night", "market"} /\ due \in BOOLEAN
    /\ age \in 0..MaxHold /\ ticked \in BOOLEAN /\ stopped \in BOOLEAN
    /\ candle \in Nat /\ best \in Nat /\ last \in Nat
    /\ balance \in Int /\ overlooked \in BOOLEAN /\ raced \in BOOLEAN

NoReads == [w \in {"loop", "report"} |-> Unset]

Init ==
    /\ up = TRUE /\ halted = FALSE
    /\ row = New /\ cache = Unset /\ got = NoReads
    /\ pc = "idle" /\ price = 0 /\ pos = Unset
    /\ reset = "idle" /\ read = 0
    /\ phase = "market" /\ due = FALSE /\ age = 0
    /\ ticked = FALSE /\ stopped = FALSE /\ candle = Entry
    /\ best = Entry /\ last = 0 /\ balance = Lot
    /\ overlooked = FALSE /\ raced = FALSE

Held(r) == r.status = "open"

\* Rows some thread has read and not yet stored.
Reading(w) == got[w].status # "unset"

\* The histories end with the first race.
Known(value) == IF raced' THEN 0 ELSE value
Histories(b, l, n, o) ==
    /\ best' = Known(b) /\ last' = Known(l) /\ balance' = Known(n)
    /\ overlooked' = (o /\ ~raced')

Race(met) == raced' = (raced \/ met)

\* Another thread writes the row while the loop is working on it.
LoopAtWork == Reading("loop") \/ pc \in {"raised", "scaled"}

Invalidate == cache' = Unset

----------------------------------------------------------------------------
(* The memory copy.                                                        *)

\* _get_cached_positions: what is there is returned, or the rows are read.
Look == IF cache = Unset
        THEN pc' = "store" /\ got' = [got EXCEPT !["loop"] = row]
        ELSE pc' = "return" /\ UNCHANGED got

\* A price of the held code; on_price_update returns at once when halted.
TickArrives ==
    /\ up /\ ~halted /\ phase = "market" /\ pc = "idle"
    /\ price' \in Prices
    /\ Look
    /\ UNCHANGED <<up, halted, rowVars, pos, resetVars, clockVars, history>>

\* The status line of the GUI, every two seconds, in the loop.
StatusLine ==
    /\ up /\ pc = "idle" /\ cache = Unset
    /\ price' = 0 /\ Look
    /\ UNCHANGED <<up, halted, rowVars, pos, resetVars, clockVars, history>>

StoreRows ==
    /\ pc = "store"
    /\ cache' = got["loop"] /\ got' = [got EXCEPT !["loop"] = Unset]
    /\ pc' = "return"
    /\ UNCHANGED <<up, halted, row, price, pos, resetVars, clockVars, history>>

\* _daily_report reads the free cash through the same memory copy.
ReportReads ==
    /\ up /\ phase = "night" /\ cache = Unset /\ ~Reading("report")
    /\ got' = [got EXCEPT !["report"] = row]
    /\ UNCHANGED <<up, halted, rowVars, pc, price, pos, resetVars, clockVars,
                   history>>

ReportStores ==
    /\ Reading("report")
    /\ cache' = got["report"] /\ got' = [got EXCEPT !["report"] = Unset]
    /\ UNCHANGED <<up, halted, row, pc, price, pos, resetVars, clockVars, history>>

ToIdle == pc' = "idle" /\ price' = 0 /\ pos' = Unset

\* The process ends, or its event loop does.
Down ==
    /\ up' = FALSE /\ halted' = FALSE
    /\ cache' = Unset /\ got' = NoReads /\ ToIdle
    /\ reset' = "idle" /\ read' = 0 /\ due' = FALSE
    /\ last' = 0
    /\ UNCHANGED <<row, phase, age, ticked, stopped, candle, best, balance,
                   overlooked, raced>>

\* Invalidated between the store and the return: the polling loop counts a
\* failed request, the status line sums over None and ends the engine.
TickGetsNone ==
    /\ pc = "return" /\ cache = Unset /\ price # 0
    /\ ToIdle
    /\ UNCHANGED <<up, halted, rowVars, got, resetVars, clockVars, history>>

StatusGetsNone == pc = "return" /\ cache = Unset /\ price = 0 /\ Down

StatusShown ==
    /\ pc = "return" /\ cache # Unset /\ price = 0
    /\ ToIdle
    /\ UNCHANGED <<up, halted, rowVars, got, resetVars, clockVars, history>>

----------------------------------------------------------------------------
(* The tick: _check_exit_conditions and _update_daily_pnl.                 *)

MaxOf(a, b) == IF a >= b THEN a ELSE b

Active(r) == (price - r.entry) * 100 >= ActivatePct * r.entry

\* update_trailing_stop, the high already raised.
TrailingStop(r, dist) ==
    IF Active(r) THEN MaxOf(r.stop, r.high - dist) ELSE r.stop

\* Mutant: only the dict in memory hears of the new high.
HighOnlyInMemory(r, high) == r

\* Mutant: the price is written as the high.
PricePersisted(r, high) == [r EXCEPT !.high = price]

HighPersisted(r, high) == IF high > cache.high THEN [r EXCEPT !.high = high] ELSE r

\* _dict_to_position: days that were never written are counted anew.
ToPosition(r) == [r EXCEPT !.days = IF @ = 0 THEN age ELSE @]

\* The Position comes from memory; its high and stop go to the row and to the
\* dict it came from.
RaiseStop ==
    /\ pc = "return" /\ price # 0 /\ Held(cache)
    /\ \E dist \in TrailDists :
          LET high == MaxOf(cache.high, price)
              stop == TrailingStop([cache EXCEPT !.high = high], dist)
          IN  /\ row' = [HighPersisted(row, high) EXCEPT
                            !.stop = IF stop # cache.stop THEN stop ELSE @]
              /\ cache' = [cache EXCEPT !.high = high, !.stop = stop]
              /\ pos' = ToPosition(cache')
    /\ Race(reset \in {"update", "flush"})
    /\ Histories(MaxOf(best, price), last, balance, overlooked)
    /\ pc' = "raised"
    /\ UNCHANGED <<up, halted, got, price, resetVars, clockVars>>

NothingHeld ==
    /\ pc = "return" /\ price # 0 /\ cache.status = "closed"
    /\ pc' = "pnl"
    /\ UNCHANGED <<up, halted, rowVars, got, price, pos, resetVars, clockVars,
                   history>>

\* The fills of the later steps of a tick are part of them.
Filled == IF cache = Unset THEN row ELSE cache

StopAfterScaleIn(avg) == avg - StopDist

SecondTranche == ~pos.scaled /\ ScaleQty > 0 /\ price >= ScaleAt

ScaleIn ==
    /\ pc = "raised" /\ SecondTranche
    /\ LET qty == pos.qty + ScaleQty
           avg == (pos.entry * pos.qty + price * ScaleQty) \div qty
       IN  row' = [row EXCEPT !.qty = qty, !.entry = avg,
                              !.stop = StopAfterScaleIn(avg), !.scaled = TRUE]
    /\ Invalidate
    /\ Race(FALSE) /\ Histories(best, last, balance + ScaleQty, overlooked)
    /\ pc' = "scaled"
    /\ UNCHANGED <<up, halted, got, price, pos, resetVars, clockVars>>

\* Not the price for it, or not the money.
NoScaleIn ==
    /\ pc = "raised"
    /\ cache' = IF SecondTranche THEN Filled ELSE cache
    /\ pc' = "scaled"
    /\ UNCHANGED <<up, halted, row, got, price, pos, resetVars, clockVars, history>>

TargetReached(r) ==
    \/ ~r.tp1 /\ price >= Tp1
    \/ r.tp1 /\ ~r.tp2 /\ price >= Tp2

BelowStop(r) == price <= MaxOf(r.stop, r.high - ExitTrail)

\* Mutant: the targets are looked at first.
TargetsFirst(r) ==
    IF TargetReached(r) THEN "target"
    ELSE IF BelowStop(r) \/ r.days >= MaxHold THEN "out" ELSE "none"

\* evaluate_exit; trend exits are decided after the close.
ExitReason(r) ==
    IF BelowStop(r) THEN "out"
    ELSE IF TargetReached(r) THEN "target"
    ELSE IF r.days >= MaxHold THEN "out" ELSE "none"

PartQty(r) == MaxOf(1, ((IF r.tp1 THEN Lot ELSE r.qty) * TpPct) \div 100)

\* Mutant: a partial sale stays partial when it asks for all there is.
StaysPartial(r) == TRUE

IsPartial(r) == PartQty(r) < r.qty

\* Mutant: the table keeps the shares of a partial sale.
PartNotSubtracted(r) == r.qty

Remaining(r) == r.qty - PartQty(r)

\* The quantity comes from the Position, which has not heard of a second
\* tranche of the same tick.
SellPart ==
    row' = [row EXCEPT !.qty = Remaining(pos), !.tp1 = TRUE, !.tp2 = pos.tp1]

SellOut == row' = Closed

Sells(qty) ==
    Histories(best, price, balance - qty, overlooked \/ (row.scaled /\ ~pos.scaled))

\* Mutant: a sale leaves the old rows in memory.
SoldRowsKept == UNCHANGED cache

AfterSale == Invalidate

DecideExit ==
    /\ pc = "scaled"
    /\ Race(FALSE)
    /\ \/ /\ ExitReason(pos) = "none"
          /\ Histories(best, price, balance, overlooked)
          /\ UNCHANGED rowVars
       \/ /\ ExitReason(pos) # "none" /\ AfterSale
          /\ IF ExitReason(pos) = "target" /\ IsPartial(pos)
             THEN SellPart /\ Sells(PartQty(pos))
             ELSE SellOut /\ Sells(pos.qty)
    /\ pc' = "pnl"
    /\ UNCHANGED <<up, halted, got, price, pos, resetVars, clockVars>>

UpdateDailyPnl ==
    /\ pc = "pnl"
    /\ cache' = Filled
    /\ halted' \in (IF Held(Filled) THEN {halted, TRUE} ELSE {halted})
    /\ ticked' = TRUE
    /\ ToIdle
    /\ UNCHANGED <<up, row, got, resetVars, phase, due, age, stopped, candle,
                   history>>

Bought ==
    /\ row' = New /\ Invalidate
    /\ age' = 0 /\ candle' = Entry
    /\ Race(FALSE) /\ Histories(Entry, 0, Lot, FALSE)

\* The tick of a candidate: bought when memory does not hold it.
Buy ==
    /\ up /\ ~halted /\ phase = "market" /\ pc = "idle"
    /\ ~Held(row) /\ ~Held(Filled)
    /\ Bought
    /\ UNCHANGED <<up, halted, loopVars, resetVars, phase, due, ticked, stopped>>

\* _v23_check_trend_exit, after 15:35, from the table.
TrendExit ==
    /\ up /\ phase = "night" /\ pc = "idle" /\ Held(row)
    /\ row' = Closed
    /\ Invalidate
    /\ Race(Reading("report"))
    /\ Histories(best, last, balance - row.qty, overlooked)
    /\ UNCHANGED <<up, halted, loopVars, resetVars, clockVars>>

----------------------------------------------------------------------------
(* The reset of 09:00, in a thread of its own.                             *)

\* Mutant: reset_daily leaves the halt.
HaltStays == UNCHANGED halted

HaltCleared == halted' = FALSE

ResetBegins ==
    /\ up /\ due /\ reset = "idle"
    /\ due' = FALSE /\ reset' = "days"
    /\ HaltCleared /\ Invalidate
    /\ UNCHANGED <<up, row, loopVars, read, phase, age, ticked, stopped, candle,
                   history>>

CountDays ==
    /\ reset = "days"
    /\ row' = IF Held(row) THEN [row EXCEPT !.days = age] ELSE row
    /\ reset' = "high"
    /\ Race(LoopAtWork) /\ Histories(best, last, balance, overlooked)
    /\ UNCHANGED <<up, halted, cache, loopVars, read, clockVars>>

\* _sync_high_since_entry
ReadHigh ==
    /\ reset = "high"
    /\ IF Held(row) THEN reset' = "update" /\ read' = row.high
                    ELSE reset' = "idle" /\ UNCHANGED read
    /\ UNCHANGED <<up, halted, rowVars, loopVars, clockVars, history>>

SyncHigh ==
    /\ reset = "update"
    /\ row' = IF candle > read THEN [row EXCEPT !.high = candle] ELSE row
    /\ reset' = "flush"
    /\ Race(LoopAtWork) /\ Histories(best, 0, balance, overlooked)
    /\ UNCHANGED <<up, halted, cache, loopVars, read, clockVars>>

FlushCache ==
    /\ reset = "flush"
    /\ Invalidate
    /\ reset' = "idle" /\ read' = 0
    /\ UNCHANGED <<up, halted, row, loopVars, clockVars, history>>

----------------------------------------------------------------------------
(* The operator, the process and the day.                                  *)

Quiet == phase = "market" /\ pc = "idle" /\ reset = "idle"

\* The GUI's halt and resume; only the beginning of a tick looks at the halt.
Halt ==
    /\ up /\ Quiet /\ halted' = TRUE /\ stopped' = TRUE
    /\ UNCHANGED <<up, rowVars, loopVars, resetVars, phase, due, age, ticked,
                   candle, history>>

Resume ==
    /\ up /\ Quiet /\ halted /\ halted' = FALSE
    /\ UNCHANGED <<up, rowVars, loopVars, resetVars, clockVars, history>>

Crash == up /\ Down

\* start() syncs the high, but leaves the days to the next 09:00.
Boot ==
    /\ ~up /\ up' = TRUE
    /\ row' = IF Held(row) THEN [row EXCEPT !.high = MaxOf(@, candle)] ELSE row
    /\ UNCHANGED <<halted, cache, loopVars, resetVars, clockVars, history>>

\* A trading day has a price of every polled code; after the close its bar is
\* collected, unless the collection fails.
CloseMarket ==
    /\ phase = "market" /\ ~due /\ reset = "idle" /\ pc = "idle"
    /\ ticked \/ halted \/ ~up
    /\ phase' = "night"
    /\ candle' \in {candle} \cup {c \in Prices : Held(row) /\ c >= MaxOf(row.high, candle)}
    /\ UNCHANGED <<up, halted, rowVars, loopVars, resetVars, due, age, ticked,
                   stopped, history>>

OpenMarket ==
    /\ phase = "night" /\ pc = "idle" /\ reset = "idle" /\ ~Reading("report")
    /\ phase' = "market" /\ due' = up
    /\ age' = IF Held(row) /\ age < MaxHold THEN age + 1 ELSE age
    /\ ticked' = FALSE /\ stopped' = FALSE
    /\ UNCHANGED <<up, halted, rowVars, loopVars, resetVars, candle, history>>

----------------------------------------------------------------------------
FillStep == StoreRows \/ TickGetsNone \/ StatusGetsNone \/ StatusShown
TickStep == \/ RaiseStop \/ NothingHeld \/ ScaleIn \/ NoScaleIn
            \/ DecideExit \/ UpdateDailyPnl
ResetStep == ResetBegins \/ CountDays \/ ReadHigh \/ SyncHigh \/ FlushCache

Next ==
    \/ TickArrives \/ StatusLine \/ FillStep \/ TickStep \/ Buy \/ TrendExit
    \/ ReportReads \/ ReportStores
    \/ ResetStep
    \/ Halt \/ Resume \/ Crash \/ Boot \/ CloseMarket \/ OpenMarket

\* The loop and the reset go on, prices are polled, days pass.
Fairness ==
    /\ WF_vars(FillStep \/ TickStep) /\ WF_vars(ResetStep) /\ WF_vars(ReportStores)
    /\ WF_vars(TickArrives) /\ SF_vars(CloseMarket) /\ SF_vars(OpenMarket)

Spec == Init /\ [][Next]_vars /\ Fairness

----------------------------------------------------------------------------
\* Handler and reset are done, and no thread has raced another.
AtRest == up /\ pc = "idle" /\ reset = "idle" /\ ~raced

(***************************************************************************)
(* Between ticks the memory copy, when there is one, is the table, though  *)
(* loop, report and reset all fill or drop it; unless one of them wrote    *)
(* between another's read and its store (portfolio.py:183-191).            *)
(***************************************************************************)
CacheCurrent == AtRest /\ cache # Unset => cache = row

(***************************************************************************)
(* On a trading day, once the sync has run, high_since_entry in the table  *)
(* is the highest price the engine has handled or finds in the daily bars, *)
(* through restarts and sales: trailing stops hang from it.                *)
(***************************************************************************)
HighKept == AtRest /\ Held(row) /\ phase = "market" /\ ~due
            => row.high = MaxOf(best, candle)

(***************************************************************************)
(* No handled price leaves a position open that stands at or below its     *)
(* stop or its trailing stop (priority of evaluate_exit, second tranche,   *)
(* partial sales).                                                         *)
(***************************************************************************)
StopHolds == AtRest /\ Held(row) /\ last # 0
             => last > row.stop /\ last > row.high - ExitTrail

(***************************************************************************)
(* Of the shares bought and not sold the row holds all, until a tick both  *)
(* buys the second tranche and sells: from then on the table knows nothing *)
(* of one tranche, no more and no less (exit_handler.py:46-57: the sale    *)
(* takes its quantity from the Position of before).                        *)
(***************************************************************************)
SharesAccounted ==
    ~raced => balance = (IF Held(row) THEN row.qty ELSE 0)
                        + (IF overlooked THEN ScaleQty ELSE 0)

(***************************************************************************)
(* A holding's stop and high never fall; the second tranche may lower the  *)
(* stop, but not below that of the purchase (stop_manager.py:57,           *)
(* compute_adjusted_stop).                                                 *)
(***************************************************************************)
StopNeverFalls ==
    [][Held(row) /\ Held(row') /\ ~raced' =>
          IF row.scaled = row'.scaled
          THEN row'.stop >= row.stop /\ row'.high >= row.high
          ELSE row'.stop >= Entry - StopDist]_vars

(***************************************************************************)
(* Every holding ends, whatever the prices do: a halt stops the exits too, *)
(* but no longer than to the next reset.  Not while the process is down or *)
(* the operator halts it.                                                  *)
(***************************************************************************)
HeldNotForever == Held(row) ~> ~Held(row) \/ ~up \/ stopped
=============================================================================
