----------------------------- MODULE EtfHandler -----------------------------
(***************************************************************************)
(* The ETF side strategy (src/engine/etf_handler.py) and what drives it:   *)
(* the screening of start() and of 08:30 with its retries, the submission  *)
(* of 08:50, the 15:35 cancellation, the stock desk that draws on the same *)
(* money, crashes and restarts.  The order manager and the broker's book   *)
(* are those of OrderManager; only the ETF's orders are in it.             *)
(*                                                                         *)
(* A bar of the index is what its IBS says of it.  The bar and the close   *)
(* are chosen anew at each reading: the GUI's data run may collect at any  *)
(* hour between two of them.  Costs and taxes are not counted: a holding   *)
(* has cost its shares at the price recorded.                              *)
(***************************************************************************)
EXTENDS OrderManager, Sequences, Functions

CONSTANTS
    EtfCode,      \* etf_code
    Modes,        \* the modes an engine may be started in
    Capital,      \* _initial_capital
    MinIdleCash,  \* min_idle_cash
    MaxHoldDays,  \* max_hold_days
    Quotes,       \* closes _get_last_etf_close may return, the ETF's or,
                  \* without one, the index's; 0: none found
    Slippages,    \* what simulate_fill_price may add to a close
    MaxRetries,   \* max_retries of _pre_market_screening: 3
    MaxEtfRows,   \* bound: rows of etf_positions in a run
    MaxFaults     \* bound: lost replies and crashes in a run

ASSUME EtfAssumption ==
    /\ EtfCode \in Codes
    /\ Modes \subseteq {"paper", "live"}
    /\ Capital \in Nat /\ MinIdleCash \in Nat /\ MaxHoldDays \in Nat \ {0}
    /\ Quotes \subseteq Nat /\ Slippages \subseteq Nat
    /\ MaxRetries \in Nat /\ MaxEtfRows \in Nat /\ MaxFaults \in Nat

VARIABLES
    mode,       \* engine.mode
    running,    \* the process is up and start() has run
    position,   \* _position: what is held, with its hold_days
    queue,      \* _queued_action and _queued_qty
    rows,       \* the etf_positions table, oldest first
    screening,  \* per caller of _pre_market_screening: its attempt; 0: none
    sent,       \* the order submit_queued_order is awaiting, est_price
    stock,      \* money in stock positions
    phase, due, \* the trading day and the jobs that wait to be run
    faults

etfVars == <<position, queue, rows>>
deskVars == <<mode, stock, phase>>
vars == <<orderVars, etfVars, deskVars, running, screening, sent, due, faults>>

\* The last row of index_daily: none, one with a price of 0, or its IBS.
Priced == {"low", "mid", "high"}
Bars == Priced \cup {"none", "zero"}
Callers == {"start", "job"}
\* "opening": 09:00 to 09:50, until when the 08:50 job may still be run.
Phases == {"early", "screened", "auction", "opening", "market", "closed"}
Trading == {"opening", "market"}

Row == [qty : Nat, price : Nat, open : BOOLEAN]
NoPosition == [qty |-> 0, price |-> 0, days |-> 0]
Actions == {"none", "buy", "sell"}
Queued == [action : Actions, qty : Nat]
Order == [action : Actions, qty : Nat, price : Nat]
NoQueue == [action |-> "none", qty |-> 0]
NoOrder == [action |-> "none", qty |-> 0, price |-> 0]

Held == position # NoPosition

TypeOK ==
    /\ OrdersTypeOK
    /\ mode \in Modes /\ running \in BOOLEAN
    /\ position \in [qty : Nat, price : Nat, days : 0..MaxHoldDays]
    /\ queue \in Queued /\ sent \in Order
    /\ rows \in Seq(Row) /\ Len(rows) <= MaxEtfRows
    /\ screening \in [Callers -> 0..(MaxRetries + 1)]
    /\ stock \in 0..Capital
    /\ phase \in Phases /\ due \subseteq {"screen", "submit", "cleanup"}
    /\ faults \in 0..MaxFaults

NoScreening == [w \in Callers |-> 0]

Init ==
    /\ OrdersInit
    /\ mode \in Modes /\ running = TRUE
    /\ position = NoPosition /\ queue = NoQueue /\ rows = <<>>
    /\ screening = [NoScreening EXCEPT !["start"] = 1]
    /\ sent = NoOrder /\ stock = 0
    /\ phase = "early" /\ due = {}
    /\ faults = 0

----------------------------------------------------------------------------
(* evaluate_at_screening.                                                  *)

\* _get_idle_cash_for_etf: the capital less both holdings, at least zero.
IdleCash ==
    LET idle == Capital - stock - position.qty * position.price
    IN  IF idle < 0 THEN 0 ELSE idle

\* 99 % of the idle cash at the last close; a close of 1 when there is none.
BuyQty(quote) == (IdleCash * 99) \div (100 * IF quote = 0 THEN 1 ELSE quote)

\* Only days below max_hold_days are told apart.
HeldOneMoreDay == IF position.days < MaxHoldDays THEN position.days + 1
                                                 ELSE MaxHoldDays

\* Mutant: the holding period is not looked at.
IbsExitOnly(bar, days) == bar = "high"

IbsExit(bar, days) == days >= MaxHoldDays \/ bar = "high"

\* The table is full: bound.
IbsEntry(bar) == bar = "low" /\ Len(rows) < MaxEtfRows

Decide(action, qty) == [action |-> action, qty |-> qty]

\* Without a row of the index nothing is called and the queue stays.
Evaluate(bar, quote) ==
    \/ bar = "none" /\ UNCHANGED <<position, queue>>
    \/ bar = "zero" /\ queue' = NoQueue /\ UNCHANGED position
    \/ /\ bar \in Priced /\ Held
       /\ position' = [position EXCEPT !.days = HeldOneMoreDay]
       /\ queue' = IF IbsExit(bar, position'.days) THEN Decide("sell", 0)
                                                   ELSE NoQueue
    \/ /\ bar \in Priced /\ ~Held
       /\ queue' = IF /\ IdleCash >= MinIdleCash /\ IbsEntry(bar)
                      /\ BuyQty(quote) > 0
                   THEN Decide("buy", BuyQty(quote)) ELSE NoQueue
       /\ UNCHANGED position

(* _pre_market_screening, from start() and from the 08:30 job.             *)

StartScreening ==
    /\ running /\ "screen" \in due
    /\ due' = due \ {"screen"}
    /\ screening' = [screening EXCEPT !["job"] = 1]
    /\ UNCHANGED <<orderVars, etfVars, deskVars, running, sent, faults>>

ScreeningSucceeds(w, bar, quote) ==
    /\ running /\ screening[w] > 0
    /\ Evaluate(bar, quote)
    /\ screening' = [screening EXCEPT ![w] = 0]
    /\ UNCHANGED <<orderVars, rows, deskVars, running, sent, due, faults>>

\* Mutant: the retries are never used up.
RetryOnceMore(n) == IF n <= MaxRetries + 1 THEN n + 1 ELSE 0

NextAttempt(n) == IF n <= MaxRetries THEN n + 1 ELSE 0

\* Sleeps and tries again, in the end gives up: the ETF is not evaluated.
ScreeningFails(w) ==
    /\ running /\ screening[w] > 0
    /\ screening' = [screening EXCEPT ![w] = NextAttempt(@)]
    /\ UNCHANGED <<orderVars, etfVars, deskVars, running, sent, due, faults>>

----------------------------------------------------------------------------
(* submit_queued_order, 08:50.                                             *)

\* The position in memory and the row, at fill_price.
Bought(qty, price) ==
    /\ position' = [qty |-> qty, price |-> price, days |-> 0]
    /\ rows' = Append(rows, [qty |-> qty, price |-> price, open |-> TRUE])

\* Every open row of the code is closed.
Sold ==
    /\ position' = NoPosition
    /\ rows' = [i \in DOMAIN rows |-> [rows[i] EXCEPT !.open = FALSE]]

\* Mutant: no finally clause.
QueueLeft == UNCHANGED queue

\* The finally clause: also on a refusal or an exception, and whatever a
\* screening has queued meanwhile.
QueueCleared == queue' = NoQueue

Submitting ==
    /\ running /\ "submit" \in due /\ sent = NoOrder
    /\ due' = due \ {"submit"}

\* A sell queued while held; a buy of at least one share.
Submittable == queue.action = "buy" \/ (queue.action = "sell" /\ Held)

SubmitNothing ==
    /\ Submitting /\ ~Submittable
    /\ QueueCleared
    /\ UNCHANGED <<orderVars, position, rows, deskVars, running, screening,
                   sent, faults>>

\* simulate_fill_price of the close of now, not of the one it was sized at.
FillPrice(quote, slip) == IF quote = 0 THEN 0 ELSE quote + slip

SubmitPaper ==
    /\ Submitting /\ Submittable /\ mode = "paper"
    /\ IF queue.action = "buy"
       THEN \E quote \in Quotes, slip \in Slippages :
               Bought(queue.qty, FillPrice(quote, slip))
       ELSE Sold
    /\ QueueCleared
    /\ UNCHANGED <<orderVars, deskVars, running, screening, sent, faults>>

\* execute_order refuses it as a duplicate.
SubmitRefused ==
    /\ Submitting /\ Submittable /\ mode = "live"
    /\ DuplicateOrder(EtfCode, queue.action)
    /\ QueueCleared
    /\ UNCHANGED <<orderVars, position, rows, deskVars, running, screening,
                   sent, faults>>

\* est_price is read before the await.
SubmitLive ==
    /\ Submitting /\ Submittable /\ mode = "live"
    /\ ~DuplicateOrder(EtfCode, queue.action)
    /\ \E quote \in Quotes :
          sent' = [action |-> queue.action, price |-> quote,
                   qty |-> IF queue.action = "buy" THEN queue.qty
                                                   ELSE position.qty]
    /\ UNCHANGED <<orderVars, etfVars, deskVars, running, screening, faults>>

SubmitAccepted ==
    /\ sent # NoOrder
    /\ \E no \in OrderNo : OrderAccepted(no, EtfCode, sent.action, sent.qty)
    /\ IF sent.action = "buy" THEN Bought(sent.qty, sent.price) ELSE Sold
    /\ QueueCleared /\ sent' = NoOrder
    /\ UNCHANGED <<deskVars, running, screening, due, faults>>

\* Mutant: the order result is not looked at.
SubmitRejectedRecorded ==
    /\ sent # NoOrder
    /\ IF sent.action = "buy" THEN Bought(sent.qty, sent.price) ELSE Sold
    /\ QueueCleared /\ sent' = NoOrder
    /\ UNCHANGED <<orderVars, deskVars, running, screening, due, faults>>

SubmitRejected ==
    /\ sent # NoOrder
    /\ QueueCleared /\ sent' = NoOrder
    /\ UNCHANGED <<orderVars, position, rows, deskVars, running, screening,
                   due, faults>>

Fault == faults < MaxFaults /\ faults' = faults + 1

SubmitReplyLost ==
    /\ sent # NoOrder /\ Fault
    /\ OrderReplyLost(EtfCode, sent.action, sent.qty)
    /\ QueueCleared /\ sent' = NoOrder
    /\ UNCHANGED <<pending, position, rows, deskVars, running, screening, due>>

----------------------------------------------------------------------------
(* The stock desk and the broker.                                          *)

\* _calculate_alloc: at most the capital that is not in stocks; what is in
\* the ETF is not subtracted.
StockMoney == (stock + 1)..Capital

StockBought ==
    /\ running /\ phase \in Trading
    /\ stock' \in StockMoney
    /\ UNCHANGED <<orderVars, etfVars, mode, phase, running, screening,
                   sent, due, faults>>

StockSold ==
    /\ running /\ phase \in Trading \cup {"closed"}
    /\ stock > 0 /\ stock' \in 0..(stock - 1)
    /\ UNCHANGED <<orderVars, etfVars, mode, phase, running, screening,
                   sent, due, faults>>

Filled(no) ==
    /\ phase \in Trading /\ OrderFilled(no)
    /\ UNCHANGED <<etfVars, deskVars, running, screening, sent, due, faults>>

\* cancel_all_pending, 15:35: working orders are cancelled; some of the
\* replies that say so are lost, and those orders stay pending.
Cleanup ==
    /\ running /\ "cleanup" \in due
    /\ due' = due \ {"cleanup"}
    /\ \E gone \in SUBSET {no \in pending : book[no].state = "working"} :
          /\ book' = [no \in OrderNo |-> IF no \in gone
                         THEN [book[no] EXCEPT !.state = "cancelled"]
                         ELSE book[no]]
          /\ \E told \in SUBSET gone : pending' = pending \ told
    /\ UNCHANGED <<etfVars, deskVars, running, screening, sent, faults>>

----------------------------------------------------------------------------
(* The clock, crashes and restarts.                                        *)

At(from, to, jobs) ==
    /\ phase = from /\ phase' = to
    /\ due' = IF running THEN jobs ELSE {}
    /\ UNCHANGED <<orderVars, etfVars, mode, stock, running, screening, sent>>

\* The jobs of before are done; an order of 08:50 may be awaited on.
InTime ==
    /\ due = {} /\ UNCHANGED faults
    /\ \/ sent = NoOrder /\ \/ At("early", "screened", {"screen"})
                            \/ At("screened", "auction", {"submit"})
                            \/ At("market", "closed", {"cleanup"})
                            \/ At("closed", "early", {})
       \/ At("auction", "opening", {})
       \/ At("opening", "market", {})

\* The machine was suspended: the jobs of before wait still.
Suspended ==
    /\ due # {} /\ Fault
    /\ \/ At("screened", "auction", due \cup {"submit"})
       \/ At("auction", "opening", due)

\* misfire_grace_time has passed: what is late is not run any more.
Misfired == due # {} /\ At("opening", "market", {}) /\ UNCHANGED faults

Clock == InTime \/ Suspended \/ Misfired

Crash ==
    /\ running /\ Fault
    /\ running' = FALSE
    /\ IF sent = NoOrder THEN UNCHANGED book
       ELSE OrderReplyLost(EtfCode, sent.action, sent.qty)
    /\ pending' = {} /\ position' = NoPosition /\ queue' = NoQueue
    /\ screening' = NoScreening /\ sent' = NoOrder /\ due' = {}
    /\ UNCHANGED <<rows, deskVars>>

OpenRows == {i \in DOMAIN rows : rows[i].open}

\* Mutant: the oldest row, open or not.
RestoredFirst ==
    IF rows = <<>> THEN NoPosition
    ELSE [qty |-> rows[1].qty, price |-> rows[1].price, days |-> 0]

\* restore_from_db: the newest open row; hold_days is written only by
\* close_etf_position, so an open row always says 0.
Restored ==
    IF OpenRows = {} THEN NoPosition
    ELSE LET i == CHOOSE i \in OpenRows : \A j \in OpenRows : j <= i
         IN  [qty |-> rows[i].qty, price |-> rows[i].price, days |-> 0]

Restart ==
    /\ ~running
    /\ running' = TRUE
    /\ position' = Restored
    /\ screening' = [NoScreening EXCEPT !["start"] = 1]
    /\ UNCHANGED <<orderVars, queue, rows, deskVars, sent, due, faults>>

----------------------------------------------------------------------------
Submit ==
    \/ SubmitNothing \/ SubmitPaper \/ SubmitRefused \/ SubmitLive
    \/ SubmitAccepted \/ SubmitRejected \/ SubmitReplyLost

Next ==
    \/ StartScreening
    \/ \E w \in Callers :
          \/ \E bar \in Bars, quote \in Quotes : ScreeningSucceeds(w, bar, quote)
          \/ ScreeningFails(w)
    \/ Submit
    \/ StockBought \/ StockSold
    \/ \E no \in OrderNo : Filled(no)
    \/ Cleanup \/ Clock \/ Crash \/ Restart

\* The scheduler runs a job that is due, an order call ends, the day goes on
\* and a stopped process is started again.
Fairness ==
    /\ WF_vars(StartScreening) /\ WF_vars(Submit) /\ WF_vars(Cleanup)
    /\ WF_vars(Clock) /\ WF_vars(Restart)

Spec == Init /\ [][Next]_vars /\ Fairness

----------------------------------------------------------------------------
(***************************************************************************)
(* While the engine runs, what the handler holds in memory is what its     *)
(* table says is open, and the table never has two open rows: through      *)
(* queues that outlive their day, orders refused or lost, and restarts.    *)
(***************************************************************************)
EtfMemoryIsTable ==
    /\ \A i, j \in OpenRows : i = j
    /\ running => /\ Held <=> OpenRows # {}
                  /\ \A i \in OpenRows : /\ position.qty = rows[i].qty
                                          /\ position.price = rows[i].price

(***************************************************************************)
(* A buy is queued only while nothing is held and a sell only while        *)
(* something is, once no order is in flight: a queue left over from        *)
(* another day can be late but not double a position.                      *)
(***************************************************************************)
EtfQueueFits ==
    running /\ sent = NoOrder => /\ queue.action = "buy" => ~Held
                                 /\ queue.action = "sell" => Held

OrdersOf(side) == {no \in OrderNo : book[no].side = side}

(***************************************************************************)
(* Live: every row was bought by an order the broker took and every closed *)
(* row sold by another; with no reply lost and no restart, exactly.        *)
(***************************************************************************)
EtfRowsBacked ==
    mode = "live" =>
        LET bought == Cardinality(OrdersOf("buy"))
            closed == Cardinality(DOMAIN rows \ OpenRows)
            ended == Cardinality(OrdersOf("sell"))
        IN  /\ Len(rows) <= bought /\ closed <= ended
            /\ faults = 0 => Len(rows) = bought /\ closed = ended

----------------------------------------------------------------------------
\* Shares of the open rows, however many there are.
EtfShares ==
    SumFunction([i \in DOMAIN rows |-> IF rows[i].open THEN rows[i].qty ELSE 0])

EtfHolding == [c \in Codes |-> IF c = EtfCode THEN EtfShares ELSE 0]

EtfLedger == INSTANCE PositionLedger WITH holding <- EtfHolding, MaxPositions <- 1

(***************************************************************************)
(* The table of the ETF keeps the trader's ledger with one slot: a buy     *)
(* finds nothing open, and nothing but a sale takes shares away, whatever  *)
(* screenings repeat, queues outlive their day, replies or processes are   *)
(* lost, and whatever a restart reads back.                                *)
(***************************************************************************)
EtfLedgerRefined == EtfLedger!Spec

EtfMoney == position.qty * position.price

(***************************************************************************)
(* "No cash conflict" between stocks and the ETF, their hours being apart: *)
(* never is more spent on both together than there is.                     *)
(***************************************************************************)
NoCashConflict == stock + EtfMoney <= Capital

\* The last screening of the morning ends before 08:50 and finds a bar.
ScreenedInTime ==
    /\ phase = "screened" /\ due = {}
    /\ \E w \in Callers, bar \in Priced, quote \in Quotes :
          ScreeningSucceeds(w, bar, quote)
    /\ screening' = NoScreening

(***************************************************************************)
(* Paper: if again and again the 08:30 screening is done before 08:50 with *)
(* a bar of the index, a holding ends: by its IBS or by max_hold_days,     *)
(* though a restart begins the count anew.                                 *)
(***************************************************************************)
EtfSold ==
    []<><<ScreenedInTime>>_vars => (mode = "paper" /\ Held ~> ~Held)
=============================================================================
