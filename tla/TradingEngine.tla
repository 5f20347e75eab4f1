---------------------------- MODULE TradingEngine ---------------------------
(***************************************************************************)
(* The trading engine (src/engine): the polling loop's price handler, the  *)
(* sell and buy paths it runs, the 15:35 cleanup, the daily jobs, the GUI's*)
(* halt and resume, crashes and restarts, over the order manager, the      *)
(* trade database and the risk manager.                                    *)
(*                                                                         *)
(* Everything asyncio runs between two awaits is one step; what another    *)
(* thread (the GUI, a job in to_thread) or a crash can separate is two.    *)
(* Prices are not modelled: which exit a price triggers, and whether an    *)
(* entry gate is open, is a choice among what the guards of the code allow.*)
(***************************************************************************)
EXTENDS OrderManager, RiskManager, Functions

CONSTANTS
    LiveMode,     \* mode = "live" (else "paper")
    FillEvents,   \* the broker's order events reach engine.on_chejan
    Lots,         \* quantities position sizing can come to
    Tp1Pct,       \* tp1_sell_ratio, in percent
    Tp2Pct,       \* tp2_sell_ratio, in percent
    SellRetries,  \* refused sells before _execute_sell gives up: 3
    MaxFaults     \* bound: lost replies and crashes in a run

ASSUME EngineAssumption ==
    /\ LiveMode \in BOOLEAN
    /\ FillEvents \in BOOLEAN
    /\ Lots \subseteq Nat \ {0}
    /\ Tp1Pct \in Nat /\ Tp2Pct \in Nat
    /\ SellRetries \in Nat
    /\ MaxFaults \in Nat

VARIABLES
    running,     \* the process is up and start() has run
    candidates,  \* _candidates, with an entry in _v23_entry_cache each
    retries,     \* _sell_retry_counts
    pc,          \* where the one handler in flight stands
    tick,        \* the code of the price being handled; NoCode: none
    todo,        \* positions the handler still has to look at
    call,        \* the order call it is awaiting, or has just seen accepted
    cancels,     \* orders cancel_all_pending still has to try
    phase,       \* the trading day: before, during, after market hours
    due,         \* scheduled jobs whose time has come
    events,      \* codes with an order event on its way to on_chejan
    faults       \* lost replies and crashes so far

handlerVars == <<pc, tick, todo, call, cancels>>
clockVars == <<phase, due>>
vars == <<orderVars, storeVars, riskVars, running, candidates, retries,
          handlerVars, clockVars, events, faults>>

NoPos == 0
NoCall == [pos |-> NoPos, qty |-> 0, kind |-> "none", retry |-> 0]
Kinds == {"none", "full", "TP1", "TP2", "buy"}
Calls == [pos : PosId \cup {NoPos}, qty : Nat, kind : Kinds,
          retry : 0..SellRetries]

\* The places where the handler is suspended and the event loop runs others.
Awaiting == {"idle", "sending", "buying", "cancel"}
Places == Awaiting \cup {"exit", "sold", "entry", "trend"}

NoRetries == [p \in PosId |-> 0]

TypeOK ==
    /\ OrdersTypeOK /\ StoreTypeOK /\ RiskTypeOK
    /\ running \in BOOLEAN
    /\ candidates \subseteq Codes
    /\ retries \in [PosId -> 0..SellRetries]
    /\ pc \in Places
    /\ tick \in Codes \cup {NoCode}
    /\ todo \subseteq PosId
    /\ call \in Calls
    /\ cancels \subseteq OrderNo
    /\ phase \in {"pre", "market", "closed"}
    /\ due \subseteq {"screen", "reset", "cleanup"}
    /\ events \subseteq Codes
    /\ faults \in 0..MaxFaults

Init ==
    /\ OrdersInit /\ StoreInit /\ RiskInit
    /\ running = TRUE
    /\ candidates = {}
    /\ retries = NoRetries
    /\ pc = "idle" /\ tick = NoCode /\ todo = {} /\ call = NoCall
    /\ cancels = {}
    /\ phase = "pre" /\ due = {"screen"}
    /\ events = {}
    /\ faults = 0

HandlerDone ==
    /\ pc' = "idle" /\ tick' = NoCode /\ todo' = {} /\ call' = NoCall
    /\ cancels' = {}

\* The handler goes on with its list of positions: the price handler when a
\* price is being handled, the cleanup's trend exits otherwise.
BackToList == pc' = IF tick = NoCode THEN "trend" ELSE "exit"

Notify(code) == events' = IF FillEvents THEN events \cup {code} ELSE {}

Fault == faults < MaxFaults /\ faults' = faults + 1

----------------------------------------------------------------------------
(* A price arrives: on_price_update and _check_exit_conditions.            *)

\* Any code may be polled: held codes, candidates and the watch list are.
PollTick(code) ==
    /\ running /\ phase = "market" /\ pc = "idle"
    /\ ~halted
    /\ pc' = "exit" /\ tick' = code /\ todo' = OpenOf(code)
    /\ UNCHANGED <<orderVars, storeVars, riskVars, running, candidates,
                   retries, call, cancels, clockVars, events, faults>>

\* Positions are visited in the order of their ids.
Visiting(p) ==
    /\ pc \in {"exit", "trend"}
    /\ p \in todo
    /\ \A q \in todo : p <= q

KeepHolding(p) ==
    /\ Visiting(p) /\ pc = "exit"
    /\ todo' = todo \ {p}
    /\ UNCHANGED <<orderVars, storeVars, riskVars, running, candidates,
                   retries, pc, tick, call, cancels, clockVars, events, faults>>

(* _execute_sell *)

\* What evaluate_exit may ask for; the cleanup only sells out.
ExitKinds(p) ==
    {"full"}
      \cup {k \in {"TP1"} : pc = "exit" /\ ~positions[p].tp1}
      \cup {k \in {"TP2"} : pc = "exit" /\ positions[p].tp1 /\ ~positions[p].tp2}

PartQty(p, kind) ==
    LET part == IF kind = "TP1" THEN (positions[p].qty * Tp1Pct) \div 100
                                ELSE (positions[p].initial * Tp2Pct) \div 100
    IN  IF part < 1 THEN 1 ELSE part

\* Mutant: a partial sale stays partial even when it sells the rest.
SaleNeverTurnsFull(p, kind) ==
    [pos |-> p, qty |-> IF kind = "full" THEN positions[p].qty
                        ELSE PartQty(p, kind),
     kind |-> kind, retry |-> retries[p]]

\* A partial sale that would leave nothing becomes a full one.
Sale(p, kind) ==
    IF kind = "full" \/ PartQty(p, kind) >= positions[p].qty
    THEN [pos |-> p, qty |-> positions[p].qty, kind |-> "full",
          retry |-> retries[p]]
    ELSE [pos |-> p, qty |-> PartQty(p, kind), kind |-> kind,
          retry |-> retries[p]]

PartlySold(row, c) ==
    IF c.kind = "TP1"
    THEN [row EXCEPT !.qty = @ - c.qty, !.status = "open", !.tp1 = TRUE]
    ELSE [row EXCEPT !.qty = @ - c.qty, !.status = "open", !.tp2 = TRUE]

\* The position update that follows a sale; a live full sale stays "selling".
SaleCommitted(c) ==
    IF c.kind \in {"TP1", "TP2"}
    THEN [positions EXCEPT ![c.pos] = PartlySold(@, c)]
    ELSE IF LiveMode THEN positions
    ELSE SetStatus({c.pos}, "closed")

\* Mutant: one attempt too many.
RetryAllowedOnceMore(p) == retries[p] <= SellRetries

RetryAllowed(p) == retries[p] < SellRetries

PaperSell(p) ==
    /\ ~LiveMode /\ Visiting(p)
    /\ \E kind \in ExitKinds(p) :
          /\ call' = Sale(p, kind)
          /\ positions' = SaleCommitted(call')
    /\ retries' = [retries EXCEPT ![p] = 0]
    /\ pc' = "sold" /\ todo' = todo \ {p}
    /\ UNCHANGED <<orderVars, sold, sinceSale, riskVars, running, candidates,
                   tick, cancels, clockVars, events, faults>>

\* "Sell retry limit exceeded": an alert and nothing else.
SellGivenUp(p) ==
    /\ LiveMode /\ Visiting(p)
    /\ ~RetryAllowed(p)
    /\ todo' = todo \ {p}
    /\ UNCHANGED <<orderVars, storeVars, riskVars, running, candidates,
                   retries, pc, tick, call, cancels, clockVars, events, faults>>

\* Marked selling, refused as a duplicate, marked open: no await in between.
SellRefused(p) ==
    /\ LiveMode /\ Visiting(p)
    /\ RetryAllowed(p)
    /\ DuplicateOrder(positions[p].code, "sell")
    /\ positions' = SetStatus({p}, "open")
    /\ retries' = [retries EXCEPT ![p] = @ + 1]
    /\ todo' = todo \ {p}
    /\ UNCHANGED <<orderVars, sold, sinceSale, riskVars, running, candidates,
                   pc, tick, call, cancels, clockVars, events, faults>>

SendSell(p) ==
    /\ LiveMode /\ Visiting(p)
    /\ RetryAllowed(p)
    /\ ~DuplicateOrder(positions[p].code, "sell")
    /\ \E kind \in ExitKinds(p) : call' = Sale(p, kind)
    /\ positions' = SetStatus({p}, "selling")
    /\ pc' = "sending" /\ todo' = todo \ {p}
    /\ UNCHANGED <<orderVars, sold, sinceSale, riskVars, running, candidates,
                   retries, tick, cancels, clockVars, events, faults>>

SellAccepted ==
    /\ pc = "sending"
    /\ \E no \in OrderNo :
          OrderAccepted(no, positions[call.pos].code, "sell", call.qty)
    /\ Notify(positions[call.pos].code)
    /\ positions' = SaleCommitted(call)
    /\ retries' = [retries EXCEPT ![call.pos] = 0]
    /\ pc' = "sold"
    /\ UNCHANGED <<sold, sinceSale, riskVars, running, candidates, tick, todo,
                   call, cancels, clockVars, faults>>

\* Mutant: the failure branch forgets to restore the status.
SellRejectedStaysSelling ==
    /\ pc = "sending"
    /\ retries' = [retries EXCEPT ![call.pos] = call.retry + 1]
    /\ BackToList /\ call' = NoCall
    /\ UNCHANGED <<orderVars, storeVars, riskVars, running, candidates, tick,
                   todo, cancels, clockVars, events, faults>>

\* Mutant: the order result is not looked at.
SellRejectedRecorded ==
    /\ pc = "sending"
    /\ positions' = SaleCommitted(call)
    /\ pc' = "sold"
    /\ UNCHANGED <<orderVars, sold, sinceSale, riskVars, running, candidates,
                   retries, tick, todo, call, cancels, clockVars, events,
                   faults>>

SellRejected ==
    /\ pc = "sending"
    /\ positions' = SetStatus({call.pos}, "open")
    /\ retries' = [retries EXCEPT ![call.pos] = call.retry + 1]
    /\ BackToList /\ call' = NoCall
    /\ UNCHANGED <<orderVars, sold, sinceSale, riskVars, running, candidates,
                   tick, todo, cancels, clockVars, events, faults>>

\* send_order raises: the exception leaves the whole handler.
SellReplyLost ==
    /\ pc = "sending" /\ Fault
    /\ OrderReplyLost(positions[call.pos].code, "sell", call.qty)
    /\ Notify(positions[call.pos].code)
    /\ HandlerDone
    /\ UNCHANGED <<pending, storeVars, riskVars, running, candidates, retries,
                   clockVars>>

RecordTrade ==
    /\ pc = "sold"
    /\ RecordSale(call.pos, call.qty)
    /\ BackToList /\ call' = NoCall
    /\ UNCHANGED <<orderVars, positions, riskVars, running, candidates,
                   retries, tick, todo, cancels, clockVars, events, faults>>

----------------------------------------------------------------------------
(* The rest of on_price_update: the daily loss, then the entry.            *)

UpdatePnl ==
    /\ pc = "exit" /\ todo = {}
    /\ IF OpenPositions = {} THEN UNCHANGED riskVars
       ELSE \E hit \in BOOLEAN : UpdateDailyPnl(hit)
    /\ pc' = "entry"
    /\ UNCHANGED <<orderVars, storeVars, running, candidates, retries, tick,
                   todo, call, cancels, clockVars, events, faults>>

\* Breadth, the entry window, the throttle and sizing may refuse any entry.
SkipEntry ==
    /\ pc = "entry"
    /\ HandlerDone
    /\ UNCHANGED <<orderVars, storeVars, riskVars, running, candidates,
                   retries, clockVars, events, faults>>

\* Mutant: held codes are not looked up.
MayEnterHeld(code) ==
    /\ code \in candidates
    /\ PreCheck(code) /\ phase = "market"

MayEnter(code) ==
    /\ code \in candidates
    /\ PreCheck(code) /\ phase = "market"
    /\ OpenOf(code) = {}

CandidateUsed == candidates' = candidates \ {tick}

PaperBuy ==
    /\ ~LiveMode /\ pc = "entry" /\ MayEnter(tick)
    /\ \E p \in PosId, qty \in Lots : InsertPosition(p, tick, qty)
    /\ CandidateUsed /\ HandlerDone
    /\ UNCHANGED <<orderVars, sold, sinceSale, riskVars, running, retries,
                   clockVars, events, faults>>

\* The candidate is used up even when the order was refused.
BuyRefused ==
    /\ LiveMode /\ pc = "entry" /\ MayEnter(tick)
    /\ DuplicateOrder(tick, "buy")
    /\ CandidateUsed /\ HandlerDone
    /\ UNCHANGED <<orderVars, storeVars, riskVars, running, retries,
                   clockVars, events, faults>>

SendBuy ==
    /\ LiveMode /\ pc = "entry" /\ MayEnter(tick)
    /\ ~DuplicateOrder(tick, "buy")
    /\ \E qty \in Lots :
          call' = [pos |-> NoPos, qty |-> qty, kind |-> "buy", retry |-> 0]
    /\ pc' = "buying"
    /\ UNCHANGED <<orderVars, storeVars, riskVars, running, candidates,
                   retries, tick, todo, cancels, clockVars, events, faults>>

\* The position is recorded when the order is accepted, not when it is filled.
BuyAccepted ==
    /\ pc = "buying"
    /\ \E no \in OrderNo : OrderAccepted(no, tick, "buy", call.qty)
    /\ Notify(tick)
    /\ \E p \in PosId : InsertPosition(p, tick, call.qty)
    /\ CandidateUsed /\ HandlerDone
    /\ UNCHANGED <<sold, sinceSale, riskVars, running, retries, clockVars,
                   faults>>

BuyRejected ==
    /\ pc = "buying"
    /\ CandidateUsed /\ HandlerDone
    /\ UNCHANGED <<orderVars, storeVars, riskVars, running, retries,
                   clockVars, events, faults>>

BuyReplyLost ==
    /\ pc = "buying" /\ Fault
    /\ OrderReplyLost(tick, "buy", call.qty)
    /\ Notify(tick)
    /\ HandlerDone
    /\ UNCHANGED <<pending, storeVars, riskVars, running, candidates, retries,
                   clockVars>>

----------------------------------------------------------------------------
(* Order events, and the broker itself.                                    *)

\* Any event of a code closes every selling position of it.
OnChejan(code) ==
    /\ running /\ pc \in Awaiting
    /\ code \in events
    /\ events' = events \ {code}
    /\ LET ended == {p \in PositionsByStatus("selling") :
                        positions[p].code = code}
       IN  /\ positions' = SetStatus(ended, "closed")
           /\ retries' = [p \in PosId |-> IF p \in ended THEN 0
                                          ELSE retries[p]]
    /\ UNCHANGED <<orderVars, sold, sinceSale, riskVars, running, candidates,
                   handlerVars, clockVars, faults>>

Fill(no) ==
    /\ phase = "market"
    /\ OrderFilled(no)
    /\ IF running THEN Notify(book[no].code) ELSE UNCHANGED events
    /\ UNCHANGED <<storeVars, riskVars, running, candidates, retries,
                   handlerVars, clockVars, faults>>

----------------------------------------------------------------------------
(* _post_market_cleanup, 15:35.                                            *)

StartCleanup ==
    /\ running /\ pc = "idle" /\ "cleanup" \in due
    /\ due' = due \ {"cleanup"}
    /\ pc' = "cancel" /\ cancels' = IF LiveMode THEN pending ELSE {}
    /\ UNCHANGED <<orderVars, storeVars, riskVars, running, candidates,
                   retries, tick, todo, call, phase, events, faults>>

CancelOne(no) ==
    /\ pc = "cancel" /\ no \in cancels
    /\ CancelPending(no)
    /\ IF book' = book THEN UNCHANGED events ELSE Notify(book[no].code)
    /\ cancels' = cancels \ {no}
    /\ UNCHANGED <<storeVars, riskVars, running, candidates, retries, pc,
                   tick, todo, call, clockVars, faults>>

\* Mutant: only positions whose sale was refused at least once are reopened.
RestoreRetriedOnly ==
    /\ pc = "cancel" /\ cancels = {}
    /\ LET restored == {p \in PositionsByStatus("selling") : retries[p] > 0}
       IN  /\ positions' = SetStatus(restored, "open")
           /\ retries' = IF restored = {} THEN retries ELSE NoRetries
           /\ todo' \in SUBSET (OpenPositions \cup restored)
    /\ pc' = "trend"
    /\ UNCHANGED <<orderVars, sold, sinceSale, riskVars, running, candidates,
                   tick, call, cancels, clockVars, events, faults>>

\* Every selling position is open again, then those whose MA5 crossed under
\* MA20 are listed for sale: no await separates the two.
RestoreSelling ==
    /\ pc = "cancel" /\ cancels = {}
    /\ LET restored == IF LiveMode THEN PositionsByStatus("selling") ELSE {}
       IN  /\ positions' = SetStatus(restored, "open")
           /\ retries' = IF restored = {} THEN retries ELSE NoRetries
           /\ todo' \in SUBSET (OpenPositions \cup restored)
    /\ pc' = "trend"
    /\ UNCHANGED <<orderVars, sold, sinceSale, riskVars, running, candidates,
                   tick, call, cancels, clockVars, events, faults>>

FinishCleanup ==
    /\ pc = "trend" /\ todo = {}
    /\ HandlerDone
    /\ UNCHANGED <<orderVars, storeVars, riskVars, running, candidates,
                   retries, clockVars, events, faults>>

----------------------------------------------------------------------------
(* Other jobs, the GUI thread, the clock.                                  *)

\* A screening that fails for good leaves the candidates as they were.
Screen ==
    /\ running /\ "screen" \in due
    /\ due' = due \ {"screen"}
    /\ candidates' \in SUBSET Codes
    /\ UNCHANGED <<orderVars, storeVars, riskVars, running, retries,
                   handlerVars, phase, events, faults>>

\* Runs in a worker thread: at any point of the handler.
DailyReset ==
    /\ running /\ "reset" \in due
    /\ due' = due \ {"reset"}
    /\ RiskReset
    /\ retries' = NoRetries
    /\ UNCHANGED <<orderVars, storeVars, running, candidates, handlerVars,
                   phase, events, faults>>

Halt ==
    /\ running /\ ~halted
    /\ halted' = TRUE
    /\ UNCHANGED <<orderVars, storeVars, lossHit, running, candidates,
                   retries, handlerVars, clockVars, events, faults>>

Resume ==
    /\ running /\ halted
    /\ halted' = FALSE
    /\ UNCHANGED <<orderVars, storeVars, lossHit, running, candidates,
                   retries, handlerVars, clockVars, events, faults>>

Due(job) == due' = IF running THEN {job} ELSE {}

OpenMarket ==
    /\ phase = "pre" /\ due = {}
    /\ phase' = "market" /\ Due("reset")
    /\ UNCHANGED <<orderVars, storeVars, riskVars, running, candidates,
                   retries, handlerVars, events, faults>>

CloseMarket ==
    /\ phase = "market" /\ due = {}
    /\ phase' = "closed" /\ Due("cleanup")
    /\ UNCHANGED <<orderVars, storeVars, riskVars, running, candidates,
                   retries, handlerVars, events, faults>>

Midnight ==
    /\ phase = "closed" /\ due = {} /\ pc = "idle"
    /\ phase' = "pre" /\ Due("screen")
    /\ book' = OrdersExpired
    /\ sinceSale' = DayOlder
    /\ UNCHANGED <<pending, positions, sold, riskVars, running, candidates,
                   retries, handlerVars, events, faults>>

----------------------------------------------------------------------------
(* stop() or a crash, and the next start().                                *)

\* Only the database and the broker's book survive; an order whose reply was
\* awaited may have reached the broker.
Crash ==
    /\ running /\ Fault
    /\ running' = FALSE
    /\ CASE pc = "sending" ->
              OrderReplyLost(positions[call.pos].code, "sell", call.qty)
         [] pc = "buying" -> OrderReplyLost(tick, "buy", call.qty)
         [] OTHER -> UNCHANGED book
    /\ pending' = {}
    /\ RiskReset
    /\ candidates' = {} /\ retries' = NoRetries /\ events' = {}
    /\ due' = {} /\ HandlerDone
    /\ UNCHANGED <<storeVars, phase>>

\* start() screens at once; a job of today still ahead of the clock will run.
Restart ==
    /\ ~running
    /\ running' = TRUE
    /\ due' \in IF phase = "closed" THEN {{"screen"}, {"screen", "cleanup"}}
                                    ELSE {{"screen"}}
    /\ UNCHANGED <<orderVars, storeVars, riskVars, candidates, retries,
                   handlerVars, phase, events, faults>>

----------------------------------------------------------------------------
HandlerStep ==
    \/ \E p \in PosId : \/ KeepHolding(p) \/ PaperSell(p) \/ SellGivenUp(p)
                        \/ SellRefused(p) \/ SendSell(p)
    \/ SellAccepted \/ SellRejected \/ SellReplyLost \/ RecordTrade
    \/ UpdatePnl \/ SkipEntry \/ PaperBuy
    \/ BuyRefused \/ SendBuy \/ BuyAccepted \/ BuyRejected \/ BuyReplyLost
    \/ \E no \in OrderNo : CancelOne(no)
    \/ RestoreSelling \/ FinishCleanup

Jobs == StartCleanup \/ Screen \/ DailyReset

Clock == OpenMarket \/ CloseMarket \/ Midnight

Environment ==
    \/ \E code \in Codes : PollTick(code) \/ OnChejan(code)
    \/ \E no \in OrderNo : Fill(no)
    \/ Halt \/ Resume
    \/ Crash

Next == HandlerStep \/ Jobs \/ Clock \/ Environment \/ Restart

Spec == Init /\ [][Next]_vars

\* asyncio resumes a handler whose await has ended, and every broker call ends
\* (a 10 s timeout, three attempts); apscheduler runs a job that is due; the
\* day goes on; a process that stopped is started again.
Fairness ==
    /\ WF_vars(HandlerStep)
    /\ WF_vars(StartCleanup) /\ WF_vars(Screen) /\ WF_vars(DailyReset)
    /\ WF_vars(Clock)
    /\ WF_vars(Restart)

FairSpec == Spec /\ Fairness

----------------------------------------------------------------------------
(* What a correct engine guarantees.                                       *)

(***************************************************************************)
(* No more open positions than trading.max_positions.  pre_check counts    *)
(* them before the order, the row is inserted after it.                    *)
(***************************************************************************)
PositionLimit == CountOpenPositions <= MaxPositions

(***************************************************************************)
(* Paper: a code is bought only when nothing is held of it, whatever       *)
(* halts, restarts and screenings come between.                            *)
(***************************************************************************)
OneLivePositionPerCode ==
    \A p, q \in PosId :
        Live(p) /\ Live(q) /\ positions[p].code = positions[q].code => p = q

\* The open holding of a code, there being one position of it at most.
Holding ==
    [c \in Codes |-> IF OpenOf(c) = {} THEN 0
                     ELSE positions[CHOOSE p \in OpenOf(c) : TRUE].qty]

Ledger == INSTANCE PositionLedger WITH holding <- Holding

(***************************************************************************)
(* Paper: every step of the engine is a step of the ledger or leaves the   *)
(* holdings alone: no exit, restart or screening ever adds to a holding,   *)
(* and a code is bought from nothing, within the limit.                    *)
(***************************************************************************)
LedgerRefined == Ledger!Spec

RecordingSale(p) == pc = "sold" /\ call.pos = p

(***************************************************************************)
(* Paper: the sale records of a position add up to the shares that left it,*)
(* through TP1, TP2 and the final exit; an open position keeps a share.    *)
(* _execute_sell commits the position before the trade record, so a crash  *)
(* between the two can lose a record but never invent a sale.              *)
(***************************************************************************)
SalesAccounted ==
    \A p \in PosId :
        LET row == positions[p]
            kept == IF row.status = "closed" THEN 0 ELSE row.qty
        IN  /\ row.status = "open" => row.qty > 0
            /\ sold[p] + kept <= row.initial
            /\ faults = 0 /\ ~RecordingSale(p) => sold[p] + kept = row.initial

\* What the rows of a code sold and bought, and what the broker accepted of it.
SoldQty(c) == [p \in PosId |-> IF positions[p].code = c THEN sold[p] ELSE 0]
BoughtQty(c) == [p \in PosId |-> IF positions[p].code = c THEN positions[p].initial
                                                          ELSE 0]
AcceptedQty(c, side) ==
    [no \in OrderNo |-> IF book[no].code = c /\ book[no].side = side
                        THEN book[no].qty ELSE 0]

(***************************************************************************)
(* Live: every sale and every position in the database is backed by orders *)
(* the broker accepted, however replies, restarts and retries fall.        *)
(***************************************************************************)
LedgerBackedByOrders ==
    \A c \in Codes :
        /\ SumFunction(SoldQty(c)) <= SumFunction(AcceptedQty(c, "sell"))
        /\ SumFunction(BoughtQty(c)) <= SumFunction(AcceptedQty(c, "buy"))

(***************************************************************************)
(* Live, no reply lost and no restart: a position is "selling" only while  *)
(* a sell order of its code is being sent or is remembered as working, or  *)
(* the cleanup that will reopen it is under way.  A selling position that  *)
(* nothing backs is watched by nobody: no stop-loss, no event, no cleanup  *)
(* before 15:35.                                                           *)
(***************************************************************************)
SellingIsBacked ==
    faults = 0 =>
        \A p \in PositionsByStatus("selling") :
            \/ pc = "sending" /\ call.pos = p
            \/ DuplicateOrder(positions[p].code, "sell")
            \/ pc = "cancel"

(***************************************************************************)
(* Live: whatever happened to its order, a selling position is open or     *)
(* closed again some day: an event, a refusal or the cleanup sees to it.   *)
(***************************************************************************)
SellingResolved ==
    \A p \in PosId :
        positions[p].status = "selling" ~> positions[p].status # "selling"

(***************************************************************************)
(* A halt, by the loss limit or by the GUI, does not outlive the trading   *)
(* day: reset_daily or a restart lifts it.                                 *)
(***************************************************************************)
HaltLifted == halted ~> ~halted

(***************************************************************************)
(* scheduler_jobs.py:126: the positions the cleanup reopens are those whose*)
(* sell order was not filled.                                              *)
(***************************************************************************)
RestoreOnlyUnfilled ==
    [][\A p \in PosId :
          /\ pc = "cancel"
          /\ positions[p].status = "selling" /\ positions'[p].status = "open"
          => ~\E no \in OrderNo : /\ book[no].code = positions[p].code
                                  /\ book[no].side = "sell"
                                  /\ book[no].qty = positions[p].qty
                                  /\ book[no].state = "filled"]_vars

(***************************************************************************)
(* order_manager.py:107: a sell is refused as a duplicate only when an     *)
(* order of that code and side is still unfilled at the broker.            *)
(***************************************************************************)
DuplicateMeansUnfilled ==
    [][\A p \in PosId :
          pc \in {"exit", "trend"} /\ retries'[p] > retries[p]
          => \E no \in OrderNo : /\ book[no].code = positions[p].code
                                 /\ book[no].side = "sell"
                                 /\ book[no].state = "working"]_vars
=============================================================================
