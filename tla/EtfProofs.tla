------------------------------ MODULE EtfProofs ------------------------------
(***************************************************************************)
(* The ETF handler's memory is its table, its queue fits what is held, its *)
(* rows have orders behind them and its table is a position ledger: for    *)
(* every capital and every price, every bound of orders and rows and every *)
(* number of crashes, lost replies and late jobs, in both modes.           *)
(***************************************************************************)
EXTENDS EtfHandler, SumTheorems, SequenceTheorems, TLAPS

----------------------------------------------------------------------------
(* Types.                                                                  *)

EtfTypes ==
    /\ position \in [qty : Nat, price : Nat, days : Nat]
    /\ queue \in Queued /\ sent \in Order
    /\ rows \in Seq(Row)
    /\ stock \in Nat

LEMMA DivNat == \A a \in Nat, b \in Nat \ {0} : a \div b \in Nat
OBVIOUS

LEMMA BuyQtyNat == EtfTypes => \A quote \in Quotes : BuyQty(quote) \in Nat
<1> SUFFICES ASSUME EtfTypes, NEW quote \in Quotes PROVE BuyQty(quote) \in Nat
  OBVIOUS
<1>1. position.qty * position.price \in Int /\ stock \in Int /\ Capital \in Int
  BY EtfAssumption DEF EtfTypes
<1>2. IdleCash * 99 \in Nat
  <2>1. IdleCash \in Nat
    BY <1>1 DEF IdleCash
  <2> QED
    BY <2>1
<1>3. 100 * (IF quote = 0 THEN 1 ELSE quote) \in Nat \ {0}
  BY EtfAssumption
<1> QED
  BY <1>2, <1>3, DivNat DEF BuyQty

LEMMA OrderTyped ==
    /\ NoOrder \in Order /\ NoOrder.action = "none"
    /\ NoQueue \in Queued /\ NoQueue.action = "none"
    /\ \A a \in Actions, n \in Nat :
           Decide(a, n) \in Queued /\ Decide(a, n).action = a /\ Decide(a, n).qty = n
    /\ "buy" \in Actions /\ "sell" \in Actions
BY DEF NoOrder, Order, NoQueue, Queued, Actions, Decide

LEMMA PricesNat ==
    \A quote \in Quotes, slip \in Slippages : FillPrice(quote, slip) \in Nat
BY EtfAssumption DEF FillPrice

----------------------------------------------------------------------------
(* The table under its two writes.                                         *)

RowsPositive == \A i \in DOMAIN rows : rows[i].qty > 0

\* A row is appended open, its quantity and price those of the position.
LEMMA Inserted ==
    ASSUME EtfTypes, RowsPositive, OpenRows = {},
           NEW qty \in Nat \ {0}, NEW price \in Nat, Bought(qty, price)
    PROVE  /\ rows' \in Seq(Row) /\ RowsPositive'
           /\ position' \in [qty : Nat, price : Nat, days : Nat]
           /\ Held' /\ position'.qty = qty
           /\ \E last \in DOMAIN rows' :
                 /\ OpenRows' = {last}
                 /\ rows'[last].qty = qty
                 /\ rows'[last].price = position'.price
           /\ Len(rows') = Len(rows) + 1 /\ DOMAIN rows' \ OpenRows' = DOMAIN rows
<1> DEFINE row == [qty |-> qty, price |-> price, open |-> TRUE]
           last == Len(rows) + 1
<1>1. row \in Row /\ rows \in Seq(Row) /\ Len(rows) \in Nat
      /\ DOMAIN rows = 1..Len(rows)
  BY LenProperties DEF EtfTypes, Row
<1>2. rows' = Append(rows, row)
  BY DEF Bought
<1>3. /\ rows' \in Seq(Row) /\ DOMAIN rows' = 1..last
      /\ rows'[last] = row
      /\ \A i \in 1..Len(rows) : rows'[i] = rows[i]
  BY <1>1, <1>2 DEF Row
<1>4. \A i \in 1..Len(rows) : ~rows'[i].open /\ rows'[i].qty > 0
  BY <1>1, <1>3 DEF RowsPositive, OpenRows
<1>5. \A i \in DOMAIN rows' : i = last \/ i \in 1..Len(rows)
  BY <1>1, <1>3
<1>6. last \in DOMAIN rows'
  BY <1>1, <1>3
<1>7. OpenRows' = {last}
  BY <1>3, <1>4, <1>5, <1>6 DEF OpenRows
<1>8. RowsPositive'
  BY <1>3, <1>4, <1>5 DEF RowsPositive
<1>9. /\ position' \in [qty : Nat, price : Nat, days : Nat]
      /\ Held' /\ position'.qty = qty /\ position'.price = price
  BY DEF Bought, Held, NoPosition, EtfTypes
<1>10. Len(rows') = Len(rows) + 1 /\ DOMAIN rows' \ OpenRows' = DOMAIN rows
  BY <1>1, <1>2, <1>3, <1>7
<1> QED
  BY <1>3, <1>6, <1>7, <1>8, <1>9, <1>10

\* No open row is left, and the others are as they were.
LEMMA AllClosed ==
    ASSUME EtfTypes, RowsPositive, Sold
    PROVE  /\ rows' \in Seq(Row) /\ RowsPositive' /\ OpenRows' = {}
           /\ position' = NoPosition /\ ~Held'
<1>1. rows \in Seq(Row) /\ Len(rows) \in Nat /\ DOMAIN rows = 1..Len(rows)
      /\ rows \in [1..Len(rows) -> Row]
  BY LenProperties DEF EtfTypes
<1>2. rows' = [i \in 1..Len(rows) |-> [rows[i] EXCEPT !.open = FALSE]]
  BY <1>1 DEF Sold
<1>3. \A i \in 1..Len(rows) : /\ [rows[i] EXCEPT !.open = FALSE] \in Row
                             /\ rows'[i].qty = rows[i].qty /\ ~rows'[i].open
  BY <1>1, <1>2 DEF Row
<1>4. rows' \in [1..Len(rows) -> Row]
  BY <1>2, <1>3
<1>5. rows' \in Seq(Row) /\ DOMAIN rows' = 1..Len(rows)
  BY <1>1, <1>4, SeqDef
<1> QED
  BY <1>1, <1>3, <1>5 DEF OpenRows, RowsPositive, Sold, Held

----------------------------------------------------------------------------
(* The invariant: what is queued or being sent fits what is held.          *)

QueueFits ==
    /\ queue.action = "buy" => ~Held /\ queue.qty > 0
    /\ queue.action = "sell" => Held

SentFits ==
    \/ sent = NoOrder
    \/ running /\ sent.action = "buy" /\ sent.qty > 0 /\ ~Held
    \/ running /\ sent.action = "sell" /\ Held

EtfInv ==
    /\ EtfTypes /\ RowsPositive /\ EtfMemoryIsTable /\ SentFits
    /\ running => QueueFits
    /\ ~running => queue.action = "none"

\* Nothing is open when nothing is held, and what is held is a row's.
LEMMA HeldIsOpen ==
    ASSUME EtfInv, running
    PROVE  /\ ~Held => OpenRows = {}
           /\ Held => position.qty > 0
<1>1. OpenRows \subseteq DOMAIN rows
  BY DEF OpenRows
<1> QED
  BY <1>1 DEF EtfInv, EtfMemoryIsTable, RowsPositive

\* The steps that only clear the queue, or leave it.
LEMMA Framed ==
    ASSUME EtfInv, UNCHANGED <<position, rows, running>>,
           queue' \in {queue, NoQueue}, sent' \in {sent, NoOrder}, stock' \in Nat
    PROVE  EtfInv'
<1>1. queue' \in Queued /\ sent' \in Order
  BY OrderTyped DEF EtfInv, EtfTypes
<1>2. EtfTypes' /\ RowsPositive' /\ Held' = Held /\ OpenRows' = OpenRows
  BY <1>1 DEF EtfInv, EtfTypes, RowsPositive, Held, OpenRows
<1>3. \/ queue'.action = "none"
      \/ queue'.action = queue.action /\ queue'.qty = queue.qty
  BY OrderTyped
<1>4. SentFits'
  BY <1>2 DEF EtfInv, SentFits
<1>5. EtfMemoryIsTable'
  BY <1>2 DEF EtfInv, EtfMemoryIsTable
<1> QED
  BY <1>2, <1>3, <1>4, <1>5 DEF EtfInv, QueueFits

\* An order that is done: one row, and the position it says.
LEMMA Recorded ==
    ASSUME EtfInv, running, NEW action, NEW qty \in Nat, NEW price \in Nat,
           \/ action = "buy" /\ ~Held /\ qty > 0 /\ Bought(qty, price)
           \/ action = "sell" /\ Sold,
           QueueCleared, sent' = NoOrder, UNCHANGED <<running, stock>>
    PROVE  EtfInv'
<1> USE OrderTyped DEF QueueCleared
<1>1. EtfTypes /\ RowsPositive
  BY DEF EtfInv
<1>2. CASE action = "buy" /\ ~Held /\ qty > 0 /\ Bought(qty, price)
  <2>1. OpenRows = {} /\ qty \in Nat \ {0}
    BY <1>2, HeldIsOpen
  <2>2. /\ rows' \in Seq(Row) /\ RowsPositive'
        /\ position' \in [qty : Nat, price : Nat, days : Nat]
        /\ Held' /\ position'.qty = qty
        /\ \E last \in DOMAIN rows' :
              /\ OpenRows' = {last}
              /\ rows'[last].qty = qty
              /\ rows'[last].price = position'.price
    BY <1>1, <1>2, <2>1, Inserted
  <2>3. EtfMemoryIsTable'
    BY <2>2 DEF EtfMemoryIsTable
  <2> QED
    BY <1>1, <2>2, <2>3 DEF EtfInv, EtfTypes, SentFits, QueueFits
<1>3. CASE Sold
  <2>1. /\ rows' \in Seq(Row) /\ RowsPositive' /\ OpenRows' = {}
        /\ position' = NoPosition /\ ~Held'
    BY <1>1, <1>3, AllClosed
  <2>2. EtfMemoryIsTable'
    BY <2>1 DEF EtfMemoryIsTable
  <2> QED
    BY <1>1, <2>1, <2>2 DEF EtfInv, EtfTypes, SentFits, QueueFits, NoPosition
<1> QED
  BY <1>2, <1>3

\* A holding keeps its quantity; a buy is queued without one, a sell with.
LEMMA Evaluated ==
    ASSUME EtfInv, running, NEW bar \in Bars, NEW quote \in Quotes,
           Evaluate(bar, quote), UNCHANGED <<rows, running, sent, stock>>
    PROVE  EtfInv'
<1> USE EtfAssumption, OrderTyped
<1>1. EtfTypes
  BY DEF EtfInv
<1>2. /\ position' \in [qty : Nat, price : Nat, days : Nat]
      /\ position'.qty = position.qty /\ position'.price = position.price
      /\ Held' = Held
  <2>1. CASE UNCHANGED position
    BY <1>1, <2>1 DEF EtfTypes, Held
  <2>2. CASE Held /\ position' = [position EXCEPT !.days = HeldOneMoreDay]
    <3>1. HeldOneMoreDay \in Nat
      BY <1>1 DEF EtfTypes, HeldOneMoreDay
    <3>2. /\ position' \in [qty : Nat, price : Nat, days : Nat]
          /\ position'.qty = position.qty /\ position'.price = position.price
      BY <1>1, <2>2, <3>1 DEF EtfTypes
    <3>3. position.qty > 0
      BY <2>2, HeldIsOpen
    <3> QED
      BY <2>2, <3>2, <3>3 DEF Held, NoPosition
  <2> QED
    BY <2>1, <2>2 DEF Evaluate
<1>3. queue' \in Queued /\ QueueFits'
  <2>1. CASE UNCHANGED queue
    BY <1>1, <1>2, <2>1 DEF EtfTypes, EtfInv, QueueFits
  <2>2. CASE queue' = NoQueue
    BY <2>2 DEF QueueFits
  <2>3. CASE Held /\ queue' = Decide("sell", 0)
    BY <1>2, <2>3 DEF QueueFits
  <2>4. CASE ~Held /\ BuyQty(quote) > 0 /\ queue' = Decide("buy", BuyQty(quote))
    BY <1>1, <1>2, <2>4, BuyQtyNat DEF QueueFits
  <2> QED
    BY <2>1, <2>2, <2>3, <2>4 DEF Evaluate
<1>4. EtfTypes' /\ RowsPositive' /\ OpenRows' = OpenRows
  BY <1>1, <1>2, <1>3 DEF EtfInv, EtfTypes, RowsPositive, OpenRows
<1>5. EtfMemoryIsTable'
  BY <1>2, <1>4 DEF EtfInv, EtfMemoryIsTable
<1>6. SentFits'
  BY <1>2 DEF EtfInv, SentFits
<1> QED
  BY <1>3, <1>4, <1>5, <1>6 DEF EtfInv

\* The open row, if there is one, comes back.
LEMMA RestoredIsOpen ==
    ASSUME EtfInv
    PROVE  /\ Restored \in [qty : Nat, price : Nat, days : Nat]
           /\ OpenRows = {} => Restored = NoPosition
           /\ \A i \in OpenRows : /\ Restored # NoPosition
                                  /\ Restored.qty = rows[i].qty
                                  /\ Restored.price = rows[i].price
<1>1. CASE OpenRows = {}
  BY <1>1 DEF Restored, NoPosition
<1>2. ASSUME NEW i \in OpenRows
      PROVE  /\ Restored = [qty |-> rows[i].qty, price |-> rows[i].price, days |-> 0]
             /\ rows[i] \in Row /\ rows[i].qty > 0
  <2>1. rows \in Seq(Row) /\ DOMAIN rows = 1..Len(rows) /\ Len(rows) \in Nat
    BY LenProperties DEF EtfInv, EtfTypes
  <2>2. i \in 1..Len(rows)
    BY <2>1 DEF OpenRows
  <2>3. rows[i] \in Row /\ rows[i].qty > 0
    BY <2>1, <2>2, ElementOfSeq DEF EtfInv, RowsPositive
  <2>4. \A j \in OpenRows : j = i
    BY DEF EtfInv, EtfMemoryIsTable
  <2>5. i <= i
    BY <2>2
  <2>6. (CHOOSE k \in OpenRows : \A j \in OpenRows : j <= k) = i
    BY <2>4, <2>5
  <2> QED
    BY <2>3, <2>6 DEF Restored
<1> QED
  BY <1>1, <1>2 DEF NoPosition, Row

----------------------------------------------------------------------------
LEMMA Inductive ==
    /\ Init => EtfInv
    /\ EtfInv /\ [Next]_vars => EtfInv'
<1>1. ASSUME Init PROVE EtfInv
  <2>1. EtfTypes
    BY <1>1, EtfAssumption, OrderTyped DEF Init, EtfTypes, NoPosition
  <2>2. OpenRows = {} /\ RowsPositive /\ ~Held
    BY <1>1 DEF Init, OpenRows, RowsPositive, Held
  <2> QED
    BY <1>1, <2>1, <2>2, OrderTyped
    DEF Init, EtfInv, EtfMemoryIsTable, SentFits, QueueFits
<1>2. ASSUME EtfInv, [Next]_vars PROVE EtfInv'
  <2> USE EtfAssumption, OrderTyped
  <2>1. EtfTypes /\ stock \in Nat
    BY <1>2 DEF EtfInv, EtfTypes
  <2>2. CASE StartScreening
    BY <1>2, <2>1, <2>2, Framed DEF StartScreening, etfVars, deskVars
  <2>3. ASSUME NEW w \in Callers, NEW bar \in Bars, NEW quote \in Quotes,
               ScreeningSucceeds(w, bar, quote)
        PROVE  EtfInv'
    BY <1>2, <2>3, Evaluated DEF ScreeningSucceeds, deskVars
  <2>4. ASSUME NEW w \in Callers, ScreeningFails(w) PROVE EtfInv'
    BY <1>2, <2>1, <2>4, Framed DEF ScreeningFails, etfVars, deskVars
  <2>5. CASE SubmitNothing \/ SubmitRefused
    BY <1>2, <2>1, <2>5, Framed
    DEF SubmitNothing, SubmitRefused, QueueCleared, deskVars
  <2>6. CASE SubmitPaper
    <3>1. /\ running /\ UNCHANGED <<running, stock>> /\ QueueCleared
          /\ sent' = NoOrder
      BY <2>6 DEF SubmitPaper, Submitting, deskVars
    <3>2. queue.qty \in Nat /\ (queue.action = "buy" => ~Held /\ queue.qty > 0)
      BY <1>2, <2>1, <3>1 DEF EtfInv, EtfTypes, Queued, QueueFits
    <3>3. \/ /\ queue.action = "buy"
             /\ \E price \in Nat : Bought(queue.qty, price)
          \/ queue.action = "sell" /\ Sold
      BY <2>6, PricesNat DEF SubmitPaper, Submittable
    <3> QED
      BY <1>2, <3>1, <3>2, <3>3, Recorded
  <2>7. CASE SubmitLive
    <3>1. /\ running /\ sent = NoOrder
          /\ UNCHANGED <<position, queue, rows, running, stock>>
      BY <2>7 DEF SubmitLive, Submitting, etfVars, deskVars
    <3>2. /\ sent' \in Order /\ sent'.action = queue.action
          /\ queue.action = "buy" => sent'.qty = queue.qty
      <4>1. PICK quote \in Quotes :
               sent' = [action |-> queue.action, price |-> quote,
                        qty |-> IF queue.action = "buy" THEN queue.qty
                                                        ELSE position.qty]
        BY <2>7 DEF SubmitLive
      <4> QED
        BY <2>1, <4>1 DEF EtfTypes, Order, Queued
    <3>3. EtfTypes' /\ RowsPositive' /\ OpenRows' = OpenRows /\ Held' = Held
      BY <1>2, <3>1, <3>2 DEF EtfInv, EtfTypes, RowsPositive, OpenRows, Held
    <3>4. SentFits'
      BY <1>2, <2>7, <3>1, <3>2, <3>3
      DEF EtfInv, QueueFits, SentFits, SubmitLive, Submittable
    <3>5. EtfMemoryIsTable'
      BY <1>2, <3>1, <3>3 DEF EtfInv, EtfMemoryIsTable
    <3> QED
      BY <1>2, <3>1, <3>3, <3>4, <3>5 DEF EtfInv, QueueFits
  <2>8. CASE SubmitAccepted
    <3>1. /\ UNCHANGED <<running, stock>> /\ QueueCleared
          /\ sent' = NoOrder /\ sent # NoOrder
      BY <2>8 DEF SubmitAccepted, deskVars
    <3>2. /\ running /\ sent.qty \in Nat /\ sent.price \in Nat
          /\ \/ sent.action = "buy" /\ ~Held /\ sent.qty > 0
             \/ sent.action = "sell"
      BY <1>2, <2>1, <3>1 DEF EtfInv, SentFits, EtfTypes, Order
    <3>3. \/ sent.action = "buy" /\ Bought(sent.qty, sent.price)
          \/ sent.action = "sell" /\ Sold
      BY <2>8, <3>2 DEF SubmitAccepted
    <3> QED
      BY <1>2, <3>1, <3>2, <3>3, Recorded
  <2>9. CASE SubmitRejected \/ SubmitReplyLost
    BY <1>2, <2>1, <2>9, Framed
    DEF SubmitRejected, SubmitReplyLost, QueueCleared, deskVars
  <2>10. CASE StockBought \/ StockSold
    <3>1. /\ stock' \in Nat
          /\ UNCHANGED <<position, queue, rows, running, sent>>
      BY <2>1, <2>10 DEF StockBought, StockSold, StockMoney, etfVars
    <3> QED
      BY <1>2, <2>1, <3>1, Framed
  <2>11. CASE (\E no \in OrderNo : Filled(no)) \/ Cleanup
    BY <1>2, <2>1, <2>11, Framed DEF Filled, Cleanup, etfVars, deskVars
  <2>12. CASE Clock
    <3>1. UNCHANGED <<position, queue, rows, running, sent, stock>>
      BY <2>12 DEF Clock, InTime, Suspended, Misfired, At, etfVars
    <3> QED
      BY <1>2, <2>1, <3>1, Framed
  <2>13. CASE Crash
    <3>1. /\ UNCHANGED <<rows, stock>> /\ ~running'
          /\ position' = NoPosition /\ queue' = NoQueue /\ sent' = NoOrder
      BY <2>13 DEF Crash, deskVars
    <3>2. EtfTypes' /\ RowsPositive' /\ OpenRows' = OpenRows
      BY <1>2, <2>1, <3>1 DEF EtfInv, EtfTypes, RowsPositive, OpenRows, NoPosition
    <3> QED
      BY <1>2, <3>1, <3>2 DEF EtfInv, EtfMemoryIsTable, SentFits
  <2>14. CASE Restart
    <3>1. /\ UNCHANGED <<rows, queue, sent, stock>> /\ ~running
          /\ running' /\ position' = Restored
      BY <2>14 DEF Restart, deskVars
    <3>2. EtfTypes' /\ RowsPositive' /\ OpenRows' = OpenRows
      BY <1>2, <2>1, <3>1, RestoredIsOpen
      DEF EtfInv, EtfTypes, RowsPositive, OpenRows
    <3>3. EtfMemoryIsTable'
      BY <1>2, <3>1, <3>2, RestoredIsOpen DEF EtfInv, EtfMemoryIsTable, Held
    <3> QED
      BY <1>2, <3>1, <3>2, <3>3 DEF EtfInv, SentFits, QueueFits
  <2>15. CASE UNCHANGED vars
    BY <1>2, <2>1, <2>15, Framed DEF vars, etfVars, deskVars
  <2> QED
    BY <1>2, <2>2, <2>3, <2>4, <2>5, <2>6, <2>7, <2>8, <2>9, <2>10, <2>11,
       <2>12, <2>13, <2>14, <2>15
    DEF Next, Submit
<1> QED
  BY <1>1, <1>2

(***************************************************************************)
(* While the engine runs, the position in memory is the one open row of    *)
(* its table, through refusals, lost replies, crashes and restarts.        *)
(***************************************************************************)
THEOREM EtfMemory == Spec => []EtfMemoryIsTable
<1>1. EtfInv => EtfMemoryIsTable
  BY DEF EtfInv
<1> QED
  BY <1>1, Inductive, PTL DEF Spec

(***************************************************************************)
(* A queue that outlives its day buys only when nothing is held and sells  *)
(* only what is: no order of it can double a position.                     *)
(***************************************************************************)
THEOREM EtfQueue == Spec => []EtfQueueFits
<1>1. EtfInv => EtfQueueFits
  BY DEF EtfInv, EtfQueueFits, QueueFits
<1> QED
  BY <1>1, Inductive, PTL DEF Spec

----------------------------------------------------------------------------
(* The broker's book under the steps that touch it.                        *)

BookInv ==
    /\ OrdersTypeOK
    /\ \A no \in OrderNo : book[no].state = "none" => book[no].side = "none"

\* What an order is, and that it is new.
LEMMA Issued ==
    ASSUME BookInv, NEW no \in OrderNo, NEW side \in Sides, NEW qty \in Nat,
           Fresh(no), book' = WithOrder(no, EtfCode, side, qty)
    PROVE  /\ book' \in [OrderNo -> BookEntry]
           /\ \A n \in OrderNo : book'[n].state = "none" => book'[n].side = "none"
           /\ no \notin OrdersOf(side)
           /\ OrdersOf(side)' = OrdersOf(side) \cup {no}
           /\ \A other \in Sides \ {side} : OrdersOf(other)' = OrdersOf(other)
<1> DEFINE new == [code |-> EtfCode, side |-> side, qty |-> qty, state |-> "working"]
<1>1. new \in BookEntry /\ new.side = side /\ new.state = "working"
  BY EtfAssumption DEF BookEntry, OrderStates
<1>2. book' = [book EXCEPT ![no] = new] /\ book \in [OrderNo -> BookEntry]
  BY DEF WithOrder, BookInv, OrdersTypeOK
<1> HIDE DEF new
<1>3. book' \in [OrderNo -> BookEntry]
  BY <1>1, <1>2
<1>4. /\ book'[no].side = side /\ book'[no].state = "working"
      /\ \A n \in OrderNo \ {no} : book'[n] = book[n]
  BY <1>1, <1>2
<1>5. no \notin OrdersOf("buy") /\ no \notin OrdersOf("sell")
  BY DEF BookInv, Fresh, OrdersOf
<1> QED
  BY <1>3, <1>4, <1>5 DEF OrdersOf, Sides, BookInv

LEMMA BookTyped ==
    ASSUME BookInv, pending' \subseteq OrderNo, NEW side \in Sides, NEW qty \in Nat,
           \/ UNCHANGED book
           \/ \E no \in OrderNo :
                 Fresh(no) /\ book' = WithOrder(no, EtfCode, side, qty)
    PROVE  /\ BookInv'
           /\ \A any \in Sides : OrdersOf(any) \subseteq OrdersOf(any)'
<1>1. CASE UNCHANGED book
  BY <1>1 DEF BookInv, OrdersTypeOK, OrdersOf
<1>2. ASSUME NEW no \in OrderNo, Fresh(no), book' = WithOrder(no, EtfCode, side, qty)
      PROVE  /\ BookInv'
             /\ \A any \in Sides : OrdersOf(any) \subseteq OrdersOf(any)'
  <2>1. /\ book' \in [OrderNo -> BookEntry]
        /\ \A n \in OrderNo : book'[n].state = "none" => book'[n].side = "none"
        /\ OrdersOf(side)' = OrdersOf(side) \cup {no}
        /\ \A other \in Sides \ {side} : OrdersOf(other)' = OrdersOf(other)
    BY <1>2, Issued
  <2> QED
    BY <2>1 DEF BookInv, OrdersTypeOK
<1> QED
  BY <1>1, <1>2

\* A fill or a cancellation changes what an order's state is, not its side.
LEMMA BookMoves ==
    ASSUME BookInv, (\E no \in OrderNo : OrderFilled(no)) \/ Cleanup
    PROVE  BookInv' /\ \A side \in Sides : OrdersOf(side)' = OrdersOf(side)
<1>1. ASSUME NEW gone \in SUBSET OrderNo, NEW state \in OrderStates \ {"none"},
             book' = [no \in OrderNo |-> IF no \in gone
                         THEN [book[no] EXCEPT !.state = state] ELSE book[no]],
             pending' \subseteq OrderNo
      PROVE  BookInv' /\ \A side \in Sides : OrdersOf(side)' = OrdersOf(side)
  <2>1. \A no \in OrderNo : /\ [book[no] EXCEPT !.state = state] \in BookEntry
                            /\ [book[no] EXCEPT !.state = state].side = book[no].side
                            /\ [book[no] EXCEPT !.state = state].state = state
    BY DEF BookInv, OrdersTypeOK, BookEntry
  <2>2. \A no \in OrderNo : /\ book'[no] \in BookEntry /\ book'[no].side = book[no].side
                            /\ book'[no].state \in {book[no].state, state}
    BY <1>1, <2>1 DEF BookInv, OrdersTypeOK
  <2>3. book' \in [OrderNo -> BookEntry]
    BY <1>1, <2>2
  <2> QED
    BY <1>1, <2>2, <2>3 DEF BookInv, OrdersTypeOK, OrdersOf
<1>2. ASSUME NEW no \in OrderNo, OrderFilled(no)
      PROVE  BookInv' /\ \A side \in Sides : OrdersOf(side)' = OrdersOf(side)
  <2>1. book' = [n \in OrderNo |-> IF n \in {no}
                    THEN [book[n] EXCEPT !.state = "filled"] ELSE book[n]]
    BY <1>2 DEF OrderFilled, BookInv, OrdersTypeOK
  <2>2. pending' \subseteq OrderNo /\ "filled" \in OrderStates \ {"none"} /\ {no} \in SUBSET OrderNo
    BY <1>2 DEF OrderFilled, BookInv, OrdersTypeOK, OrderStates
  <2> QED
    BY <1>1, <2>1, <2>2
<1>3. CASE Cleanup
  <2>1. PICK gone \in SUBSET {no \in pending : book[no].state = "working"} :
          /\ book' = [no \in OrderNo |-> IF no \in gone
                         THEN [book[no] EXCEPT !.state = "cancelled"]
                         ELSE book[no]]
          /\ \E told \in SUBSET gone : pending' = pending \ told
    BY <1>3 DEF Cleanup
  <2>2. /\ pending' \subseteq OrderNo /\ "cancelled" \in OrderStates \ {"none"}
        /\ gone \in SUBSET OrderNo
    BY <2>1 DEF BookInv, OrdersTypeOK, OrderStates
  <2> QED
    BY <1>1, <2>1, <2>2
<1> QED
  BY <1>2, <1>3

LEMMA BookKept == EtfInv /\ BookInv /\ [Next]_vars => BookInv'
<1> SUFFICES ASSUME EtfInv, BookInv, [Next]_vars PROVE BookInv'
  OBVIOUS
<1>1. /\ pending \subseteq OrderNo /\ sent.qty \in Nat
      /\ sent # NoOrder => sent.action \in Sides
  BY DEF BookInv, OrdersTypeOK, EtfInv, EtfTypes, Order, SentFits, Sides
<1>2. CASE UNCHANGED orderVars
  BY <1>2 DEF orderVars, BookInv, OrdersTypeOK
<1>3. CASE SubmitAccepted
  BY <1>1, <1>3, BookTyped DEF SubmitAccepted, OrderAccepted
<1>4. CASE SubmitReplyLost
  BY <1>1, <1>4, BookTyped DEF SubmitReplyLost, OrderReplyLost
<1>5. CASE Crash
  <2>1. CASE sent = NoOrder
    BY <1>5, <2>1 DEF Crash, BookInv, OrdersTypeOK
  <2>2. CASE sent # NoOrder
    BY <1>1, <1>5, <2>2, BookTyped DEF Crash, OrderReplyLost
  <2> QED
    BY <2>1, <2>2
<1>6. CASE (\E no \in OrderNo : Filled(no)) \/ Cleanup
  BY <1>6, BookMoves DEF Filled
<1>7. \/ UNCHANGED orderVars \/ SubmitAccepted \/ SubmitReplyLost \/ Crash
      \/ (\E no \in OrderNo : Filled(no)) \/ Cleanup
  BY DEF Next, Submit, StartScreening, ScreeningSucceeds, ScreeningFails, SubmitNothing,
         SubmitPaper, SubmitRefused, SubmitLive, SubmitRejected, StockBought, StockSold,
         Clock, InTime, Suspended, Misfired, At, Restart, vars
<1> QED
  BY <1>2, <1>3, <1>4, <1>5, <1>6, <1>7

----------------------------------------------------------------------------
(* The stock money and the bound of the table.                             *)

\* What is queued or sent to buy has room for its row.
RoomFor(order) == order.action = "buy" => Len(rows) < MaxEtfRows

DayInv ==
    /\ stock \in 0..Capital /\ Len(rows) <= MaxEtfRows
    /\ RoomFor(queue) /\ RoomFor(sent)

\* An order that is done is written to the table, where there was room.
LEMMA RecordedFits ==
    ASSUME EtfInv, DayInv, NEW action, NEW qty \in Nat, NEW price \in Nat,
           \/ action = "buy" /\ Len(rows) < MaxEtfRows /\ Bought(qty, price)
           \/ action = "sell" /\ Sold,
           QueueCleared, sent' = NoOrder, UNCHANGED stock
    PROVE  DayInv'
<1>1. rows \in Seq(Row) /\ Len(rows) \in Nat
  BY LenProperties DEF EtfInv, EtfTypes
<1>2. sent'.action = "none" /\ queue'.action = "none"
  BY OrderTyped DEF QueueCleared
<1>3. CASE Len(rows) < MaxEtfRows /\ Bought(qty, price)
  <2>1. Len(rows') = Len(rows) + 1
    BY <1>1, <1>3 DEF Bought, Row
  <2> QED
    BY <1>1, <1>2, <1>3, <2>1, EtfAssumption DEF DayInv, RoomFor
<1>4. CASE Sold
  <2>1. Len(rows') = Len(rows)
    <3>1. /\ DOMAIN rows = 1..Len(rows)
          /\ rows' = [i \in 1..Len(rows) |-> [rows[i] EXCEPT !.open = FALSE]]
      BY <1>1, <1>4, LenProperties DEF Sold
    <3>2. rows' \in Seq(Row)
      BY <1>4, AllClosed DEF EtfInv
    <3>3. DOMAIN rows' = 1..Len(rows) /\ DOMAIN rows' = 1..Len(rows') /\ Len(rows') \in Nat
      BY <3>1, <3>2, LenProperties
    <3> QED
      BY <1>1, <3>3
  <2> QED
    BY <1>2, <2>1 DEF DayInv, RoomFor
<1> QED
  BY <1>3, <1>4

LEMMA DayKept ==
    /\ Init => DayInv
    /\ EtfInv /\ DayInv /\ [Next]_vars => DayInv'
<1> USE OrderTyped
<1>1. ASSUME Init PROVE DayInv
  <2>1. Len(rows) = 0 /\ stock = 0
    BY <1>1 DEF Init
  <2> QED
    BY <1>1, <2>1, EtfAssumption DEF Init, DayInv, RoomFor
<1>2. ASSUME EtfInv, DayInv, [Next]_vars PROVE DayInv'
  <2>1. /\ EtfTypes /\ Len(rows) \in Nat /\ queue \in Queued /\ sent \in Order
        /\ stock \in 0..Capital /\ Capital \in Nat
        /\ RoomFor(queue) /\ RoomFor(sent)
    BY <1>2, LenProperties, EtfAssumption DEF EtfInv, EtfTypes, DayInv
  <2>2. ASSUME UNCHANGED rows, stock' \in 0..Capital,
               queue' \in {queue, NoQueue}, sent' \in {sent, NoOrder}
        PROVE  DayInv'
    BY <1>2, <2>1, <2>2 DEF DayInv, RoomFor
  <2>3. CASE \/ StartScreening \/ (\E w \in Callers : ScreeningFails(w))
             \/ SubmitNothing \/ SubmitRefused \/ SubmitRejected \/ SubmitReplyLost
             \/ StockBought \/ StockSold \/ (\E no \in OrderNo : Filled(no)) \/ Cleanup
             \/ Clock \/ Crash \/ Restart \/ UNCHANGED vars
    <3>1. /\ UNCHANGED rows /\ stock' \in 0..Capital
          /\ queue' \in {queue, NoQueue} /\ sent' \in {sent, NoOrder}
      BY <2>1, <2>3
      DEF StartScreening, ScreeningFails, SubmitNothing, SubmitRefused, SubmitRejected,
          SubmitReplyLost, StockBought, StockSold, StockMoney, Filled, Cleanup, Clock,
          InTime, Suspended, Misfired, At, Crash, Restart, vars, etfVars, deskVars,
          QueueCleared
    <3> QED
      BY <2>2, <3>1
  <2>4. ASSUME NEW w \in Callers, NEW bar \in Bars, NEW quote \in Quotes,
               ScreeningSucceeds(w, bar, quote)
        PROVE  DayInv'
    <3>1. Evaluate(bar, quote) /\ UNCHANGED <<rows, stock, sent>>
      BY <2>4 DEF ScreeningSucceeds, deskVars
    <3>2. RoomFor(queue)'
      BY <2>1, <3>1 DEF Evaluate, IbsEntry, Decide, RoomFor
    <3> QED
      BY <1>2, <2>1, <3>1, <3>2 DEF DayInv, RoomFor
  <2>5. CASE SubmitPaper
    <3>1. /\ sent = NoOrder /\ QueueCleared /\ sent' = NoOrder /\ UNCHANGED stock
          /\ queue.qty \in Nat
      BY <2>1, <2>5 DEF SubmitPaper, Submitting, deskVars, Queued
    <3>2. \/ /\ queue.action = "buy"
             /\ \E price \in Nat : Bought(queue.qty, price)
          \/ queue.action = "sell" /\ Sold
      BY <2>5, PricesNat DEF SubmitPaper, Submittable
    <3> QED
      BY <1>2, <2>1, <3>1, <3>2, RecordedFits DEF RoomFor
  <2>6. CASE SubmitLive
    <3>1. /\ UNCHANGED <<rows, queue, stock>> /\ sent'.action = queue.action
      BY <2>6 DEF SubmitLive, etfVars, deskVars
    <3> QED
      BY <1>2, <2>1, <3>1 DEF DayInv, RoomFor
  <2>7. CASE SubmitAccepted
    <3>1. /\ sent # NoOrder /\ QueueCleared /\ sent' = NoOrder /\ UNCHANGED stock
          /\ sent.qty \in Nat /\ sent.price \in Nat
      BY <2>1, <2>7 DEF SubmitAccepted, deskVars, Order
    <3>2. \/ sent.action = "buy" /\ Bought(sent.qty, sent.price)
          \/ sent.action = "sell" /\ Sold
      BY <1>2, <2>7 DEF SubmitAccepted, EtfInv, SentFits
    <3> QED
      BY <1>2, <2>1, <3>1, <3>2, RecordedFits DEF RoomFor
  <2> QED
    BY <1>2, <2>3, <2>4, <2>5, <2>6, <2>7 DEF Next, Submit
<1> QED
  BY <1>1, <1>2

----------------------------------------------------------------------------
(* Types.                                                                  *)

DeskTypes ==
    /\ mode \in Modes /\ running \in BOOLEAN
    /\ position.days \in 0..MaxHoldDays
    /\ screening \in [Callers -> 0..(MaxRetries + 1)]
    /\ phase \in Phases /\ due \subseteq {"screen", "submit", "cleanup"}
    /\ faults \in 0..MaxFaults

LEMMA DeskTyped ==
    /\ Init => DeskTypes
    /\ EtfInv /\ DeskTypes /\ [Next]_vars => DeskTypes'
<1> USE EtfAssumption DEF DeskTypes, Callers
<1>1. Init => DeskTypes
  BY DEF Init, NoPosition, NoScreening, Phases
<1>2. ASSUME EtfInv, DeskTypes, [Next]_vars PROVE DeskTypes'
  <2>1. NoPosition.days = 0 /\ NoScreening \in [Callers -> 0..(MaxRetries + 1)]
    BY DEF NoPosition, NoScreening
  <2>2. CASE StartScreening
    <3>1. screening' \in [Callers -> 0..(MaxRetries + 1)]
      BY <1>2, <2>2 DEF StartScreening
    <3> QED
      BY <1>2, <2>2, <3>1 DEF StartScreening, etfVars, deskVars
  <2>3. ASSUME NEW w \in Callers, NEW bar \in Bars, NEW quote \in Quotes,
               ScreeningSucceeds(w, bar, quote)
        PROVE  DeskTypes'
    <3>1. screening' \in [Callers -> 0..(MaxRetries + 1)]
      BY <1>2, <2>3 DEF ScreeningSucceeds
    <3>2. HeldOneMoreDay \in 0..MaxHoldDays
      BY <1>2 DEF HeldOneMoreDay
    <3>3. position'.days \in 0..MaxHoldDays
      BY <1>2, <2>3, <3>2 DEF ScreeningSucceeds, Evaluate, EtfInv, EtfTypes
    <3> QED
      BY <1>2, <2>3, <3>1, <3>3 DEF ScreeningSucceeds, deskVars
  <2>4. ASSUME NEW w \in Callers, ScreeningFails(w) PROVE DeskTypes'
    <3>1. NextAttempt(screening[w]) \in 0..(MaxRetries + 1)
      BY <1>2 DEF NextAttempt
    <3>2. screening' \in [Callers -> 0..(MaxRetries + 1)]
      BY <1>2, <2>4, <3>1 DEF ScreeningFails
    <3> QED
      BY <1>2, <2>4, <3>2 DEF ScreeningFails, etfVars, deskVars
  <2>5. CASE Submit
    <3>1. /\ UNCHANGED <<deskVars, running, screening>> /\ due' \subseteq due
          /\ faults' = faults \/ Fault
      BY <2>5
      DEF Submit, SubmitNothing, SubmitPaper, SubmitRefused, SubmitLive, SubmitAccepted,
          SubmitRejected, SubmitReplyLost, Submitting
    <3>2. position' = position \/ (\E q, p \in Nat : Bought(q, p)) \/ Sold
      <4>1. CASE SubmitPaper
        BY <1>2, <4>1, PricesNat DEF SubmitPaper, EtfInv, EtfTypes, Queued
      <4>2. CASE SubmitAccepted
        BY <1>2, <4>2 DEF SubmitAccepted, EtfInv, EtfTypes, Order
      <4>3. CASE ~(SubmitPaper \/ SubmitAccepted)
        BY <2>5, <4>3
        DEF Submit, SubmitNothing, SubmitRefused, SubmitLive, SubmitRejected,
            SubmitReplyLost, etfVars
      <4> QED
        BY <4>1, <4>2, <4>3
    <3>3. position'.days \in 0..MaxHoldDays
      <4>1. CASE position' = position
        BY <1>2, <4>1
      <4>2. CASE (\E q, p \in Nat : Bought(q, p)) \/ Sold
        <5>1. ASSUME NEW q \in Nat, NEW p \in Nat, Bought(q, p) PROVE position'.days = 0
          BY <5>1 DEF Bought
        <5>2. Sold => position'.days = 0
          BY <2>1 DEF Sold
        <5> QED
          BY <4>2, <5>1, <5>2
      <4> QED
        BY <3>2, <4>1, <4>2
    <3>4. faults' \in 0..MaxFaults
      BY <1>2, <3>1 DEF Fault
    <3> QED
      BY <1>2, <3>1, <3>3, <3>4 DEF deskVars
  <2>6. CASE StockBought \/ StockSold \/ (\E no \in OrderNo : Filled(no)) \/ Cleanup
    BY <1>2, <2>6 DEF StockBought, StockSold, Filled, Cleanup, etfVars, deskVars
  <2>7. CASE Clock
    <3>1. /\ UNCHANGED <<mode, running, position, screening>>
          /\ faults' = faults \/ Fault
          /\ phase' \in Phases /\ due' \subseteq {"screen", "submit", "cleanup"}
      BY <1>2, <2>7 DEF Clock, InTime, Suspended, Misfired, At, Phases, etfVars
    <3>2. faults' \in 0..MaxFaults
      BY <1>2, <3>1 DEF Fault
    <3> QED
      BY <1>2, <3>1, <3>2
  <2>8. CASE Crash
    <3>1. /\ running' = FALSE /\ position' = NoPosition /\ screening' = NoScreening
          /\ due' = {} /\ Fault /\ UNCHANGED deskVars
      BY <2>8 DEF Crash
    <3>2. faults' \in 0..MaxFaults
      BY <1>2, <3>1 DEF Fault
    <3>3. position'.days \in 0..MaxHoldDays /\ screening' \in [Callers -> 0..(MaxRetries + 1)]
      BY <2>1, <3>1
    <3>4. UNCHANGED <<mode, phase>>
      BY <3>1 DEF deskVars
    <3> QED
      BY <1>2, <3>1, <3>2, <3>3, <3>4
  <2>9. CASE Restart
    <3>1. Restored.days = 0
      BY <2>1 DEF Restored
    <3>2. screening' \in [Callers -> 0..(MaxRetries + 1)]
      BY <2>1, <2>9 DEF Restart
    <3> QED
      BY <1>2, <2>9, <3>1, <3>2 DEF Restart, deskVars
  <2>10. CASE UNCHANGED vars
    BY <1>2, <2>10 DEF vars, etfVars, deskVars
  <2> QED
    BY <1>2, <2>2, <2>3, <2>4, <2>5, <2>6, <2>7, <2>8, <2>9, <2>10 DEF Next
<1> QED
  BY <1>1, <1>2

LEMMA TypesFollow == EtfInv /\ BookInv /\ DayInv /\ DeskTypes => TypeOK
<1> SUFFICES ASSUME EtfInv, BookInv, DayInv, DeskTypes PROVE TypeOK
  OBVIOUS
<1>1. position \in [qty : Nat, price : Nat, days : 0..MaxHoldDays]
  BY DEF EtfInv, EtfTypes, DeskTypes
<1> QED
  BY <1>1 DEF EtfInv, EtfTypes, BookInv, DayInv, DeskTypes, TypeOK

----------------------------------------------------------------------------
(* Rows and the orders behind them.                                        *)

ClosedRows == DOMAIN rows \ OpenRows

LEMMA Finite ==
    /\ \A orders \in SUBSET OrderNo : IsFiniteSet(orders) /\ Cardinality(orders) \in Nat
    /\ \A table \in Seq(Row) : /\ IsFiniteSet(DOMAIN table)
                               /\ Cardinality(DOMAIN table) = Len(table)
                               /\ Len(table) \in Nat
<1>1. IsFiniteSet(OrderNo)
  BY OrdersAssumption, FS_Interval DEF OrderNo
<1>2. \A orders \in SUBSET OrderNo : IsFiniteSet(orders) /\ Cardinality(orders) \in Nat
  BY <1>1, FS_Subset, FS_CardinalityType
<1>3. ASSUME NEW table \in Seq(Row)
      PROVE  /\ IsFiniteSet(DOMAIN table) /\ Cardinality(DOMAIN table) = Len(table)
             /\ Len(table) \in Nat
  <2>1. DOMAIN table = 1..Len(table) /\ Len(table) \in Nat
    BY LenProperties
  <2>2. PICK n \in Nat : n = Len(table)
    BY <2>1
  <2>3. IsFiniteSet(1..n) /\ Cardinality(1..n) = IF 1 > n THEN 0 ELSE n - 1 + 1
    BY FS_Interval
  <2>4. Cardinality(1..n) = n
    BY <2>3
  <2> QED
    BY <2>1, <2>2, <2>3, <2>4
<1> QED
  BY <1>2, <1>3

\* More orders than rows say there are; with no fault, no more.
Covered ==
    LET bought == Cardinality(OrdersOf("buy"))
        closed == Cardinality(ClosedRows)
        ended == Cardinality(OrdersOf("sell"))
    IN  /\ Len(rows) <= bought /\ closed <= ended
        /\ faults = 0 => Len(rows) = bought /\ closed = ended

LEMMA MoreOrders ==
    ASSUME Covered, rows \in Seq(Row), UNCHANGED rows,
           \A side \in Sides : OrdersOf(side) \subseteq OrdersOf(side)',
           faults' = 0 => faults = 0 /\ \A side \in Sides : OrdersOf(side)' = OrdersOf(side)
    PROVE  Covered'
<1>1. ClosedRows' = ClosedRows
  BY DEF ClosedRows, OpenRows
<1>2. ASSUME NEW side \in Sides
      PROVE  /\ Cardinality(OrdersOf(side)) \in Nat /\ Cardinality(OrdersOf(side)') \in Nat
             /\ Cardinality(OrdersOf(side)) <= Cardinality(OrdersOf(side)')
  <2>1. OrdersOf(side) \in SUBSET OrderNo /\ OrdersOf(side)' \in SUBSET OrderNo
    BY DEF OrdersOf
  <2> QED
    BY <2>1, Finite, FS_Subset
<1>3. Len(rows) \in Nat /\ IsFiniteSet(ClosedRows) /\ Cardinality(ClosedRows) \in Nat
  <2>1. IsFiniteSet(DOMAIN rows) /\ ClosedRows \subseteq DOMAIN rows /\ Len(rows) \in Nat
    BY Finite DEF ClosedRows
  <2> QED
    BY <2>1, FS_Subset, FS_CardinalityType
<1>4. "buy" \in Sides /\ "sell" \in Sides
  BY DEF Sides
<1> QED
  BY <1>1, <1>2, <1>3, <1>4 DEF Covered

\* A buy is a new row and a new order, a sell a row closed and a new order.
LEMMA AcceptedCovers ==
    ASSUME EtfInv, BookInv, Covered, SubmitAccepted
    PROVE  Covered'
<1>1. /\ sent # NoOrder /\ running /\ faults' = faults
      /\ \/ sent.action = "buy" /\ sent.qty > 0 /\ ~Held /\ Bought(sent.qty, sent.price)
         \/ sent.action = "sell" /\ Held /\ Sold
  BY DEF SubmitAccepted, EtfInv, SentFits
<1>2. /\ rows \in Seq(Row) /\ rows' \in Seq(Row)
      /\ sent.qty \in Nat /\ sent.price \in Nat /\ sent.action \in Sides /\ EtfTypes /\ RowsPositive
  BY <1>1, Inductive DEF EtfInv, EtfTypes, Order, Sides, Next, Submit
<1>3. ASSUME NEW side \in Sides, side = sent.action
      PROVE  /\ Cardinality(OrdersOf(side)') = Cardinality(OrdersOf(side)) + 1
             /\ \A other \in Sides \ {side} : OrdersOf(other)' = OrdersOf(other)
  <2>1. PICK qty \in Nat : qty = sent.qty
    BY <1>2
  <2>2. PICK no \in OrderNo : Fresh(no) /\ book' = WithOrder(no, EtfCode, side, qty)
    BY <1>3, <2>1 DEF SubmitAccepted, OrderAccepted
  <2>3. /\ no \notin OrdersOf(side)
        /\ OrdersOf(side)' = OrdersOf(side) \cup {no}
        /\ \A other \in Sides \ {side} : OrdersOf(other)' = OrdersOf(other)
    BY <2>1, <2>2, Issued
  <2>4. OrdersOf(side) \in SUBSET OrderNo
    BY DEF OrdersOf
  <2> QED
    BY <2>3, <2>4, Finite, FS_AddElement
<1>4. Sides = {"buy", "sell"}
  BY DEF Sides
<1>6. /\ Cardinality(OrdersOf("buy")) \in Nat /\ Cardinality(OrdersOf("sell")) \in Nat
  BY Finite DEF OrdersOf
<1>7. Len(rows) \in Nat /\ IsFiniteSet(DOMAIN rows) /\ Cardinality(DOMAIN rows) = Len(rows)
  BY <1>2, Finite
<1>8. CASE sent.action = "buy" /\ sent.qty > 0 /\ ~Held /\ Bought(sent.qty, sent.price)
  <2>1. OpenRows = {}
    BY <1>1, <1>8, HeldIsOpen
  <2>2. Len(rows') = Len(rows) + 1 /\ DOMAIN rows' \ OpenRows' = DOMAIN rows
    BY <1>2, <1>8, <2>1, Inserted
  <2>3. ClosedRows' = ClosedRows
    BY <2>1, <2>2 DEF ClosedRows
  <2>4. Cardinality(ClosedRows) \in Nat
    BY <1>7, <2>1 DEF ClosedRows
  <2>5. /\ Cardinality(OrdersOf("buy")') = Cardinality(OrdersOf("buy")) + 1
        /\ OrdersOf("sell")' = OrdersOf("sell")
    BY <1>3, <1>4, <1>8
  <2> QED
    BY <1>1, <1>6, <1>7, <2>2, <2>3, <2>4, <2>5 DEF Covered
<1>9. CASE sent.action = "sell" /\ Held /\ Sold
  <2>1. PICK i \in OpenRows : OpenRows = {i}
    BY <1>1, <1>9 DEF EtfInv, EtfMemoryIsTable
  <2>2. /\ i \in DOMAIN rows
        /\ ClosedRows = DOMAIN rows \ {i}
    BY <2>1 DEF OpenRows, ClosedRows
  <2>3. OpenRows' = {} /\ DOMAIN rows' = DOMAIN rows /\ Len(rows') = Len(rows)
    <3>1. OpenRows' = {}
      BY <1>2, <1>9, AllClosed
    <3>2. DOMAIN rows' = DOMAIN rows
      BY <1>9 DEF Sold
    <3> QED
      BY <1>2, <1>7, <3>1, <3>2, Finite
  <2>4. ClosedRows' = DOMAIN rows
    BY <2>3 DEF ClosedRows
  <2>5. Cardinality(ClosedRows) = Len(rows) - 1
    BY <1>7, <2>2, FS_RemoveElement
  <2>6. /\ Cardinality(OrdersOf("sell")') = Cardinality(OrdersOf("sell")) + 1
        /\ OrdersOf("buy")' = OrdersOf("buy")
    BY <1>3, <1>4, <1>9
  <2> QED
    BY <1>1, <1>6, <1>7, <2>3, <2>4, <2>5, <2>6 DEF Covered
<1> QED
  BY <1>1, <1>8, <1>9

LEMMA BackedKept ==
    EtfInv /\ BookInv /\ DeskTypes /\ EtfRowsBacked /\ [Next]_vars => EtfRowsBacked'
<1> SUFFICES ASSUME EtfInv, BookInv, DeskTypes, EtfRowsBacked, [Next]_vars, mode' = "live"
             PROVE  Covered'
  BY DEF EtfRowsBacked, Covered, ClosedRows
<1>1. mode = "live"
  BY DEF Next, Submit, StartScreening, ScreeningSucceeds, ScreeningFails, SubmitNothing,
         SubmitPaper, SubmitRefused, SubmitLive, SubmitAccepted, SubmitRejected,
         SubmitReplyLost, StockBought, StockSold, Filled, Cleanup, Clock,
         InTime, Suspended, Misfired, At, Crash, Restart, vars, deskVars
<1>2. /\ Covered /\ rows \in Seq(Row) /\ faults \in Nat /\ sent.qty \in Nat
      /\ sent # NoOrder => sent.action \in Sides
      /\ pending \subseteq OrderNo
  <2>1. MaxFaults \in Nat
    BY EtfAssumption
  <2> QED
    BY <1>1, <2>1
    DEF EtfRowsBacked, Covered, ClosedRows, EtfInv, EtfTypes, DeskTypes, Order, SentFits,
        Sides, BookInv, OrdersTypeOK
<1>3. CASE SubmitAccepted
  BY <1>2, <1>3, AcceptedCovers
<1>4. CASE SubmitReplyLost \/ Crash
  <2>1. UNCHANGED rows /\ faults' = faults + 1 /\ pending' \subseteq OrderNo
    BY <1>2, <1>4 DEF SubmitReplyLost, Crash, Fault
  <2>2. \/ UNCHANGED book
        \/ /\ sent # NoOrder
           /\ \E no \in OrderNo :
                 Fresh(no) /\ book' = WithOrder(no, EtfCode, sent.action, sent.qty)
    BY <1>4 DEF SubmitReplyLost, Crash, OrderReplyLost
  <2>3. \A side \in Sides : OrdersOf(side) \subseteq OrdersOf(side)'
    <3>1. CASE UNCHANGED book
      BY <3>1 DEF OrdersOf
    <3>2. CASE sent # NoOrder
      BY <1>2, <2>1, <2>2, <3>2, BookTyped
    <3> QED
      BY <2>2, <3>1, <3>2
  <2> QED
    BY <1>2, <2>1, <2>3, MoreOrders
<1>5. CASE (\E no \in OrderNo : Filled(no)) \/ Cleanup
  <2>1. UNCHANGED <<rows, faults>> /\ \A side \in Sides : OrdersOf(side)' = OrdersOf(side)
    BY <1>5, BookMoves DEF Filled, Cleanup, etfVars
  <2> QED
    BY <1>2, <2>1, MoreOrders
<1>6. CASE UNCHANGED <<book, rows>> /\ faults' \in {faults, faults + 1}
  <2>1. \A side \in Sides : OrdersOf(side)' = OrdersOf(side)
    BY <1>6 DEF OrdersOf
  <2>2. faults' = 0 => faults = 0
    BY <1>2, <1>6
  <2> QED
    BY <1>2, <1>6, <2>1, <2>2, MoreOrders
<1>7. \/ SubmitAccepted \/ SubmitReplyLost \/ Crash
      \/ (\E no \in OrderNo : Filled(no)) \/ Cleanup
      \/ UNCHANGED <<book, rows>> /\ faults' \in {faults, faults + 1}
  BY <1>1
  DEF Next, Submit, StartScreening, ScreeningSucceeds, ScreeningFails, SubmitNothing,
      SubmitPaper, SubmitRefused, SubmitLive, SubmitRejected, StockBought, StockSold,
      Clock, InTime, Suspended, Misfired, At, Fault, Restart, vars, etfVars,
      orderVars
<1> QED
  BY <1>3, <1>4, <1>5, <1>6, <1>7

----------------------------------------------------------------------------
LEMMA EtfAlways ==
    Spec => [](EtfInv /\ BookInv /\ DayInv /\ DeskTypes /\ EtfRowsBacked)
<1>1. Init => BookInv /\ EtfRowsBacked
  <2>1. ASSUME Init PROVE BookInv
    <3>1. Unissued \in BookEntry /\ Unissued.side = "none"
      BY DEF Unissued, BookEntry, OrderStates
    <3> QED
      BY <2>1, <3>1 DEF Init, OrdersInit, BookInv, OrdersTypeOK
  <2>2. ASSUME Init PROVE EtfRowsBacked
    <3>1. OrdersOf("buy") = {} /\ OrdersOf("sell") = {}
      BY <2>2 DEF Init, OrdersInit, OrdersOf, Unissued
    <3>2. Len(rows) = 0 /\ DOMAIN rows = {}
      BY <2>2 DEF Init
    <3>3. DOMAIN rows \ OpenRows = {}
      BY <3>2
    <3>4. /\ Cardinality(OrdersOf("buy")) = 0 /\ Cardinality(OrdersOf("sell")) = 0
          /\ Cardinality(DOMAIN rows \ OpenRows) = 0
      BY <3>1, <3>3, FS_EmptySet
    <3> QED
      BY <3>2, <3>4 DEF EtfRowsBacked
  <2> QED
    BY <2>1, <2>2
<1> QED
  BY <1>1, Inductive, BookKept, DayKept, DeskTyped, BackedKept, PTL DEF Spec

(***************************************************************************)
(* Types: no count of the desk leaves its range, and the table stays in    *)
(* its bound because a buy is decided only with room for its row.          *)
(***************************************************************************)
THEOREM EtfTypesHold == Spec => []TypeOK
BY EtfAlways, TypesFollow, PTL

(***************************************************************************)
(* Live, no row and no closed row without an order of its own at the       *)
(* broker; without faults, exactly as many: for every number of orders,    *)
(* rows, lost replies and crashes.                                         *)
(***************************************************************************)
THEOREM EtfRowsHaveOrders == Spec => []EtfRowsBacked
BY EtfAlways, PTL

----------------------------------------------------------------------------
(* The abstract ledger: what is open of the table is what it holds.        *)

LEMMA EtfLedgerCardinality ==
    ASSUME NEW S PROVE EtfLedger!Cardinality(S) = Cardinality(S)
BY DEF EtfLedger!Cardinality, Cardinality

OpenQty == [i \in DOMAIN rows |-> IF rows[i].open THEN rows[i].qty ELSE 0]

LEMMA OpenQtyTyped ==
    ASSUME rows \in Seq(Row)
    PROVE  /\ IsFiniteSet(DOMAIN rows) /\ OpenQty \in [DOMAIN rows -> Nat]
           /\ EtfShares = SumFunction(OpenQty)
<1>1. DOMAIN rows = 1..Len(rows) /\ rows \in [1..Len(rows) -> Row]
  BY LenProperties
<1>2. IsFiniteSet(DOMAIN rows)
  <2>1. PICK n \in Nat : n = Len(rows)
    BY LenProperties
  <2> QED
    BY <1>1, <2>1, FS_Interval
<1>3. \A i \in DOMAIN rows : rows[i].qty \in Nat
  BY <1>1 DEF Row
<1> QED
  BY <1>2, <1>3 DEF OpenQty, EtfShares

\* Nothing open, no shares; one row open, its shares.
SharesAreOpen ==
    rows \in Seq(Row) /\ RowsPositive =>
        /\ OpenRows = {} => EtfShares = 0
        /\ \A i \in DOMAIN rows : OpenRows = {i} => EtfShares = rows[i].qty

LEMMA SharesOpen == SharesAreOpen
<1> SUFFICES ASSUME rows \in Seq(Row), RowsPositive
             PROVE  /\ OpenRows = {} => EtfShares = 0
                    /\ \A i \in DOMAIN rows : OpenRows = {i} => EtfShares = rows[i].qty
  BY DEF SharesAreOpen
<1>1. CASE OpenRows = {}
  <2>1. \A i \in DOMAIN rows : OpenQty[i] = 0
    BY <1>1 DEF OpenQty, OpenRows
  <2>2. SumFunction(OpenQty) = 0
    BY <2>1, OpenQtyTyped, SumZero
  <2> QED
    BY <1>1, <2>2, OpenQtyTyped
<1>2. ASSUME NEW i \in DOMAIN rows, OpenRows = {i}
      PROVE  EtfShares = rows[i].qty
  <2> DEFINE none == [j \in DOMAIN rows |-> 0]
  <2>1. none \in [DOMAIN rows -> Nat] /\ \A j \in DOMAIN rows : none[j] = 0
    OBVIOUS
  <2>2. IsFiniteSet(DOMAIN rows) /\ OpenQty \in [DOMAIN rows -> Nat]
    BY OpenQtyTyped
  <2>3. SumFunction(none) = 0
    BY <2>1, <2>2, SumZero
  <2>4. /\ OpenQty[i] = rows[i].qty
        /\ \A j \in DOMAIN rows \ {i} : OpenQty[j] = 0
    BY <1>2 DEF OpenQty, OpenRows
  <2>5. OpenQty[i] = none[i] + rows[i].qty /\ rows[i].qty \in Nat
    BY <2>1, <2>2, <2>4
  <2>6. SumFunction(OpenQty) = SumFunction(none) + rows[i].qty
    BY <2>1, <2>2, <2>4, <2>5, SumRaised
  <2>7. SumFunction(OpenQty) = rows[i].qty
    BY <2>3, <2>5, <2>6
  <2> QED
    BY <2>7, OpenQtyTyped
<1> QED
  BY <1>1, <1>2

LEMMA SharesOpenNext == SharesAreOpen'
BY SharesOpen, PTL

\* With one slot for one code, a free slot is nothing held.
LEMMA OneSlot ==
    ASSUME EtfShares = 0
    PROVE  EtfLedger!Cardinality(EtfLedger!Held) < 1
<1>1. EtfLedger!Held = {}
  BY DEF EtfLedger!Held, EtfHolding
<1> QED
  BY <1>1, EtfLedgerCardinality, FS_EmptySet

LEMMA HoldingMoves ==
    /\ EtfHolding[EtfCode] = EtfShares /\ EtfHolding'[EtfCode] = EtfShares'
    /\ EtfHolding' = [EtfHolding EXCEPT ![EtfCode] = EtfHolding'[EtfCode]]
    /\ EtfShares' = EtfShares => EtfHolding' = EtfHolding
BY EtfAssumption DEF EtfHolding

\* A buy, recorded only when nothing is open.
LEMMA BoughtIsBuy ==
    ASSUME EtfInv, running, ~Held, NEW qty \in Nat \ {0}, NEW price \in Nat,
           Bought(qty, price)
    PROVE  EtfLedger!Buy(EtfCode)
<1>1. EtfTypes /\ RowsPositive /\ OpenRows = {} /\ rows \in Seq(Row)
  BY HeldIsOpen DEF EtfInv, EtfTypes
<1>2. /\ rows' \in Seq(Row) /\ RowsPositive'
      /\ \E last \in DOMAIN rows' : OpenRows' = {last} /\ rows'[last].qty = qty
  BY <1>1, Inserted
<1>3. EtfShares = 0
  BY <1>1, SharesOpen DEF SharesAreOpen
<1>4. EtfShares' = qty
  <2>1. \A i \in DOMAIN rows' : OpenRows' = {i} => EtfShares' = rows'[i].qty
    BY <1>2, SharesOpenNext DEF SharesAreOpen
  <2> QED
    BY <1>2, <2>1
<1> QED
  BY <1>3, <1>4, OneSlot, HoldingMoves DEF EtfLedger!Buy

\* A sale closes what is open.
LEMMA SoldIsSell ==
    ASSUME EtfInv, running, Held, Sold
    PROVE  EtfLedger!Sell(EtfCode)
<1>1. EtfTypes /\ RowsPositive /\ rows \in Seq(Row) /\ OpenRows # {}
  BY DEF EtfInv, EtfTypes, EtfMemoryIsTable
<1>2. PICK i \in DOMAIN rows : OpenRows = {i}
  BY <1>1 DEF EtfInv, EtfMemoryIsTable, OpenRows
<1>3. EtfShares = rows[i].qty /\ rows[i].qty > 0 /\ rows[i].qty \in Nat
  <2>1. EtfShares = rows[i].qty
    BY <1>1, <1>2, SharesOpen DEF SharesAreOpen
  <2>2. rows[i] \in Row
    BY <1>1, ElementOfSeq, LenProperties
  <2> QED
    BY <1>1, <2>1, <2>2 DEF RowsPositive, Row
<1>4. rows' \in Seq(Row) /\ RowsPositive' /\ OpenRows' = {}
  BY <1>1, AllClosed
<1>5. EtfShares' = 0
  BY <1>4, SharesOpenNext DEF SharesAreOpen
<1> QED
  BY <1>3, <1>5, HoldingMoves DEF EtfLedger!Sell

\* Only an order that is done writes the table.
LEMMA EtfLedgerStep ==
    EtfInv /\ [Next]_vars => [EtfLedger!Next]_EtfHolding
<1> SUFFICES ASSUME EtfInv, [Next]_vars PROVE [EtfLedger!Next]_EtfHolding
  OBVIOUS
<1>1. ASSUME NEW action, NEW qty \in Nat, NEW price \in Nat, running,
             \/ action = "buy" /\ ~Held /\ qty > 0 /\ Bought(qty, price)
             \/ action = "sell" /\ Held /\ Sold
      PROVE  EtfLedger!Next
  <2>1. \/ EtfLedger!Buy(EtfCode) \/ EtfLedger!Sell(EtfCode)
    BY <1>1, BoughtIsBuy, SoldIsSell
  <2> QED
    BY <2>1, EtfAssumption DEF EtfLedger!Next
<1>2. CASE SubmitPaper
  <2>1. /\ running /\ queue.qty \in Nat
        /\ queue.action = "buy" => ~Held /\ queue.qty > 0
    BY <1>2 DEF SubmitPaper, Submitting, EtfInv, EtfTypes, Queued, QueueFits
  <2>2. \/ /\ queue.action = "buy"
           /\ \E price \in Nat : Bought(queue.qty, price)
        \/ queue.action = "sell" /\ Held /\ Sold
    BY <1>2, PricesNat DEF SubmitPaper, Submittable
  <2> QED
    BY <1>1, <2>1, <2>2
<1>3. CASE SubmitAccepted
  <2>1. /\ running /\ sent.qty \in Nat /\ sent.price \in Nat
        /\ \/ sent.action = "buy" /\ ~Held /\ sent.qty > 0
           \/ sent.action = "sell" /\ Held
    BY <1>3 DEF SubmitAccepted, EtfInv, SentFits, EtfTypes, Order
  <2>2. \/ sent.action = "buy" /\ Bought(sent.qty, sent.price)
        \/ sent.action = "sell" /\ Sold
    BY <1>3, <2>1 DEF SubmitAccepted
  <2> QED
    BY <1>1, <2>1, <2>2
<1>4. CASE UNCHANGED rows
  BY <1>4, HoldingMoves DEF EtfShares
<1>5. SubmitPaper \/ SubmitAccepted \/ UNCHANGED rows
  BY DEF Next, Submit, StartScreening, ScreeningSucceeds, ScreeningFails, SubmitNothing,
         SubmitRefused, SubmitLive, SubmitRejected, SubmitReplyLost, StockBought,
         StockSold, Filled, Cleanup, Clock, InTime, Suspended, Misfired, At, Crash,
         Restart, vars, etfVars
<1> QED
  BY <1>2, <1>3, <1>4, <1>5

(***************************************************************************)
(* The ETF's table implements the position ledger with one slot, in both   *)
(* modes and for every bound of orders, rows, crashes and lost replies.    *)
(***************************************************************************)
THEOREM EtfRefinesLedger == Spec => EtfLedgerRefined
<1>1. Init => EtfLedger!Init
  <2> SUFFICES ASSUME Init PROVE EtfLedger!Init
    OBVIOUS
  <2>1. rows \in Seq(Row) /\ RowsPositive /\ OpenRows = {}
    BY DEF Init, RowsPositive, OpenRows
  <2>2. EtfShares = 0
    BY <2>1, SharesOpen DEF SharesAreOpen
  <2> QED
    BY <2>2 DEF EtfLedger!Init, EtfHolding
<1> QED
  BY <1>1, Inductive, EtfLedgerStep, PTL DEF Spec, EtfLedgerRefined, EtfLedger!Spec
=============================================================================
