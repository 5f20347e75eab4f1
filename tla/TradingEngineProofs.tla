------------------------ MODULE TradingEngineProofs -------------------------
(***************************************************************************)
(* Theorems about the trading engine, for every value of its constants:    *)
(* types, one pending order per code and side, what stands behind a        *)
(* position being sold, and the broker's orders behind the whole database. *)
(***************************************************************************)
EXTENDS TradingEngine, SumTheorems, TLAPS

(***************************************************************************)
(* TypeOK is not inductive: a step types the next state only because the   *)
(* call a handler has in flight fits the database it will be applied to.   *)
(***************************************************************************)

\* A row in use is a row of a real code; so is an issued order.
RowsOK == \A p \in PosId :
    positions[p].status # "none" => positions[p].code \in Codes
BookOK == \A no \in OrderNo :
    book[no].state # "none" => book[no].code \in Codes

\* The handler works on rows in use, and on a real code when it may buy.
TargetsOK ==
    /\ \A p \in todo : positions[p].status # "none"
    /\ pc \in {"exit", "entry", "buying"} => tick \in Codes

\* A sell in flight: a row in use, fewer than all retries spent, and a
\* partial sale smaller than the position.
CallOK ==
    /\ pc \in {"sending", "sold"} =>
          /\ call.pos \in PosId
          /\ positions[call.pos].status # "none"
    /\ pc = "sending" =>
          /\ call.retry < SellRetries
          /\ call.kind \in {"TP1", "TP2"} =>
                call.qty <= positions[call.pos].qty

TypeInv == TypeOK /\ RowsOK /\ BookOK /\ TargetsOK /\ CallOK

(* What the operators of the model return, typed once. *)

LEMMA PartQtyType ==
    ASSUME TypeOK, NEW p \in PosId, NEW kind
    PROVE  PartQty(p, kind) \in Nat \ {0}
<1>1. /\ positions[p].qty \in Nat
      /\ positions[p].initial \in Nat
  BY DEF TypeOK, StoreTypeOK, Row
<1>2. /\ positions[p].qty * Tp1Pct \in Nat
      /\ positions[p].initial * Tp2Pct \in Nat
  BY <1>1, EngineAssumption
<1>3. \A n \in Nat : n \div 100 \in Nat
  OBVIOUS
<1> QED
  BY <1>2, <1>3 DEF PartQty

LEMMA SaleType ==
    ASSUME TypeOK, NEW p \in PosId, NEW kind \in {"full", "TP1", "TP2"}
    PROVE  /\ Sale(p, kind) \in [pos : PosId, qty : Nat,
                                 kind : {"full", "TP1", "TP2"},
                                 retry : 0..SellRetries]
           /\ Sale(p, kind).pos = p
           /\ Sale(p, kind).retry = retries[p]
           /\ Sale(p, kind).qty <= positions[p].qty
<1>1. positions[p].qty \in Nat /\ retries[p] \in 0..SellRetries
  BY DEF TypeOK, StoreTypeOK, Row
<1> QED
  BY <1>1, PartQtyType DEF Sale

LEMMA ExitKindsType ==
    ASSUME NEW p \in PosId
    PROVE  ExitKinds(p) \subseteq {"full", "TP1", "TP2"}
BY DEF ExitKinds

LEMMA SetStatusType ==
    ASSUME positions \in [PosId -> Row], NEW ps, NEW status \in Statuses
    PROVE  /\ SetStatus(ps, status) \in [PosId -> Row]
           /\ \A p \in PosId :
                 /\ SetStatus(ps, status)[p].code = positions[p].code
                 /\ SetStatus(ps, status)[p].qty = positions[p].qty
                 /\ SetStatus(ps, status)[p].initial = positions[p].initial
                 /\ SetStatus(ps, status)[p].status =
                      IF p \in ps THEN status ELSE positions[p].status
BY DEF SetStatus, Row

LEMMA PartlySoldType ==
    ASSUME NEW row \in Row, NEW c, c.qty \in Nat, c.qty <= row.qty
    PROVE  /\ PartlySold(row, c) \in Row
           /\ PartlySold(row, c).code = row.code
           /\ PartlySold(row, c).status = "open"
<1>1. row.qty \in Nat /\ row.qty - c.qty \in Nat
  BY DEF Row
<1>2. CASE c.kind = "TP1"
  BY <1>1, <1>2 DEF PartlySold, Row, Statuses
<1>3. CASE c.kind # "TP1"
  BY <1>1, <1>3 DEF PartlySold, Row, Statuses
<1> QED
  BY <1>2, <1>3

LEMMA SaleCommittedType ==
    ASSUME positions \in [PosId -> Row],
           NEW c \in [pos : PosId, qty : Nat, kind : Kinds,
                      retry : 0..SellRetries],
           c.kind \in {"TP1", "TP2"} => c.qty <= positions[c.pos].qty
    PROVE  /\ SaleCommitted(c) \in [PosId -> Row]
           /\ \A p \in PosId :
                 /\ SaleCommitted(c)[p].code = positions[p].code
                 /\ positions[p].status # "none"
                      => SaleCommitted(c)[p].status # "none"
                 /\ p # c.pos => SaleCommitted(c)[p] = positions[p]
<1>1. CASE c.kind \in {"TP1", "TP2"}
  <2>1. /\ PartlySold(positions[c.pos], c) \in Row
        /\ PartlySold(positions[c.pos], c).code = positions[c.pos].code
        /\ PartlySold(positions[c.pos], c).status = "open"
    BY <1>1, PartlySoldType
  <2> QED
    BY <1>1, <2>1 DEF SaleCommitted
<1>2. CASE c.kind \notin {"TP1", "TP2"}
  BY <1>2, SetStatusType DEF SaleCommitted, Statuses, SetStatus
<1> QED
  BY <1>1, <1>2

LEMMA WithOrderType ==
    ASSUME OrdersTypeOK, NEW no \in OrderNo, NEW code \in Codes,
           NEW side \in Sides, NEW qty \in Nat
    PROVE  /\ WithOrder(no, code, side, qty) \in [OrderNo -> BookEntry]
           /\ WithOrder(no, code, side, qty)[no].code = code
           /\ \A other \in OrderNo \ {no} :
                 WithOrder(no, code, side, qty)[other] = book[other]
BY DEF WithOrder, OrdersTypeOK, BookEntry, OrderStates

LEMMA OrderAcceptedType ==
    ASSUME OrdersTypeOK, BookOK, NEW no \in OrderNo, NEW code \in Codes,
           NEW side \in Sides, NEW qty \in Nat,
           OrderAccepted(no, code, side, qty)
    PROVE  OrdersTypeOK' /\ BookOK'
<1>1. book' = WithOrder(no, code, side, qty) /\ pending' = pending \cup {no}
  BY DEF OrderAccepted
<1>2. OrdersTypeOK'
  BY <1>1, WithOrderType DEF OrdersTypeOK
<1>3. BookOK'
  BY <1>1, WithOrderType DEF BookOK
<1> QED
  BY <1>2, <1>3

LEMMA OrderReplyLostType ==
    ASSUME OrdersTypeOK, BookOK, NEW code \in Codes, NEW side \in Sides,
           NEW qty \in Nat, OrderReplyLost(code, side, qty)
    PROVE  book' \in [OrderNo -> BookEntry] /\ BookOK'
<1>1. CASE UNCHANGED book
  BY <1>1 DEF OrdersTypeOK, BookOK
<1>2. ASSUME NEW no \in OrderNo, book' = WithOrder(no, code, side, qty)
      PROVE  book' \in [OrderNo -> BookEntry] /\ BookOK'
  BY <1>2, WithOrderType DEF BookOK
<1> QED
  BY <1>1, <1>2 DEF OrderReplyLost

LEMMA NoRetriesType == NoRetries \in [PosId -> 0..SellRetries]
BY EngineAssumption DEF NoRetries

LEMMA NewRowType ==
    ASSUME NEW code \in Codes, NEW qty \in Nat
    PROVE  [code |-> code, status |-> "open", qty |-> qty, initial |-> qty,
            tp1 |-> FALSE, tp2 |-> FALSE] \in Row
BY DEF Row, Statuses

LEMMA NoCallType == NoCall \in Calls /\ NoCall.pos = NoPos
BY EngineAssumption DEF NoCall, Calls, Kinds

(***************************************************************************)
(* TypeInv is inductive: one step per action, the ones that only move      *)
(* control first, then those that write the database or the book.          *)
(***************************************************************************)
LEMMA TypeInit == Init => TypeInv
<1> SUFFICES ASSUME Init PROVE TypeInv
  OBVIOUS
<1>1. OrdersTypeOK /\ BookOK
  BY DEF Init, OrdersInit, OrdersTypeOK, BookOK, Unissued, BookEntry,
         OrderStates
<1>2. StoreTypeOK /\ RowsOK
  <2>1. NoRow \in Row /\ NoRow.status = "none"
    BY DEF NoRow, Row, Statuses
  <2> QED
    BY <2>1, StoreAssumption DEF Init, StoreInit, StoreTypeOK, RowsOK
<1>3. TargetsOK /\ CallOK
  BY DEF Init, TargetsOK, CallOK
<1>4. call \in Calls /\ retries \in [PosId -> 0..SellRetries]
  BY NoCallType, NoRetriesType DEF Init
<1>5. /\ pc \in Places /\ todo \subseteq PosId /\ cancels \subseteq OrderNo
      /\ tick \in Codes \cup {NoCode}
  BY DEF Init, Places, Awaiting
<1>6. faults \in 0..MaxFaults
  BY EngineAssumption DEF Init
<1>8. RiskTypeOK
  BY Zenon DEF Init, RiskInit, RiskTypeOK
<1>7. /\ running \in BOOLEAN /\ candidates \subseteq Codes
      /\ phase \in {"pre", "market", "closed"}
      /\ due \subseteq {"screen", "reset", "cleanup"} /\ events \subseteq Codes
  BY DEF Init
<1> QED
  BY <1>1, <1>2, <1>3, <1>4, <1>5, <1>6, <1>7, <1>8 DEF TypeInv, TypeOK

LEMMA TypeStep == TypeInv /\ [Next]_vars => TypeInv'
<1> SUFFICES ASSUME TypeInv, [Next]_vars PROVE TypeInv'
  OBVIOUS
<1> USE DEF TypeInv, TypeOK, OrdersTypeOK, StoreTypeOK, RiskTypeOK, RowsOK,
            BookOK, TargetsOK, CallOK, vars, orderVars, storeVars, riskVars,
            handlerVars, clockVars, Places, Awaiting
<1>0. /\ call.pos \in PosId \cup {NoPos} /\ call.qty \in Nat
      /\ call.kind \in Kinds /\ call.retry \in 0..SellRetries
  BY DEF Calls
<1>1. ASSUME NEW c \in Codes, PollTick(c) PROVE TypeInv'
  BY <1>1 DEF PollTick, OpenOf, OpenPositions, PositionsByStatus
<1>2. ASSUME NEW p \in PosId, KeepHolding(p) PROVE TypeInv'
  BY <1>2 DEF KeepHolding, Visiting
<1>3. ASSUME NEW p \in PosId, PaperSell(p) PROVE TypeInv'
  <2>1. PICK kind \in ExitKinds(p) : /\ call' = Sale(p, kind)
                                    /\ positions' = SaleCommitted(call')
    BY <1>3 DEF PaperSell
  <2>2. /\ call' \in [pos : PosId, qty : Nat, kind : {"full", "TP1", "TP2"},
                      retry : 0..SellRetries]
        /\ call'.pos = p /\ call'.qty <= positions[p].qty
    BY <2>1, SaleType, ExitKindsType
  <2>3. call' \in Calls
    BY <2>2 DEF Calls, Kinds
  <2>4. /\ positions' \in [PosId -> Row]
        /\ \A q \in PosId : /\ positions'[q].code = positions[q].code
                            /\ positions[q].status # "none"
                                 => positions'[q].status # "none"
                            /\ q # p => positions'[q] = positions[q]
    BY <2>1, <2>2, SaleCommittedType DEF Kinds
  <2>5. retries' \in [PosId -> 0..SellRetries]
    BY <1>3, EngineAssumption DEF PaperSell
  <2>6. positions[p].status # "none"
    BY <1>3 DEF PaperSell, Visiting
  <2> QED
    BY <1>3, <2>2, <2>3, <2>4, <2>5, <2>6 DEF PaperSell
<1>4. ASSUME NEW p \in PosId, SellGivenUp(p) PROVE TypeInv'
  BY <1>4 DEF SellGivenUp, Visiting
<1>5. ASSUME NEW p \in PosId, SellRefused(p) PROVE TypeInv'
  <2>1. /\ positions' \in [PosId -> Row]
        /\ \A q \in PosId : /\ positions'[q].code = positions[q].code
                            /\ positions'[q].qty = positions[q].qty
                            /\ positions'[q].status =
                                 IF q \in {p} THEN "open"
                                 ELSE positions[q].status
    BY <1>5, SetStatusType DEF SellRefused, Statuses
  <2>2. retries' \in [PosId -> 0..SellRetries]
    BY <1>5, EngineAssumption DEF SellRefused, RetryAllowed
  <2>3. positions[p].status # "none"
    BY <1>5 DEF SellRefused, Visiting
  <2> QED
    BY <1>5, <2>1, <2>2, <2>3 DEF SellRefused, Visiting
<1>6. ASSUME NEW p \in PosId, SendSell(p) PROVE TypeInv'
  <2>1. PICK kind \in ExitKinds(p) : call' = Sale(p, kind)
    BY <1>6 DEF SendSell
  <2>2. /\ call' \in [pos : PosId, qty : Nat, kind : {"full", "TP1", "TP2"},
                      retry : 0..SellRetries]
        /\ call'.pos = p /\ call'.qty <= positions[p].qty
        /\ call'.retry = retries[p]
    BY <2>1, SaleType, ExitKindsType
  <2>3. call' \in Calls
    BY <2>2 DEF Calls, Kinds
  <2>4. retries[p] < SellRetries
    BY <1>6 DEF SendSell, RetryAllowed
  <2>5. /\ positions' \in [PosId -> Row]
        /\ \A q \in PosId : /\ positions'[q].code = positions[q].code
                            /\ positions'[q].qty = positions[q].qty
                            /\ positions'[q].status =
                                 IF q \in {p} THEN "selling"
                                 ELSE positions[q].status
    BY <1>6, SetStatusType DEF SendSell, Statuses
  <2>6. positions[p].status # "none"
    BY <1>6 DEF SendSell, Visiting
  <2>t. TypeOK'
    BY <1>6, <2>2, <2>3, <2>4, <2>5, <2>6 DEF SendSell
  <2>r. RowsOK' /\ BookOK'
    BY <1>6, <2>2, <2>3, <2>4, <2>5, <2>6 DEF SendSell
  <2>g. TargetsOK'
    <3>1. todo' = todo \ {p} /\ pc' = "sending"
      BY <1>6 DEF SendSell
    <3> QED
      BY <2>5, <3>1
  <2>c. CallOK'
    BY <1>6, <2>2, <2>3, <2>4, <2>5, <2>6 DEF SendSell
  <2> QED
    BY <2>t, <2>r, <2>g, <2>c
<1>7. CASE SellAccepted
  <2> DEFINE code == positions[call.pos].code
  <2>1. /\ call.pos \in PosId /\ code \in Codes
        /\ call.kind \in {"TP1", "TP2"} => call.qty <= positions[call.pos].qty
    BY <1>7 DEF SellAccepted
  <2>2. PICK no \in OrderNo : OrderAccepted(no, code, "sell", call.qty)
    BY <1>7 DEF SellAccepted
  <2>3. OrdersTypeOK' /\ BookOK'
    BY <1>0, <2>1, <2>2, OrderAcceptedType DEF Sides
  <2>4. /\ positions' \in [PosId -> Row]
        /\ \A q \in PosId : /\ positions'[q].code = positions[q].code
                            /\ positions[q].status # "none"
                                 => positions'[q].status # "none"
                            /\ q # call.pos => positions'[q] = positions[q]
    <3>1. call \in [pos : PosId, qty : Nat, kind : Kinds,
                   retry : 0..SellRetries]
      BY <2>1 DEF Calls
    <3> QED
      BY <1>7, <2>1, <3>1, SaleCommittedType DEF SellAccepted
  <2>5. retries' \in [PosId -> 0..SellRetries]
    BY <1>7, <2>1, EngineAssumption DEF SellAccepted
  <2>6. events' \subseteq Codes
    BY <1>7, <2>1 DEF SellAccepted, Notify
  <2>t. TypeOK'
    BY <1>7, <2>1, <2>3, <2>4, <2>5, <2>6 DEF SellAccepted
  <2>r. RowsOK' /\ BookOK'
    BY <2>1, <2>3, <2>4
  <2>g. TargetsOK'
    BY <1>7, <2>1, <2>3, <2>4, <2>5, <2>6 DEF SellAccepted
  <2>c. CallOK'
    BY <1>7, <2>1, <2>3, <2>4, <2>5, <2>6 DEF SellAccepted
  <2> QED
    BY <2>t, <2>r, <2>g, <2>c
<1>8. CASE SellRejected
  <2>1. call.pos \in PosId /\ positions[call.pos].status # "none"
    BY <1>8 DEF SellRejected
  <2>2. /\ positions' \in [PosId -> Row]
        /\ \A q \in PosId : /\ positions'[q].code = positions[q].code
                            /\ positions'[q].status =
                                 IF q \in {call.pos} THEN "open"
                                 ELSE positions[q].status
    BY <1>8, SetStatusType DEF SellRejected, Statuses
  <2>3. retries' \in [PosId -> 0..SellRetries]
    <3>1. call.retry + 1 \in 0..SellRetries
      BY <1>0, <1>8, EngineAssumption DEF SellRejected
    <3> QED
      BY <1>8, <2>1, <3>1 DEF SellRejected
  <2> QED
    BY <1>8, <2>1, <2>2, <2>3, NoCallType DEF SellRejected, BackToList
<1>9. CASE SellReplyLost
  <2> DEFINE code == positions[call.pos].code
  <2>1. code \in Codes
    BY <1>9 DEF SellReplyLost
  <2>2. /\ book' \in [OrderNo -> BookEntry] /\ BookOK'
    BY <1>0, <1>9, <2>1, OrderReplyLostType DEF SellReplyLost, Sides
  <2>3. events' \subseteq Codes
    BY <1>9, <2>1 DEF SellReplyLost, Notify
  <2>4. faults' \in 0..MaxFaults
    BY <1>9, EngineAssumption DEF SellReplyLost, Fault
  <2> QED
    BY <1>9, <2>2, <2>3, <2>4, NoCallType DEF SellReplyLost, HandlerDone
<1>10. CASE RecordTrade
  <2>1. call.pos \in PosId /\ positions[call.pos].code \in Codes
    BY <1>10 DEF RecordTrade
  <2>2. sold' \in [PosId -> Nat] /\ sinceSale' \in [Codes -> 0..Cooldown]
    BY <1>0, <1>10, <2>1, StoreAssumption DEF RecordTrade, RecordSale
  <2> QED
    BY <1>10, <2>2, NoCallType DEF RecordTrade, BackToList
<1>11. CASE UpdatePnl
  <2>1. tick \in Codes
    BY <1>11, CodesAssumption DEF UpdatePnl
  <2>2. halted' \in BOOLEAN /\ lossHit' \in BOOLEAN
    <3>1. CASE OpenPositions = {}
      BY <1>11, <3>1 DEF UpdatePnl
    <3>2. CASE OpenPositions # {}
      BY <1>11, <3>2 DEF UpdatePnl, UpdateDailyPnl
    <3> QED
      BY <3>1, <3>2
  <2> QED
    BY <1>11, <2>1, <2>2 DEF UpdatePnl
<1>12. CASE SkipEntry
  BY <1>12, NoCallType DEF SkipEntry, HandlerDone
<1>13. CASE PaperBuy
  <2>1. tick \in Codes
    BY <1>13 DEF PaperBuy
  <2>2. PICK p \in PosId, qty \in Lots : InsertPosition(p, tick, qty)
    BY <1>13 DEF PaperBuy
  <2>3. positions' \in [PosId -> Row] /\ RowsOK'
    BY <2>1, <2>2, NewRowType, EngineAssumption DEF InsertPosition
  <2> QED
    BY <1>13, <2>3, NoCallType DEF PaperBuy, CandidateUsed, HandlerDone
<1>14. CASE BuyRefused
  BY <1>14, NoCallType DEF BuyRefused, CandidateUsed, HandlerDone
<1>15. CASE SendBuy
  <2>1. call' \in Calls
    <3>1. PICK qty \in Lots :
             call' = [pos |-> NoPos, qty |-> qty, kind |-> "buy",
                      retry |-> 0]
      BY <1>15 DEF SendBuy
    <3> QED
      BY <3>1, EngineAssumption DEF Calls, Kinds
  <2> QED
    BY <1>15, <2>1 DEF SendBuy
<1>16. CASE BuyAccepted
  <2>1. tick \in Codes
    BY <1>16 DEF BuyAccepted
  <2>2. PICK no \in OrderNo : OrderAccepted(no, tick, "buy", call.qty)
    BY <1>16 DEF BuyAccepted
  <2>3. OrdersTypeOK' /\ BookOK'
    BY <1>0, <2>1, <2>2, OrderAcceptedType DEF Sides
  <2>4. PICK p \in PosId : InsertPosition(p, tick, call.qty)
    BY <1>16 DEF BuyAccepted
  <2>5. positions' \in [PosId -> Row] /\ RowsOK'
    BY <1>0, <2>1, <2>4, NewRowType DEF InsertPosition
  <2>6. events' \subseteq Codes
    BY <1>16, <2>1 DEF BuyAccepted, Notify
  <2> QED
    BY <1>16, <2>3, <2>5, <2>6, NoCallType
    DEF BuyAccepted, CandidateUsed, HandlerDone
<1>17. CASE BuyRejected
  BY <1>17, NoCallType DEF BuyRejected, CandidateUsed, HandlerDone
<1>18. CASE BuyReplyLost
  <2>1. tick \in Codes
    BY <1>18 DEF BuyReplyLost
  <2>2. book' \in [OrderNo -> BookEntry] /\ BookOK'
    BY <1>0, <1>18, <2>1, OrderReplyLostType DEF BuyReplyLost, Sides
  <2>3. events' \subseteq Codes
    BY <1>18, <2>1 DEF BuyReplyLost, Notify
  <2>4. faults' \in 0..MaxFaults
    BY <1>18, EngineAssumption DEF BuyReplyLost, Fault
  <2> QED
    BY <1>18, <2>2, <2>3, <2>4, NoCallType DEF BuyReplyLost, HandlerDone
<1>19. ASSUME NEW c \in Codes, OnChejan(c) PROVE TypeInv'
  <2> DEFINE ended == {p \in PositionsByStatus("selling") :
                         positions[p].code = c}
  <2>1. /\ positions' \in [PosId -> Row]
        /\ \A q \in PosId : /\ positions'[q].code = positions[q].code
                            /\ positions'[q].qty = positions[q].qty
                            /\ positions'[q].status =
                                 IF q \in ended THEN "closed"
                                 ELSE positions[q].status
    BY <1>19, SetStatusType DEF OnChejan, Statuses
  <2>2. retries' \in [PosId -> 0..SellRetries]
    BY <1>19, EngineAssumption DEF OnChejan
  <2>3. events' \subseteq Codes
    BY <1>19 DEF OnChejan
  <2> QED
    BY <1>19, <2>1, <2>2, <2>3 DEF OnChejan
<1>20. ASSUME NEW no \in OrderNo, Fill(no) PROVE TypeInv'
  BY <1>20 DEF Fill, OrderFilled, Notify, BookEntry, OrderStates
<1>21. CASE StartCleanup
  BY <1>21 DEF StartCleanup
<1>22. ASSUME NEW no \in OrderNo, CancelOne(no) PROVE TypeInv'
  BY <1>22 DEF CancelOne, CancelPending, Notify, BookEntry, OrderStates
<1>23. CASE RestoreSelling
  <2> DEFINE restored == IF LiveMode THEN PositionsByStatus("selling") ELSE {}
  <2>1. /\ positions' \in [PosId -> Row]
        /\ \A q \in PosId : /\ positions'[q].code = positions[q].code
                            /\ positions'[q].status =
                                 IF q \in restored THEN "open"
                                 ELSE positions[q].status
    BY <1>23, SetStatusType DEF RestoreSelling, Statuses
  <2>2. retries' \in [PosId -> 0..SellRetries]
    BY <1>23, NoRetriesType DEF RestoreSelling
  <2>3. /\ todo' \subseteq OpenPositions \cup restored
        /\ OpenPositions \cup restored \subseteq PosId
    BY <1>23 DEF RestoreSelling, OpenPositions, PositionsByStatus
  <2>4. \A p \in todo' : positions'[p].status # "none"
    BY <2>1, <2>3 DEF OpenPositions, PositionsByStatus
  <2>t. TypeOK'
    BY <1>23, <2>1, <2>2, <2>3, <2>4 DEF RestoreSelling
  <2>r. RowsOK' /\ BookOK'
    BY <1>23, <2>1 DEF RestoreSelling, PositionsByStatus
  <2>g. TargetsOK'
    BY <1>23, <2>1, <2>2, <2>3, <2>4 DEF RestoreSelling
  <2>c. CallOK'
    BY <1>23, <2>1, <2>2, <2>3, <2>4 DEF RestoreSelling
  <2> QED
    BY <2>t, <2>r, <2>g, <2>c
<1>24. CASE FinishCleanup
  BY <1>24, NoCallType DEF FinishCleanup, HandlerDone
<1>25. CASE Screen
  BY <1>25 DEF Screen
<1>26. CASE DailyReset
  BY <1>26, NoRetriesType DEF DailyReset, RiskReset
<1>27. CASE Halt \/ Resume
  BY <1>27 DEF Halt, Resume
<1>28. CASE OpenMarket \/ CloseMarket
  BY <1>28 DEF OpenMarket, CloseMarket, Due
<1>29. CASE Midnight
  BY <1>29, StoreAssumption
  DEF Midnight, Due, OrdersExpired, DayOlder, InCooldown, BookEntry,
      OrderStates
<1>30. CASE Crash
  <2>1. pc = "sending" => positions[call.pos].code \in Codes
    OBVIOUS
  <2>2. book' \in [OrderNo -> BookEntry] /\ BookOK'
    <3>1. CASE pc = "sending"
      <4>1. OrderReplyLost(positions[call.pos].code, "sell", call.qty)
        BY <1>30, <3>1 DEF Crash
      <4> QED
        BY <1>0, <2>1, <3>1, <4>1, OrderReplyLostType DEF Sides
    <3>2. CASE pc = "buying"
      <4>1. OrderReplyLost(tick, "buy", call.qty)
        BY <1>30, <3>2 DEF Crash
      <4> QED
        BY <1>0, <3>2, <4>1, OrderReplyLostType DEF Sides
    <3>3. CASE pc \notin {"sending", "buying"}
      BY <1>30, <3>3 DEF Crash
    <3> QED
      BY <3>1, <3>2, <3>3
  <2>3. faults' \in 0..MaxFaults
    BY <1>30, EngineAssumption DEF Crash, Fault
  <2> QED
    BY <1>30, <2>2, <2>3, NoCallType, NoRetriesType
    DEF Crash, RiskReset, HandlerDone
<1>31. CASE Restart
  BY <1>31 DEF Restart
<1>32. CASE UNCHANGED vars
  BY <1>32
<1> QED
  BY <1>1, <1>2, <1>3, <1>4, <1>5, <1>6, <1>7, <1>8, <1>9, <1>10, <1>11,
     <1>12, <1>13, <1>14, <1>15, <1>16, <1>17, <1>18, <1>19, <1>20, <1>21,
     <1>22, <1>23, <1>24, <1>25, <1>26, <1>27, <1>28, <1>29, <1>30, <1>31,
     <1>32 DEF Next, HandlerStep, Jobs, Clock, Environment

(***************************************************************************)
(* Every state the engine can reach is of its types: in particular a sell  *)
(* is never tried more than SellRetries times in a row, no quantity goes   *)
(* negative and the handler never works on a row or a code that is not     *)
(* there (_execute_sell, _check_entry_conditions, _post_market_cleanup).   *)
(***************************************************************************)
THEOREM TypeCorrect == Spec => []TypeOK
<1>1. TypeInv => TypeOK
  BY DEF TypeInv
<1> QED
  BY <1>1, TypeInit, TypeStep, PTL DEF Spec

----------------------------------------------------------------------------
(***************************************************************************)
(* One pending order per code and side.  The duplicate check is made       *)
(* before the await and the order is registered after it, so the invariant *)
(* must say that nothing registers a duplicate in between: that holds as   *)
(* there is one handler in flight, and it is the one awaiting.             *)
(***************************************************************************)
PendingIssued == \A no \in pending : book[no].state # "none"

AwaitedIsNew ==
    /\ pc = "sending" => ~DuplicateOrder(positions[call.pos].code, "sell")
    /\ pc = "buying" => ~DuplicateOrder(tick, "buy")

PendingInv == OnePendingPerSide /\ PendingIssued /\ AwaitedIsNew

\* Accepting an order that is no duplicate.
LEMMA AcceptKeepsOne ==
    ASSUME OrdersTypeOK, OnePendingPerSide, PendingIssued,
           NEW no \in OrderNo, NEW code \in Codes, NEW side \in Sides,
           NEW qty \in Nat, OrderAccepted(no, code, side, qty),
           ~DuplicateOrder(code, side)
    PROVE  OnePendingPerSide' /\ PendingIssued'
<1>1. no \notin pending
  BY DEF OrderAccepted, Fresh, PendingIssued
<1>2. /\ pending' = pending \cup {no}
      /\ book'[no].code = code /\ book'[no].side = side
      /\ book'[no].state = "working"
      /\ \A other \in pending : book'[other] = book[other]
  BY <1>1, WithOrderType DEF OrderAccepted, WithOrder, OrdersTypeOK
<1>3. PendingIssued'
  BY <1>2 DEF PendingIssued
<1>4. ASSUME NEW n1 \in pending', NEW n2 \in pending',
             book'[n1].code = book'[n2].code, book'[n1].side = book'[n2].side
      PROVE  n1 = n2
  <2>1. CASE n1 \in pending /\ n2 \in pending
    BY <1>2, <1>4, <2>1 DEF OnePendingPerSide
  <2>2. CASE n1 = no \/ n2 = no
    BY <1>2, <1>4, <2>2 DEF DuplicateOrder
  <2> QED
    BY <1>2, <2>1, <2>2
<1> QED
  BY <1>3, <1>4 DEF OnePendingPerSide

\* Steps that register no order and change no order's code or side.
LEMMA NothingRegistered ==
    ASSUME OnePendingPerSide, PendingIssued, pending' \subseteq pending,
           \A no \in pending' : /\ book'[no].code = book[no].code
                                /\ book'[no].side = book[no].side
                                /\ book'[no].state # "none"
    PROVE  /\ OnePendingPerSide' /\ PendingIssued'
           /\ \A code, side :
                 (\E no \in pending' : /\ book'[no].code = code
                                       /\ book'[no].side = side)
                    => DuplicateOrder(code, side)
BY DEF OnePendingPerSide, PendingIssued, DuplicateOrder

\* ... and that leave the handler where it awaits.
LEMMA StillAwaiting ==
    ASSUME TypeInv, PendingInv, pending' \subseteq pending,
           \A no \in pending' : /\ book'[no].code = book[no].code
                                /\ book'[no].side = book[no].side
                                /\ book'[no].state # "none",
           UNCHANGED <<pc, call, tick>>,
           \A p \in PosId : positions'[p].code = positions[p].code
    PROVE  PendingInv'
<1>1. pc = "sending" => call.pos \in PosId
  BY DEF TypeInv, CallOK
<1>2. AwaitedIsNew'
  BY <1>1, NothingRegistered DEF PendingInv, AwaitedIsNew, DuplicateOrder
<1> QED
  BY <1>2, NothingRegistered DEF PendingInv

\* ... or that leave it nowhere near an await.
LEMMA NotAwaiting ==
    ASSUME PendingInv, pending' \subseteq pending,
           \A no \in pending' : /\ book'[no].code = book[no].code
                                /\ book'[no].side = book[no].side
                                /\ book'[no].state # "none",
           pc' \notin {"sending", "buying"}
    PROVE  PendingInv'
<1>1. AwaitedIsNew'
  BY DEF AwaitedIsNew
<1> QED
  BY <1>1, NothingRegistered DEF PendingInv

LEMMA PendingStep ==
    ASSUME TypeInv, PendingInv, [Next]_vars
    PROVE  PendingInv'
<1> USE DEF vars, orderVars, storeVars, riskVars, handlerVars, clockVars
<1>0. \A no \in pending : book[no].state # "none"
  BY DEF PendingInv, PendingIssued
<1>1. CASE SellAccepted
  <2> DEFINE code == positions[call.pos].code
  <2>1. code \in Codes /\ call.qty \in Nat /\ OrdersTypeOK
    BY <1>1 DEF SellAccepted, TypeInv, TypeOK, CallOK, RowsOK, Calls
  <2>2. PICK no \in OrderNo : OrderAccepted(no, code, "sell", call.qty)
    BY <1>1 DEF SellAccepted
  <2>3. ~DuplicateOrder(code, "sell") /\ pc' = "sold"
    BY <1>1 DEF SellAccepted, PendingInv, AwaitedIsNew
  <2>4. OnePendingPerSide' /\ PendingIssued'
    BY <2>1, <2>2, <2>3, AcceptKeepsOne DEF PendingInv, Sides
  <2> QED
    BY <2>3, <2>4 DEF PendingInv, AwaitedIsNew
<1>2. CASE BuyAccepted
  <2>1. tick \in Codes /\ call.qty \in Nat /\ OrdersTypeOK
    BY <1>2 DEF BuyAccepted, TypeInv, TypeOK, TargetsOK, Calls
  <2>2. PICK no \in OrderNo : OrderAccepted(no, tick, "buy", call.qty)
    BY <1>2 DEF BuyAccepted
  <2>3. ~DuplicateOrder(tick, "buy") /\ pc' = "idle"
    BY <1>2 DEF BuyAccepted, HandlerDone, PendingInv, AwaitedIsNew
  <2>4. OnePendingPerSide' /\ PendingIssued'
    BY <2>1, <2>2, <2>3, AcceptKeepsOne DEF PendingInv, Sides
  <2> QED
    BY <2>3, <2>4 DEF PendingInv, AwaitedIsNew
<1>3. ASSUME NEW p \in PosId, SendSell(p) PROVE PendingInv'
  <2>1. /\ ~DuplicateOrder(positions[p].code, "sell")
        /\ pc' = "sending" /\ UNCHANGED <<book, pending>>
    BY <1>3 DEF SendSell
  <2>2. call'.pos = p
    <3>1. PICK kind \in ExitKinds(p) : call' = Sale(p, kind)
      BY <1>3 DEF SendSell
    <3> QED
      BY <3>1 DEF Sale
  <2>3. positions'[p].code = positions[p].code
    BY <1>3, SetStatusType DEF SendSell, TypeInv, TypeOK, StoreTypeOK, Statuses
  <2>4. AwaitedIsNew'
    BY <2>1, <2>2, <2>3 DEF AwaitedIsNew, DuplicateOrder
  <2> QED
    BY <2>1, <2>4 DEF PendingInv, OnePendingPerSide, PendingIssued
<1>4. CASE SendBuy
  <2>1. AwaitedIsNew'
    BY <1>4 DEF SendBuy, AwaitedIsNew, DuplicateOrder
  <2> QED
    BY <1>4, <2>1 DEF SendBuy, PendingInv, OnePendingPerSide, PendingIssued
<1>5. CASE SellReplyLost \/ BuyReplyLost \/ Crash
  <2>1. pc' = "idle" /\ pending' \subseteq pending
    BY <1>5 DEF SellReplyLost, BuyReplyLost, Crash, HandlerDone
  <2>2. \A no \in pending' : book'[no] = book[no]
    <3>1. ASSUME NEW code, NEW side, NEW qty, OrderReplyLost(code, side, qty)
          PROVE  \A no \in pending : book'[no] = book[no]
      <4>1. CASE UNCHANGED book
        BY <4>1
      <4>2. ASSUME NEW new \in OrderNo, Fresh(new),
                   book' = WithOrder(new, code, side, qty)
            PROVE  \A no \in pending : book'[no] = book[no]
        BY <1>0, <4>2 DEF Fresh, WithOrder, TypeInv, TypeOK, OrdersTypeOK
      <4> QED
        BY <3>1, <4>1, <4>2 DEF OrderReplyLost
    <3>2. CASE SellReplyLost \/ BuyReplyLost
      BY <2>1, <3>1, <3>2 DEF SellReplyLost, BuyReplyLost
    <3>3. CASE Crash
      BY <3>3 DEF Crash
    <3> QED
      BY <1>5, <3>2, <3>3
  <2> QED
    BY <1>0, <2>1, <2>2, NotAwaiting
<1>6. ASSUME NEW c \in Codes, OnChejan(c) PROVE PendingInv'
  <2>1. \A p \in PosId : positions'[p].code = positions[p].code
    BY <1>6, SetStatusType
    DEF OnChejan, TypeInv, TypeOK, StoreTypeOK, Statuses
  <2> QED
    BY <1>0, <1>6, <2>1, StillAwaiting DEF OnChejan
<1>7. ASSUME NEW no \in OrderNo, Fill(no) PROVE PendingInv'
  <2>1. \A n \in pending : /\ book'[n].code = book[n].code
                           /\ book'[n].side = book[n].side
                           /\ book'[n].state # "none"
    BY <1>0, <1>7 DEF Fill, OrderFilled, TypeInv, TypeOK, OrdersTypeOK, BookEntry
  <2> QED
    BY <1>7, <2>1, StillAwaiting DEF Fill, OrderFilled
<1>8. ASSUME NEW no \in OrderNo, CancelOne(no) PROVE PendingInv'
  <2>1. /\ pending' \subseteq pending
        /\ \A n \in pending : /\ book'[n].code = book[n].code
                              /\ book'[n].side = book[n].side
                              /\ book'[n].state # "none"
    BY <1>0, <1>8
    DEF CancelOne, CancelPending, TypeInv, TypeOK, OrdersTypeOK, BookEntry
  <2> QED
    BY <1>8, <2>1, NotAwaiting DEF CancelOne
<1>9. CASE Midnight
  <2>1. \A n \in pending : /\ book'[n].code = book[n].code
                           /\ book'[n].side = book[n].side
                           /\ book'[n].state # "none"
    BY <1>0, <1>9
    DEF Midnight, OrdersExpired, TypeInv, TypeOK, OrdersTypeOK, BookEntry
  <2> QED
    BY <1>9, <2>1, NotAwaiting DEF Midnight
<1>10. CASE Screen \/ DailyReset \/ Halt \/ Resume \/ OpenMarket
            \/ CloseMarket \/ Restart \/ UNCHANGED vars
  BY <1>0, <1>10, StillAwaiting
  DEF Screen, DailyReset, Halt, Resume, OpenMarket, CloseMarket, Restart
<1>11. ASSUME NEW p \in PosId,
              \/ KeepHolding(p) \/ PaperSell(p) \/ SellGivenUp(p)
              \/ SellRefused(p)
       PROVE  PendingInv'
  <2>1. UNCHANGED <<book, pending>> /\ pc' \notin {"sending", "buying"}
    BY <1>11 DEF KeepHolding, PaperSell, SellGivenUp, SellRefused, Visiting
  <2> QED
    BY <1>0, <2>1, NotAwaiting
<1>12. CASE SellRejected \/ RecordTrade \/ UpdatePnl \/ SkipEntry \/ PaperBuy
            \/ BuyRefused \/ BuyRejected
  <2>1. UNCHANGED <<book, pending>> /\ pc' \notin {"sending", "buying"}
    BY <1>12 DEF SellRejected, RecordTrade, UpdatePnl, SkipEntry, PaperBuy,
                 BuyRefused, BuyRejected, HandlerDone, BackToList
  <2> QED
    BY <1>0, <2>1, NotAwaiting
<1>13. CASE RestoreSelling \/ FinishCleanup \/ StartCleanup
            \/ \E c \in Codes : PollTick(c)
  <2>1. UNCHANGED <<book, pending>> /\ pc' \notin {"sending", "buying"}
    BY <1>13 DEF RestoreSelling, FinishCleanup, StartCleanup, PollTick,
                 HandlerDone
  <2> QED
    BY <1>0, <2>1, NotAwaiting
<1> QED
  BY <1>1, <1>2, <1>3, <1>4, <1>5, <1>6, <1>7, <1>8, <1>9, <1>10, <1>11,
     <1>12, <1>13 DEF Next, HandlerStep, Jobs, Clock, Environment

(***************************************************************************)
(* At no time does the program believe two orders of one code and side to  *)
(* be working, whatever replies are lost, events come in and handlers stop *)
(* half-way (OrderManager.execute_order, cancel_all_pending).              *)
(***************************************************************************)
THEOREM PendingUnique == Spec => []OnePendingPerSide
<1>1. Init => PendingInv
  BY DEF Init, OrdersInit, PendingInv, OnePendingPerSide, PendingIssued,
         AwaitedIsNew
<1>2. TypeInv /\ PendingInv /\ [Next]_vars => PendingInv'
  BY PendingStep
<1>3. PendingInv => OnePendingPerSide
  BY DEF PendingInv
<1> QED
  BY <1>1, <1>2, <1>3, TypeInit, TypeStep, PTL DEF Spec

-----------------------------------------------------------------------------
(* A selling position has an order behind it.                              *)

\* Paper mode never marks a position selling.
BackedInv ==
    /\ SellingIsBacked
    /\ ~LiveMode => PositionsByStatus("selling") = {} /\ pc # "sending"

Selling(p) == positions[p].status = "selling"

\* No position starts selling, no pending order is dropped, and the handler
\* that awaits a sale or cancels goes on with it.
LEMMA BackedKept ==
    ASSUME BackedInv, faults' = faults,
           \A p \in PosId : Selling(p)' => /\ Selling(p)
                                          /\ positions'[p].code = positions[p].code,
           \A no \in pending : /\ no \in pending'
                               /\ book'[no].code = book[no].code
                               /\ book'[no].side = book[no].side,
           pc = "sending" => pc' = "sending" /\ call' = call,
           pc = "cancel" => pc' = "cancel",
           pc' = "sending" => pc = "sending"
    PROVE  BackedInv'
<1>1. \A code : DuplicateOrder(code, "sell") => DuplicateOrder(code, "sell")'
  BY DEF DuplicateOrder
<1> QED
  BY <1>1 DEF BackedInv, SellingIsBacked, PositionsByStatus, Selling

\* After a fault only paper mode is left to show.
LEMMA BackedAfterFault ==
    ASSUME TypeInv, BackedInv, Fault, UNCHANGED positions, pc' = "idle"
    PROVE  BackedInv'
<1>1. faults' # 0
  BY DEF Fault, TypeInv, TypeOK
<1> QED
  BY <1>1 DEF BackedInv, SellingIsBacked, PositionsByStatus

\* The broker gives a new order a number that is not pending.
LEMMA AcceptedIsPending ==
    ASSUME OrdersTypeOK, PendingIssued, NEW no \in OrderNo,
           NEW code \in Codes, NEW side \in Sides, NEW qty \in Nat,
           OrderAccepted(no, code, side, qty)
    PROVE  /\ DuplicateOrder(code, side)'
           /\ \A n \in pending : n \in pending' /\ book'[n] = book[n]
<1>1. no \notin pending
  BY DEF OrderAccepted, Fresh, PendingIssued
<1>2. book'[no].code = code /\ book'[no].side = side /\ no \in pending'
  BY DEF OrderAccepted, WithOrder, OrdersTypeOK
<1>3. \A n \in pending : n \in pending' /\ book'[n] = book[n]
  BY <1>1 DEF OrderAccepted, WithOrder, OrdersTypeOK
<1> QED
  BY <1>2, <1>3 DEF DuplicateOrder

LEMMA BackedStep ==
    ASSUME TypeInv, PendingInv, BackedInv, [Next]_vars
    PROVE  BackedInv'
<1> USE DEF vars, orderVars, storeVars, riskVars, handlerVars, clockVars, Selling
<1>0. /\ positions \in [PosId -> Row] /\ OrdersTypeOK /\ PendingIssued
      /\ call \in Calls
  BY DEF TypeInv, TypeOK, StoreTypeOK, PendingInv
<1>1. CASE SellAccepted
  <2>1. PICK code \in Codes : code = positions[call.pos].code
    BY <1>0, <1>1 DEF SellAccepted, TypeInv, CallOK, RowsOK, Calls
  <2>2. call.qty \in Nat /\ call.pos \in PosId /\ "sell" \in Sides
    BY <1>0, <1>1 DEF SellAccepted, TypeInv, CallOK, RowsOK, Calls, Sides
  <2>3. PICK no \in OrderNo : OrderAccepted(no, code, "sell", call.qty)
    BY <1>1, <2>1 DEF SellAccepted
  <2>4. /\ DuplicateOrder(code, "sell")'
        /\ \A n \in pending : n \in pending' /\ book'[n] = book[n]
    BY <1>0, <2>2, <2>3, AcceptedIsPending
  <2>5. /\ pc = "sending" /\ pc' = "sold" /\ UNCHANGED faults /\ LiveMode
        /\ positions' = SaleCommitted(call)
    BY <1>1 DEF SellAccepted, BackedInv
  <2>6. \A p \in PosId : positions'[p].status = "selling"
            => positions[p].status = "selling" /\ positions'[p].code = positions[p].code
    BY <1>0, <2>2, <2>5 DEF SaleCommitted, PartlySold, Row
  <2>7. \A c : DuplicateOrder(c, "sell") => DuplicateOrder(c, "sell")'
    BY <2>4 DEF DuplicateOrder
  <2>8. ASSUME faults' = 0, NEW p \in PosId, positions'[p].status = "selling"
        PROVE  DuplicateOrder(positions[p].code, "sell")'
    <3>1. positions[p].status = "selling" /\ positions'[p].code = positions[p].code
      BY <2>6, <2>8
    <3>2. call.pos = p \/ DuplicateOrder(positions[p].code, "sell")
      BY <2>5, <2>8, <3>1 DEF BackedInv, SellingIsBacked, PositionsByStatus
    <3>3. CASE call.pos = p
      <4>1. positions'[p].code = code
        BY <2>1, <3>1, <3>3
      <4> QED
        BY <2>4, <4>1 DEF DuplicateOrder
    <3>4. CASE DuplicateOrder(positions[p].code, "sell")
      BY <2>7, <3>1, <3>4 DEF DuplicateOrder
    <3> QED
      BY <3>2, <3>3, <3>4
  <2>9. SellingIsBacked'
    BY <2>8 DEF SellingIsBacked, PositionsByStatus, DuplicateOrder
  <2> QED
    BY <2>5, <2>9 DEF BackedInv
<1>2. CASE SellRejected
  <2>1. /\ pc = "sending" /\ pc' # "sending" /\ UNCHANGED <<orderVars, faults>>
        /\ positions' = SetStatus({call.pos}, "open") /\ LiveMode
    BY <1>2 DEF SellRejected, BackToList, BackedInv
  <2>2. \A p \in PosId : positions'[p].status = "selling"
            => /\ positions[p].status = "selling" /\ p # call.pos
               /\ positions'[p].code = positions[p].code
    BY <1>0, <2>1 DEF SetStatus, Row
  <2>3. \A c : DuplicateOrder(c, "sell") => DuplicateOrder(c, "sell")'
    BY <2>1 DEF DuplicateOrder
  <2>4. ASSUME faults' = 0, NEW p \in PosId, positions'[p].status = "selling"
        PROVE  DuplicateOrder(positions[p].code, "sell")'
    <3>1. DuplicateOrder(positions[p].code, "sell")
      BY <2>1, <2>2, <2>4 DEF BackedInv, SellingIsBacked, PositionsByStatus
    <3> QED
      BY <2>2, <2>3, <2>4, <3>1 DEF DuplicateOrder
  <2>5. SellingIsBacked'
    BY <2>4 DEF SellingIsBacked, PositionsByStatus, DuplicateOrder
  <2> QED
    BY <2>1, <2>5 DEF BackedInv
<1>3. ASSUME NEW p \in PosId, SendSell(p) PROVE BackedInv'
  <2>1. /\ LiveMode /\ pc' = "sending" /\ pc \notin {"sending", "cancel"}
        /\ UNCHANGED <<orderVars, faults>> /\ positions' = SetStatus({p}, "selling")
    BY <1>3 DEF SendSell, Visiting
  <2>2. call'.pos = p
    BY <1>3 DEF SendSell, Sale
  <2>3. \A q \in PosId \ {p} : positions'[q] = positions[q]
    BY <2>1 DEF SetStatus
  <2>4. ASSUME faults' = 0, NEW q \in PosId \ {p}, positions'[q].status = "selling"
        PROVE  DuplicateOrder(positions[q].code, "sell")'
    <3>1. positions'[q] = positions[q]
      BY <2>3, <2>4
    <3>2. DuplicateOrder(positions[q].code, "sell")
      BY <2>1, <2>4, <3>1 DEF BackedInv, SellingIsBacked, PositionsByStatus
    <3> QED
      BY <2>1, <3>1, <3>2 DEF DuplicateOrder
  <2>5. SellingIsBacked'
    BY <2>1, <2>2, <2>4 DEF SellingIsBacked, PositionsByStatus, DuplicateOrder
  <2> QED
    BY <2>1, <2>5 DEF BackedInv
<1>4. CASE BuyAccepted
  <2>1. tick \in Codes /\ call.qty \in Nat
    BY <1>0, <1>4 DEF BuyAccepted, TypeInv, TargetsOK, Calls
  <2>2. PICK no \in OrderNo : OrderAccepted(no, tick, "buy", call.qty)
    BY <1>4 DEF BuyAccepted
  <2>3. \A n \in pending : n \in pending' /\ book'[n] = book[n]
    BY <1>0, <2>1, <2>2, AcceptedIsPending DEF Sides
  <2>4. /\ pc = "buying" /\ pc' = "idle" /\ UNCHANGED faults
        /\ \E p \in PosId : InsertPosition(p, tick, call.qty)
    BY <1>4 DEF BuyAccepted, HandlerDone
  <2>5. \A p \in PosId : Selling(p)' => /\ Selling(p)
                                       /\ positions'[p].code = positions[p].code
    BY <1>0, <2>4 DEF InsertPosition
  <2> QED
    BY <2>3, <2>4, <2>5, BackedKept
<1>5. CASE SellReplyLost \/ BuyReplyLost \/ Crash
  BY <1>5, BackedAfterFault DEF SellReplyLost, BuyReplyLost, Crash, HandlerDone
<1>6. ASSUME NEW c \in Codes, OnChejan(c) PROVE BackedInv'
  <2>1. \A p \in PosId : Selling(p)' => /\ Selling(p)
                                       /\ positions'[p].code = positions[p].code
    BY <1>0, <1>6 DEF OnChejan, SetStatus, PositionsByStatus, Row
  <2> QED
    BY <1>6, <2>1, BackedKept DEF OnChejan
<1>7. ASSUME NEW no \in OrderNo, Fill(no) PROVE BackedInv'
  <2>1. \A n \in pending : book'[n].code = book[n].code /\ book'[n].side = book[n].side
    BY <1>0, <1>7 DEF Fill, OrderFilled, OrdersTypeOK, BookEntry
  <2> QED
    BY <1>7, <2>1, BackedKept DEF Fill, OrderFilled
<1>8. ASSUME NEW no \in OrderNo, CancelOne(no) PROVE BackedInv'
  BY <1>8 DEF CancelOne, BackedInv, SellingIsBacked, PositionsByStatus
<1>9. CASE RestoreSelling
  <2>1. /\ pc' = "trend" /\ UNCHANGED faults
        /\ positions' = SetStatus(IF LiveMode THEN PositionsByStatus("selling")
                                              ELSE {}, "open")
    BY <1>9 DEF RestoreSelling
  <2>2. PositionsByStatus("selling")' = {}
    <3>1. CASE LiveMode
      BY <1>0, <2>1, <3>1 DEF SetStatus, PositionsByStatus, Row
    <3>2. CASE ~LiveMode
      BY <2>1, <3>2 DEF SetStatus, PositionsByStatus, BackedInv
    <3> QED
      BY <3>1, <3>2
  <2> QED
    BY <2>1, <2>2 DEF BackedInv, SellingIsBacked
<1>10. CASE Midnight
  <2>1. \A n \in pending : book'[n].code = book[n].code /\ book'[n].side = book[n].side
    BY <1>0, <1>10 DEF Midnight, OrdersExpired, OrdersTypeOK, BookEntry
  <2> QED
    BY <1>10, <2>1, BackedKept DEF Midnight
<1>11. CASE StartCleanup
  BY <1>11 DEF StartCleanup, BackedInv, SellingIsBacked, PositionsByStatus
<1>12. CASE Screen \/ DailyReset \/ Halt \/ Resume \/ OpenMarket
            \/ CloseMarket \/ Restart \/ UNCHANGED vars
  BY <1>12, BackedKept
  DEF Screen, DailyReset, Halt, Resume, OpenMarket, CloseMarket, Restart
<1>13. ASSUME NEW p \in PosId,
              KeepHolding(p) \/ PaperSell(p) \/ SellGivenUp(p) \/ SellRefused(p)
       PROVE  BackedInv'
  <2>1. /\ UNCHANGED <<orderVars, faults>> /\ pc \notin {"sending", "cancel"}
        /\ pc' # "sending"
    BY <1>13 DEF KeepHolding, PaperSell, SellGivenUp, SellRefused, Visiting
  <2>2. \A q \in PosId : Selling(q)' => /\ Selling(q)
                                       /\ positions'[q].code = positions[q].code
    <3>1. CASE KeepHolding(p) \/ SellGivenUp(p)
      BY <3>1 DEF KeepHolding, SellGivenUp
    <3>2. CASE SellRefused(p)
      BY <1>0, <3>2 DEF SellRefused, SetStatus, Row
    <3>3. CASE PaperSell(p)
      <4>1. ~LiveMode /\ positions' = SaleCommitted(call') /\ call'.pos = p
        BY <3>3 DEF PaperSell, Sale
      <4> QED
        BY <1>0, <4>1 DEF SaleCommitted, PartlySold, SetStatus, Row
    <3> QED
      BY <1>13, <3>1, <3>2, <3>3
  <2> QED
    BY <2>1, <2>2, BackedKept
<1>14. CASE RecordTrade \/ UpdatePnl \/ SkipEntry \/ BuyRefused \/ BuyRejected
            \/ SendBuy \/ FinishCleanup \/ \E c \in Codes : PollTick(c)
  <2>1. /\ UNCHANGED <<orderVars, positions, faults>>
        /\ pc \notin {"sending", "cancel"} /\ pc' # "sending"
    BY <1>14 DEF RecordTrade, RecordSale, UpdatePnl, SkipEntry, BuyRefused, BuyRejected,
                 SendBuy, FinishCleanup, PollTick, HandlerDone, BackToList
  <2> QED
    BY <2>1, BackedKept
<1>15. CASE PaperBuy
  <2>1. /\ UNCHANGED <<orderVars, faults>> /\ pc = "entry" /\ pc' = "idle"
        /\ \E p \in PosId, qty \in Lots : InsertPosition(p, tick, qty)
    BY <1>15 DEF PaperBuy, HandlerDone
  <2>2. \A p \in PosId : Selling(p)' => /\ Selling(p)
                                       /\ positions'[p].code = positions[p].code
    BY <1>0, <2>1 DEF InsertPosition
  <2> QED
    BY <2>1, <2>2, BackedKept
<1> QED
  BY <1>1, <1>2, <1>3, <1>4, <1>5, <1>6, <1>7, <1>8, <1>9, <1>10, <1>11,
     <1>12, <1>13, <1>14, <1>15 DEF Next, HandlerStep, Jobs, Clock, Environment

(***************************************************************************)
(* While no reply is lost and no process ends, a position marked selling   *)
(* has its sell in flight, pending, or about to be undone by the cleanup:  *)
(* no refusal and no event leaves it unwatched (_execute_sell, on_chejan). *)
(***************************************************************************)
THEOREM SellingBacked == Spec => []SellingIsBacked
<1>1. Init => BackedInv /\ PendingInv
  BY DEF Init, StoreInit, NoRow, OrdersInit, BackedInv, SellingIsBacked,
         PositionsByStatus, PendingInv, OnePendingPerSide, PendingIssued, AwaitedIsNew
<1>2. TypeInv /\ PendingInv /\ BackedInv /\ [Next]_vars => PendingInv' /\ BackedInv'
  BY PendingStep, BackedStep
<1>3. BackedInv => SellingIsBacked
  BY DEF BackedInv
<1> QED
  BY <1>1, <1>2, <1>3, TypeInit, TypeStep, PTL DEF Spec

-----------------------------------------------------------------------------
(* Live: the database never runs ahead of the orders.                      *)

\* Nothing is sold of a row, or ordered under a number, not yet in use.
Unused ==
    /\ \A p \in PosId : positions[p].status = "none"
                        => positions[p].code = NoCode /\ sold[p] = 0
    /\ \A no \in OrderNo : book[no].state = "none" => book[no].code = NoCode

\* A sale is committed before its trade record is written.
InHand(c) == IF pc = "sold" /\ positions[call.pos].code = c THEN call.qty ELSE 0

BooksInv ==
    /\ Unused
    /\ \A c \in Codes :
          /\ SumFunction(SoldQty(c)) + InHand(c) <= SumFunction(AcceptedQty(c, "sell"))
          /\ SumFunction(BoughtQty(c)) <= SumFunction(AcceptedQty(c, "buy"))

LEMMA RangesFinite == IsFiniteSet(PosId) /\ IsFiniteSet(OrderNo)
<1>1. /\ 1 \in Int /\ MaxRows \in Int /\ MaxOrders \in Int
  BY StoreAssumption, OrdersAssumption
<1> QED
  BY <1>1, FS_Interval DEF PosId, OrderNo

LEMMA QtyTypes ==
    ASSUME TypeInv, NEW c \in Codes, NEW side
    PROVE  /\ SoldQty(c) \in [PosId -> Nat] /\ BoughtQty(c) \in [PosId -> Nat]
           /\ AcceptedQty(c, side) \in [OrderNo -> Nat]
           /\ SumFunction(SoldQty(c)) \in Nat /\ SumFunction(BoughtQty(c)) \in Nat
           /\ SumFunction(AcceptedQty(c, side)) \in Nat
           /\ InHand(c) \in Nat
<1>1. /\ SoldQty(c) \in [PosId -> Nat] /\ BoughtQty(c) \in [PosId -> Nat]
      /\ AcceptedQty(c, side) \in [OrderNo -> Nat]
  BY DEF TypeInv, TypeOK, StoreTypeOK, OrdersTypeOK, Row, BookEntry, SoldQty,
         BoughtQty, AcceptedQty
<1>2. InHand(c) \in Nat
  BY DEF TypeInv, TypeOK, Calls, InHand
<1> QED
  BY <1>1, <1>2, RangesFinite, SumNat

\* A new order adds its quantity to the sum of its code and side only.
LEMMA NewOrderCounts ==
    ASSUME TypeInv, Unused, NEW no \in OrderNo, NEW code \in Codes,
           NEW side \in Sides, NEW qty \in Nat, Fresh(no),
           book' = WithOrder(no, code, side, qty), NEW c \in Codes, NEW s \in Sides
    PROVE  SumFunction(AcceptedQty(c, s)') =
               SumFunction(AcceptedQty(c, s)) + IF c = code /\ s = side THEN qty ELSE 0
<1> DEFINE f == AcceptedQty(c, s)
           g == [n \in OrderNo |-> IF book'[n].code = c /\ book'[n].side = s
                                   THEN book'[n].qty ELSE 0]
<1>1. g = AcceptedQty(c, s)'
  BY DEF AcceptedQty
<1>2. /\ book'[no].code = code /\ book'[no].side = side /\ book'[no].qty = qty
      /\ \A n \in OrderNo \ {no} : book'[n] = book[n]
  BY DEF WithOrder, TypeInv, TypeOK, OrdersTypeOK
<1>3. f \in [OrderNo -> Nat]
  BY QtyTypes
<1>4. f[no] = 0
  BY CodesAssumption DEF Unused, Fresh, AcceptedQty
<1>5. /\ g[no] = IF c = code /\ s = side THEN qty ELSE 0
      /\ \A n \in OrderNo \ {no} : g[n] = f[n]
  BY <1>2 DEF AcceptedQty
<1>6. g \in [OrderNo -> Nat]
  BY <1>3, <1>5
<1> HIDE DEF f, g
<1>7. SumFunction(g) = SumFunction(f) + IF c = code /\ s = side THEN qty ELSE 0
  <2>1. CASE c = code /\ s = side
    BY <1>3, <1>4, <1>5, <1>6, <2>1, RangesFinite, SumRaised
  <2>2. CASE ~(c = code /\ s = side)
    <3>1. g[no] = f[no] + 0
      BY <1>4, <1>5, <2>2
    <3> QED
      BY <1>3, <1>5, <1>6, <2>2, <3>1, RangesFinite, SumRaised
  <2> QED
    BY <2>1, <2>2
<1> QED
  BY <1>1, <1>7 DEF f

\* An order number in use has a code, whatever becomes of the order.
LEMMA StillUnused ==
    ASSUME TypeInv, Unused, NEW no \in OrderNo, NEW code, NEW side, NEW qty,
           book' = WithOrder(no, code, side, qty)
    PROVE  \A n \in OrderNo : book'[n].state = "none" => book'[n].code = NoCode
BY DEF WithOrder, TypeInv, TypeOK, OrdersTypeOK, Unused

\* A lost reply can only leave the broker with more orders.
LEMMA LostCounts ==
    ASSUME TypeInv, Unused, NEW code \in Codes, NEW side \in Sides, NEW qty \in Nat,
           OrderReplyLost(code, side, qty)
    PROVE  /\ \A n \in OrderNo : book'[n].state = "none" => book'[n].code = NoCode
           /\ \A c \in Codes, s \in Sides :
                 SumFunction(AcceptedQty(c, s)') >= SumFunction(AcceptedQty(c, s))
<1>1. CASE UNCHANGED book
  <2>1. \A c \in Codes, s \in Sides : AcceptedQty(c, s)' = AcceptedQty(c, s)
    BY <1>1 DEF AcceptedQty
  <2>2. \A c \in Codes, s \in Sides : SumFunction(AcceptedQty(c, s)) \in Nat
    BY QtyTypes
  <2> QED
    BY <1>1, <2>1, <2>2 DEF Unused
<1>2. ASSUME NEW no \in OrderNo, Fresh(no), book' = WithOrder(no, code, side, qty)
      PROVE  /\ \A n \in OrderNo : book'[n].state = "none" => book'[n].code = NoCode
             /\ \A c \in Codes, s \in Sides :
                   SumFunction(AcceptedQty(c, s)') >= SumFunction(AcceptedQty(c, s))
  <2>1. ASSUME NEW c \in Codes, NEW s \in Sides
        PROVE  SumFunction(AcceptedQty(c, s)') >= SumFunction(AcceptedQty(c, s))
    <3>1. SumFunction(AcceptedQty(c, s)) \in Nat
      BY QtyTypes
    <3>2. SumFunction(AcceptedQty(c, s)') =
              SumFunction(AcceptedQty(c, s)) + IF c = code /\ s = side THEN qty ELSE 0
      BY <1>2, NewOrderCounts
    <3> QED
      BY <3>1, <3>2
  <2> QED
    BY <1>2, <2>1, StillUnused
<1> QED
  BY <1>1, <1>2 DEF OrderReplyLost

\* The steps that write no order, no row and no sale record, and begin no sale.
LEMMA BooksSame ==
    ASSUME TypeInv, BooksInv,
           \A n \in OrderNo : /\ book'[n].code = book[n].code
                              /\ book'[n].side = book[n].side
                              /\ book'[n].qty = book[n].qty
                              /\ book'[n].state = "none" => book[n].state = "none",
           \A p \in PosId : /\ positions'[p].code = positions[p].code
                            /\ positions'[p].initial = positions[p].initial
                            /\ positions'[p].status = "none"
                                 => positions[p].status = "none",
           sold' = sold,
           pc' = "sold" => pc = "sold" /\ call' = call
    PROVE  BooksInv'
<1>1. Unused'
  BY DEF BooksInv, Unused
<1>2. ASSUME NEW c \in Codes
      PROVE  /\ SoldQty(c)' = SoldQty(c) /\ BoughtQty(c)' = BoughtQty(c)
             /\ \A s \in Sides : AcceptedQty(c, s)' = AcceptedQty(c, s)
  BY DEF SoldQty, BoughtQty, AcceptedQty
<1>3. ASSUME NEW c \in Codes PROVE InHand(c)' \in {0, InHand(c)}
  BY DEF InHand, TypeInv, CallOK
<1>4. ASSUME NEW c \in Codes
      PROVE  /\ SumFunction(SoldQty(c)') + InHand(c)'
                    <= SumFunction(AcceptedQty(c, "sell")')
             /\ SumFunction(BoughtQty(c)') <= SumFunction(AcceptedQty(c, "buy")')
  <2>1. /\ SumFunction(SoldQty(c)) \in Nat /\ InHand(c) \in Nat
        /\ SumFunction(AcceptedQty(c, "sell")) \in Nat
    BY QtyTypes
  <2>2. /\ SumFunction(SoldQty(c)) + InHand(c) <= SumFunction(AcceptedQty(c, "sell"))
        /\ SumFunction(BoughtQty(c)) <= SumFunction(AcceptedQty(c, "buy"))
    BY DEF BooksInv
  <2> QED
    BY <1>2, <1>3, <2>1, <2>2 DEF Sides
<1> QED
  BY <1>1, <1>4 DEF BooksInv

\* A reply is lost: the database is left alone.
LEMMA BooksLost ==
    ASSUME TypeInv, BooksInv, NEW code \in Codes, NEW side \in Sides, NEW qty \in Nat,
           OrderReplyLost(code, side, qty), UNCHANGED storeVars, pc' = "idle"
    PROVE  BooksInv'
<1>1. Unused'
  BY LostCounts DEF BooksInv, Unused, storeVars
<1>2. ASSUME NEW c \in Codes
      PROVE  /\ SumFunction(SoldQty(c)') + InHand(c)'
                    <= SumFunction(AcceptedQty(c, "sell")')
             /\ SumFunction(BoughtQty(c)') <= SumFunction(AcceptedQty(c, "buy")')
  <2>1. SoldQty(c)' = SoldQty(c) /\ BoughtQty(c)' = BoughtQty(c) /\ InHand(c)' = 0
    BY DEF SoldQty, BoughtQty, InHand, storeVars
  <2>2. /\ SumFunction(AcceptedQty(c, "sell")') >= SumFunction(AcceptedQty(c, "sell"))
        /\ SumFunction(AcceptedQty(c, "buy")') >= SumFunction(AcceptedQty(c, "buy"))
    BY LostCounts DEF BooksInv, Sides
  <2>3. /\ SumFunction(SoldQty(c)) \in Nat /\ InHand(c) \in Nat
        /\ SumFunction(AcceptedQty(c, "sell")) \in Nat
        /\ SumFunction(AcceptedQty(c, "buy")) \in Nat
        /\ SumFunction(BoughtQty(c)) \in Nat
    BY QtyTypes
  <2>4. /\ SumFunction(SoldQty(c)) + InHand(c) <= SumFunction(AcceptedQty(c, "sell"))
        /\ SumFunction(BoughtQty(c)) <= SumFunction(AcceptedQty(c, "buy"))
    BY DEF BooksInv
  <2>5. /\ SumFunction(AcceptedQty(c, "sell")') \in Nat
        /\ SumFunction(AcceptedQty(c, "buy")') \in Nat
    <3>1. \A s \in Sides : \A q \in Nat : SumFunction(AcceptedQty(c, s)) + q \in Nat
      BY QtyTypes
    <3>2. CASE book' = book
      BY <2>3, <3>2 DEF AcceptedQty
    <3>3. ASSUME NEW no \in OrderNo, Fresh(no), book' = WithOrder(no, code, side, qty)
          PROVE  /\ SumFunction(AcceptedQty(c, "sell")') \in Nat
                 /\ SumFunction(AcceptedQty(c, "buy")') \in Nat
      <4>1. \A s \in Sides : SumFunction(AcceptedQty(c, s)') =
                SumFunction(AcceptedQty(c, s)) + IF c = code /\ s = side THEN qty ELSE 0
        BY <3>3, NewOrderCounts DEF BooksInv
      <4> QED
        BY <3>1, <4>1 DEF Sides
    <3> QED
      BY <3>2, <3>3 DEF OrderReplyLost
  <2> QED
    BY <2>1, <2>2, <2>3, <2>4, <2>5
<1> QED
  BY <1>1, <1>2 DEF BooksInv

\* The broker accepts a sale: it is in hand until its record is written.
LEMMA BooksSellAccepted ==
    ASSUME LiveMode, TypeInv, BooksInv, SellAccepted
    PROVE  BooksInv'
<1>1. PICK code \in Codes, qty \in Nat : /\ code = positions[call.pos].code
                                        /\ qty = call.qty
  BY DEF SellAccepted, TypeInv, CallOK, RowsOK, TypeOK, Calls
<1>2. PICK no \in OrderNo : Fresh(no) /\ book' = WithOrder(no, code, "sell", qty)
  BY <1>1 DEF SellAccepted, OrderAccepted
<1>3. /\ pc = "sending" /\ pc' = "sold" /\ call' = call /\ sold' = sold
      /\ positions' = SaleCommitted(call) /\ call.pos \in PosId
  BY DEF SellAccepted, TypeInv, CallOK
<1>4. \A p \in PosId : /\ positions'[p].code = positions[p].code
                       /\ positions'[p].initial = positions[p].initial
                       /\ positions'[p].status = "none" => positions[p].status = "none"
  BY <1>3 DEF SaleCommitted, PartlySold, SetStatus, TypeInv, TypeOK, StoreTypeOK, Row
<1>5. Unused'
  <2>1. \A n \in OrderNo : book'[n].state = "none" => book'[n].code = NoCode
    BY <1>2, StillUnused DEF BooksInv
  <2> QED
    BY <1>3, <1>4, <2>1 DEF BooksInv, Unused
<1>6. ASSUME NEW c \in Codes
      PROVE  /\ SumFunction(SoldQty(c)') + InHand(c)'
                    <= SumFunction(AcceptedQty(c, "sell")')
             /\ SumFunction(BoughtQty(c)') <= SumFunction(AcceptedQty(c, "buy")')
  <2>1. SoldQty(c)' = SoldQty(c) /\ BoughtQty(c)' = BoughtQty(c)
    BY <1>3, <1>4 DEF SoldQty, BoughtQty
  <2>2. InHand(c) = 0 /\ InHand(c)' = IF c = code THEN qty ELSE 0
    BY <1>1, <1>3, <1>4 DEF InHand
  <2>3. \A s \in Sides : SumFunction(AcceptedQty(c, s)') =
            SumFunction(AcceptedQty(c, s)) + IF c = code /\ s = "sell" THEN qty ELSE 0
    BY <1>2, NewOrderCounts DEF BooksInv, Sides
  <2>4. /\ SumFunction(SoldQty(c)) \in Nat /\ SumFunction(BoughtQty(c)) \in Nat
        /\ SumFunction(AcceptedQty(c, "sell")) \in Nat
        /\ SumFunction(AcceptedQty(c, "buy")) \in Nat
    BY QtyTypes
  <2>5. /\ SumFunction(SoldQty(c)) + InHand(c) <= SumFunction(AcceptedQty(c, "sell"))
        /\ SumFunction(BoughtQty(c)) <= SumFunction(AcceptedQty(c, "buy"))
    BY DEF BooksInv
  <2>6. /\ SumFunction(AcceptedQty(c, "sell")') = SumFunction(AcceptedQty(c, "sell"))
                                                  + IF c = code THEN qty ELSE 0
        /\ SumFunction(AcceptedQty(c, "buy")') = SumFunction(AcceptedQty(c, "buy")) + 0
    BY <2>3 DEF Sides
  <2> QED
    BY <2>1, <2>2, <2>4, <2>5, <2>6
<1> QED
  BY <1>5, <1>6 DEF BooksInv

\* The trade record moves the sale from in hand to sold.
LEMMA BooksRecorded ==
    ASSUME TypeInv, BooksInv, RecordTrade
    PROVE  BooksInv'
<1>1. PICK x \in PosId, qty \in Nat : x = call.pos /\ qty = call.qty
  BY DEF RecordTrade, TypeInv, CallOK, TypeOK, Calls
<1>2. /\ pc = "sold" /\ pc' # "sold" /\ positions[x].status # "none"
      /\ UNCHANGED <<book, positions>>
      /\ sold' = [sold EXCEPT ![x] = @ + qty]
  BY <1>1 DEF RecordTrade, RecordSale, BackToList, TypeInv, CallOK, orderVars
<1>3. sold \in [PosId -> Nat]
  BY DEF TypeInv, TypeOK, StoreTypeOK
<1>4. Unused'
  BY <1>2, <1>3 DEF BooksInv, Unused
<1>5. ASSUME NEW c \in Codes
      PROVE  /\ SumFunction(SoldQty(c)') + InHand(c)'
                    <= SumFunction(AcceptedQty(c, "sell")')
             /\ SumFunction(BoughtQty(c)') <= SumFunction(AcceptedQty(c, "buy")')
  <2> DEFINE f == SoldQty(c)
             g == [p \in PosId |-> IF positions'[p].code = c THEN sold'[p] ELSE 0]
             d == IF positions[x].code = c THEN qty ELSE 0
  <2>1. g = SoldQty(c)'
    BY DEF SoldQty
  <2>2. /\ f \in [PosId -> Nat] /\ d \in Nat
        /\ SumFunction(f) \in Nat /\ SumFunction(BoughtQty(c)) \in Nat
        /\ SumFunction(AcceptedQty(c, "sell")) \in Nat
    BY QtyTypes
  <2>3. g[x] = f[x] + d /\ \A p \in PosId \ {x} : g[p] = f[p]
    BY <1>2, <1>3 DEF SoldQty
  <2>4. g \in [PosId -> Nat]
    BY <2>2, <2>3
  <2>5. SumFunction(g) = SumFunction(f) + d
    <3> HIDE DEF f, g, d
    <3> QED
      BY <2>2, <2>3, <2>4, RangesFinite, SumRaised
  <2>6. InHand(c) = d /\ InHand(c)' = 0
    BY <1>1, <1>2 DEF InHand
  <2>7. BoughtQty(c)' = BoughtQty(c) /\ \A s \in Sides : AcceptedQty(c, s)' = AcceptedQty(c, s)
    BY <1>2 DEF BoughtQty, AcceptedQty
  <2>8. /\ SumFunction(f) + InHand(c) <= SumFunction(AcceptedQty(c, "sell"))
        /\ SumFunction(BoughtQty(c)) <= SumFunction(AcceptedQty(c, "buy"))
    BY DEF BooksInv
  <2>9. SumFunction(SoldQty(c)') = SumFunction(f) + d
    BY <2>1, <2>5
  <2> HIDE DEF f, g, d
  <2> QED
    BY <2>2, <2>6, <2>7, <2>8, <2>9 DEF Sides
<1> QED
  BY <1>4, <1>5 DEF BooksInv

\* The broker accepts a buy, and the position is recorded with its quantity.
LEMMA BooksBuyAccepted ==
    ASSUME TypeInv, BooksInv, BuyAccepted
    PROVE  BooksInv'
<1>1. PICK code \in Codes, qty \in Nat : code = tick /\ qty = call.qty
  BY DEF BuyAccepted, TypeInv, TargetsOK, TypeOK, Calls
<1>2. PICK no \in OrderNo : Fresh(no) /\ book' = WithOrder(no, code, "buy", qty)
  BY <1>1 DEF BuyAccepted, OrderAccepted
<1>3. PICK x \in PosId : InsertPosition(x, code, qty)
  BY <1>1 DEF BuyAccepted
<1>4. sold' = sold /\ pc' = "idle"
  BY DEF BuyAccepted, HandlerDone
<1>5. /\ positions[x].status = "none" /\ positions'[x].status = "open"
      /\ positions'[x].code = code /\ positions'[x].initial = qty
      /\ \A p \in PosId \ {x} : positions'[p] = positions[p]
  BY <1>3 DEF InsertPosition, NextRow, TypeInv, TypeOK, StoreTypeOK
<1>6. positions[x].code = NoCode /\ sold[x] = 0
  BY <1>5 DEF BooksInv, Unused
<1>7. Unused'
  <2>1. \A n \in OrderNo : book'[n].state = "none" => book'[n].code = NoCode
    BY <1>2, StillUnused DEF BooksInv
  <2> QED
    BY <1>4, <1>5, <2>1 DEF BooksInv, Unused
<1>8. ASSUME NEW c \in Codes
      PROVE  /\ SumFunction(SoldQty(c)') + InHand(c)'
                    <= SumFunction(AcceptedQty(c, "sell")')
             /\ SumFunction(BoughtQty(c)') <= SumFunction(AcceptedQty(c, "buy")')
  <2> DEFINE f == BoughtQty(c)
             g == [p \in PosId |-> IF positions'[p].code = c THEN positions'[p].initial
                                                             ELSE 0]
             d == IF c = code THEN qty ELSE 0
  <2>1. g = BoughtQty(c)'
    BY DEF BoughtQty
  <2>2. /\ f \in [PosId -> Nat] /\ d \in Nat
        /\ SumFunction(f) \in Nat /\ SumFunction(SoldQty(c)) \in Nat
        /\ SumFunction(AcceptedQty(c, "sell")) \in Nat
        /\ SumFunction(AcceptedQty(c, "buy")) \in Nat /\ InHand(c) \in Nat
    BY QtyTypes
  <2>3. f[x] = 0
    BY <1>6, CodesAssumption DEF BoughtQty
  <2>4. g[x] = d /\ \A p \in PosId \ {x} : g[p] = f[p]
    BY <1>5 DEF BoughtQty
  <2>5. g \in [PosId -> Nat] /\ g[x] = f[x] + d
    BY <2>2, <2>3, <2>4
  <2>6. SumFunction(g) = SumFunction(f) + d
    <3> HIDE DEF f, g, d
    <3> QED
      BY <2>2, <2>4, <2>5, RangesFinite, SumRaised
  <2>7. SoldQty(c)' = SoldQty(c)
    <3>1. \A p \in PosId : (IF positions'[p].code = c THEN sold'[p] ELSE 0)
                         = (IF positions[p].code = c THEN sold[p] ELSE 0)
      BY <1>4, <1>5, <1>6
    <3> QED
      BY <3>1 DEF SoldQty
  <2>8. InHand(c)' = 0
    BY <1>4 DEF InHand
  <2>9. /\ SumFunction(AcceptedQty(c, "sell")') = SumFunction(AcceptedQty(c, "sell")) + 0
        /\ SumFunction(AcceptedQty(c, "buy")') = SumFunction(AcceptedQty(c, "buy")) + d
    <3>1. \A s \in Sides : SumFunction(AcceptedQty(c, s)') =
              SumFunction(AcceptedQty(c, s)) + IF c = code /\ s = "buy" THEN qty ELSE 0
      BY <1>2, NewOrderCounts DEF BooksInv, Sides
    <3> QED
      BY <3>1 DEF Sides
  <2>10. /\ SumFunction(SoldQty(c)) + InHand(c) <= SumFunction(AcceptedQty(c, "sell"))
         /\ SumFunction(f) <= SumFunction(AcceptedQty(c, "buy"))
    BY DEF BooksInv
  <2>11. SumFunction(BoughtQty(c)') = SumFunction(f) + d
    BY <2>1, <2>6
  <2> HIDE DEF f, g, d
  <2> QED
    BY <2>2, <2>7, <2>8, <2>9, <2>10, <2>11
<1> QED
  BY <1>7, <1>8 DEF BooksInv

LEMMA BooksStep ==
    ASSUME LiveMode, TypeInv, BooksInv, [Next]_vars
    PROVE  BooksInv'
<1> USE DEF vars, orderVars, storeVars, riskVars, handlerVars, clockVars
<1>0. /\ positions \in [PosId -> Row] /\ OrdersTypeOK /\ call \in Calls
  BY DEF TypeInv, TypeOK, StoreTypeOK
<1>1. CASE SellAccepted
  BY <1>1, BooksSellAccepted
<1>2. CASE RecordTrade
  BY <1>2, BooksRecorded
<1>3. CASE BuyAccepted
  BY <1>3, BooksBuyAccepted
<1>4. CASE SellReplyLost \/ (Crash /\ pc = "sending")
  <2>1. PICK code \in Codes, qty \in Nat : /\ code = positions[call.pos].code
                                          /\ qty = call.qty
    BY <1>4 DEF SellReplyLost, TypeInv, CallOK, RowsOK, TypeOK, Calls
  <2>2. OrderReplyLost(code, "sell", qty) /\ UNCHANGED storeVars /\ pc' = "idle"
    BY <1>4, <2>1 DEF SellReplyLost, Crash, HandlerDone
  <2> QED
    BY <2>2, BooksLost DEF Sides
<1>5. CASE BuyReplyLost \/ (Crash /\ pc = "buying")
  <2>1. PICK code \in Codes, qty \in Nat : code = tick /\ qty = call.qty
    BY <1>5 DEF BuyReplyLost, TypeInv, TargetsOK, TypeOK, Calls
  <2>2. OrderReplyLost(code, "buy", qty) /\ UNCHANGED storeVars /\ pc' = "idle"
    BY <1>5, <2>1 DEF BuyReplyLost, Crash, HandlerDone
  <2> QED
    BY <2>2, BooksLost DEF Sides
<1>6. CASE Crash /\ pc \notin {"sending", "buying"}
  BY <1>6, BooksSame DEF Crash, HandlerDone
<1>7. ASSUME NEW c \in Codes, OnChejan(c) PROVE BooksInv'
  <2>1. \A p \in PosId : /\ positions'[p].code = positions[p].code
                         /\ positions'[p].initial = positions[p].initial
                         /\ positions'[p].status = "none" => positions[p].status = "none"
    BY <1>0, <1>7 DEF OnChejan, SetStatus, Row
  <2> QED
    BY <1>7, <2>1, BooksSame DEF OnChejan
<1>8. ASSUME NEW no \in OrderNo, Fill(no) \/ CancelOne(no) PROVE BooksInv'
  <2>1. \A n \in OrderNo : /\ book'[n].code = book[n].code
                           /\ book'[n].side = book[n].side
                           /\ book'[n].qty = book[n].qty
                           /\ book'[n].state = "none" => book[n].state = "none"
    BY <1>0, <1>8 DEF Fill, OrderFilled, CancelOne, CancelPending, OrdersTypeOK, BookEntry
  <2>2. UNCHANGED <<positions, sold, pc, call>>
    BY <1>8 DEF Fill, CancelOne
  <2> QED
    BY <2>1, <2>2, BooksSame
<1>9. CASE Midnight
  <2>1. \A n \in OrderNo : /\ book'[n].code = book[n].code
                           /\ book'[n].side = book[n].side
                           /\ book'[n].qty = book[n].qty
                           /\ book'[n].state = "none" => book[n].state = "none"
    BY <1>0, <1>9 DEF Midnight, OrdersExpired, OrdersTypeOK, BookEntry
  <2> QED
    BY <1>9, <2>1, BooksSame DEF Midnight
<1>10. CASE RestoreSelling \/ SellRejected
           \/ \E p \in PosId : SellRefused(p) \/ SendSell(p)
  <2>1. \E ps : \E status \in Statuses \ {"none"} : positions' = SetStatus(ps, status)
    BY <1>10 DEF RestoreSelling, SellRejected, SellRefused, SendSell, Statuses
  <2>2. \A p \in PosId : /\ positions'[p].code = positions[p].code
                         /\ positions'[p].initial = positions[p].initial
                         /\ positions'[p].status = "none" => positions[p].status = "none"
    BY <1>0, <2>1 DEF SetStatus, Row
  <2>3. UNCHANGED <<book, sold>> /\ pc' # "sold"
    BY <1>10 DEF RestoreSelling, SellRejected, SellRefused, SendSell, BackToList, Visiting
  <2> QED
    BY <2>2, <2>3, BooksSame
<1>11. CASE Screen \/ DailyReset \/ Halt \/ Resume \/ OpenMarket \/ CloseMarket
            \/ Restart \/ UNCHANGED vars
  BY <1>11, BooksSame
  DEF Screen, DailyReset, Halt, Resume, OpenMarket, CloseMarket, Restart
<1>12. CASE UpdatePnl \/ SkipEntry \/ BuyRefused \/ BuyRejected \/ SendBuy
            \/ FinishCleanup \/ StartCleanup \/ (\E c \in Codes : PollTick(c))
            \/ \E p \in PosId : KeepHolding(p) \/ SellGivenUp(p)
  <2>1. UNCHANGED <<book, positions, sold>> /\ pc' # "sold"
    BY <1>12 DEF UpdatePnl, SkipEntry, BuyRefused, BuyRejected, SendBuy, FinishCleanup,
                 StartCleanup, PollTick, HandlerDone, KeepHolding, SellGivenUp, Visiting
  <2> QED
    BY <2>1, BooksSame
<1>13. ~PaperBuy /\ \A p \in PosId : ~PaperSell(p)
  BY DEF PaperBuy, PaperSell
<1> QED
  BY <1>1, <1>2, <1>3, <1>4, <1>5, <1>6, <1>7, <1>8, <1>9, <1>10, <1>11,
     <1>12, <1>13 DEF Next, HandlerStep, Jobs, Clock, Environment

(***************************************************************************)
(* Live: of every code the sale records never add up to more than the      *)
(* broker accepted to sell, and the positions never to more than it        *)
(* accepted to buy, whatever replies are lost and wherever a crash falls.  *)
(***************************************************************************)
THEOREM LedgerBacked == LiveMode /\ Spec => []LedgerBackedByOrders
<1>1. ASSUME Init PROVE BooksInv
  <2>1. TypeInv /\ Unused /\ pc = "idle"
    BY <1>1, TypeInit DEF Init, StoreInit, OrdersInit, NoRow, Unissued, Unused
  <2>2. ASSUME NEW c \in Codes
        PROVE  /\ SumFunction(SoldQty(c)) = 0 /\ SumFunction(BoughtQty(c)) = 0
               /\ InHand(c) = 0
    <3>1. SoldQty(c) \in [PosId -> Nat] /\ BoughtQty(c) \in [PosId -> Nat]
      BY <2>1, QtyTypes
    <3>2. \A p \in PosId : SoldQty(c)[p] = 0 /\ BoughtQty(c)[p] = 0
      BY <1>1 DEF Init, StoreInit, NoRow, SoldQty, BoughtQty
    <3> QED
      BY <2>1, <3>1, <3>2, RangesFinite, SumZero DEF InHand
  <2>3. \A c \in Codes, s \in Sides : SumFunction(AcceptedQty(c, s)) \in Nat
    BY <2>1, QtyTypes
  <2> QED
    BY <2>1, <2>2, <2>3 DEF BooksInv, Sides
<1>2. ASSUME LiveMode PROVE Spec => []LedgerBackedByOrders
  <2>1. TypeInv /\ BooksInv /\ [Next]_vars => BooksInv'
    BY <1>2, BooksStep
  <2>2. TypeInv /\ BooksInv => LedgerBackedByOrders
    <3>1. ASSUME TypeInv, BooksInv, NEW c \in Codes
          PROVE  SumFunction(SoldQty(c)) <= SumFunction(AcceptedQty(c, "sell"))
      <4>1. /\ SumFunction(SoldQty(c)) \in Nat /\ InHand(c) \in Nat
            /\ SumFunction(AcceptedQty(c, "sell")) \in Nat
        BY <3>1, QtyTypes
      <4>2. SumFunction(SoldQty(c)) + InHand(c) <= SumFunction(AcceptedQty(c, "sell"))
        BY <3>1 DEF BooksInv
      <4> QED
        BY <4>1, <4>2
    <3> QED
      BY <3>1 DEF BooksInv, LedgerBackedByOrders
  <2> QED
    BY <1>1, <2>1, <2>2, TypeInit, TypeStep, PTL DEF Spec
<1> QED
  BY <1>2
=============================================================================
