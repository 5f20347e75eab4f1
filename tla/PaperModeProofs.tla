-------------------------- MODULE PaperModeProofs ---------------------------
(***************************************************************************)
(* What the engine guarantees in paper mode, for every number of codes,    *)
(* rows, positions, lot size, sale ratio and crash.  In paper mode a sale  *)
(* and a buy are one commit each, with no broker in between, so what holds *)
(* here is what the live mode is meant to keep.  At the end, that the      *)
(* engine in this mode implements the position ledger.                     *)
(***************************************************************************)
EXTENDS TradingEngineProofs, FiniteSetTheorems

\* Nothing is ever at a broker, and the handler's list holds open positions.
PaperMode ==
    /\ pending = {}
    /\ pc \notin {"sending", "buying"}
    /\ \A p \in PosId : positions[p].status # "selling"
    /\ todo \subseteq OpenPositions

UnusedRows == \A p \in PosId :
    positions[p].status = "none" => positions[p] = NoRow

\* Shares still in a position, and shares sold of it but not yet recorded.
Kept(p) == IF positions[p].status = "closed" THEN 0 ELSE positions[p].qty
Recording(p) == IF RecordingSale(p) THEN call.qty ELSE 0

\* What SalesAccounted needs between the position update and its trade record.
Accounts ==
    \A p \in PosId :
        /\ positions[p].status = "open" => positions[p].qty > 0
        /\ sold[p] + Recording(p) + Kept(p) <= positions[p].initial
        /\ faults = 0 =>
              sold[p] + Recording(p) + Kept(p) = positions[p].initial

PaperInv ==
    /\ PaperMode /\ UnusedRows
    /\ OneLivePositionPerCode /\ PositionLimit /\ Accounts

LEMMA OpenFinite ==
    ASSUME MaxRows \in Nat
    PROVE  IsFiniteSet(OpenPositions) /\ OpenPositions \subseteq PosId
<1>1. IsFiniteSet(PosId)
  BY FS_Interval DEF PosId
<1>2. OpenPositions \in SUBSET PosId
  BY DEF OpenPositions, PositionsByStatus
<1> QED
  BY <1>1, <1>2, FS_Subset

LEMMA SetStatusNothing ==
    ASSUME positions \in [PosId -> Row], NEW status
    PROVE  SetStatus({}, status) = positions
BY DEF SetStatus

LEMMA PaperInit == Init => PaperInv
<1> SUFFICES ASSUME Init PROVE PaperInv
  OBVIOUS
<1>1. \A p \in PosId : positions[p] = NoRow /\ sold[p] = 0
  BY DEF Init, StoreInit
<1>2. OpenPositions = {}
  BY <1>1 DEF OpenPositions, PositionsByStatus, NoRow
<1>3. PositionLimit
  BY <1>2, FS_EmptySet, RiskAssumption DEF PositionLimit, CountOpenPositions
<1>4. PaperMode /\ UnusedRows /\ OneLivePositionPerCode
  <2>1. \A p \in PosId : positions[p].status = "none"
    BY <1>1 DEF NoRow
  <2> QED
    BY <1>1, <2>1 DEF Init, OrdersInit, PaperMode, UnusedRows,
                      OneLivePositionPerCode, Live
<1>5. Accounts
  BY <1>1 DEF Init, Accounts, Recording, RecordingSale, Kept, NoRow
<1> QED
  BY <1>3, <1>4, <1>5 DEF PaperInv

\* Steps that touch neither a position nor a sale record.
LEMMA BooksUntouched ==
    ASSUME TypeInv, PaperInv, UNCHANGED <<positions, sold>>,
           pending' = {}, pc' \notin {"sending", "buying"},
           todo' \subseteq OpenPositions,
           \/ UNCHANGED <<pc, call>>
           \/ pc # "sold" /\ pc' # "sold"
           \/ faults' # 0 /\ pc' # "sold",
           faults = 0 \/ faults' # 0
    PROVE  PaperInv'
<1>1. OpenPositions' = OpenPositions
  BY DEF OpenPositions, PositionsByStatus
<1>2. PaperMode' /\ UnusedRows'
  BY <1>1 DEF PaperInv, PaperMode, UnusedRows
<1>3. OneLivePositionPerCode' /\ PositionLimit'
  BY <1>1 DEF PaperInv, OneLivePositionPerCode, Live, PositionLimit,
              CountOpenPositions
<1>4. ASSUME NEW p \in PosId
      PROVE  /\ positions'[p].status = "open" => positions'[p].qty > 0
             /\ sold'[p] + Recording(p)' + Kept(p)' <= positions'[p].initial
             /\ faults' = 0 => sold'[p] + Recording(p)' + Kept(p)'
                                 = positions'[p].initial
  <2>1. Kept(p)' = Kept(p)
    BY DEF Kept
  <2>2. /\ Recording(p) \in Nat /\ sold[p] \in Nat /\ Kept(p) \in Nat
        /\ positions[p].initial \in Nat
    BY DEF Recording, Kept, TypeInv, TypeOK, StoreTypeOK, Row, Calls
  <2>3. \/ Recording(p)' = Recording(p)
        \/ Recording(p)' = 0 /\ faults' # 0
    BY DEF Recording, RecordingSale
  <2> QED
    BY <2>1, <2>2, <2>3 DEF PaperInv, Accounts
<1> QED
  BY <1>2, <1>3, <1>4 DEF PaperInv, Accounts

\* What a paper sale does to the positions table.
LEMMA PaperSellEffect ==
    ASSUME TypeInv, PaperInv, ~LiveMode, NEW p \in PosId, PaperSell(p)
    PROVE  /\ call'.pos = p /\ call'.qty \in Nat \ {0}
           /\ \A q \in PosId \ {p} : positions'[q] = positions[q]
           /\ positions'[p].code = positions[p].code
           /\ positions'[p].initial = positions[p].initial
           /\ \/ /\ positions'[p].status = "closed"
                 /\ call'.qty = positions[p].qty
              \/ /\ positions'[p].status = "open"
                 /\ positions'[p].qty = positions[p].qty - call'.qty
                 /\ positions'[p].qty < positions[p].qty
                 /\ positions'[p].qty \in Nat \ {0}
<1>1. PICK kind \in ExitKinds(p) : call' = Sale(p, kind)
                                /\ positions' = SaleCommitted(call')
  BY DEF PaperSell
<1>2. /\ positions[p].status = "open" /\ pc # "sold"
      /\ positions \in [PosId -> Row] /\ positions[p] \in Row
      /\ positions[p].qty \in Nat /\ positions[p].qty > 0
      /\ sold \in [PosId -> Nat]
  BY DEF PaperSell, Visiting, PaperInv, PaperMode, OpenPositions,
         PositionsByStatus, Accounts, TypeInv, TypeOK, StoreTypeOK, Row
<1>3. /\ call'.pos = p /\ call'.qty \in Nat \ {0}
      /\ \/ call'.kind = "full" /\ call'.qty = positions[p].qty
         \/ call'.kind \in {"TP1", "TP2"} /\ call'.qty < positions[p].qty
  <2>1. PartQty(p, kind) \in Nat \ {0}
    BY PartQtyType DEF TypeInv
  <2> QED
    BY <1>1, <1>2, <2>1, ExitKindsType DEF Sale
<1>4. /\ \A q \in PosId \ {p} : positions'[q] = positions[q]
      /\ positions'[p].code = positions[p].code
      /\ positions'[p].initial = positions[p].initial
      /\ \/ /\ positions'[p].status = "closed"
            /\ call'.qty = positions[p].qty
         \/ /\ positions'[p].status = "open"
            /\ positions'[p].qty = positions[p].qty - call'.qty
            /\ call'.qty < positions[p].qty
  <2>1. CASE call'.kind = "full"
    <3>1. positions' = SetStatus({p}, "closed")
      BY <1>1, <1>3, <2>1 DEF SaleCommitted
    <3> QED
      BY <1>2, <1>3, <2>1, <3>1 DEF SetStatus, Row
  <2>2. CASE call'.kind \in {"TP1", "TP2"}
    <3>1. positions' = [positions EXCEPT ![p] = PartlySold(positions[p], call')]
      BY <1>1, <1>3, <2>2 DEF SaleCommitted
    <3>2. LET row == PartlySold(positions[p], call')
          IN  /\ row.code = positions[p].code
              /\ row.initial = positions[p].initial
              /\ row.status = "open"
              /\ row.qty = positions[p].qty - call'.qty
      BY <1>2 DEF PartlySold, Row
    <3> QED
      BY <1>2, <1>3, <2>2, <3>1, <3>2
  <2> QED
    BY <1>3, <2>1, <2>2
<1> QED
  BY <1>2, <1>3, <1>4

LEMMA PaperSellStep ==
    ASSUME TypeInv, PaperInv, ~LiveMode, NEW p \in PosId, PaperSell(p)
    PROVE  PaperInv'
<1>2. /\ positions[p].status = "open" /\ pc # "sold"
      /\ positions[p].qty \in Nat /\ positions[p].initial \in Nat
      /\ sold \in [PosId -> Nat]
  BY DEF PaperSell, Visiting, PaperInv, PaperMode, OpenPositions,
         PositionsByStatus, TypeInv, TypeOK, StoreTypeOK, Row
<1>4. /\ call'.pos = p /\ call'.qty \in Nat \ {0}
      /\ \A q \in PosId \ {p} : positions'[q] = positions[q]
      /\ positions'[p].code = positions[p].code
      /\ positions'[p].initial = positions[p].initial
      /\ \/ /\ positions'[p].status = "closed"
            /\ call'.qty = positions[p].qty
         \/ /\ positions'[p].status = "open"
            /\ positions'[p].qty = positions[p].qty - call'.qty
            /\ positions'[p].qty \in Nat \ {0}
  BY PaperSellEffect
<1>5. /\ pc' = "sold" /\ todo' = todo \ {p} /\ sold' = sold
      /\ faults' = faults /\ pending' = pending
  BY DEF PaperSell, orderVars
<1>6. OpenPositions' \subseteq OpenPositions
  BY <1>2, <1>4 DEF OpenPositions, PositionsByStatus
<1>7. PaperMode'
  <2>1. \A q \in todo' : positions'[q].status = "open" /\ q \in PosId
    BY <1>4, <1>5 DEF PaperInv, PaperMode, OpenPositions, PositionsByStatus
  <2>2. todo' \subseteq OpenPositions'
    BY <2>1 DEF OpenPositions, PositionsByStatus
  <2>3. \A q \in PosId : positions'[q].status # "selling"
    BY <1>4 DEF PaperInv, PaperMode
  <2> QED
    BY <1>5, <2>2, <2>3 DEF PaperInv, PaperMode
<1>8. UnusedRows'
  BY <1>4 DEF PaperInv, UnusedRows
<1>9. OneLivePositionPerCode'
  BY <1>2, <1>4 DEF PaperInv, OneLivePositionPerCode, Live
<1>10. PositionLimit'
  <2>1. /\ IsFiniteSet(OpenPositions) /\ OpenPositions' \in SUBSET OpenPositions
    BY <1>6, OpenFinite, StoreAssumption
  <2>2. /\ Cardinality(OpenPositions) \in Nat
        /\ Cardinality(OpenPositions') \in Nat
        /\ Cardinality(OpenPositions') <= Cardinality(OpenPositions)
    BY <2>1, FS_Subset, FS_CardinalityType
  <2> QED
    BY <2>2, RiskAssumption DEF PaperInv, PositionLimit, CountOpenPositions
<1>11. Accounts'
  <2>1. ASSUME NEW q \in PosId, q # p
        PROVE  /\ Recording(q)' = Recording(q) /\ Kept(q)' = Kept(q)
               /\ sold'[q] = sold[q] /\ positions'[q] = positions[q]
    BY <1>2, <1>4, <1>5, <2>1 DEF Recording, RecordingSale, Kept
  <2>2. /\ Recording(p) = 0 /\ Recording(p)' = call'.qty
        /\ Kept(p) = positions[p].qty
        /\ Kept(p)' = positions[p].qty - call'.qty
    BY <1>2, <1>4, <1>5 DEF Recording, RecordingSale, Kept
  <2>3. sold[p] \in Nat /\ positions[p].initial \in Nat
    BY <1>2 DEF Row
  <2>4. /\ positions'[p].status = "open" => positions'[p].qty > 0
        /\ sold'[p] + Recording(p)' + Kept(p)'
             = sold[p] + Recording(p) + Kept(p)
    BY <1>2, <1>4, <1>5, <2>2, <2>3
  <2> QED
    BY <1>4, <1>5, <2>1, <2>4 DEF PaperInv, Accounts
<1> QED
  BY <1>7, <1>8, <1>9, <1>10, <1>11 DEF PaperInv

LEMMA PaperBuyStep ==
    ASSUME TypeInv, PaperInv, PaperBuy
    PROVE  PaperInv'
<1>1. PICK p \in PosId, qty \in Lots : InsertPosition(p, tick, qty)
  BY DEF PaperBuy
<1>2. /\ positions[p] = NoRow /\ positions \in [PosId -> Row]
      /\ sold[p] = 0
  <2>1. positions[p].status = "none"
    BY <1>1 DEF InsertPosition, NextRow
  <2>2. positions[p] = NoRow /\ positions \in [PosId -> Row]
    BY <2>1 DEF PaperInv, UnusedRows, TypeInv, TypeOK, StoreTypeOK
  <2>3. sold[p] \in Nat /\ Recording(p) \in Nat
    BY DEF Recording, TypeInv, TypeOK, StoreTypeOK, Calls
  <2>4. sold[p] + Recording(p) + 0 <= 0
    BY <2>2 DEF PaperInv, Accounts, Kept, NoRow
  <2> QED
    BY <2>2, <2>3, <2>4
<1>3. /\ positions'[p].code = tick /\ positions'[p].status = "open"
      /\ positions'[p].qty = qty /\ positions'[p].initial = qty
      /\ qty \in Nat \ {0}
      /\ \A q \in PosId \ {p} : positions'[q] = positions[q]
  BY <1>1, <1>2, EngineAssumption DEF InsertPosition
<1>4. /\ pc = "entry" /\ pc' = "idle" /\ todo' = {} /\ pending' = pending
      /\ faults' = faults /\ sold' = sold
      /\ OpenOf(tick) = {} /\ CountOpenPositions < MaxPositions
  BY DEF PaperBuy, HandlerDone, MayEnter, PreCheck, orderVars
<1>5. PaperMode' /\ UnusedRows'
  BY <1>3, <1>4 DEF PaperInv, PaperMode, UnusedRows, OpenPositions,
                    PositionsByStatus
<1>6. OneLivePositionPerCode'
  <2>1. \A q \in PosId : q # p /\ Live(q) => positions[q].code # tick
    BY <1>4 DEF OpenOf, OpenPositions, PositionsByStatus, Live, PaperInv,
                PaperMode
  <2> QED
    BY <1>3, <2>1 DEF PaperInv, OneLivePositionPerCode, Live
<1>7. PositionLimit'
  <2>1. OpenPositions' = OpenPositions \cup {p}
    BY <1>3 DEF OpenPositions, PositionsByStatus
  <2>2. p \notin OpenPositions
    BY <1>2 DEF OpenPositions, PositionsByStatus, NoRow
  <2>3. /\ Cardinality(OpenPositions) \in Nat
        /\ Cardinality(OpenPositions') = Cardinality(OpenPositions) + 1
    BY <2>1, <2>2, OpenFinite, StoreAssumption, FS_AddElement,
       FS_CardinalityType
  <2> QED
    BY <1>4, <2>3, RiskAssumption DEF PositionLimit, CountOpenPositions
<1>8. Accounts'
  <2>1. ASSUME NEW q \in PosId, q # p
        PROVE  /\ Recording(q) = 0 /\ Recording(q)' = 0 /\ Kept(q)' = Kept(q)
               /\ sold'[q] = sold[q] /\ positions'[q] = positions[q]
    BY <1>3, <1>4, <2>1 DEF Recording, RecordingSale, Kept
  <2>2. Recording(p)' = 0 /\ Kept(p)' = qty /\ sold'[p] = 0
    BY <1>2, <1>3, <1>4 DEF Recording, RecordingSale, Kept
  <2> QED
    BY <1>3, <1>4, <2>1, <2>2 DEF PaperInv, Accounts
<1> QED
  BY <1>5, <1>6, <1>7, <1>8 DEF PaperInv

LEMMA RecordTradeStep ==
    ASSUME TypeInv, PaperInv, RecordTrade
    PROVE  PaperInv'
<1>1. /\ pc = "sold" /\ pc' \in {"exit", "trend"} /\ todo' = todo
      /\ positions' = positions /\ pending' = pending /\ faults' = faults
      /\ sold' = [sold EXCEPT ![call.pos] = @ + call.qty]
  BY DEF RecordTrade, RecordSale, BackToList, orderVars
<1>2. /\ call.pos \in PosId /\ call.qty \in Nat /\ sold \in [PosId -> Nat]
  BY <1>1 DEF TypeInv, TypeOK, CallOK, StoreTypeOK, Calls
<1>3. OpenPositions' = OpenPositions
  BY <1>1 DEF OpenPositions, PositionsByStatus
<1>4. PaperMode' /\ UnusedRows' /\ OneLivePositionPerCode' /\ PositionLimit'
  BY <1>1, <1>3 DEF PaperInv, PaperMode, UnusedRows, OneLivePositionPerCode,
                    Live, PositionLimit, CountOpenPositions
<1>5. ASSUME NEW p \in PosId
      PROVE  /\ Kept(p)' = Kept(p) /\ Recording(p)' = 0
             /\ sold'[p] = sold[p] + Recording(p)
  BY <1>1, <1>2 DEF Kept, Recording, RecordingSale
<1>6. Accounts'
  <2>1. \A p \in PosId : /\ sold[p] \in Nat /\ Recording(p) \in Nat
                         /\ Kept(p) \in Nat
    BY <1>2 DEF Recording, Kept, TypeInv, TypeOK, StoreTypeOK, Row
  <2> QED
    BY <1>1, <1>5, <2>1 DEF PaperInv, Accounts
<1> QED
  BY <1>4, <1>6 DEF PaperInv

LEMMA PaperStep ==
    ASSUME TypeInv, PaperInv, ~LiveMode, [Next]_vars
    PROVE  PaperInv'
<1> USE DEF orderVars, storeVars, riskVars, handlerVars, clockVars
<1>1. /\ positions \in [PosId -> Row] /\ faults \in Nat
      /\ pending = {} /\ pc \notin {"sending", "buying"}
      /\ todo \subseteq OpenPositions
      /\ \A p \in PosId : positions[p].status # "selling"
  BY EngineAssumption DEF TypeInv, TypeOK, StoreTypeOK, PaperInv, PaperMode
<1>2. ASSUME NEW p \in PosId, PaperSell(p) PROVE PaperInv'
  BY <1>2, PaperSellStep
<1>3. CASE PaperBuy
  BY <1>3, PaperBuyStep
<1>4. CASE RecordTrade
  BY <1>4, RecordTradeStep
<1>5. ASSUME NEW p \in PosId, KeepHolding(p) PROVE PaperInv'
  BY <1>1, <1>5, BooksUntouched DEF KeepHolding, Visiting
<1>6. ASSUME NEW c \in Codes, OnChejan(c) PROVE PaperInv'
  <2>1. PositionsByStatus("selling") = {}
    BY <1>1 DEF PositionsByStatus
  <2>2. positions' = positions
    BY <1>1, <1>6, <2>1, SetStatusNothing DEF OnChejan
  <2> QED
    BY <1>1, <1>6, <2>2, BooksUntouched DEF OnChejan
<1>7. CASE RestoreSelling
  <2>1. positions' = positions /\ todo' \subseteq OpenPositions
    BY <1>1, <1>7, SetStatusNothing DEF RestoreSelling
  <2> QED
    BY <1>1, <1>7, <2>1, BooksUntouched DEF RestoreSelling
<1>8. ASSUME NEW no \in OrderNo, Fill(no) \/ CancelOne(no) PROVE PaperInv'
  <2>1. pending' = {} /\ UNCHANGED <<positions, sold, pc, call, todo, faults>>
    BY <1>1, <1>8 DEF Fill, OrderFilled, CancelOne, CancelPending
  <2> QED
    BY <1>1, <2>1, BooksUntouched
<1>9. ASSUME NEW c \in Codes, PollTick(c) PROVE PaperInv'
  BY <1>1, <1>9, BooksUntouched
  DEF PollTick, OpenOf, OpenPositions, PositionsByStatus
<1>10. CASE UpdatePnl
  BY <1>1, <1>10, BooksUntouched DEF UpdatePnl
<1>11. CASE SkipEntry \/ FinishCleanup \/ StartCleanup
  BY <1>1, <1>11, BooksUntouched
  DEF SkipEntry, FinishCleanup, StartCleanup, HandlerDone
<1>12. CASE Screen \/ DailyReset \/ Halt \/ Resume \/ OpenMarket
            \/ CloseMarket \/ Midnight \/ Restart
  <2>1. UNCHANGED <<positions, sold, pc, call, todo, faults, pending>>
    BY <1>12 DEF Screen, DailyReset, Halt, Resume, OpenMarket, CloseMarket,
                 Midnight, Restart
  <2> QED
    BY <1>1, <2>1, BooksUntouched
<1>13. CASE Crash
  <2>1. /\ UNCHANGED <<positions, sold>> /\ pending' = {} /\ todo' = {}
        /\ pc' = "idle" /\ faults' # 0
    BY <1>1, <1>13 DEF Crash, Fault, HandlerDone
  <2> QED
    BY <2>1, BooksUntouched
<1>14. CASE \/ SellAccepted \/ SellRejected \/ SellReplyLost
            \/ BuyAccepted \/ BuyRejected \/ BuyReplyLost
  BY <1>1, <1>14 DEF SellAccepted, SellRejected, SellReplyLost, BuyAccepted,
                     BuyRejected, BuyReplyLost
<1>15. CASE \/ BuyRefused \/ SendBuy
            \/ \E p \in PosId : SellGivenUp(p) \/ SellRefused(p) \/ SendSell(p)
  BY <1>15 DEF BuyRefused, SendBuy, SellGivenUp, SellRefused, SendSell
<1>16. CASE UNCHANGED vars
  BY <1>1, <1>16, BooksUntouched DEF vars
<1> QED
  BY <1>2, <1>3, <1>4, <1>5, <1>6, <1>7, <1>8, <1>9, <1>10, <1>11, <1>12,
     <1>13, <1>14, <1>15, <1>16
  DEF Next, HandlerStep, Jobs, Clock, Environment

LEMMA PaperInvariant == ~LiveMode /\ Spec => []PaperInv
<1>1. ASSUME ~LiveMode PROVE Spec => []PaperInv
  <2>1. TypeInv /\ PaperInv /\ [Next]_vars => PaperInv'
    BY <1>1, PaperStep
  <2> QED
    BY <2>1, PaperInit, TypeInit, TypeStep, PTL DEF Spec
<1> QED
  BY <1>1

(***************************************************************************)
(* Paper: never more open positions than max_positions, although the count *)
(* of pre_check and the insert are separate statements of one handler.     *)
(***************************************************************************)
THEOREM PaperPositionLimit == ~LiveMode /\ Spec => []PositionLimit
<1>1. PaperInv => PositionLimit
  BY DEF PaperInv
<1> QED
  BY <1>1, PaperInvariant, PTL

(***************************************************************************)
(* Paper: no code is held twice, whatever screenings, restarts and halts   *)
(* come between a buy and the next (the held check of the entry path).     *)
(***************************************************************************)
THEOREM PaperOnePerCode == ~LiveMode /\ Spec => []OneLivePositionPerCode
<1>1. PaperInv => OneLivePositionPerCode
  BY DEF PaperInv
<1> QED
  BY <1>1, PaperInvariant, PTL

(***************************************************************************)
(* Paper: sale records never add up to more than was bought, and to exactly*)
(* what left the position when no crash came between the two commits of    *)
(* _execute_sell - for every lot size and every TP1 and TP2 ratio.         *)
(***************************************************************************)
THEOREM PaperSalesAccounted == ~LiveMode /\ Spec => []SalesAccounted
<1>1. ASSUME TypeInv, PaperInv PROVE SalesAccounted
  <2>1. \A p \in PosId :
           /\ sold[p] \in Nat /\ Recording(p) \in Nat /\ Kept(p) \in Nat
           /\ ~RecordingSale(p) => Recording(p) = 0
           /\ positions[p].initial \in Nat
    BY <1>1 DEF Recording, Kept, TypeInv, TypeOK, StoreTypeOK, Row, Calls
  <2> QED
    BY <1>1, <2>1 DEF PaperInv, Accounts, Kept, SalesAccounted
<1> QED
  BY <1>1, PaperInvariant, TypeInit, TypeStep, PTL DEF Spec

----------------------------------------------------------------------------
(* The abstract ledger: the holdings are the quantities of the open        *)
(* positions, and every step of the engine is a buy, a sale or a stutter.  *)

\* The ledger counts as the engine does.
LEMMA LedgerCardinality ==
    ASSUME NEW S PROVE Ledger!Cardinality(S) = Cardinality(S)
BY DEF Ledger!Cardinality, Cardinality

LEMMA OnlyMember ==
    ASSUME NEW S, NEW x \in S, \A y \in S : y = x
    PROVE  (CHOOSE y \in S : TRUE) = x
OBVIOUS

\* The holding of a code is the quantity of its one open position.
LEMMA HoldingOf ==
    ASSUME OneLivePositionPerCode, NEW p \in PosId,
           positions[p].status = "open", positions[p].code \in Codes
    PROVE  Holding[positions[p].code] = positions[p].qty
<1> DEFINE c == positions[p].code
<1>1. p \in OpenOf(c)
  BY DEF OpenOf, OpenPositions, PositionsByStatus
<1>2. \A q \in OpenOf(c) : q = p
  BY DEF OpenOf, OpenPositions, PositionsByStatus, OneLivePositionPerCode, Live
<1>3. (CHOOSE q \in OpenOf(c) : TRUE) = p
  BY <1>1, <1>2, OnlyMember
<1> QED
  BY <1>1, <1>3 DEF Holding

\* The same of the state after a step.
LEMMA HoldingOfNext ==
    ASSUME OneLivePositionPerCode', NEW p \in PosId, NEW c \in Codes,
           positions'[p].status = "open", positions'[p].code = c
    PROVE  Holding'[c] = positions'[p].qty
<1> DEFINE Open == {q \in PosId : positions'[q].status = "open"
                                  /\ positions'[q].code = c}
<1>1. p \in Open
  OBVIOUS
<1>2. \A q \in Open : q = p
  BY DEF OneLivePositionPerCode, Live
<1>3. (CHOOSE q \in Open : TRUE) = p
  BY <1>1, <1>2, OnlyMember
<1>4. Holding'[c] = IF Open = {} THEN 0
                    ELSE positions'[CHOOSE q \in Open : TRUE].qty
  <2>1. OpenOf(c)' = Open
    BY DEF OpenOf, OpenPositions, PositionsByStatus
  <2>2. Holding'[c] = IF OpenOf(c)' = {} THEN 0
                      ELSE positions'[CHOOSE q \in OpenOf(c)' : TRUE].qty
    BY DEF Holding
  <2> QED
    BY <2>1, <2>2
<1> QED
  BY <1>1, <1>3, <1>4

\* No more codes are held than positions are open.
LEMMA HeldWithinOpen ==
    ASSUME TypeInv
    PROVE  /\ Cardinality(Ledger!Held) \in Nat
           /\ Cardinality(Ledger!Held) <= Cardinality(OpenPositions)
<1> DEFINE codesOpen == {positions[p].code : p \in OpenPositions}
           f == [p \in OpenPositions |-> positions[p].code]
<1>1. IsFiniteSet(OpenPositions)
  BY OpenFinite, StoreAssumption
<1>2. f \in Surjection(OpenPositions, codesOpen)
  BY DEF Surjection
<1>3. /\ IsFiniteSet(codesOpen)
      /\ Cardinality(codesOpen) <= Cardinality(OpenPositions)
  <2> HIDE DEF codesOpen, f
  <2> QED
    BY <1>1, <1>2, FS_Surjection
<1>4. Ledger!Held \in SUBSET codesOpen
  BY DEF Ledger!Held, Holding, OpenOf
<1>5. /\ IsFiniteSet(Ledger!Held)
      /\ Cardinality(Ledger!Held) <= Cardinality(codesOpen)
  <2> HIDE DEF codesOpen
  <2> QED
    BY <1>3, <1>4, FS_Subset
<1>6. /\ Cardinality(Ledger!Held) \in Nat /\ Cardinality(codesOpen) \in Nat
      /\ Cardinality(OpenPositions) \in Nat
  <2> HIDE DEF codesOpen
  <2> QED
    BY <1>1, <1>3, <1>5, FS_CardinalityType
<1> HIDE DEF codesOpen
<1> QED
  BY <1>3, <1>5, <1>6

\* The codes of rows a step does not touch keep their holding.
LEMMA OthersHold ==
    ASSUME NEW p \in PosId, NEW c \in Codes,
           \A q \in PosId \ {p} : positions'[q] = positions[q],
           positions[p].status = "open" => positions[p].code # c,
           positions'[p].status = "open" => positions'[p].code # c
    PROVE  Holding'[c] = Holding[c]
<1>1. \A q : q \in OpenOf(c)' <=> q \in OpenOf(c)
  BY DEF OpenOf, OpenPositions, PositionsByStatus
<1>2. OpenOf(c)' = OpenOf(c) /\ p \notin OpenOf(c) /\ OpenOf(c) \subseteq PosId
  BY <1>1 DEF OpenOf, OpenPositions, PositionsByStatus
<1>3. OpenOf(c) # {} => (CHOOSE q \in OpenOf(c) : TRUE) \in OpenOf(c)
  OBVIOUS
<1>4. Holding'[c] = IF OpenOf(c)' = {} THEN 0
                    ELSE positions'[CHOOSE q \in OpenOf(c)' : TRUE].qty
  BY DEF Holding
<1>5. Holding[c] = IF OpenOf(c) = {} THEN 0
                   ELSE positions[CHOOSE q \in OpenOf(c) : TRUE].qty
  BY DEF Holding
<1> QED
  BY <1>2, <1>3, <1>4, <1>5

LEMMA HoldingFunction ==
    /\ Holding = [c \in Codes |-> Holding[c]]
    /\ Holding' = [c \in Codes |-> Holding'[c]]
BY DEF Holding

\* A paper buy is a buy of the ledger.
LEMMA PaperBuyIsBuy ==
    ASSUME TypeInv, PaperInv, PaperInv', PaperBuy
    PROVE  \E c \in Codes : Ledger!Buy(c)
<1>1. PICK p \in PosId, qty \in Lots : InsertPosition(p, tick, qty)
  BY DEF PaperBuy
<1>2. /\ tick \in Codes /\ qty \in Nat \ {0}
      /\ OpenOf(tick) = {} /\ CountOpenPositions < MaxPositions
  BY EngineAssumption
  DEF PaperBuy, MayEnter, PreCheck, TypeInv, TypeOK, TargetsOK
<1>3. /\ positions[p].status = "none"
      /\ positions'[p].status = "open" /\ positions'[p].code = tick
      /\ positions'[p].qty = qty
      /\ \A q \in PosId \ {p} : positions'[q] = positions[q]
  BY <1>1 DEF InsertPosition, NextRow, TypeInv, TypeOK, StoreTypeOK
<1>4. Holding[tick] = 0
  BY <1>2 DEF Holding
<1>5. Holding'[tick] = qty
  BY <1>2, <1>3, HoldingOfNext DEF PaperInv
<1>6. \A c \in Codes \ {tick} : Holding'[c] = Holding[c]
  BY <1>3, OthersHold
<1>7. Cardinality(Ledger!Held) < MaxPositions
  <2>1. /\ Cardinality(OpenPositions) \in Nat
        /\ Cardinality(OpenPositions) < MaxPositions
    BY <1>2, OpenFinite, StoreAssumption, FS_CardinalityType
    DEF CountOpenPositions
  <2> QED
    BY <2>1, HeldWithinOpen, RiskAssumption
<1>8. Holding' = [Holding EXCEPT ![tick] = Holding'[tick]]
  BY <1>6, HoldingFunction
<1> QED
  BY <1>2, <1>4, <1>5, <1>7, <1>8, LedgerCardinality DEF Ledger!Buy

\* A paper sale, whole or partial, is a sale of the ledger.
LEMMA PaperSellIsSell ==
    ASSUME TypeInv, PaperInv, PaperInv', ~LiveMode,
           NEW p \in PosId, PaperSell(p)
    PROVE  \E c \in Codes : Ledger!Sell(c)
<1> DEFINE code == positions[p].code
<1>1. /\ positions[p].status = "open" /\ code \in Codes
      /\ positions[p].qty \in Nat \ {0}
  BY DEF PaperSell, Visiting, PaperInv, PaperMode, OpenPositions,
         PositionsByStatus, Accounts, TypeInv, TypeOK, StoreTypeOK, Row, RowsOK
<1>2. /\ \A q \in PosId \ {p} : positions'[q] = positions[q]
      /\ positions'[p].code = code
      /\ \/ positions'[p].status = "closed"
         \/ /\ positions'[p].status = "open"
            /\ positions'[p].qty < positions[p].qty
            /\ positions'[p].qty \in Nat
  BY PaperSellEffect
<1>3. Holding[code] = positions[p].qty
  BY <1>1, HoldingOf DEF PaperInv
<1>4. Holding'[code] \in Nat /\ Holding'[code] < Holding[code]
  <2>1. CASE positions'[p].status = "open"
    BY <1>1, <1>2, <1>3, <2>1, HoldingOfNext DEF PaperInv
  <2>2. CASE positions'[p].status = "closed"
    <3>1. \A q \in PosId : positions'[q].status = "open"
                             => positions'[q].code # code
      BY <1>1, <1>2, <2>2 DEF PaperInv, OneLivePositionPerCode, Live
    <3>2. OpenOf(code)' = {}
      BY <1>2, <3>1 DEF OpenOf, OpenPositions, PositionsByStatus
    <3>3. Holding'[code] = 0
      BY <1>1, <3>1, <3>2 DEF Holding, OpenOf, OpenPositions,
                              PositionsByStatus
    <3> QED
      BY <1>1, <1>3, <3>3
  <2> QED
    BY <1>2, <2>1, <2>2
<1>5. \A c \in Codes \ {code} : Holding'[c] = Holding[c]
  BY <1>2, OthersHold
<1>6. Holding' = [Holding EXCEPT ![code] = Holding'[code]]
  BY <1>5, HoldingFunction
<1>7. Holding[code] \in Nat
  BY <1>1, <1>3
<1> QED
  BY <1>1, <1>4, <1>6, <1>7 DEF Ledger!Sell

\* Only a buy and a sale write the positions table.
LEMMA PaperBookSteps ==
    ASSUME TypeInv, PaperInv, ~LiveMode, [Next]_vars
    PROVE  \/ PaperBuy
           \/ \E p \in PosId : PaperSell(p)
           \/ positions' = positions
<1> USE DEF orderVars, storeVars, riskVars, handlerVars, clockVars
<1>1. /\ positions \in [PosId -> Row]
      /\ pc \notin {"sending", "buying"}
      /\ PositionsByStatus("selling") = {}
  BY DEF TypeInv, TypeOK, StoreTypeOK, PaperInv, PaperMode, PositionsByStatus
<1>2. ASSUME HandlerStep
      PROVE  \/ PaperBuy
             \/ \E p \in PosId : PaperSell(p)
             \/ positions' = positions
  <2>1. CASE \/ SellAccepted \/ SellRejected \/ SellReplyLost
             \/ BuyAccepted \/ BuyRejected \/ BuyReplyLost
    BY <1>1, <2>1 DEF SellAccepted, SellRejected, SellReplyLost, BuyAccepted,
                      BuyRejected, BuyReplyLost
  <2>2. CASE RestoreSelling
    BY <1>1, <2>2, SetStatusNothing DEF RestoreSelling
  <2>3. CASE \E p \in PosId : \/ KeepHolding(p) \/ SellGivenUp(p)
                              \/ SellRefused(p) \/ SendSell(p)
    BY <2>3 DEF KeepHolding, SellGivenUp, SellRefused, SendSell
  <2>4. CASE \/ RecordTrade \/ UpdatePnl \/ SkipEntry \/ BuyRefused
             \/ SendBuy \/ FinishCleanup \/ \E no \in OrderNo : CancelOne(no)
    BY <2>4 DEF RecordTrade, UpdatePnl, SkipEntry, BuyRefused, SendBuy,
                FinishCleanup, CancelOne
  <2> QED
    BY <1>2, <2>1, <2>2, <2>3, <2>4 DEF HandlerStep
<1>3. ASSUME NEW c \in Codes, OnChejan(c) PROVE positions' = positions
  <2>1. positions' = SetStatus({}, "closed")
    BY <1>1, <1>3 DEF OnChejan
  <2> QED
    BY <1>1, <2>1, SetStatusNothing
<1>4. CASE \/ Jobs \/ Clock \/ Halt \/ Resume \/ Crash \/ Restart
           \/ \E c \in Codes : PollTick(c)
           \/ \E no \in OrderNo : Fill(no)
           \/ UNCHANGED vars
  BY <1>4 DEF Jobs, StartCleanup, Screen, DailyReset, Clock, OpenMarket,
              CloseMarket, Midnight, Halt, Resume, Crash, Restart, PollTick,
              Fill, vars
<1> QED
  BY <1>2, <1>3, <1>4 DEF Next, Environment

LEMMA LedgerStep ==
    ASSUME TypeInv, PaperInv, PaperInv', ~LiveMode, [Next]_vars
    PROVE  [Ledger!Next]_Holding
<1>1. CASE PaperBuy
  BY <1>1, PaperBuyIsBuy DEF Ledger!Next
<1>2. ASSUME NEW p \in PosId, PaperSell(p) PROVE [Ledger!Next]_Holding
  BY <1>2, PaperSellIsSell DEF Ledger!Next
<1>3. CASE positions' = positions
  BY <1>3 DEF Holding, OpenOf, OpenPositions, PositionsByStatus
<1> QED
  BY <1>1, <1>2, <1>3, PaperBookSteps

(***************************************************************************)
(* Paper: the engine - ticks, partial exits, retries, crashes, restarts,   *)
(* halts, cleanups - implements the ledger: a code is bought only from     *)
(* nothing and within max_positions, and a holding afterwards only shrinks.*)
(***************************************************************************)
THEOREM PaperRefinesLedger == ~LiveMode /\ Spec => LedgerRefined
<1>1. Init => Ledger!Init
  BY DEF Init, StoreInit, NoRow, Ledger!Init, Holding, OpenOf, OpenPositions,
         PositionsByStatus
<1>2. ASSUME ~LiveMode PROVE Spec => LedgerRefined
  <2>1. TypeInv /\ PaperInv /\ PaperInv' /\ [Next]_vars
          => [Ledger!Next]_Holding
    BY <1>2, LedgerStep
  <2>2. TypeInv /\ PaperInv /\ [Next]_vars => PaperInv'
    BY <1>2, PaperStep
  <2> QED
    BY <1>1, <2>1, <2>2, PaperInit, TypeInit, TypeStep, PTL
    DEF Spec, LedgerRefined, Ledger!Spec
<1> QED
  BY <1>2
=============================================================================
