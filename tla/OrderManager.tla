---------------------------- MODULE OrderManager ----------------------------
(***************************************************************************)
(* The order manager (src/broker/order_manager.py) and, outside the        *)
(* program, the broker's order book it talks to over REST.                 *)
(*                                                                         *)
(* book    - the broker's view: one entry per order number.                *)
(* pending - OrderManager._pending_orders: the numbers the program believes*)
(*           are working.  The Order kept under a number has the code and  *)
(*           side it was sent with, so both are read from the book.        *)
(*                                                                         *)
(* The two disagree whenever a reply is lost, a fill is not reported or a  *)
(* process restarts: that gap is what the properties are about.            *)
(***************************************************************************)
EXTENDS Integers, Market

CONSTANT MaxOrders   \* bound: order numbers the broker can issue in a run

ASSUME OrdersAssumption == MaxOrders \in Nat

OrderNo == 1..MaxOrders

VARIABLES book, pending
orderVars == <<book, pending>>

Sides == {"buy", "sell"}
OrderStates == {"none", "working", "filled", "cancelled"}

Unissued == [code |-> NoCode, side |-> "none", qty |-> 0, state |-> "none"]

BookEntry == [code : Codes \cup {NoCode}, side : Sides \cup {"none"},
              qty : Nat, state : OrderStates]

OrdersTypeOK ==
    /\ book \in [OrderNo -> BookEntry]
    /\ pending \subseteq OrderNo

OrdersInit ==
    /\ book = [no \in OrderNo |-> Unissued]
    /\ pending = {}

\* Fresh(no): the next number the broker hands out.
Fresh(no) ==
    /\ book[no].state = "none"
    /\ \A other \in OrderNo : other < no => book[other].state # "none"

WithOrder(no, code, side, qty) ==
    [book EXCEPT ![no] = [code |-> code, side |-> side,
                          qty |-> qty, state |-> "working"]]

\* Mutant: only buys are looked for.
DuplicateBuyOnly(code, side) ==
    \E no \in pending : book[no].code = code /\ book[no].side = "buy"

\* The check of execute_order before it awaits the broker.
DuplicateOrder(code, side) ==
    \E no \in pending : book[no].code = code /\ book[no].side = side

\* return_code = 0: the broker has the order and its number is remembered.
OrderAccepted(no, code, side, qty) ==
    /\ Fresh(no)
    /\ book' = WithOrder(no, code, side, qty)
    /\ pending' = pending \cup {no}

\* The request or its reply is lost (an exception in send_order, a crash while
\* it is awaited): the broker may have the order, the program has no number.
OrderReplyLost(code, side, qty) ==
    \/ UNCHANGED book
    \/ \E no \in OrderNo :
          /\ Fresh(no)
          /\ book' = WithOrder(no, code, side, qty)

\* One order of cancel_all_pending, its three attempts together: a working
\* order is cancelled and forgotten, or cancelled though every reply that said
\* so was lost; any other order is refused and stays in _pending_orders.
CancelPending(no) ==
    \/ /\ book[no].state = "working"
       /\ book' = [book EXCEPT ![no].state = "cancelled"]
       /\ pending' \in {pending, pending \ {no}}
    \/ UNCHANGED orderVars

\* The broker executes a working order.  OrderManager.on_chejan, which would
\* drop it from _pending_orders, is not connected to anything.
OrderFilled(no) ==
    /\ book[no].state = "working"
    /\ book' = [book EXCEPT ![no].state = "filled"]
    /\ UNCHANGED pending

\* Orders are good for the day.
OrdersExpired ==
    [no \in OrderNo |-> IF book[no].state = "working"
                        THEN [book[no] EXCEPT !.state = "cancelled"]
                        ELSE book[no]]

(***************************************************************************)
(* The duplicate check must leave at most one order the program believes   *)
(* working per code and side, although it is made before the await and the *)
(* number is registered after it (execute_order, lines 107-149).           *)
(***************************************************************************)
OnePendingPerSide ==
    \A n1, n2 \in pending :
        /\ book[n1].code = book[n2].code
        /\ book[n1].side = book[n2].side
        => n1 = n2
=============================================================================
