----------------------------- MODULE DataStore ------------------------------
(***************************************************************************)
(* The trade database (src/datastore.py) as the engine's control reads it: *)
(* the positions table and the sale records of the trades table.  Every    *)
(* call commits on its own, so nothing here spans two of them.             *)
(*                                                                         *)
(* positions - one row per position id, ids handed out in order.           *)
(* sold      - per position, the quantity its sale records add up to.      *)
(* sinceSale - per code, the days since its last sale record, saturating   *)
(*             at Cooldown (a code never sold is past its cooldown).       *)
(***************************************************************************)
EXTENDS Integers, Market

CONSTANTS
    MaxRows,    \* bound: rows of the positions table in a run
    Cooldown    \* trading.reentry_cooldown_days

ASSUME StoreAssumption == MaxRows \in Nat /\ Cooldown \in Nat

PosId == 1..MaxRows

VARIABLES positions, sold, sinceSale
storeVars == <<positions, sold, sinceSale>>

Statuses == {"none", "open", "selling", "closed"}

NoRow == [code |-> NoCode, status |-> "none", qty |-> 0, initial |-> 0,
          tp1 |-> FALSE, tp2 |-> FALSE]

Row == [code : Codes \cup {NoCode}, status : Statuses, qty : Nat,
        initial : Nat, tp1 : BOOLEAN, tp2 : BOOLEAN]

StoreTypeOK ==
    /\ positions \in [PosId -> Row]
    /\ sold \in [PosId -> Nat]
    /\ sinceSale \in [Codes -> 0..Cooldown]

StoreInit ==
    /\ positions = [p \in PosId |-> NoRow]
    /\ sold = [p \in PosId |-> 0]
    /\ sinceSale = [c \in Codes |-> Cooldown]

PositionsByStatus(status) == {p \in PosId : positions[p].status = status}
OpenPositions == PositionsByStatus("open")
OpenOf(code) == {p \in OpenPositions : positions[p].code = code}
CountOpenPositions == Cardinality(OpenPositions)

\* A position that still stands for shares somebody owns.
Live(p) == positions[p].status \in {"open", "selling"}

NextRow(p) ==
    /\ positions[p].status = "none"
    /\ \A q \in PosId : q < p => positions[q].status # "none"

InsertPosition(p, code, qty) ==
    /\ NextRow(p)
    /\ positions' = [positions EXCEPT ![p] =
           [code |-> code, status |-> "open", qty |-> qty, initial |-> qty,
            tp1 |-> FALSE, tp2 |-> FALSE]]

SetStatus(ps, status) ==
    [p \in PosId |-> IF p \in ps THEN [positions[p] EXCEPT !.status = status]
                                 ELSE positions[p]]

RecordSale(p, qty) ==
    /\ sold' = [sold EXCEPT ![p] = @ + qty]
    /\ sinceSale' = [sinceSale EXCEPT ![positions[p].code] = 0]

InCooldown(code) == sinceSale[code] < Cooldown

DayOlder == [c \in Codes |-> IF InCooldown(c) THEN sinceSale[c] + 1
                                              ELSE Cooldown]
=============================================================================
