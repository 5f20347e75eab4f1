--------------------------- MODULE PositionLedger ---------------------------
(***************************************************************************)
(* What the trader promises about its book of holdings, with no word of    *)
(* orders, ticks, retries, crashes or restarts: a code is bought only from *)
(* nothing and only while fewer than MaxPositions codes are held, and      *)
(* after that its holding only shrinks, down to nothing.                   *)
(***************************************************************************)
EXTENDS Integers, Market

CONSTANT MaxPositions

VARIABLE holding   \* shares held of each code

Held == {c \in Codes : holding[c] > 0}

Init == holding = [c \in Codes |-> 0]

Buy(c) ==
    /\ holding[c] = 0
    /\ holding'[c] > 0
    /\ Cardinality(Held) < MaxPositions
    /\ holding' = [holding EXCEPT ![c] = holding'[c]]

Sell(c) ==
    /\ holding[c] > holding'[c]
    /\ holding'[c] >= 0
    /\ holding' = [holding EXCEPT ![c] = holding'[c]]

Next == \E c \in Codes : Buy(c) \/ Sell(c)

Spec == Init /\ [][Next]_holding
=============================================================================
