---------------------------- MODULE RiskManager -----------------------------
(***************************************************************************)
(* The pre-trade gate (src/risk/risk_manager.py) over the trade database.  *)
(* halted is _halted; lossHit says daily_pnl_pct is at or under the daily  *)
(* loss limit.  Both live in memory.  The drawdown and market-hours gates  *)
(* only refuse, and the engine's own entry gates may refuse at any time,   *)
(* so they need no state here.                                             *)
(***************************************************************************)
EXTENDS DataStore

CONSTANT MaxPositions   \* trading.max_positions

ASSUME RiskAssumption == MaxPositions \in Nat

VARIABLES halted, lossHit
riskVars == <<halted, lossHit>>

RiskTypeOK == halted \in BOOLEAN /\ lossHit \in BOOLEAN

RiskInit == halted = FALSE /\ lossHit = FALSE

\* Mutant: the limit is exceeded by one.
PreCheckOffByOne(code) ==
    /\ ~halted
    /\ ~lossHit
    /\ CountOpenPositions <= MaxPositions
    /\ ~InCooldown(code)

PreCheck(code) ==
    /\ ~halted
    /\ ~lossHit
    /\ CountOpenPositions < MaxPositions
    /\ ~InCooldown(code)

\* Mutant: only the percentage is reset.
RiskResetPnlOnly == lossHit' = FALSE /\ UNCHANGED halted

\* reset_daily; also what a new process starts from.
RiskReset == halted' = FALSE /\ lossHit' = FALSE

\* update_daily_pnl, and the halt it triggers at the limit.
UpdateDailyPnl(hit) ==
    /\ lossHit' = hit
    /\ halted' = (halted \/ hit)
=============================================================================
