-------------------------- MODULE MCTradingEngine ---------------------------
(* Small instances of the trading engine for TLC: the .cfg files give the   *)
(* sizes.  Codes are interchangeable; order numbers and row ids are not,    *)
(* they are handed out in order.                                            *)
EXTENDS TradingEngine, TLC

CodeSymmetry == Permutations(Codes)
=============================================================================
