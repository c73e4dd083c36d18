-------------------------- MODULE MCSettlementExecutor --------------------------
(***************************************************************************)
(* Two calls in progress at once, a purchase of gold and a KGLD loan, with *)
(* one whose amount cannot be read, and ids enough for a settlement too    *)
(* many.                                                                   *)
(***************************************************************************)
EXTENDS SettlementExecutor

CONSTANTS gold, kgld, garbled
=============================================================================
