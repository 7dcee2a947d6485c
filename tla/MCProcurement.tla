----------------------------- MODULE MCProcurement -----------------------------
(***************************************************************************)
(* Procurement on a small instance.                                        *)
(***************************************************************************)
EXTENDS Procurement

\* Two quantities no order may have, one that leaves room for a second order
\* of it in a stock of five, and one that does not.
MCQuantities == -1 .. 2

================================================================================
