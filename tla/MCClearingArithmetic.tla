------------------------ MODULE MCClearingArithmetic -------------------------
(***************************************************************************)
(* Small instances of the arithmetic: every list of three orders of a      *)
(* handful, at prices with and without a remainder.                        *)
(***************************************************************************)
EXTENDS ArithmeticSafety

OrderOf(action, locked, limit) == [action |-> action, locked |-> locked, limit |-> limit]

Lists(orders) == UNION {[1 .. n -> orders] : n \in {1, 3}}

\* Amounts and limits that floor, ceil, fail the limit and have none.
MCBooks ==
  Lists({OrderOf("Buy", 3, 2), OrderOf("Buy", 4, 3), OrderOf("Buy", 5, 5),
         OrderOf("Sell", 1, 1), OrderOf("Sell", 2, 3), OrderOf("Sell", 1, 0),
         OrderOf("Supply", 2, 1), OrderOf("Hold", 0, 1)})
==============================================================================
