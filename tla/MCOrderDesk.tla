------------------------------ MODULE MCOrderDesk ------------------------------
EXTENDS OrderDeskSafety, TLC
CONSTANTS p1, p2, alice

\* Two tabs of one owner.
SameWallet == p1 :> alice @@ p2 :> alice
===============================================================================
