--------------------------- MODULE MCMockExchange ---------------------------
(* MockExchange for TLC: a purchase and a sale in one market, one more in    *)
(* another, with quantities large enough for several partial fills.          *)
EXTENDS MockExchange

CONSTANTS r1, r2, r3, mA, mB

MCMarket == r1 :> mA @@ r2 :> mA @@ r3 :> mB
MCSide == r1 :> "buy" @@ r2 :> "sell" @@ r3 :> "buy"
MCQty == r1 :> 3 @@ r2 :> 2 @@ r3 :> 1
MCPrice == r1 :> 4 @@ r2 :> 5 @@ r3 :> 7
=============================================================================
