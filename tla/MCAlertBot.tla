----------------------------- MODULE MCAlertBot -----------------------------
EXTENDS AlertBot
MCTrades == <<"g1", "g2">>
MCAlerts == <<"g2">>
MCEvents == [k \in Kinds |-> CASE k = "proposed" -> 3 [] k \in {"denied", "filled"} -> 1 [] OTHER -> 0]
=============================================================================
