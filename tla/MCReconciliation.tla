--------------------------- MODULE MCReconciliation ---------------------------
EXTENDS Reconciliation

MCConfigs == {Corrections}
MCPositions == {[symbol |-> "EURUSD", dir |-> "buy", size |-> 1],
                [symbol |-> "EURUSD", dir |-> "buy", size |-> 2],
                [symbol |-> "EURUSD", dir |-> "sell", size |-> 1]}
MCLocalName == [s \in {"EURUSD"} |-> s]
===============================================================================
