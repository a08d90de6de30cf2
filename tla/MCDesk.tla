------------------------------- MODULE MCDesk -------------------------------
EXTENDS Desk, TLC

MCSymbols == {"MES"}
MCMultiplier == [s \in MCSymbols |-> 1]
Symmetry == Permutations(OrderId) \cup Permutations(ExecId)
============================================================================
