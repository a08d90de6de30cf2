---------------------------- MODULE MCDailyCycle ----------------------------
EXTENDS DailyCycle

MCDays == 1..4
MCMondays == {1, 3}
MCDecisionDays == {2, 4}
MCPeriod(d) == (d + 1) \div 2
MCPrices == {1, 3}
MCTargetWeights == {0, 100}
============================================================================
