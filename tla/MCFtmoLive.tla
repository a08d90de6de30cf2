----------------------------- MODULE MCFtmoLive -----------------------------
EXTENDS FtmoLive

CONSTANTS A, B, long

MCEquityLevels == {0, 1, 4}

\* For the run in which every halt is alike.
MCTwoLevels == {1, 4}

\* EURUSD and GBPUSD of the one group configured, as far as they are traded.
MCGroups == {{A, B} \cap Symbols}

\* Only B's breakout may go either way.
MCSignals == {<<s, d>> \in Symbols \X Sides : s = B \/ d = long}
=============================================================================
