------------------------------- MODULE MCOms -------------------------------
EXTENDS Oms

MCSymbols == {"MES", "MNQ"}
============================================================================
