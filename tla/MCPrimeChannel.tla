---------------------------- MODULE MCPrimeChannel ----------------------------
EXTENDS PrimeChannel
CONSTANTS c1, c2
TwoCommands == {c1, c2}
=============================================================================
