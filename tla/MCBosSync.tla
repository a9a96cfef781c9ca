------------------------------ MODULE MCBosSync ----------------------------
\* Instances of BosSync: the constants are given in the configurations.
EXTENDS BosSync
=============================================================================
