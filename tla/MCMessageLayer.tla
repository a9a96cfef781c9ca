--------------------------- MODULE MCMessageLayer --------------------------
\* Instances of MessageLayer: the bound is given in the configurations.
EXTENDS MessageLayer
=============================================================================
