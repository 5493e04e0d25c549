--------------------------- MODULE MCFinalizeMerge ---------------------------
EXTENDS FinalizeMerge
=============================================================================
