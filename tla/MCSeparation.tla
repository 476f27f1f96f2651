---------------------------- MODULE MCSeparation -----------------------------
EXTENDS Separation
=============================================================================
