---------------------------- MODULE MCStandalone -----------------------------
EXTENDS Standalone
=============================================================================
