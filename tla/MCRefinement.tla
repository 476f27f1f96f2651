---------------------------- MODULE MCRefinement -----------------------------
EXTENDS Refinement
=============================================================================
