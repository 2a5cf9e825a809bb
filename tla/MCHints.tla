------------------------------ MODULE MCHints ------------------------------
EXTENDS Hints
=============================================================================
