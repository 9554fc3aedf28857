-------------------------- MODULE MCCorrelatorWindow --------------------------
EXTENDS CorrelatorWindow
=============================================================================
