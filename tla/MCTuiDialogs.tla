---------------------------- MODULE MCTuiDialogs ----------------------------
EXTENDS TuiDialogs
=============================================================================
