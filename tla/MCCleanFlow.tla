---------------------------- MODULE MCCleanFlow ----------------------------
EXTENDS CleanFlow
=============================================================================
