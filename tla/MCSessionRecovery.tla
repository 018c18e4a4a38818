---- MODULE MCSessionRecovery ----
EXTENDS SessionRecovery, TLC

MessageSymmetry == Permutations(Messages)
====
