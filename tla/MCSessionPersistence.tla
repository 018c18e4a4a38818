---- MODULE MCSessionPersistence ----
EXTENDS SessionPersistence, TLC

ClientSymmetry == Permutations(Clients)
====
