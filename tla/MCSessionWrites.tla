---- MODULE MCSessionWrites ----
EXTENDS WriteBehind
====
