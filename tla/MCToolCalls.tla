---- MODULE MCToolCalls ----
EXTENDS ToolCalls
====
