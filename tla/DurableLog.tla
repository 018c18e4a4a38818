------------------------------ MODULE DurableLog ------------------------------
(***************************************************************************)
(* What persistence promises of one session: the session's log grows in    *)
(* memory, the stored log is always a prefix of it, a flush that resolves  *)
(* covers everything appended before it was called, and a crash takes only *)
(* a suffix, never anything a flush has acknowledged.                      *)
(***************************************************************************)
EXTENDS Naturals, Sequences

VARIABLES log,      \* the events of the live session
          durable,  \* the events in the store
          asked,    \* length of the log at the latest flush call
          acked     \* length of the log the latest resolved flush covers

vars == <<log, durable, asked, acked>>

Prefixes(s) == {SubSeq(s, 1, n) : n \in 0..Len(s)}

Init ==
    /\ log \in Seq(Nat) /\ durable = <<>>
    /\ asked = 0 /\ acked = 0

LogEvent ==
    /\ Len(log') = Len(log) + 1 /\ log \in Prefixes(log')
    /\ UNCHANGED <<durable, asked, acked>>

Persist ==
    /\ durable' \in Prefixes(log) /\ Len(durable') > Len(durable)
    /\ UNCHANGED <<log, asked, acked>>

AskFlush == asked' = Len(log) /\ UNCHANGED <<log, durable, acked>>

Acknowledge ==
    /\ asked <= Len(durable)
    /\ acked' = asked
    /\ UNCHANGED <<log, durable, asked>>

\* The process dies, a write in flight may have landed, and the session is
\* opened again from the store.
Crash ==
    /\ durable' \in Prefixes(log) /\ Len(durable') >= Len(durable)
    /\ log' = durable' /\ asked' = acked
    /\ UNCHANGED acked

Next == LogEvent \/ Persist \/ AskFlush \/ Acknowledge \/ Crash

Spec == Init /\ [][Next]_vars
===============================================================================
