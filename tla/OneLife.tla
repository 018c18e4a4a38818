------------------------------ MODULE OneLife ------------------------------
(***************************************************************************)
(* What observers of core/session and core/agent are promised about one    *)
(* session id: a life begins with session/created and ends with            *)
(* session/disposed, agent/created and agent/disposed lie between the two, *)
(* a disposal is told of whoever was created and of nobody else, and no    *)
(* life begins before the one before it has ended.                         *)
(***************************************************************************)
CONSTANTS Calls, None

VARIABLES told,   \* the last notification, "free" after a life
          who     \* whose life it is

Free == told = "free" /\ who = None

Begin(c) == Free /\ told' = "session created" /\ who' = c

Step(c, from, to) == who = c /\ told \in from /\ told' = to /\ who' = c

End(c) ==
    /\ who = c /\ told \in {"session created", "agent disposed"}
    /\ told' = "free" /\ who' = None

Next ==
    \E c \in Calls :
        \/ Begin(c)
        \/ Step(c, {"session created"}, "agent created")
        \/ Step(c, {"agent created"}, "session start")
        \/ Step(c, {"agent created", "session start"}, "agent disposed")
        \/ End(c)

Spec == Free /\ [][Next]_<<told, who>>

=============================================================================
