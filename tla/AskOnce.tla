------------------------------- MODULE AskOnce -------------------------------
(***************************************************************************)
(* What a queue of questions promises: a question that waits is settled    *)
(* once, by a choice the user made on that very question or by being       *)
(* withdrawn.  TuiDialogs, the TUI's store of dialogs, is held against it. *)
(***************************************************************************)
CONSTANTS Asks,      \* identities of questions
          Answers    \* what the keys of a panel choose

VARIABLES result,    \* what became of each question
          chosen     \* the choices the user made, each on a question

Results == {"new", "waiting", "withdrawn"} \cup Answers

Init == result = [a \in Asks |-> "new"] /\ chosen = {}

Ask(a) ==
    /\ result[a] = "new"
    /\ result' = [result EXCEPT ![a] = "waiting"]
    /\ UNCHANGED chosen

\* Signals, timers and teardown withdraw questions, alone or together.
Withdraw(asks) ==
    /\ \A a \in asks : result[a] \in {"new", "waiting"}
    /\ result' = [a \in Asks |-> IF a \in asks THEN "withdrawn" ELSE result[a]]
    /\ UNCHANGED chosen

\* The user chooses on a question; a settled one keeps its result.
Choose(a, v) ==
    /\ result[a] # "new"
    /\ chosen' = chosen \cup {<<a, v>>}
    /\ result' = IF result[a] = "waiting" THEN [result EXCEPT ![a] = v] ELSE result

Next ==
    \/ \E a \in Asks : Ask(a)
    \/ \E asks \in SUBSET Asks : Withdraw(asks)
    \/ \E a \in Asks, v \in Answers : Choose(a, v)

Spec == Init /\ [][Next]_<<result, chosen>>
=============================================================================
