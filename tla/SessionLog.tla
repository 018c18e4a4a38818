----------------------------- MODULE SessionLog -----------------------------
(***************************************************************************)
(* The grammar of a session's durable event log, as the companion          *)
(* `@deepseek-ai/dsh-session/invariant` enforces it on every append.  The  *)
(* companion folds the log into a trace and rejects an event the trace     *)
(* does not allow.  `Legal` is validateEvent without its sequence-number   *)
(* check (the sequence number is the log's length), `Apply` is the         *)
(* transition that validateEvent returns and applyTransition commits.      *)
(***************************************************************************)
EXTENDS Naturals

CONSTANT CallIds      \* identities of tool calls

\* The source's null: turns and steps count from 1.
Closed == 0

Traces == [openTurn : Nat, openStep : Nat, nextTurn : Nat \ {0},
           nextStep : Nat \ {0}, pendingCalls : SUBSET CallIds]

FreshTrace == [openTurn |-> Closed, openStep |-> Closed, nextTurn |-> 1,
               nextStep |-> 1, pendingCalls |-> {}]

-----------------------------------------------------------------------------
(***************************************************************************)
(* Events.  Each carries the turn and step it names (0 where it names      *)
(* none) and the call it concerns; content and metadata are left out.      *)
(***************************************************************************)
Event(type, turn, step, calls) ==
    [type |-> type, turn |-> turn, step |-> step, calls |-> calls]

TurnStart(t)        == Event("turn/start", t, 0, {})
TurnEnd(t)          == Event("turn/end", t, 0, {})
StepStart(t, s)     == Event("step/start", t, s, {})
StepEnd(t, s)       == Event("step/end", t, s, {})
RequestHeader       == Event("request/header", 0, 0, {})
AssistantChunk(t,s) == Event("assistant/chunk", t, s, {})
AssistantMessage(t, s)    == Event("assistant/message", t, s, {})
ToolCall(t, s, c)   == Event("tool/call", t, s, {c})
ToolResult(t, s, c) == Event("tool/result", t, s, {c})
\* The result repair writes for a call that never started.
ToolNotStarted(t, s, c) == Event("tool/not-started", t, s, {c})

NamesOpenStep(trace, e) == trace.openTurn = e.turn /\ trace.openStep = e.step

\* What validateEvent requires of the next event.  A rewrite of a result that the
\* log has already is turn work, and not a second result.
Legal(trace, e) ==
    CASE e.type = "turn/start" ->
            trace.openTurn = Closed /\ e.turn = trace.nextTurn
      [] e.type = "turn/end" ->
            trace.openTurn = e.turn /\ trace.openStep = Closed
      [] e.type = "step/start" ->
            /\ trace.openTurn = e.turn
            /\ trace.openStep = Closed
            /\ e.step = trace.nextStep
      [] e.type \in {"step/end", "assistant/chunk", "assistant/message",
                     "tool/call", "tool/not-started"} ->
            NamesOpenStep(trace, e)
      [] e.type = "tool/result" ->
            NamesOpenStep(trace, e) /\ e.calls \subseteq trace.pendingCalls
      [] e.type \in {"request/header", "request/context", "todo/write", "tool/result-rewrite"} ->
            trace.openTurn # Closed
      [] OTHER -> TRUE

\* The trace after the event.
Apply(trace, e) ==
    CASE e.type = "turn/start" ->
            [trace EXCEPT !.openTurn = e.turn, !.nextStep = 1]
      [] e.type = "turn/end" ->
            [trace EXCEPT !.openTurn = Closed, !.nextTurn = @ + 1]
      [] e.type = "step/start" ->
            [trace EXCEPT !.openStep = e.step]
      [] e.type = "step/end" ->
            [trace EXCEPT !.openStep = Closed, !.nextStep = @ + 1,
                          !.pendingCalls = {}]
      [] e.type = "tool/call" ->
            [trace EXCEPT !.pendingCalls = @ \cup e.calls]
      [] e.type \in {"tool/result", "tool/not-started"} ->
            [trace EXCEPT !.pendingCalls = @ \ e.calls]
      [] OTHER -> trace
=============================================================================
