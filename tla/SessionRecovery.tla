---------------------------- MODULE SessionRecovery ----------------------------
(***************************************************************************)
(* A session across crashes.  An agent's driver appends to the log in      *)
(* memory; the store follows behind (WriteBehind has that part), and the   *)
(* checkpoint policy (session-checkpoint-policy) makes the driver wait for *)
(* it before a step, a model request and a tool body.  A crash leaves a    *)
(* prefix of the log, perhaps with a torn frame behind it.  Opening the    *)
(* session recovers what the frame holds, closes the interrupted turn      *)
(* (core/session/src/repair.ts), stores the repair and replays the inbox   *)
(* and the turn counter out of the log.                                    *)
(***************************************************************************)
EXTENDS Inbox

CONSTANTS MaxTurns,      \* bound: turns of the log
          MaxSteps,      \* bound: steps of a turn; tools are asked for before the last
          MaxToolTurns,  \* bound: a model asks for tools only in turns up to it
          MaxCrashes     \* bound: crashes, and repairs the store refuses

ASSUME RecoveryBounds == MaxTurns \in Nat /\ MaxSteps \in Nat /\ MaxToolTurns \in Nat
                         /\ MaxCrashes \in Nat

\* The calls a step may ask for, by their turn, step and place in the answer.
CallsOf(t, s) == <<<<t, s, 1>>, <<t, s, 2>>>>
Calls == (1..MaxTurns) \X (1..MaxSteps) \X (1..2)

Grammar == INSTANCE SessionLog WITH CallIds <- Calls

VARIABLES
    mode,          \* "live", "closed" (not open in any process) or "repairing"
    log,           \* the live log; of a closed session what the store holds
    stored,        \* how much of the log is durable
    damaged, torn, \* whether a torn frame follows, and the events it still yields
    repair,        \* the events the repair in progress has to append
    \* The agent.
    inbox, turn, step, pc, batch, aborted,
    mark,          \* the length of the log that the driver's checkpoint covers
    calls,         \* the open step's calls: those not committed, in model order
    started, settled,
    \* History.
    prompted,      \* the messages the model has been shown
    ran,           \* the calls whose body has run
    broken,        \* the steps that a scheduler failure has ended
    crashes

store   == <<mode, stored, damaged, torn, repair>>
tools   == <<calls, started, settled>>
agent   == <<inbox, turn, step, pc, batch, aborted, mark, tools>>
history == <<prompted, ran, broken, crashes>>
vars == <<store, log, agent, history>>

-----------------------------------------------------------------------------
(***************************************************************************)
(* Events: those of the grammar, with the parts that recovery reads.       *)
(***************************************************************************)
Plain(e) ==
    [type |-> e.type, turn |-> e.turn, step |-> e.step, calls |-> e.calls,
     asks |-> <<>>, target |-> "none", start |-> 0, removed |-> 0, inserted |-> <<>>,
     canceled |-> FALSE, reason |-> "none"]

Spliced(target, start, removed, inserted, canceled) ==
    [Plain(Grammar!Event("agent/inbox/spliced", 0, 0, {})) EXCEPT
        !.target = target, !.start = start, !.removed = removed, !.inserted = inserted,
        !.canceled = canceled]
UserMessage(m) ==
    [Plain(Grammar!Event("user/message", 0, 0, {})) EXCEPT !.inserted = <<m>>]
Answer(t, s, asks)  == [Plain(Grammar!AssistantMessage(t, s)) EXCEPT !.asks = asks]
TurnEnd(t, why)     == [Plain(Grammar!TurnEnd(t)) EXCEPT !.reason = why]
TurnStart(t)        == Plain(Grammar!TurnStart(t))
StepStart(t, s)     == Plain(Grammar!StepStart(t, s))
StepEnd(t, s)       == Plain(Grammar!StepEnd(t, s))
ToolCall(c)         == Plain(Grammar!ToolCall(c[1], c[2], c))
ToolResult(c)       == Plain(Grammar!ToolResult(c[1], c[2], c))
ToolNotStarted(c)   == Plain(Grammar!ToolNotStarted(c[1], c[2], c))

IsSplice(e) == e.type = "agent/inbox/spliced"
IsResult(e) == e.type \in {"tool/result", "tool/not-started"}

\* A left fold, with its values on the way, as a function: the folds of the
\* library cost TLC too much here.
Runs(op(_, _), base, events) ==
    LET run[i \in 0..Len(events)] == IF i = 0 THEN base ELSE op(run[i - 1], events[i])
    IN  run

Fold(op(_, _), base, events) == Runs(op, base, events)[Len(events)]

\* The inbox's constructor: the log's splices, one after the other.
Replayed(events) ==
    Fold(LAMBDA box, e : IF IsSplice(e) THEN Splice(box, e.target, e.start, e.removed, e.inserted)
                         ELSE box,
         EmptyInbox, events)

\* The agent's constructor: the latest turn the log opens.
LastTurn(events) ==
    Fold(LAMBDA t, e : IF e.type = "turn/start" THEN e.turn ELSE t, 0, events)

\* The calls of a list that are not among those given.
Without(list, some) ==
    Fold(LAMBDA kept, c : IF c \in some THEN kept ELSE Append(kept, c), <<>>, list)

Trace(events) == Fold(Grammar!Apply, Grammar!FreshTrace, events)

-----------------------------------------------------------------------------
(***************************************************************************)
(* interruptedTurnClosers.                                                 *)
(***************************************************************************)
NothingOpen == [turn |-> Grammar!Closed, step |-> Grammar!Closed, asked |-> <<>>, begun |-> {}]

\* The scan: the open turn and step, the calls without a result in the order
\* the model made them, and those among them with a tool/call.
Scan(open, e) ==
    CASE e.type = "turn/start" -> [NothingOpen EXCEPT !.turn = e.turn]
      [] e.type = "turn/end"   -> NothingOpen
      [] e.type = "step/start" -> [open EXCEPT !.step = e.step]
      [] e.type = "step/end"   -> [NothingOpen EXCEPT !.turn = open.turn]
      [] e.type = "assistant/message" -> [open EXCEPT !.asked = @ \o e.asks]
      [] e.type = "tool/call"  -> [open EXCEPT !.begun = @ \cup (e.calls \cap Range(open.asked))]
      [] IsResult(e) -> [open EXCEPT !.asked = Without(@, e.calls)]
      [] OTHER -> open

Opened(events) == Fold(Scan, NothingOpen, events)

\* Mutant: every unanswered call is reported as not started.
NeverStarted(open, c) == ToolNotStarted(c)

Outcome(open, c) == IF c \in open.begun THEN ToolResult(c) ELSE ToolNotStarted(c)

\* Mutant: an open step is left to the turn's end.
NoStepCloser(open) == <<>>

StepCloser(open) ==
    IF open.step = Grammar!Closed THEN <<>> ELSE <<StepEnd(open.turn, open.step)>>

\* Results first, then the step's end, then the turn's.
Closers(events) ==
    LET open == Opened(events)
        results == [i \in DOMAIN open.asked |-> Outcome(open, open.asked[i])]
    IN  IF open.turn = Grammar!Closed THEN <<>>
        ELSE results \o StepCloser(open) \o <<TurnEnd(open.turn, "interrupted")>>

-----------------------------------------------------------------------------
(***************************************************************************)
(* foldConsumedWork (core/agent/src/consumed-work.ts).                     *)
(***************************************************************************)
\* Mutant: only a turn that reached a step accounts for its claim.
AccountsForSteps(reason) == FALSE

AccountsForClaim(reason) == reason # "completed"

Unaccounted == [at |-> 0, end |-> 0, open |-> 0, stepped |-> {}, claimed |-> {}, dropped |-> FALSE]

\* One event; `at` counts them, `end` is the place of the accounting turn/end.
Account(acc, e) ==
    LET here == [acc EXCEPT !.at = @ + 1]
    IN  CASE e.type = "turn/start" -> [here EXCEPT !.open = e.turn]
          [] e.type = "step/start" -> [here EXCEPT !.stepped = @ \cup {e.turn}]
          [] IsSplice(e) /\ e.removed > 0 /\ e.canceled ->
                [here EXCEPT !.dropped = @ \/ e.inserted = <<>>]
          [] IsSplice(e) /\ e.removed > 0 /\ ~e.canceled /\ acc.open # 0 ->
                [here EXCEPT !.claimed = @ \cup {acc.open}]
          [] e.type = "turn/end" ->
                IF \/ e.turn \in acc.stepped
                   \/ e.turn \in acc.claimed /\ AccountsForClaim(e.reason)
                THEN [here EXCEPT !.open = 0, !.end = here.at, !.dropped = FALSE]
                ELSE [here EXCEPT !.open = 0]
          [] OTHER -> here

ConsumedWork(events) == Fold(Account, Unaccounted, events)

-----------------------------------------------------------------------------
TypeOK ==
    /\ mode \in {"live", "closed", "repairing"}
    /\ stored \in 0..Len(log)
    /\ damaged \in BOOLEAN /\ (torn # <<>> => damaged)
    /\ inbox \in Inboxes
    /\ turn \in 0..MaxTurns /\ step \in 0..MaxSteps
    /\ pc \in {"idle", "claimed", "entered", "streaming", "tools"}
    /\ batch \in Seq(Messages) /\ aborted \in BOOLEAN
    /\ mark \in 0..Len(log)
    /\ Range(calls) \subseteq Calls /\ started \subseteq Calls /\ settled \subseteq started
    /\ prompted \subseteq Messages /\ ran \subseteq Calls
    /\ crashes \in 0..MaxCrashes

Rested ==
    /\ step' = 0 /\ pc' = "idle" /\ batch' = <<>> /\ aborted' = FALSE /\ mark' = 0
    /\ calls' = <<>> /\ started' = {} /\ settled' = {}

Init ==
    /\ mode = "live" /\ log = <<>> /\ stored = 0
    /\ damaged = FALSE /\ torn = <<>> /\ repair = <<>>
    /\ inbox = EmptyInbox /\ turn = 0 /\ step = 0
    /\ pc = "idle" /\ batch = <<>> /\ aborted = FALSE /\ mark = 0
    /\ calls = <<>> /\ started = {} /\ settled = {}
    /\ prompted = {} /\ ran = {} /\ broken = {} /\ crashes = 0

Logs(events) == log' = log \o events

-----------------------------------------------------------------------------
(***************************************************************************)
(* The agent's callers.                                                    *)
(***************************************************************************)
Known == UNION {Range(e.inserted) : e \in Range(log)}

Send(m, target) ==
    /\ mode = "live" /\ m \notin Known
    /\ inbox' = Add(inbox, target, m)
    /\ Logs(<<Spliced(target, Len(inbox[target]), 0, <<m>>, FALSE)>>)
    /\ UNCHANGED <<store, turn, step, pc, batch, aborted, mark, tools, history>>

Replace(target, i, m) ==
    /\ mode = "live" /\ m \notin Known /\ i \in DOMAIN inbox[target]
    /\ inbox' = ReplaceAtIndex(inbox, target, i, m)
    /\ Logs(<<Spliced(target, i - 1, 1, <<m>>, TRUE)>>)
    /\ UNCHANGED <<store, turn, step, pc, batch, aborted, mark, tools, history>>

\* Everything in a list leaves it, by one splice; an empty list logs nothing.
Takes(target, count, canceled) ==
    IF count = 0 THEN <<>> ELSE <<Spliced(target, 0, count, <<>>, canceled)>>

Cancel(keepInbox) ==
    /\ mode = "live"
    /\ (pc # "idle" /\ ~aborted) \/ (~keepInbox /\ HasPending(inbox))
    /\ aborted' = (pc # "idle")
    /\ IF keepInbox
       THEN UNCHANGED <<inbox, log>>
       ELSE /\ inbox' = EmptyInbox
            /\ Logs(Takes("next-step", Len(inbox["next-step"]), TRUE)
                    \o Takes("next-turn", Len(inbox["next-turn"]), TRUE))
    /\ UNCHANGED <<store, turn, step, pc, batch, mark, tools, history>>

-----------------------------------------------------------------------------
(***************************************************************************)
(* The driver.  What it appends between two awaits is one action; a crash  *)
(* may still keep any prefix of it.                                        *)
(***************************************************************************)
\* A checkpoint that the driver's next move awaits.
Checkpointed == stored >= mark

\* preStep: the claim, and the checkpoint before the step opens.
Claims(events, target) ==
    LET taken == events \o Takes("next-step", Len(inbox["next-step"]), FALSE)
                        \o Takes("next-turn", QueuedTurn(inbox, target), FALSE)
    IN  /\ Logs(taken)
        /\ inbox' = AfterClaim(inbox, target) /\ batch' = Claimed(inbox, target)
        /\ mark' = Len(log) + Len(taken) /\ pc' = "claimed"
        /\ calls' = <<>> /\ started' = {} /\ settled' = {}

OpenTurn ==
    /\ mode = "live" /\ pc = "idle" /\ HasPending(inbox) /\ turn < MaxTurns
    /\ turn' = turn + 1 /\ step' = 0 /\ aborted' = FALSE
    /\ Claims(<<TurnStart(turn + 1)>>, "next-turn")
    /\ UNCHANGED <<store, history>>

CloseTurn(events, why) ==
    /\ Logs(events \o <<TurnEnd(turn, why)>>) /\ Rested
    /\ UNCHANGED <<store, inbox, turn, prompted, ran, crashes>>

\* No step: failed, rewritten to nothing or cancelled.  A rejected step ends its
\* turn as "blocked", which nothing here tells from an error.  A later step is
\* given up only by a turn that had its ending, and had gone on for new input.
EndBeforeStep(why) ==
    /\ mode = "live" /\ pc = "claimed"
    /\ CASE why = "aborted" -> aborted
         [] why = "error" -> ~aborted
         [] why = "completed" -> ~aborted /\ Checkpointed /\ (step = 0 \/ batch # <<>>)
    /\ CloseTurn(<<>>, why) /\ UNCHANGED broken

\* A pre-step hook may drop messages of the batch (the last ones, here), but the
\* first step has something to say.
EnterStep ==
    /\ mode = "live" /\ pc = "claimed" /\ ~aborted /\ Checkpointed /\ step < MaxSteps
    /\ \E n \in 0..Len(batch) :
          /\ step = 0 => n > 0
          /\ LET kept == SubSeq(batch, 1, n)
                 events == <<StepStart(turn, step + 1)>> \o [i \in DOMAIN kept |-> UserMessage(kept[i])]
             IN  Logs(events) /\ mark' = Len(log) + Len(events) /\ batch' = kept
    /\ step' = step + 1 /\ pc' = "entered"
    /\ UNCHANGED <<store, inbox, turn, aborted, tools, history>>

\* Mutant: the request goes out without a checkpoint.
AskModelAtOnce ==
    /\ mode = "live" /\ pc = "entered" /\ ~aborted
    /\ pc' = "streaming" /\ prompted' = prompted \cup Range(batch)
    /\ UNCHANGED <<store, log, inbox, turn, step, batch, aborted, mark, tools, ran, broken, crashes>>

\* llm/stream: the logged request is durable before the adapter sees it.
AskModel ==
    /\ mode = "live" /\ pc = "entered" /\ ~aborted /\ Checkpointed
    /\ pc' = "streaming" /\ prompted' = prompted \cup Range(batch)
    /\ UNCHANGED <<store, log, inbox, turn, step, batch, aborted, mark, tools, ran, broken, crashes>>

\* The request, its checkpoint or its stream fails, or is cancelled.
FailStep ==
    /\ mode = "live" /\ pc \in {"entered", "streaming"}
    /\ CloseTurn(<<StepEnd(turn, step)>>, IF aborted THEN "aborted" ELSE "error")
    /\ UNCHANGED broken

\* The step ends; the turn does as well, or goes on with another.
AfterStep(events, concluded) ==
    IF concluded
    THEN CloseTurn(events \o <<StepEnd(turn, step)>>, "completed")
    ELSE /\ Claims(events \o <<StepEnd(turn, step)>>, "next-step")
         /\ UNCHANGED <<store, turn, step, aborted, prompted, ran, crashes>>

Finish ==
    /\ mode = "live" /\ pc = "streaming" /\ ~aborted
    /\ AfterStep(<<Answer(turn, step, <<>>)>>, inbox["next-step"] = <<>>)
    /\ UNCHANGED broken

AskTools ==
    /\ mode = "live" /\ pc = "streaming" /\ ~aborted /\ step < MaxSteps /\ turn <= MaxToolTurns
    /\ Logs(<<Answer(turn, step, CallsOf(turn, step))>>)
    /\ pc' = "tools" /\ calls' = CallsOf(turn, step)
    /\ UNCHANGED <<store, inbox, turn, step, batch, aborted, mark, started, settled, history>>

-----------------------------------------------------------------------------
(***************************************************************************)
(* The open step's tools, started and committed in model order.            *)
(***************************************************************************)
InTools == mode = "live" /\ pc = "tools"

Unstarted == Without(calls, started)

StartCall ==
    /\ InTools /\ ~aborted /\ Unstarted # <<>>
    /\ Logs(<<ToolCall(Head(Unstarted))>>)
    /\ started' = started \cup {Head(Unstarted)}
    /\ UNCHANGED <<store, inbox, turn, step, pc, batch, aborted, mark, calls, settled, history>>

\* Mutant: a body runs without a checkpoint.
MayRunAtOnce(c) == TRUE

\* tools/execute: the recorded call is durable before the body runs.
MayRun(c) == ToolCall(c) \in Range(SubSeq(log, 1, stored))

RunBody(c) ==
    /\ InTools /\ c \in started \ settled /\ MayRun(c) /\ ~aborted
    /\ ran' = ran \cup {c} /\ settled' = settled \cup {c}
    /\ UNCHANGED <<store, log, inbox, turn, step, pc, batch, aborted, mark, calls, started, prompted,
                   broken, crashes>>

\* The checkpoint fails, or the call is found cancelled: a result without a run.
RefuseBody(c) ==
    /\ InTools /\ c \in started \ settled
    /\ settled' = settled \cup {c}
    /\ UNCHANGED <<store, log, inbox, turn, step, pc, batch, aborted, mark, calls, started, history>>

Commit ==
    /\ InTools /\ calls # <<>> /\ Head(calls) \in settled
    /\ Logs(<<ToolResult(Head(calls))>>) /\ calls' = Tail(calls)
    /\ UNCHANGED <<store, inbox, turn, step, pc, batch, aborted, mark, started, settled, history>>

\* An abort gives every call that did not start a call and a result.
Skipped ==
    [i \in 1..(2 * Len(calls)) |->
        LET c == calls[(i + 1) \div 2] IN IF i % 2 = 1 THEN ToolCall(c) ELSE ToolResult(c)]

FinishTools(concluded) ==
    /\ InTools
    /\ \/ ~aborted /\ calls = <<>> /\ AfterStep(<<>>, concluded /\ inbox["next-step"] = <<>>)
       \/ /\ aborted /\ Range(calls) \cap started = {}
          /\ CloseTurn(Skipped \o <<StepEnd(turn, step)>>, "aborted")
    /\ UNCHANGED broken

\* A scheduler failure commits nothing more once the dispatched bodies are done.
SchedulerFails ==
    /\ InTools /\ calls # <<>> /\ started \subseteq settled
    /\ broken' = broken \cup {<<turn, step>>}
    /\ CloseTurn(<<StepEnd(turn, step)>>, IF aborted THEN "aborted" ELSE "error")

-----------------------------------------------------------------------------
(***************************************************************************)
(* The store.                                                              *)
(***************************************************************************)
\* A write ends that the driver awaits.  One that covers less is one that ended
\* earlier, and one that nobody awaits only leaves a crash less to take away.
Persist ==
    /\ mode = "live"
    /\ ~Checkpointed \/ \E c \in started \ settled : ~MayRun(c)
    /\ stored' = Len(log)
    /\ UNCHANGED <<mode, log, damaged, torn, repair, agent, history>>

\* What a death during the append of `bytes` leaves: plain JSONL keeps whole
\* lines, a zstd frame keeps its place until it is whole.
Dies(kept, bytes) ==
    /\ \/ \E n \in 0..Len(bytes) :
             log' = kept \o SubSeq(bytes, 1, n) /\ torn' = <<>> /\ damaged' \in BOOLEAN
       \/ \E n \in 0..Len(bytes) :
             log' = kept /\ torn' = SubSeq(bytes, 1, n) /\ damaged' = TRUE
    /\ mode' = "closed" /\ stored' = Len(log') /\ repair' = <<>>
    /\ inbox' = EmptyInbox /\ turn' = 0 /\ Rested
    /\ crashes' = crashes + 1 /\ UNCHANGED <<prompted, ran, broken>>

Crash ==
    /\ crashes < MaxCrashes
    /\ \/ mode = "live" /\ Dies(SubSeq(log, 1, stored), SubSeq(log, stored + 1, Len(log)))
       \/ mode = "repairing" /\ Dies(log, repair)

\* load, prepareCore: an intact, balanced log is adopted.
Resume ==
    /\ mode = "closed" /\ ~damaged /\ Closers(log) = <<>>
    /\ mode' = "live"
    /\ inbox' = Replayed(log) /\ turn' = LastTurn(log)
    /\ UNCHANGED <<log, stored, damaged, torn, repair, step, pc, batch, aborted, mark, tools, history>>

\* Mutant: the events recovered from the torn frame go with it.
RepairWithoutRecovered == Closers(log \o torn)

RepairEvents == torn \o Closers(log \o torn)

\* Mutant: the torn frame is not truncated.
StillDamaged == damaged

TruncatedTail == FALSE

\* commitRepair, first step: the torn frame is cut off the file.
Truncate ==
    /\ mode = "closed" /\ (damaged \/ Closers(log) # <<>>)
    /\ mode' = "repairing" /\ repair' = RepairEvents
    /\ damaged' = TruncatedTail /\ torn' = <<>>
    /\ UNCHANGED <<log, stored, agent, history>>

\* commitRepair, second step.  Then the session is loaded again.
AppendRepair ==
    /\ mode = "repairing"
    /\ log' = log \o repair /\ stored' = Len(log') /\ repair' = <<>>
    /\ mode' = "closed"
    /\ UNCHANGED <<damaged, torn, agent, history>>

-----------------------------------------------------------------------------
Callers ==
    \/ \E m \in Messages, target \in Targets :
          Send(m, target) \/ \E i \in DOMAIN inbox[target] : Replace(target, i, m)
    \/ \E keepInbox \in BOOLEAN : Cancel(keepInbox)

Driver ==
    \/ OpenTurn \/ EnterStep \/ AskModel \/ FailStep \/ Finish \/ AskTools
    \/ \E why \in {"aborted", "error", "completed"} : EndBeforeStep(why)
    \/ StartCall \/ Commit \/ SchedulerFails
    \/ \E c \in Calls : RunBody(c) \/ RefuseBody(c)
    \/ \E concluded \in BOOLEAN : FinishTools(concluded)

Opening == Resume \/ Truncate \/ AppendRepair

Next == Callers \/ Driver \/ Persist \/ Opening \/ Crash

Spec == Init /\ [][Next]_vars

-----------------------------------------------------------------------------
Accepted(events) ==
    LET seen == Runs(Grammar!Apply, Grammar!FreshTrace, events)
    IN  \A i \in DOMAIN events : Grammar!Legal(seen[i - 1], events[i])

\* The log, whoever wrote the last of it, is one the session's own grammar
\* accepts, and a session is resumed between turns, with the next turn the one
\* the grammar expects.
RepairedLogIsLegal ==
    /\ mode = "closed" \/ pc = "idle" => Accepted(log)
    /\ mode = "live" /\ pc = "idle" =>
          /\ Trace(log).openTurn = Grammar!Closed
          /\ Trace(log).nextTurn = turn + 1

\* What the results of a step answer, in the log's order.
ResultsOf(events, t, s) ==
    Fold(LAMBDA seen, e : IF IsResult(e) /\ e.turn = t /\ e.step = s THEN Append(seen, e.calls)
                          ELSE seen,
         <<>>, events)

\* Every call of a closed step has one result, in the order the model made the
\* calls, wherever the crash fell; only a scheduler failure leaves calls open.
EveryAskedCallAnswered ==
    \A e \in Range(log) :
        e.type = "assistant/message" /\ StepEnd(e.turn, e.step) \in Range(log)
            /\ <<e.turn, e.step>> \notin broken =>
        ResultsOf(log, e.turn, e.step) = [i \in DOMAIN e.asks |-> {e.asks[i]}]

\* A repair that reaches the store is the last: the next load finds nothing to do.
RepairIsFinal == mode = "repairing" => ~damaged /\ Closers(log \o repair) = <<>>

RecoveryInv == TypeOK /\ RepairedLogIsLegal /\ RepairIsFinal /\ EveryAskedCallAnswered

\* What the program acted on outlives every crash: the call of a body that has
\* run and the prompt the model has been shown stay in the log.
EffectsStay ==
    /\ \A c \in ran : ToolCall(c) \in Range(log)
    /\ \A m \in prompted : UserMessage(m) \in Range(log)

\* What recovery says agrees with what happened: a call it reports as not started
\* has not run, and a prompt the model has been shown does not wait for a turn.
EffectsAreRemembered ==
    /\ \A e \in Range(log) : e.type = "tool/not-started" => e.calls \cap ran = {}
    /\ mode = "live" => prompted \cap Pending(inbox) = {}

-----------------------------------------------------------------------------
InboxAt(i) == Replayed(SubSeq(log, 1, i))

\* Where a message left the inbox, or 0.
LeftAt(m) ==
    LET places == {i \in DOMAIN log : m \in Pending(InboxAt(i - 1)) \ Pending(InboxAt(i))}
    IN  IF places = {} THEN 0 ELSE CHOOSE i \in places : TRUE

\* The turn a place of the log is in.
TurnAt(i) == LastTurn(SubSeq(log, 1, i))

\* What a message became, to a reader of the log who asks foldConsumedWork.
Explained(m) ==
    LET left == LeftAt(m)
        work == ConsumedWork(log)
    IN  \/ m \in Pending(inbox)
        \/ UserMessage(m) \in Range(log)
        \/ work.end > left
        \/ log[left].canceled /\ (work.dropped \/ log[left].inserted # <<>>)
        \/ TurnEnd(TurnAt(left), "completed") \in Range(log)

\* No accepted message vanishes: an agent at rest still has it pending, has
\* entered it into a step, or its log says what became of it: work was cut short
\* after it was taken, a caller dropped or replaced it, or the turn that had
\* claimed it completed (a hook may have kept it out of every step).
NothingVanishes ==
    mode = "live" /\ pc = "idle" => \A m \in Known : Explained(m)
===============================================================================
