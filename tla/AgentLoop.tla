----------------------------- MODULE AgentLoop -----------------------------
(***************************************************************************)
(* One agent of the harness (packages/core/agent-loop/src/agent.ts): an    *)
(* inbox, a phase, and the driver that turns queued messages into turns    *)
(* and steps.  JavaScript runs one callback at a time, so other code gets  *)
(* a turn only where the driver awaits, in the gap a promise continuation  *)
(* needs, or inside a listener the driver calls synchronously.  `pc` names *)
(* these places; an action is the code between two of them.  Calls whose   *)
(* listeners call back into the agent wait on `stack`, and return in its   *)
(* order.                                                                  *)
(***************************************************************************)
EXTENDS Inbox, FiniteSets, SequencesExt

CONSTANTS MaxToolSteps,  \* bound: a model asks for tools only in steps below it
          MaxNested      \* bound: calls made inside one another's listeners

ASSUME ToolStepsAssumption == MaxToolSteps \in Nat
ASSUME NestedAssumption == MaxNested \in Nat

\* Tool calls have a module of their own; no event here carries one.
Log == INSTANCE SessionLog WITH CallIds <- {}

VARIABLES
    \* The phase; `turn` is lastTurn when no driver runs.
    kind,          \* "idle", "maintenance" or "running"
    turn, step,    \* the driver's position
    abort,         \* the abort signal's reason, or NoAbort
    wakeRequested, \* a wake latched for replay at convergence
    \* The driver.
    pc,
    batch,         \* the messages claimed for the proposed step
    turnEnds,      \* the turn's ending so far
    \* The inbox, and the calls that wait for the listeners they run.
    inbox,
    stack,         \* the innermost call is its last element
    \* The log, as the fold the session invariant keeps of it.
    trace,
    rejected       \* whether an append was offered an event it forbids

phase   == <<kind, turn, step, abort, wakeRequested>>
driver  == <<pc, batch, turnEnds>>
log     == <<trace, rejected>>

(***************************************************************************)
(* History.  No guard reads these; the properties are stated with them.    *)
(***************************************************************************)
VARIABLES
    fate,          \* what became of each message
    wakes,         \* the messages sent with wakeup
    promised,      \* wakes latched behind an abort or maintenance, not served
    gap,           \* wakes sent after a driver's last look at the inbox
    lastExit,      \* why the last activity came to rest
    ordinary,      \* next-turn messages the open turn has claimed
    ceiling        \* whether a step of the open turn hit max-tokens

history == <<fate, wakes, promised, gap, lastExit, ordinary, ceiling>>
vars == <<phase, driver, inbox, stack, log, history>>

-----------------------------------------------------------------------------
NoAbort == "none"
\* Owners cancel with "disposed" and never keep the inbox; the other causes
\* (user, parent, hook) are treated alike.
Causes  == {"user", "disposed"}

\* "noop" is logged as completed: the turn ended before its first step.
Endings == {"none", "completed", "max-tokens", "noop", "blocked", "aborted", "error"}
Exits   == {"drained", "noop", "blocked", "aborted", "error"}
Fates   == {"new", "pending", "claimed", "entered", "dropped", "discarded"}

\* Where the driver awaits, or waits for a promise continuation to run.
Awaiting == {"assemble", "request", "stream", "recover", "tools", "stopping",
             "again", "exit"}
\* Listener windows: agent/status and agent/error may call anything.
Listening == {"starting", "reporting"}
\* Windows of session/event, where the log refuses a further append.
Publishing == {"opened", "stepped", "raised", "closed"}
PCs == {"none"} \cup Awaiting \cup Listening \cup Publishing

\* A call that waits for listeners, with the locals it will need.  send has
\* inserted its message and has to wake; cancel has emptied one list, or both;
\* wakeDriver has published the running phase and will call kick; kick has
\* published idle and will replay a latched wake.
Sends   == [call : {"send"}, waking : SUBSET Messages,
            afterAbort : BOOLEAN,      \* what it found before the insertion
            cause : {NoAbort}]
Cancels == [call : {"clearing", "cleared"}, waking : {{}}, afterAbort : {FALSE}, cause : Causes]
Kicks   == [call : {"kick", "replay"}, waking : {{}}, afterAbort : {FALSE}, cause : {NoAbort}]
Frames  == Sends \cup Cancels \cup Kicks

\* Phase is a union: a driver runs exactly in the running phase, only that
\* phase has a step, and idle has neither signal nor latch.
TypeOK ==
    /\ kind \in {"idle", "maintenance", "running"}
    /\ kind = "running" <=> pc # "none"
    /\ kind # "running" => step = 0
    /\ kind = "idle" => abort = NoAbort /\ wakeRequested = FALSE
    /\ turn \in Nat /\ step \in Nat
    /\ abort \in {NoAbort} \cup Causes
    /\ wakeRequested \in BOOLEAN
    /\ pc \in PCs
    /\ batch \in SUBSET Messages
    /\ turnEnds \in Endings
    /\ inbox \in Inboxes
    /\ stack \in Seq(Frames)
    /\ trace \in Log!Traces
    /\ rejected \in BOOLEAN
    /\ fate \in [Messages -> Fates]
    /\ wakes \subseteq Messages
    /\ promised \subseteq Messages
    /\ gap \subseteq Messages
    /\ lastExit \in Exits
    /\ ordinary \in Nat
    /\ ceiling \in BOOLEAN

Init ==
    /\ kind = "idle" /\ turn = 0 /\ step = 0
    /\ abort = NoAbort /\ wakeRequested = FALSE
    /\ pc = "none" /\ batch = {} /\ turnEnds = "none"
    /\ inbox = EmptyInbox
    /\ stack = <<>>
    /\ trace = Log!FreshTrace /\ rejected = FALSE
    /\ fate = [m \in Messages |-> "new"]
    /\ wakes = {} /\ promised = {} /\ gap = {}
    /\ lastExit = "drained" /\ ordinary = 0 /\ ceiling = FALSE

-----------------------------------------------------------------------------
Aborted == abort # NoAbort

\* No call waits for a listener: what the driver awaits may resume.
Unnested == stack = <<>>

\* The innermost call goes on when its listeners have returned.
Returns(call) == stack # <<>> /\ Last(stack).call = call

\* The driver's synchronous pieces run to their next await first.
Resumes(call) == Returns(call) /\ pc \notin Publishing

Plain(call) == [call |-> call, waking |-> {}, afterAbort |-> FALSE, cause |-> NoAbort]

Waits(call) == \E i \in DOMAIN stack : stack[i].call = call

\* A cancel has emptied a list and not yet reached the latch.
Clearing == Waits("clearing") \/ Waits("cleared")

\* Where other code may call into the agent.  In a Publishing window a call
\* that appends throws, so only a cancel that appends nothing goes through.
Callable == pc \notin Publishing

Resting == kind = "idle" /\ Unnested

Append1(e) ==
    /\ trace' = Log!Apply(trace, e)
    /\ rejected' = (rejected \/ ~Log!Legal(trace, e))

\* Two appends with nothing between them that could read the log.
Append2(e, f) ==
    /\ trace' = Log!Apply(Log!Apply(trace, e), f)
    /\ rejected' = (rejected \/ ~Log!Legal(trace, e)
                             \/ ~Log!Legal(Log!Apply(trace, e), f))

FateOf(messages, f) == [m \in Messages |-> IF m \in messages THEN f ELSE fate[m]]

-----------------------------------------------------------------------------
(***************************************************************************)
(* The agent's callers.                                                    *)
(***************************************************************************)
Kinds == {"followup", "steer", "inject"}

\* send, up to the notification of the insertion, whose listeners may edit the
\* inbox, cancel or send before send goes on to wake the driver.
Send(m, how) ==
    LET wakeup == how # "inject"
        wakingAfterAbort == wakeup /\ kind # "idle" /\ Aborted
        target == IF how = "followup" \/ wakingAfterAbort THEN "next-turn" ELSE "next-step"
        frame == [Plain("send") EXCEPT !.waking = {m}, !.afterAbort = wakingAfterAbort]
    IN  /\ Callable /\ fate[m] = "new"
        /\ wakeup => Len(stack) < MaxNested
        /\ inbox' = Add(inbox, target, m)
        /\ stack' = IF wakeup THEN Append(stack, frame) ELSE stack
        /\ fate' = [fate EXCEPT ![m] = "pending"]
        /\ wakes' = IF wakeup THEN wakes \cup {m} ELSE wakes
        /\ UNCHANGED <<phase, driver, log, promised, gap, lastExit, ordinary, ceiling>>

\* Mutant: a wake behind an aborted driver is not latched.
LatchesMaintenanceOnly(wakeAfterAbort) ==
    kind # "idle" /\ abort # "disposed" /\ kind = "maintenance"

\* A non-idle agent latches the wake behind maintenance or an abort.
Latches(wakeAfterAbort) ==
    kind # "idle" /\ abort # "disposed" /\ (kind = "maintenance" \/ wakeAfterAbort)

\* An idle agent takes the running phase and publishes it; kick is called when
\* the listeners have returned.  `below` are the calls that wait underneath.
StartDriver(below) ==
    /\ kind' = "running" /\ step' = 0 /\ abort' = NoAbort /\ wakeRequested' = FALSE
    /\ pc' = "starting" /\ stack' = Append(below, Plain("kick"))
    /\ UNCHANGED <<turn, batch, turnEnds>>

WakeDriver(wakeAfterAbort, below) ==
    \/ kind = "idle" /\ StartDriver(below)
    \/ /\ kind # "idle"
       /\ wakeRequested' = (wakeRequested \/ Latches(wakeAfterAbort))
       /\ stack' = below
       /\ UNCHANGED <<kind, turn, step, abort, driver>>

\* History: a turn after convergence is owed to a wake behind maintenance or an
\* abort, but not to one sent by a listener of a cancel that is clearing the
\* inbox: that cancel goes on to erase the latch.
Promises(wakeAfterAbort) ==
    /\ kind = "maintenance" \/ (kind = "running" /\ wakeAfterAbort)
    /\ abort # "disposed"
    /\ ~Clearing

\* send, from the notification on.
FinishSend ==
    LET waking == Last(stack).waking
        wakeAfterAbort == Last(stack).afterAbort
    IN  /\ Resumes("send")
        /\ WakeDriver(wakeAfterAbort, Front(stack))
        /\ promised' = IF Promises(wakeAfterAbort) THEN promised \cup waking ELSE promised
        /\ gap' = IF pc = "exit" /\ ~Promises(wakeAfterAbort) THEN gap \cup waking ELSE gap
        /\ UNCHANGED <<inbox, log, fate, wakes, lastExit, ordinary, ceiling>>

\* Mutant: cancel arms the signal of an agent that has no activity.
SignalAlways(cause) == IF Aborted THEN abort ELSE cause

\* Only an activity has a signal, and the first cause wins.
Signal(cause) == IF kind = "idle" \/ Aborted THEN abort ELSE cause

\* The end of cancel: the latch, then the signal.  Cancelling live work is also
\* what ends a promise to wake.
Interrupt(cause, keepInbox) ==
    /\ wakeRequested' = (wakeRequested /\ keepInbox)
    /\ abort' = Signal(cause)
    /\ promised' = IF kind = "running" /\ ~Aborted THEN {} ELSE promised
    /\ UNCHANGED <<kind, turn, step, driver, inbox, log, fate, wakes, gap, lastExit, ordinary, ceiling>>

\* One splice of clear; the listeners of what it discards run behind it.
EmptyList(target) ==
    /\ inbox' = Emptied(inbox, target)
    /\ fate' = FateOf(Range(inbox[target]), "discarded")
    /\ UNCHANGED <<phase, driver, log, wakes, promised, gap, lastExit, ordinary, ceiling>>

\* cancel with nothing to clear runs through.
Cancel(cause, keepInbox) ==
    /\ keepInbox \/ ~HasPending(inbox)
    /\ Interrupt(cause, keepInbox)
    /\ UNCHANGED stack

\* Otherwise it publishes what it discards, one list after the other.
CancelClearing(cause) ==
    LET first == IF inbox["next-step"] # <<>> THEN "next-step" ELSE "next-turn"
        call == IF first = "next-step" THEN "clearing" ELSE "cleared"
    IN  /\ Callable /\ HasPending(inbox) /\ Len(stack) < MaxNested
        /\ EmptyList(first)
        /\ stack' = Append(stack, [Plain(call) EXCEPT !.cause = cause])

\* The step input is gone; what waits now for turns of its own goes as well.
ClearTurns ==
    /\ Resumes("clearing") /\ inbox["next-turn"] # <<>>
    /\ EmptyList("next-turn")
    /\ stack' = Append(Front(stack), [Last(stack) EXCEPT !.call = "cleared"])

\* Both lists have been emptied; listeners may have filled them again.
FinishCancel ==
    /\ Resumes("cleared") \/ (Resumes("clearing") /\ inbox["next-turn"] = <<>>)
    /\ Interrupt(Last(stack).cause, FALSE)
    /\ stack' = Front(stack)

\* Hosts edit the inbox in place.
RemoveMessage(target, i) ==
    /\ Callable /\ i \in DOMAIN inbox[target]
    /\ inbox' = RemoveAtIndex(inbox, target, i)
    /\ fate' = [fate EXCEPT ![inbox[target][i]] = "discarded"]
    /\ UNCHANGED <<phase, driver, stack, log, wakes, promised, gap, lastExit, ordinary, ceiling>>

Replace(target, i, m) ==
    /\ Callable /\ i \in DOMAIN inbox[target] /\ fate[m] = "new"
    /\ Unpending(inbox, target, i - 1, 1, m)
    /\ inbox' = ReplaceAtIndex(inbox, target, i, m)
    /\ fate' = [fate EXCEPT ![inbox[target][i]] = "discarded", ![m] = "pending"]
    /\ UNCHANGED <<phase, driver, stack, log, wakes, promised, gap, lastExit, ordinary, ceiling>>

\* Extensions put context before everything else that waits for a step.
PrependContext(m) ==
    /\ Callable /\ fate[m] = "new"
    /\ inbox' = Prepend(inbox, "next-step", m)
    /\ fate' = [fate EXCEPT ![m] = "pending"]
    /\ UNCHANGED <<phase, driver, stack, log, wakes, promised, gap, lastExit, ordinary, ceiling>>

\* runMaintenance: claims the idle phase without publishing a status.
RunMaintenance ==
    /\ Callable /\ kind = "idle"
    /\ kind' = "maintenance" /\ abort' = NoAbort /\ wakeRequested' = FALSE
    /\ UNCHANGED <<turn, step, driver, inbox, stack, log, history>>

FinishMaintenance ==
    /\ kind = "maintenance" /\ Unnested
    /\ lastExit' = IF Aborted THEN "aborted" ELSE lastExit
    /\ IF wakeRequested /\ HasPending(inbox)
       THEN StartDriver(stack)
       ELSE /\ kind' = "idle" /\ abort' = NoAbort /\ wakeRequested' = FALSE
            /\ UNCHANGED <<turn, step, driver, stack>>
    /\ UNCHANGED <<inbox, log, fate, wakes, promised, gap, ordinary, ceiling>>

-----------------------------------------------------------------------------
(***************************************************************************)
(* The driver: a turn.                                                     *)
(***************************************************************************)
\* kick calls turn(): at once when the driver starts, else as a continuation.
TurnIsDue ==
    \/ pc = "starting" /\ Returns("kick") /\ stack' = Front(stack)
    \/ pc = "again" /\ Unnested /\ UNCHANGED stack

\* Mutant: whatever ends a turn is contained inside kick's loop, which goes on.
RetryTurn(reason) == pc' = "again" /\ lastExit' = reason

\* A throw leaves kick's loop, and so does a turn that asks for no other.
LeaveLoop(reason) == pc' = "exit" /\ lastExit' = reason

LeaveAs(reason) ==
    /\ LeaveLoop(reason)
    /\ UNCHANGED <<phase, batch, turnEnds, inbox, log, fate, wakes, promised, gap, ordinary, ceiling>>

\* turn() throws before it appends anything when its signal is aborted.
RefuseTurn == TurnIsDue /\ Aborted /\ LeaveAs("aborted")

OpenTurn ==
    /\ TurnIsDue
    /\ ~Aborted
    /\ Append1(Log!TurnStart(turn + 1))
    /\ turn' = turn + 1 /\ turnEnds' = "none" /\ pc' = "opened"
    /\ promised' = {} /\ ordinary' = 0 /\ ceiling' = FALSE
    /\ UNCHANGED <<kind, step, abort, wakeRequested, batch, inbox, fate, wakes, gap, lastExit>>

\* The finally of turn(): what the catch decided, or the loop, is recorded.
CloseTurn(ending) ==
    /\ Append1(Log!TurnEnd(turn))
    /\ turnEnds' = ending /\ pc' = "closed"
    /\ batch' = {} /\ fate' = FateOf(batch, "dropped")
    /\ UNCHANGED <<phase, inbox, stack, wakes, promised, gap, lastExit, ordinary, ceiling>>

\* preStep up to its first await.
Claim(target) ==
    LET claimed == Range(Claimed(inbox, target))
    IN  /\ inbox' = AfterClaim(inbox, target)
        /\ batch' = claimed /\ fate' = FateOf(claimed, "claimed")
        /\ ordinary' = ordinary + QueuedTurn(inbox, target)
        /\ pc' = "assemble"
        /\ UNCHANGED <<phase, turnEnds, stack, log, wakes, promised, gap, lastExit, ceiling>>

FirstStep ==
    /\ pc = "opened"
    /\ IF Aborted THEN CloseTurn("aborted") ELSE Claim("next-turn")

\* An error on its way to the catch of turn().
Raise ==
    /\ pc' = "raised" /\ batch' = {} /\ fate' = FateOf(batch, "dropped")
    /\ UNCHANGED <<phase, turnEnds, inbox, stack, wakes, promised, gap, lastExit, ordinary, ceiling>>

\* Assembly or a pre-step listener throws, or the signal is found aborted.
FailPreStep == pc = "assemble" /\ Unnested /\ Raise /\ UNCHANGED log

RejectStep == pc = "assemble" /\ Unnested /\ ~Aborted /\ CloseTurn("blocked")

\* The decision leaves nothing to say, and no earlier step leaves work to do.
EnterNothing ==
    /\ pc = "assemble" /\ Unnested /\ ~Aborted
    /\ turnEnds # "none" \/ step = 0
    /\ CloseTurn(IF turnEnds # "none" THEN turnEnds ELSE "noop")

\* The proposed step opens over its messages, context included.
EnterStep ==
    /\ pc = "assemble" /\ Unnested /\ ~Aborted
    /\ Append1(Log!StepStart(turn, step + 1))
    /\ step' = step + 1 /\ pc' = "request"
    /\ batch' = {} /\ fate' = FateOf(batch, "entered")
    /\ UNCHANGED <<kind, turn, abort, wakeRequested, turnEnds, inbox, stack, wakes, promised, gap,
                   lastExit, ordinary, ceiling>>

-----------------------------------------------------------------------------
(***************************************************************************)
(* The driver: a step.                                                     *)
(***************************************************************************)
InStep(place) == pc = place /\ Unnested

Goto(place) ==
    /\ pc' = place
    /\ UNCHANGED <<phase, batch, turnEnds, inbox, stack, history>>

\* buildRequest: the request is resolved, logged and handed to the model.
DispatchRequest ==
    InStep("request") /\ ~Aborted /\ Append1(Log!RequestHeader) /\ Goto("stream")

\* The stream finished with an error, and request-error listeners decide.
FailRequest == InStep("stream") /\ ~Aborted /\ Goto("recover") /\ UNCHANGED log

\* Mutant: the signal is not checked after the request-error listeners.
RetryRequestUnchecked == InStep("recover") /\ Goto("request") /\ UNCHANGED log

RetryRequest == InStep("recover") /\ ~Aborted /\ Goto("request") /\ UNCHANGED log

\* Whatever throws inside step(), the finally closes the step.  A cancelled
\* stream first keeps what was visible of it, if anything was.
FailStep ==
    /\ pc \in {"request", "stream", "recover", "tools"} /\ Unnested
    /\ \/ pc = "stream" /\ Aborted
          /\ Append2(Log!AssistantMessage(turn, step), Log!StepEnd(turn, step))
       \/ Append1(Log!StepEnd(turn, step))
    /\ Raise

\* Mutant: the last step's result is the turn's.
LastResult(result) == result

\* max-tokens is sticky.
StickyResult(result) == IF turnEnds = "max-tokens" THEN turnEnds ELSE result

\* step() returned.
EndStep(result) ==
    /\ turnEnds' = StickyResult(result)
    /\ ceiling' = (ceiling \/ result = "max-tokens")
    /\ pc' = "stepped"
    /\ UNCHANGED <<phase, batch, inbox, stack, fate, wakes, promised, gap, lastExit, ordinary>>

\* The model answered without asking for tools, or ran into its ceiling.
FinishStream(result) ==
    /\ InStep("stream") /\ ~Aborted
    /\ Append2(Log!AssistantMessage(turn, step), Log!StepEnd(turn, step))
    /\ EndStep(result)

AskTools ==
    /\ InStep("stream") /\ ~Aborted /\ step < MaxToolSteps
    /\ Append1(Log!AssistantMessage(turn, step)) /\ Goto("tools")

\* executeToolCalls returns, aborted or not; a concluding result ends the turn.
FinishTools(concluded) ==
    /\ InStep("tools")
    /\ Append1(Log!StepEnd(turn, step))
    /\ EndStep(IF concluded THEN "completed" ELSE "none")

AfterStep ==
    /\ pc = "stepped"
    /\ \/ Aborted /\ CloseTurn("aborted")
       \/ /\ ~Aborted /\ turnEnds # "none" /\ inbox["next-step"] = <<>>
          /\ Goto("stopping") /\ UNCHANGED log
       \/ /\ ~Aborted /\ ~(turnEnds # "none" /\ inbox["next-step"] = <<>>)
          /\ Claim("next-step")

\* Mutant: the signal is not checked after the turn-stopping listeners.
AfterStoppingUnchecked ==
    /\ pc = "stopping" /\ Unnested
    /\ IF inbox["next-step"] = <<>> THEN CloseTurn(turnEnds) ELSE Claim("next-step")

\* The turn-stopping listeners may have steered the turn on.
AfterStopping ==
    /\ pc = "stopping" /\ Unnested /\ ~Aborted
    /\ IF inbox["next-step"] = <<>> THEN CloseTurn(turnEnds) ELSE Claim("next-step")

FailStopping == pc = "stopping" /\ Unnested /\ Raise /\ UNCHANGED log

-----------------------------------------------------------------------------
(***************************************************************************)
(* The driver: the end of a turn.                                          *)
(***************************************************************************)
\* The catch: a throw under an aborted signal is the abort; anything else is
\* reported to agent/error before turn/end is appended.
Catch ==
    /\ pc = "raised"
    /\ \/ Aborted /\ CloseTurn("aborted")
       \/ ~Aborted /\ Goto("reporting") /\ UNCHANGED log

Report == pc = "reporting" /\ Unnested /\ CloseTurn("error")

\* Mutant: the step counter runs on into the next turn.
RenewTurnKeepingStep == abort' = NoAbort /\ wakeRequested' = FALSE /\ step' = step

\* The same driver goes on under a fresh signal.
RenewTurn == abort' = NoAbort /\ wakeRequested' = FALSE /\ step' = 0

\* Only a turn that ended well looks at the inbox again.
AfterTurn ==
    /\ pc = "closed"
    /\ UNCHANGED stack
    /\ \/ turnEnds \in {"noop", "blocked", "aborted", "error"} /\ LeaveAs(turnEnds)
       \/ /\ turnEnds \in {"completed", "max-tokens"} /\ ~HasPending(inbox)
          /\ LeaveAs("drained")
       \/ /\ turnEnds \in {"completed", "max-tokens"} /\ HasPending(inbox)
          /\ RenewTurn /\ pc' = "again"
          /\ UNCHANGED <<kind, turn, batch, turnEnds, inbox, log, history>>

\* Mutant: the latch is dropped when the driver converges.
LatchDropped == FALSE

Latched == wakeRequested

\* kick's finally: publish idle, then replay a latched wake.
Exit ==
    /\ pc = "exit" /\ Unnested
    /\ kind' = "idle" /\ step' = 0 /\ abort' = NoAbort /\ wakeRequested' = FALSE
    /\ pc' = "none" /\ stack' = IF Latched THEN <<Plain("replay")>> ELSE <<>>
    /\ UNCHANGED <<turn, batch, turnEnds, inbox, log, history>>

Replay ==
    /\ Resumes("replay")
    /\ IF HasPending(inbox)
       THEN WakeDriver(FALSE, Front(stack))
       ELSE stack' = Front(stack) /\ UNCHANGED <<phase, driver>>
    /\ UNCHANGED <<inbox, log, history>>

-----------------------------------------------------------------------------
Callers ==
    \/ \E m \in Messages, how \in Kinds : Send(m, how)
    \/ \E keepInbox \in BOOLEAN : Cancel("user", keepInbox)
    \/ Cancel("disposed", FALSE)
    \/ \E cause \in Causes : CancelClearing(cause)
    \/ \E target \in Targets : \E i \in DOMAIN inbox[target] :
          RemoveMessage(target, i) \/ \E m \in Messages : Replace(target, i, m)
    \/ \E m \in Messages : PrependContext(m)
    \/ RunMaintenance

Turns ==
    \/ RefuseTurn \/ OpenTurn \/ FirstStep
    \/ FailPreStep \/ RejectStep \/ EnterNothing \/ EnterStep
    \/ AfterStep \/ AfterStopping \/ FailStopping
    \/ Catch \/ Report \/ AfterTurn \/ Exit \/ Replay

Steps ==
    \/ DispatchRequest \/ FailRequest \/ RetryRequest \/ FailStep \/ AskTools
    \/ \E result \in {"completed", "max-tokens"} : FinishStream(result)
    \/ \E concluded \in BOOLEAN : FinishTools(concluded)

\* What callers began goes on.
CallersGoOn == FinishSend \/ ClearTurns \/ FinishCancel

Next == Callers \/ CallersGoOn \/ FinishMaintenance \/ Turns \/ Steps

Spec == Init /\ [][Next]_vars

(***************************************************************************)
(* What the driver awaits settles, and the event loop runs what is ready;  *)
(* nothing obliges a caller to call.                                       *)
(***************************************************************************)
Fairness ==
    /\ WF_vars(CallersGoOn)
    /\ WF_vars(FinishMaintenance)
    /\ WF_vars(Turns \/ Steps)

FairSpec == Spec /\ Fairness

-----------------------------------------------------------------------------
(***************************************************************************)
(* Safety.                                                                 *)
(***************************************************************************)
\* Every event the driver appends is one the session's own invariant accepts:
\* turns and steps are numbered without a gap, opened once and closed once,
\* whatever is cancelled, rejected or thrown in between.
LogGrammar == ~rejected

\* The driver's own position is the log's: the turn and step it believes open
\* are open there, and the next it will open is the one the log expects.
BetweenTurns == {"none", "starting", "again", "closed", "exit"}
BetweenSteps == {"opened", "assemble", "stepped", "stopping", "raised", "reporting"}

PositionMatchesLog ==
    /\ pc \in {"starting", "again", "opened"} => step = 0
    /\ pc \in BetweenTurns =>
          trace.openTurn = Log!Closed /\ trace.openStep = Log!Closed /\ trace.nextTurn = turn + 1
    /\ pc \notin BetweenTurns => trace.openTurn = turn /\ trace.nextTurn = turn
    /\ pc \in BetweenSteps => trace.openStep = Log!Closed /\ trace.nextStep = step + 1
    /\ pc \notin BetweenTurns \cup BetweenSteps => trace.openStep = step /\ trace.nextStep = step

\* A message has one owner at a time: the inbox holds it once, or the open
\* step has claimed it, or its fate is settled.
Custody ==
    /\ Pending(inbox) = {m \in Messages : fate[m] = "pending"}
    /\ Cardinality(Pending(inbox)) = Len(inbox["next-turn"]) + Len(inbox["next-step"])
    /\ batch = {m \in Messages : fate[m] = "claimed"}

\* "The item becomes the sole ordinary message of its own turn."
OneOrdinaryMessage == ordinary <= 1

\* A wake that came behind maintenance or a cancelled activity has a turn
\* opened after it, unless that later activity was itself cancelled, or a
\* listener of a cancel that was clearing the inbox sent it (Promises).
PromisedWakes == Resting => promised \cap Pending(inbox) = {}

\* A driver that came to rest over an empty inbox leaves no waking message
\* behind, except one sent after its last look at the inbox.
DrainedMeansServed ==
    Resting /\ lastExit = "drained" => wakes \cap Pending(inbox) \subseteq gap

\* A cancelled activity never reaches the model: no step starts, and no
\* request is dispatched, while the signal is aborted.
NoModelWorkAfterAbort ==
    [][pc' # pc /\ pc' \in {"request", "stream", "tools"} => ~Aborted]_vars

\* turn/end says aborted exactly when the turn was cancelled before the turn's
\* outcome was decided; a cancel cannot be masked by completion or rejection.
AbortedTurnsSayAborted ==
    [][pc # "closed" /\ pc' = "closed" /\ pc # "reporting" =>
          (turnEnds' = "aborted" <=> Aborted)]_vars

\* A turn in which some step hit the ceiling is not recorded as completed.
CeilingSticks ==
    [][pc # "closed" /\ pc' = "closed" /\ ceiling => turnEnds' \notin {"completed", "noop"}]_vars

(***************************************************************************)
(* Liveness.                                                               *)
(***************************************************************************)
\* Cancellation converges: the aborted activity ends.
CancelConverges == Aborted ~> ~Aborted

\* A promised wake is served, withdrawn or cancelled.
PromisedWakeRuns ==
    \A m \in Messages :
        m \in promised \cap Pending(inbox) ~> m \notin promised \cap Pending(inbox)

(***************************************************************************)
(* What the comments promise and the code does not keep.                   *)
(***************************************************************************)
\* "Live drivers claim queued work themselves": a driver that drains its
\* inbox leaves no waking message behind.
LiveDriversClaim == Resting /\ lastExit = "drained" => wakes \cap Pending(inbox) = {}
=============================================================================
