------------------------------ MODULE ToolCalls ------------------------------
(***************************************************************************)
(* The tool calls of one step (packages/core/agent-loop/src/tool-calls.ts).*)
(* The calls of an assistant message run in groups: an exclusive call is a *)
(* barrier, consecutive parallel calls share a pool of bounded size.       *)
(* Bodies overlap; preparation does not, and results reach the log in the  *)
(* model's order.                                                          *)
(***************************************************************************)
EXTENDS Naturals, Sequences, FiniteSets

CONSTANTS NumCalls,      \* how many calls the message asks for
          MaxParallel    \* config.maxParallelToolCalls

ASSUME CallsAssumption == NumCalls \in Nat /\ MaxParallel \in Nat \ {0}

Calls == 1 .. NumCalls

Log == INSTANCE SessionLog WITH CallIds <- Calls

VARIABLES
    pc,          \* where executeToolCalls and runGroup are
    cancelled,   \* the turn's abort signal
    aborted,     \* runGroup's copy of it
    mode,        \* the group's execution mode
    first, last, \* the group's extent in the message
    toStart,     \* nextToStart: the call fillPool considers
    started,     \* the last call whose tool/call is logged
    committed,   \* the last call whose tool/result is logged
    call,        \* what became of each call
    inFlight,    \* dispatched and not yet taken from the race
    failed,      \* whether a scheduler failure is recorded
    concluded,   \* whether a committed result concludes the turn
    trace, rejected,
    results      \* history: the results in log order

group == <<aborted, mode, first, last, toStart, started, committed>>
log   == <<trace, rejected, results>>
vars  == <<pc, cancelled, group, call, inFlight, failed, concluded, log>>

\* Where runGroup awaits, so that bodies may settle and a cancel may land.
Awaiting == {"classify", "prepare", "prepared", "commit", "finalize", "race", "drain"}
PCs == Awaiting \cup {"fill", "skip", "returned", "threw"}

\* A settled body leaves a slot that still needs post-processing, or a final one.
CallStates == {"planned", "prepare", "running", "post", "final", "committed", "skipped", "lost"}

\* Types: the group's bounds and both counters stay within the message.
TypeOK ==
    /\ pc \in PCs
    /\ cancelled \in BOOLEAN /\ aborted \in BOOLEAN
    /\ mode \in {"parallel", "exclusive"}
    /\ first \in 1 .. NumCalls + 1 /\ last \in 0 .. NumCalls
    /\ toStart \in 1 .. NumCalls + 1
    /\ started \in 0 .. NumCalls /\ committed \in 0 .. NumCalls
    /\ call \in [Calls -> CallStates]
    /\ inFlight \subseteq Calls
    /\ failed \in BOOLEAN /\ concluded \in BOOLEAN
    /\ trace \in Log!Traces /\ rejected \in BOOLEAN
    /\ results \in Seq(Calls)

\* The step these calls belong to is open; which one it is does not matter.
Turn == 1
Step == 1
OpenStep == [Log!FreshTrace EXCEPT !.openTurn = Turn, !.openStep = Step]

Init ==
    /\ pc = "classify" /\ cancelled \in BOOLEAN /\ aborted = FALSE
    /\ mode = "exclusive" /\ first = 1 /\ last = 0
    /\ toStart = 1 /\ started = 0 /\ committed = 0
    /\ call = [c \in Calls |-> "planned"]
    /\ inFlight = {} /\ failed = FALSE /\ concluded = FALSE
    /\ trace = OpenStep /\ rejected = FALSE /\ results = <<>>

-----------------------------------------------------------------------------
Append1(e) ==
    /\ trace' = Log!Apply(trace, e)
    /\ rejected' = (rejected \/ ~Log!Legal(trace, e))

\* Mutant: a call reaches the log only through its result.
LogNoCall(c) == UNCHANGED <<trace, rejected, results>>

LogCall(c) == Append1(Log!ToolCall(Turn, Step, c)) /\ UNCHANGED results

LogResult(c) == Append1(Log!ToolResult(Turn, Step, c)) /\ results' = Append(results, c)

\* A scheduler failure leaves for the catch of runGroup.
Throw == pc' = "drain" /\ failed' = TRUE

-----------------------------------------------------------------------------
\* Mutant: a barrier takes the rest of the message into its group.
RestOfMessage(m) == NumCalls

\* The last call a group may take in.
GroupEnd(m) == IF m = "parallel" THEN NumCalls ELSE first

\* executeToolCalls reads the next call's mode, which the registry may have
\* changed since, and forms its group.
Classify ==
    /\ pc = "classify" /\ first <= NumCalls
    /\ \E m \in {"parallel", "exclusive"} :
          mode' = m /\ last' = GroupEnd(m)
    /\ toStart' = first /\ aborted' = cancelled
    /\ pc' = "fill"
    /\ UNCHANGED <<cancelled, first, started, committed, call, inFlight, failed, concluded, log>>

ReturnAll ==
    /\ pc = "classify" /\ first > NumCalls
    /\ pc' = "returned"
    /\ UNCHANGED <<cancelled, group, call, inFlight, failed, concluded, log>>

\* Mutant: the pool's bound is off by one.
HasRoomForOneMore == ~aborted /\ toStart <= last /\ Cardinality(inFlight) <= MaxParallel

HasRoom == ~aborted /\ toStart <= last /\ Cardinality(inFlight) < MaxParallel

\* startCall, up to its await.
StartCall ==
    /\ pc = "fill" /\ HasRoom
    /\ LogCall(toStart)
    /\ call' = [call EXCEPT ![toStart] = "prepare"]
    /\ started' = toStart
    /\ pc' = "prepare"
    /\ UNCHANGED <<cancelled, aborted, mode, first, last, toStart, committed, inFlight, failed, concluded>>

\* fillPool returns: no room, or a later call of the pool reads as exclusive.
StopFilling ==
    /\ pc = "fill"
    /\ ~HasRoom \/ (toStart > first /\ mode = "parallel")
    /\ inFlight # {}
    /\ pc' = "race"
    /\ UNCHANGED <<cancelled, group, call, inFlight, failed, concluded, log>>

\* Mutant: the group's consumption is counted from the message's start.
NextGroupFromStart == first + started

\* The outer loop skips what the group has consumed.
NextGroup == started + 1

\* The group is over when fillPool returns with nothing in flight.
FinishGroup ==
    /\ pc = "fill"
    /\ ~HasRoom \/ (toStart > first /\ mode = "parallel")
    /\ inFlight = {}
    /\ IF aborted
       THEN pc' = "skip" /\ UNCHANGED first
       ELSE pc' = "classify" /\ first' = NextGroup
    /\ UNCHANGED <<cancelled, aborted, mode, last, toStart, started, committed,
                   call, inFlight, failed, concluded, log>>

\* prepare resolves.  A failure recorded meanwhile keeps the call from running.
Prepared(kind) ==
    /\ pc = "prepare"
    /\ \/ /\ failed
          /\ call' = [call EXCEPT ![toStart] = "lost"]
          /\ Throw /\ UNCHANGED <<toStart, inFlight>>
       \/ /\ ~failed
          /\ call' = [call EXCEPT ![toStart] = kind]
          /\ inFlight' = IF kind = "running" THEN inFlight \cup {toStart} ELSE inFlight
          /\ toStart' = toStart + 1
          /\ pc' = "prepared" /\ UNCHANGED failed
    /\ UNCHANGED <<cancelled, aborted, mode, first, last, started, committed, concluded, log>>

\* fillPool resumes after startCall.
BeginCommit ==
    /\ pc = "prepared"
    /\ pc' = IF failed THEN "drain" ELSE "commit"
    /\ UNCHANGED <<cancelled, group, call, inFlight, failed, concluded, log>>

PrepareThrows ==
    /\ pc = "prepare"
    /\ call' = [call EXCEPT ![toStart] = "lost"]
    /\ Throw
    /\ UNCHANGED <<cancelled, group, inFlight, concluded, log>>

-----------------------------------------------------------------------------
\* commitReady advances only over contiguous settled slots.
Ready(slot) == committed < last /\ call[committed + 1] = slot

CommitSlot ==
    LET c == committed + 1
    IN  /\ LogResult(c)
        /\ call' = [call EXCEPT ![c] = "committed"]
        /\ committed' = c
        /\ \E concludes \in BOOLEAN : concluded' = (concluded \/ concludes)
        /\ pc' = "commit"
        /\ UNCHANGED <<cancelled, aborted, mode, first, last, toStart, started, inFlight, failed>>

CommitFinal == pc = "commit" /\ Ready("final") /\ CommitSlot

BeginFinalize ==
    /\ pc = "commit" /\ Ready("post")
    /\ pc' = "finalize"
    /\ UNCHANGED <<cancelled, group, call, inFlight, failed, concluded, log>>

Finalized == pc = "finalize" /\ CommitSlot

FinalizeThrows ==
    /\ pc = "finalize" /\ Throw
    /\ call' = [call EXCEPT ![committed + 1] = "lost"]
    /\ UNCHANGED <<cancelled, group, inFlight, concluded, log>>

\* Mutant: the signal is read only when a group begins.
AbortedAtStart == aborted

ReadSignal == aborted \/ cancelled

\* Mutant: an abort answers the rest without waiting for what has started.
SkipAtOnce == IF cancelled THEN "skip" ELSE "fill"

AfterCommits == "fill"

\* Nothing more to commit: fail, or look at the signal and fill the pool.
CommitDone ==
    /\ pc = "commit" /\ ~Ready("final") /\ ~Ready("post")
    /\ IF failed
       THEN pc' = "drain" /\ UNCHANGED aborted
       ELSE pc' = AfterCommits /\ aborted' = ReadSignal
    /\ UNCHANGED <<cancelled, mode, first, last, toStart, started, committed,
                   call, inFlight, failed, concluded, log>>

\* Mutant: a settled body is not committed before the pool is filled again.
FillAfterRace == IF failed THEN "drain" ELSE "fill"

AfterRace == IF failed THEN "drain" ELSE "commit"

\* Mutant: a rejected dispatch never settles the race.
HasResult(c) == call[c] \in {"post", "final"}

Settled(c) == call[c] # "running"

\* The race yields one settled body.
TakeSettled(c) ==
    /\ pc = "race" /\ c \in inFlight /\ Settled(c)
    /\ inFlight' = inFlight \ {c}
    /\ pc' = AfterRace
    /\ UNCHANGED <<cancelled, group, call, failed, concluded, log>>

-----------------------------------------------------------------------------
\* An aborted batch answers every call it has not started, in order.
Skip ==
    LET c == started + 1
    IN  /\ pc = "skip" /\ started < NumCalls
        /\ trace' = Log!Apply(Log!Apply(trace, Log!ToolCall(Turn, Step, c)),
                              Log!ToolResult(Turn, Step, c))
        /\ rejected' = (rejected
              \/ ~Log!Legal(trace, Log!ToolCall(Turn, Step, c))
              \/ ~Log!Legal(Log!Apply(trace, Log!ToolCall(Turn, Step, c)),
                            Log!ToolResult(Turn, Step, c)))
        /\ results' = Append(results, c)
        /\ call' = [call EXCEPT ![c] = "skipped"]
        /\ started' = c
        /\ UNCHANGED <<pc, cancelled, aborted, mode, first, last, toStart, committed,
                       inFlight, failed, concluded>>

\* Mutant: an aborted batch returns without answering the rest.
RestNeedsNoAnswer == TRUE

RestAnswered == started = NumCalls

ReturnAborted ==
    /\ pc = "skip" /\ RestAnswered
    /\ pc' = "returned"
    /\ UNCHANGED <<cancelled, group, call, inFlight, failed, concluded, log>>

\* Mutant: the failure is rethrown at once.
DrainsNothing == TRUE

Drained == \A c \in inFlight : Settled(c)

\* The catch of runGroup waits for every dispatched body, then rethrows.
Rethrow ==
    /\ pc = "drain" /\ Drained
    /\ pc' = "threw"
    /\ UNCHANGED <<cancelled, group, call, inFlight, failed, concluded, log>>

-----------------------------------------------------------------------------
\* A body settles with a result, or its dispatch rejects.
BodySettles(c, slot) ==
    /\ pc \in Awaiting /\ call[c] = "running"
    /\ call' = [call EXCEPT ![c] = slot]
    /\ failed' = (failed \/ slot = "lost")
    /\ UNCHANGED <<pc, cancelled, group, inFlight, concluded, log>>

Cancel ==
    /\ pc \in Awaiting /\ ~cancelled
    /\ cancelled' = TRUE
    /\ UNCHANGED <<pc, group, call, inFlight, failed, concluded, log>>

Bodies == \E c \in Calls, slot \in {"post", "final", "lost"} : BodySettles(c, slot)

Scheduler ==
    \/ Classify \/ ReturnAll \/ StartCall \/ StopFilling \/ FinishGroup
    \/ \E kind \in {"running", "post", "final"} : Prepared(kind)
    \/ PrepareThrows \/ BeginCommit
    \/ CommitFinal \/ BeginFinalize \/ Finalized \/ FinalizeThrows \/ CommitDone
    \/ \E c \in Calls : TakeSettled(c)
    \/ Skip \/ ReturnAborted \/ Rethrow

Next == Bodies \/ Cancel \/ Scheduler

Spec == Init /\ [][Next]_vars

\* Tools and the hooks around them settle; nobody is obliged to cancel.
FairSpec == Spec /\ WF_vars(Bodies) /\ WF_vars(Scheduler)

-----------------------------------------------------------------------------
\* The session's invariant accepts every event of the batch: a result follows
\* its call and names the open step.
LogGrammar == ~rejected

\* Results reach the log in the model's order, however the bodies settle.
ResultsInModelOrder == \A i \in DOMAIN results : results[i] = i

\* A batch that returns, cancelled or not, has answered every call.
EveryCallAnswered == pc = "returned" => Len(results) = NumCalls /\ trace.pendingCalls = {}

\* "unreachable: a non-aborted group commits every started call".
GroupCommitted == pc = "classify" => committed = started

\* Bodies in flight never outnumber the configured pool.
PoolBounded == Cardinality({c \in Calls : call[c] = "running"}) <= MaxParallel

\* A call that started as an exclusive barrier runs alone.
BarrierRunsAlone ==
    mode = "exclusive" => \A c \in Calls : call[c] \in {"prepare", "running"} => c = first

\* The scheduler's discipline, at every interleaving of bodies and commits.
SchedulerInv == TypeOK /\ GroupCommitted /\ PoolBounded /\ BarrierRunsAlone

\* The caller hears of the end only after every dispatched body has settled.
NothingLeftRunning == pc \in {"returned", "threw"} => \A c \in Calls : call[c] # "running"

\* Cancellation stops starts: no call is started once the signal is aborted.
NoStartAfterCancel == [][started' # started /\ pc # "skip" => ~cancelled]_vars

\* A batch ends.
BatchEnds == <>(pc \in {"returned", "threw"})
=============================================================================
