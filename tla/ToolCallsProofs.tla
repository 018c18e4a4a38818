--------------------------- MODULE ToolCallsProofs ---------------------------
(***************************************************************************)
(* The scheduler's safety, proved for every number of calls and every pool *)
(* size: one inductive invariant says where each slot of the group is and  *)
(* what the log holds of it.                                               *)
(***************************************************************************)
EXTENDS ToolCalls, FiniteSetTheorems, SequenceTheorems, TLAPS

\* Between the group's formation and its end, and after an abort has ended it.
InGroup == pc \in {"fill", "prepare", "prepared", "commit", "finalize", "race", "drain"}
Over == pc \in {"skip", "returned"}

\* The trace of the open step with the given calls pending.
Pending(P) == [openTurn |-> Turn, openStep |-> Step, nextTurn |-> 1, nextStep |-> 1,
               pendingCalls |-> P]

\* Results and calls in the log: every result follows the one before it, and
\* what is open are the calls that are started and not committed.
Answered == IF Over THEN started ELSE committed

LogIsCurrent ==
    /\ Len(results) = Answered /\ \A i \in 1 .. Answered : results[i] = i
    /\ trace = Pending(Answered + 1 .. started)
    /\ ~rejected

\* The group's extent, and how far its calls are started and committed.
CountersFit ==
    /\ committed <= started
    /\ InGroup => /\ first <= committed + 1 /\ first <= last /\ started <= last
                  /\ last = GroupEnd(mode)
                  /\ pc # "drain" => toStart = IF pc = "prepare" THEN started ELSE started + 1
    /\ pc = "classify" => committed = started /\ first = started + 1
    /\ pc \in {"prepare", "finalize"} => committed < started
    /\ pc = "returned" => started = NumCalls

\* Committed slots, then started ones, then planned ones.
SlotsFit ==
    \A c \in Calls :
        /\ c <= committed => call[c] = "committed"
        /\ c > started => call[c] = "planned"
        /\ c > committed /\ c <= started =>
              IF Over THEN call[c] = "skipped"
                      ELSE call[c] \in {"prepare", "running", "post", "final", "lost"}
        /\ call[c] = "prepare" => pc = "prepare" /\ c = started
        /\ call[c] = "lost" => failed
        /\ call[c] = "running" => c \in inFlight /\ pc # "threw"
        /\ pc = "finalize" /\ c = committed + 1 => call[c] = "post"

\* What is in flight fits the pool, with a place for the call being prepared;
\* when fillPool looks, the next slot to commit is still running.
PoolFits ==
    /\ Cardinality(inFlight) <= MaxParallel
    /\ pc = "prepare" => Cardinality(inFlight) < MaxParallel
    /\ pc \in {"classify", "skip", "returned"} => inFlight = {}
    /\ pc \in {"classify", "fill"} => ~failed
    /\ pc = "fill" => committed = started \/ call[committed + 1] = "running"

\* fillPool looks at a copy of the signal that is up to date.
SignalIsRead == pc = "fill" /\ cancelled => aborted

IInv == TypeOK /\ CountersFit /\ SlotsFit /\ PoolFits /\ LogIsCurrent /\ SignalIsRead

-----------------------------------------------------------------------------
(***************************************************************************)
(* The log.                                                                *)
(***************************************************************************)
\* The step opens with nothing pending.
LEMMA OpenStepPendsNothing == OpenStep = Pending({})
<1> DEFINE begun == [Log!FreshTrace EXCEPT !.openTurn = Turn]
<1>1. begun = [openTurn |-> Turn, openStep |-> Log!Closed, nextTurn |-> 1, nextStep |-> 1,
               pendingCalls |-> {}]
  BY DEF Log!FreshTrace
<1>2. OpenStep = [begun EXCEPT !.openStep = Step]
  BY DEF OpenStep
<1> QED BY <1>1, <1>2 DEF Pending

\* What the batch makes of the log is a trace.
LEMMA PendingTyped ==
    ASSUME NEW P \in SUBSET Calls  PROVE Pending(P) \in Log!Traces
BY DEF Pending, Log!Traces, Turn, Step

\* A call of the open step is always accepted, and pends.
LEMMA CallPends ==
    ASSUME NEW P, NEW c
    PROVE  /\ Log!Legal(Pending(P), Log!ToolCall(Turn, Step, c))
           /\ Log!Apply(Pending(P), Log!ToolCall(Turn, Step, c)) = Pending(P \cup {c})
<1> DEFINE ev == Log!ToolCall(Turn, Step, c)
<1>1. ev.type = "tool/call" /\ ev.turn = Turn /\ ev.step = Step /\ ev.calls = {c}
  BY DEF Log!ToolCall, Log!Event
<1>2. Log!Legal(Pending(P), ev)
  BY <1>1 DEF Log!Legal, Log!NamesOpenStep, Pending
<1>3. Log!Apply(Pending(P), ev) = [Pending(P) EXCEPT !.pendingCalls = @ \cup {c}]
  BY <1>1 DEF Log!Apply
<1>4. [Pending(P) EXCEPT !.pendingCalls = @ \cup {c}] = Pending(P \cup {c})
  BY DEF Pending
<1> QED BY <1>2, <1>3, <1>4

\* A result is accepted for a pending call, and settles it.
LEMMA ResultSettles ==
    ASSUME NEW P, NEW c \in P
    PROVE  /\ Log!Legal(Pending(P), Log!ToolResult(Turn, Step, c))
           /\ Log!Apply(Pending(P), Log!ToolResult(Turn, Step, c)) = Pending(P \ {c})
<1> DEFINE ev == Log!ToolResult(Turn, Step, c)
<1>1. ev.type = "tool/result" /\ ev.turn = Turn /\ ev.step = Step /\ ev.calls = {c}
  BY DEF Log!ToolResult, Log!Event
<1>2. Log!Legal(Pending(P), ev)
  BY <1>1 DEF Log!Legal, Log!NamesOpenStep, Pending
<1>3. Log!Apply(Pending(P), ev) = [Pending(P) EXCEPT !.pendingCalls = @ \ {c}]
  BY <1>1 DEF Log!Apply
<1>4. [Pending(P) EXCEPT !.pendingCalls = @ \ {c}] = Pending(P \ {c})
  BY DEF Pending
<1> QED BY <1>2, <1>3, <1>4

\* Steps that neither log nor count leave the log current.
LEMMA SameLog ==
    ASSUME LogIsCurrent, UNCHANGED log, UNCHANGED <<started, Answered>>
    PROVE  LogIsCurrent'
BY DEF LogIsCurrent, log

\* The next number extends a sequence of numbers.
LEMMA NextNumber ==
    ASSUME NEW n \in Nat, n + 1 \in Calls, results \in Seq(Calls), Len(results) = n,
           \A i \in 1 .. n : results[i] = i, results' = Append(results, n + 1)
    PROVE  /\ results' \in Seq(Calls) /\ Len(results') = n + 1
           /\ \A i \in 1 .. n + 1 : results'[i] = i
<1>1. results' \in Seq(Calls) /\ Len(results') = n + 1
  OBVIOUS
<1>2. \A i \in 1 .. n + 1 : results'[i] = i
  OBVIOUS
<1> QED BY <1>1, <1>2
-----------------------------------------------------------------------------
(***************************************************************************)
(* Steps of the scheduler that neither log nor touch a slot.               *)
(***************************************************************************)
\* A group is formed where the last one ended.
LEMMA ClassifyKeeps == ASSUME IInv, Classify  PROVE IInv'
<1> USE CallsAssumption DEF IInv, Classify, GroupEnd
<1>1. TypeOK'
  BY DEF TypeOK, PCs, Awaiting, group, log, CountersFit, InGroup, Calls
<1>2. CountersFit'
  BY DEF TypeOK, CountersFit, InGroup, PoolFits, SlotsFit, group, Calls, GroupEnd
<1>3. SlotsFit'
  BY DEF TypeOK, CountersFit, InGroup, PoolFits, SlotsFit, Over, group, Calls
<1>4. PoolFits'
  BY DEF TypeOK, CountersFit, InGroup, PoolFits, SlotsFit, group, Calls
<1>5. LogIsCurrent'
  BY SameLog DEF Answered, Over, CountersFit, PoolFits, SlotsFit, group, TypeOK, Calls
<1>6. SignalIsRead'
  BY DEF SignalIsRead, group
<1> QED BY <1>1, <1>2, <1>3, <1>4, <1>5, <1>6

\* A message whose groups are all over is answered.
LEMMA ReturnAllKeeps == ASSUME IInv, ReturnAll  PROVE IInv'
<1> USE CallsAssumption DEF IInv, ReturnAll
<1>1. TypeOK'
  BY DEF TypeOK, PCs, Awaiting, group, log, CountersFit, InGroup, Calls
<1>2. CountersFit'
  BY DEF TypeOK, CountersFit, InGroup, PoolFits, SlotsFit, group, Calls, GroupEnd
<1>3. SlotsFit'
  BY DEF TypeOK, CountersFit, InGroup, PoolFits, SlotsFit, Over, group, Calls
<1>4. PoolFits'
  BY DEF TypeOK, CountersFit, InGroup, PoolFits, SlotsFit, group, Calls
<1>5. LogIsCurrent'
  BY SameLog DEF Answered, Over, CountersFit, PoolFits, SlotsFit, group, TypeOK, Calls
<1>6. SignalIsRead'
  BY DEF SignalIsRead, group
<1> QED BY <1>1, <1>2, <1>3, <1>4, <1>5, <1>6

\* Waiting for a body changes no slot.
LEMMA StopFillingKeeps == ASSUME IInv, StopFilling  PROVE IInv'
<1> USE CallsAssumption DEF IInv, StopFilling
<1>1. TypeOK'
  BY DEF TypeOK, PCs, Awaiting, group, log, CountersFit, InGroup, Calls
<1>2. CountersFit'
  BY DEF TypeOK, CountersFit, InGroup, PoolFits, SlotsFit, group, Calls, GroupEnd
<1>3. SlotsFit'
  BY DEF TypeOK, CountersFit, InGroup, PoolFits, SlotsFit, Over, group, Calls
<1>4. PoolFits'
  BY DEF TypeOK, CountersFit, InGroup, PoolFits, SlotsFit, group, Calls
<1>5. LogIsCurrent'
  BY SameLog DEF Answered, Over, CountersFit, PoolFits, SlotsFit, group, TypeOK, Calls
<1>6. SignalIsRead'
  BY DEF SignalIsRead, group
<1> QED BY <1>1, <1>2, <1>3, <1>4, <1>5, <1>6

\* A group with nothing in flight has committed what it started.
LEMMA FinishGroupKeeps == ASSUME IInv, FinishGroup  PROVE IInv'
<1> USE CallsAssumption DEF IInv, FinishGroup, NextGroup
<1>1. TypeOK'
  BY DEF TypeOK, PCs, Awaiting, group, log, CountersFit, InGroup, Calls
<1>2. CountersFit'
  BY DEF TypeOK, CountersFit, InGroup, PoolFits, SlotsFit, group, Calls, GroupEnd
<1>3. SlotsFit'
  BY DEF TypeOK, CountersFit, InGroup, PoolFits, SlotsFit, Over, group, Calls
<1>4. PoolFits'
  BY DEF TypeOK, CountersFit, InGroup, PoolFits, SlotsFit, group, Calls
<1>5. LogIsCurrent'
  BY SameLog DEF Answered, Over, CountersFit, PoolFits, SlotsFit, group, TypeOK, Calls
<1>6. SignalIsRead'
  BY DEF SignalIsRead, group
<1> QED BY <1>1, <1>2, <1>3, <1>4, <1>5, <1>6

\* The pool looks for settled slots.
LEMMA BeginCommitKeeps == ASSUME IInv, BeginCommit  PROVE IInv'
<1> USE CallsAssumption DEF IInv, BeginCommit
<1>1. TypeOK'
  BY DEF TypeOK, PCs, Awaiting, group, log, CountersFit, InGroup, Calls
<1>2. CountersFit'
  BY DEF TypeOK, CountersFit, InGroup, PoolFits, SlotsFit, group, Calls, GroupEnd
<1>3. SlotsFit'
  BY DEF TypeOK, CountersFit, InGroup, PoolFits, SlotsFit, Over, group, Calls
<1>4. PoolFits'
  BY DEF TypeOK, CountersFit, InGroup, PoolFits, SlotsFit, group, Calls
<1>5. LogIsCurrent'
  BY SameLog DEF Answered, Over, CountersFit, PoolFits, SlotsFit, group, TypeOK, Calls
<1>6. SignalIsRead'
  BY DEF SignalIsRead, group
<1> QED BY <1>1, <1>2, <1>3, <1>4, <1>5, <1>6

\* A slot is post-processed only when it is the next to commit.
LEMMA BeginFinalizeKeeps == ASSUME IInv, BeginFinalize  PROVE IInv'
<1> USE CallsAssumption DEF IInv, BeginFinalize, Ready
<1>1. TypeOK'
  BY DEF TypeOK, PCs, Awaiting, group, log, CountersFit, InGroup, Calls
<1>2. CountersFit'
  BY DEF TypeOK, CountersFit, InGroup, PoolFits, SlotsFit, group, Calls, GroupEnd
<1>3. SlotsFit'
  BY DEF TypeOK, CountersFit, InGroup, PoolFits, SlotsFit, Over, group, Calls
<1>4. PoolFits'
  BY DEF TypeOK, CountersFit, InGroup, PoolFits, SlotsFit, group, Calls
<1>5. LogIsCurrent'
  BY SameLog DEF Answered, Over, CountersFit, PoolFits, SlotsFit, group, TypeOK, Calls
<1>6. SignalIsRead'
  BY DEF SignalIsRead, group
<1> QED BY <1>1, <1>2, <1>3, <1>4, <1>5, <1>6

\* Where no slot is ready, the next one is still running, or all are committed.
LEMMA CommitDoneKeeps == ASSUME IInv, CommitDone  PROVE IInv'
<1> USE CallsAssumption DEF IInv, CommitDone, Ready, AfterCommits, ReadSignal
<1>1. TypeOK'
  BY DEF TypeOK, PCs, Awaiting, group, log, CountersFit, InGroup, Calls
<1>2. CountersFit'
  BY DEF TypeOK, CountersFit, InGroup, PoolFits, SlotsFit, group, Calls, GroupEnd
<1>3. SlotsFit'
  BY DEF TypeOK, CountersFit, InGroup, PoolFits, SlotsFit, Over, group, Calls
<1>4. PoolFits'
  <2>1. ASSUME pc' = "fill", committed # started  PROVE call[committed + 1] = "running"
    <3>1. committed + 1 \in Calls /\ committed < last /\ committed + 1 <= started
      BY <2>1 DEF TypeOK, CountersFit, InGroup, Calls
    <3>2. call[committed + 1] \in {"prepare", "running", "post", "final", "lost"} /\ ~failed
      BY <2>1, <3>1 DEF SlotsFit, Over, TypeOK
    <3>3. call[committed + 1] \notin {"final", "post", "lost", "prepare"}
      BY <3>1, <3>2 DEF SlotsFit
    <3> QED BY <3>2, <3>3
  <2>2. pc' \in {"fill", "drain"} /\ (pc' = "fill" => ~failed) /\ UNCHANGED <<inFlight, failed, committed, started, call>>
    OBVIOUS
  <2> QED BY <2>1, <2>2 DEF PoolFits
<1>5. LogIsCurrent'
  BY SameLog DEF Answered, Over, CountersFit, PoolFits, SlotsFit, group, TypeOK, Calls
<1>6. SignalIsRead'
  BY DEF SignalIsRead, group
<1> QED BY <1>1, <1>2, <1>3, <1>4, <1>5, <1>6

\* An aborted batch returns once every call is started.
LEMMA ReturnAbortedKeeps == ASSUME IInv, ReturnAborted  PROVE IInv'
<1> USE CallsAssumption DEF IInv, ReturnAborted, RestAnswered
<1>1. TypeOK'
  BY DEF TypeOK, PCs, Awaiting, group, log, CountersFit, InGroup, Calls
<1>2. CountersFit'
  BY DEF TypeOK, CountersFit, InGroup, PoolFits, SlotsFit, group, Calls, GroupEnd
<1>3. SlotsFit'
  BY DEF TypeOK, CountersFit, InGroup, PoolFits, SlotsFit, Over, group, Calls
<1>4. PoolFits'
  BY DEF TypeOK, CountersFit, InGroup, PoolFits, SlotsFit, group, Calls
<1>5. LogIsCurrent'
  BY SameLog DEF Answered, Over, CountersFit, PoolFits, SlotsFit, group, TypeOK, Calls
<1>6. SignalIsRead'
  BY DEF SignalIsRead, group
<1> QED BY <1>1, <1>2, <1>3, <1>4, <1>5, <1>6

\* The failure leaves once nothing in flight runs.
LEMMA RethrowKeeps == ASSUME IInv, Rethrow  PROVE IInv'
<1> USE CallsAssumption DEF IInv, Rethrow, Drained, Settled
<1>1. TypeOK'
  BY DEF TypeOK, PCs, Awaiting, group, log, CountersFit, InGroup, Calls
<1>2. CountersFit'
  BY DEF TypeOK, CountersFit, InGroup, PoolFits, SlotsFit, group, Calls, GroupEnd
<1>3. SlotsFit'
  BY DEF TypeOK, CountersFit, InGroup, PoolFits, SlotsFit, Over, group, Calls
<1>4. PoolFits'
  BY DEF TypeOK, CountersFit, InGroup, PoolFits, SlotsFit, group, Calls
<1>5. LogIsCurrent'
  BY SameLog DEF Answered, Over, CountersFit, PoolFits, SlotsFit, group, TypeOK, Calls
<1>6. SignalIsRead'
  BY DEF SignalIsRead, group
<1> QED BY <1>1, <1>2, <1>3, <1>4, <1>5, <1>6

\* A cancel lands only where the scheduler awaits.
LEMMA CancelKeeps == ASSUME IInv, Cancel  PROVE IInv'
<1> USE CallsAssumption DEF IInv, Cancel
<1>1. TypeOK'
  BY DEF TypeOK, PCs, Awaiting, group, log, CountersFit, InGroup, Calls
<1>2. CountersFit'
  BY DEF TypeOK, CountersFit, InGroup, PoolFits, SlotsFit, group, Calls, GroupEnd
<1>3. SlotsFit'
  BY DEF TypeOK, CountersFit, InGroup, PoolFits, SlotsFit, Over, group, Calls
<1>4. PoolFits'
  BY DEF TypeOK, CountersFit, InGroup, PoolFits, SlotsFit, group, Calls
<1>5. LogIsCurrent'
  BY SameLog DEF Answered, Over, group
<1>6. SignalIsRead'
  BY DEF SignalIsRead, Awaiting
<1> QED BY <1>1, <1>2, <1>3, <1>4, <1>5, <1>6

-----------------------------------------------------------------------------
(***************************************************************************)
(* The pool.                                                               *)
(***************************************************************************)
\* What is in flight is a finite set, and its size a number.
LEMMA InFlightIsFinite ==
    ASSUME TypeOK  PROVE IsFiniteSet(inFlight) /\ Cardinality(inFlight) \in Nat
<1>1. IsFiniteSet(Calls)
  BY CallsAssumption, FS_Interval DEF Calls
<1>2. IsFiniteSet(inFlight)
  BY <1>1, FS_Subset DEF TypeOK
<1> QED BY <1>2, FS_CardinalityType

\* A call starts with room in the pool, after every earlier one.
LEMMA StartCallKeeps == ASSUME IInv, StartCall  PROVE IInv'
<1> USE CallsAssumption DEF IInv, StartCall, HasRoom
<1>1. toStart = started + 1 /\ toStart \in Calls /\ toStart <= last /\ committed < toStart
  BY DEF TypeOK, CountersFit, InGroup, Calls
<1>2. LogIsCurrent'
  <2>1. trace = Pending(committed + 1 .. started)
    BY DEF LogIsCurrent, Answered, Over
  <2>2. trace' = Pending((committed + 1 .. started) \cup {toStart}) /\ ~rejected'
    BY <2>1, CallPends DEF LogCall, Append1, LogIsCurrent
  <2>3. (committed + 1 .. started) \cup {toStart} = committed + 1 .. started'
    BY <1>1 DEF TypeOK
  <2>4. Answered = committed /\ Answered' = committed /\ results' = results
    BY DEF Answered, Over, LogCall
  <2> QED BY <2>2, <2>3, <2>4 DEF LogIsCurrent
<1>3. TypeOK'
  <2>1. trace' \in Log!Traces /\ rejected' \in BOOLEAN /\ results' \in Seq(Calls)
    <3>1. Answered' + 1 .. started' \in SUBSET Calls
      BY <1>1 DEF TypeOK, Calls, Answered, Over
    <3>2. trace' \in Log!Traces
      BY <1>2, <3>1, PendingTyped DEF LogIsCurrent
    <3> QED BY <3>2 DEF LogCall, Append1, TypeOK
  <2> QED BY <1>1, <2>1 DEF TypeOK, PCs, Awaiting, Calls, CallStates
<1>4. CountersFit'
  BY <1>1 DEF TypeOK, CountersFit, InGroup, GroupEnd, Calls
<1>5. SlotsFit'
  BY <1>1 DEF TypeOK, SlotsFit, Over, Calls
<1>6. PoolFits'
  BY InFlightIsFinite DEF PoolFits
<1>7. SignalIsRead'
  BY DEF SignalIsRead
<1> QED BY <1>2, <1>3, <1>4, <1>5, <1>6, <1>7

\* A prepared call takes its place in the pool, or a settled slot.
LEMMA PreparedKeeps ==
    ASSUME IInv, NEW kind \in {"running", "post", "final"}, Prepared(kind)  PROVE IInv'
<1> USE CallsAssumption DEF IInv, Prepared, Throw
<1>1. toStart = started /\ toStart \in Calls /\ committed < toStart /\ pc = "prepare"
  BY DEF TypeOK, CountersFit, InGroup, Calls
<1>2. TypeOK'
  <2>1. call' \in [Calls -> CallStates] /\ toStart' \in 1 .. NumCalls + 1
    BY <1>1 DEF TypeOK, Calls, CallStates
  <2>2. inFlight' \subseteq Calls /\ pc' \in PCs /\ failed' \in BOOLEAN
    BY <1>1 DEF TypeOK, PCs, Awaiting
  <2> QED BY <2>1, <2>2 DEF TypeOK, log
<1>3. CountersFit'
  BY <1>1 DEF TypeOK, CountersFit, InGroup, GroupEnd, Calls
<1>4. SlotsFit'
  BY <1>1 DEF TypeOK, SlotsFit, Over, Calls
<1>5. PoolFits'
  <2>1. Cardinality(inFlight \cup {toStart}) <= Cardinality(inFlight) + 1
    BY InFlightIsFinite, FS_AddElement
  <2>2. Cardinality(inFlight \cup {toStart}) \in Nat /\ Cardinality(inFlight) \in Nat
    BY InFlightIsFinite, FS_AddElement, FS_CardinalityType
  <2>3. Cardinality(inFlight) < MaxParallel
    BY <1>1 DEF PoolFits
  <2>4. inFlight' \in {inFlight, inFlight \cup {toStart}} /\ pc' \in {"drain", "prepared"}
    OBVIOUS
  <2>5. Cardinality(inFlight') <= MaxParallel
    BY <2>1, <2>2, <2>3, <2>4
  <2> QED BY <2>4, <2>5 DEF PoolFits
<1>6. LogIsCurrent'
  BY SameLog DEF Answered, Over
<1>7. SignalIsRead'
  BY DEF SignalIsRead
<1> QED BY <1>2, <1>3, <1>4, <1>5, <1>6, <1>7

\* A preparation that throws leaves its slot to the catch.
LEMMA PrepareThrowsKeeps == ASSUME IInv, PrepareThrows  PROVE IInv'
<1> USE CallsAssumption DEF IInv, PrepareThrows, Throw
<1>1. toStart = started /\ toStart \in Calls /\ committed < toStart /\ pc = "prepare"
  BY DEF TypeOK, CountersFit, InGroup, Calls
<1>2. TypeOK'
  BY <1>1 DEF TypeOK, PCs, Awaiting, group, log, Calls, CallStates
<1>3. CountersFit'
  BY <1>1 DEF TypeOK, CountersFit, InGroup, GroupEnd, Calls, group
<1>4. SlotsFit'
  BY <1>1 DEF TypeOK, SlotsFit, Over, Calls, group
<1>5. PoolFits'
  BY DEF PoolFits
<1>6. LogIsCurrent'
  BY SameLog DEF Answered, Over, group
<1>7. SignalIsRead'
  BY DEF SignalIsRead
<1> QED BY <1>2, <1>3, <1>4, <1>5, <1>6, <1>7

\* Taking a settled body only makes room.
LEMMA TakeSettledKeeps ==
    ASSUME IInv, NEW c \in Calls, TakeSettled(c)  PROVE IInv'
<1> USE CallsAssumption DEF IInv, TakeSettled, Settled, AfterRace
<1>1. TypeOK'
  BY DEF TypeOK, PCs, Awaiting, group, log
<1>2. CountersFit'
  BY DEF TypeOK, CountersFit, InGroup, GroupEnd, group
<1>3. SlotsFit'
  BY DEF TypeOK, SlotsFit, Over, group
<1>4. PoolFits'
  <2>1. Cardinality(inFlight \ {c}) = Cardinality(inFlight) - 1
    BY InFlightIsFinite, FS_RemoveElement
  <2> QED BY <2>1, InFlightIsFinite DEF PoolFits
<1>5. LogIsCurrent'
  BY SameLog DEF Answered, Over, group
<1>6. SignalIsRead'
  BY DEF SignalIsRead
<1> QED BY <1>1, <1>2, <1>3, <1>4, <1>5, <1>6

\* A body settles where the scheduler awaits; its slot is still to be committed.
LEMMA BodySettlesKeeps ==
    ASSUME IInv, NEW c \in Calls, NEW slot \in {"post", "final", "lost"}, BodySettles(c, slot)
    PROVE  IInv'
<1> USE CallsAssumption DEF IInv, BodySettles
<1>1. committed < c /\ c <= started /\ c \in inFlight /\ ~Over
  BY DEF TypeOK, SlotsFit, Calls
<1>2. pc # "classify" /\ pc # "fill" /\ (pc = "finalize" => c # committed + 1)
  BY <1>1 DEF Awaiting, PoolFits, SlotsFit, TypeOK, Calls
<1>3. TypeOK'
  BY DEF TypeOK, group, log, CallStates
<1>4. CountersFit'
  BY DEF CountersFit, InGroup, GroupEnd, group
<1>5. SlotsFit'
  BY <1>1, <1>2 DEF TypeOK, SlotsFit, Over, group, Calls
<1>6. PoolFits'
  BY <1>2 DEF PoolFits
<1>7. LogIsCurrent'
  BY SameLog DEF Answered, Over, group
<1>8. SignalIsRead'
  BY DEF SignalIsRead, group
<1> QED BY <1>3, <1>4, <1>5, <1>6, <1>7, <1>8

-----------------------------------------------------------------------------
(***************************************************************************)
(* Commits.                                                                *)
(***************************************************************************)
\* Committing the next slot logs the next number.
LEMMA CommitSlotKeeps ==
    ASSUME IInv, pc \in {"commit", "finalize"}, committed < started, CommitSlot  PROVE IInv'
<1> USE CallsAssumption DEF IInv, CommitSlot
<1> DEFINE c == committed + 1
<1>1. c \in Calls /\ c <= started /\ committed \in Nat
  BY DEF TypeOK, Calls
<1>2. LogIsCurrent'
  <2>1. trace = Pending(c .. started) /\ Len(results) = committed
        /\ \A i \in 1 .. committed : results[i] = i
    BY DEF LogIsCurrent, Answered, Over
  <2>2. trace' = Pending((c .. started) \ {c}) /\ ~rejected'
    <3>1. c \in c .. started
      BY <1>1 DEF TypeOK
    <3>2. /\ Log!Legal(trace, Log!ToolResult(Turn, Step, c))
          /\ Log!Apply(trace, Log!ToolResult(Turn, Step, c)) = Pending((c .. started) \ {c})
      BY <2>1, <3>1, ResultSettles
    <3> QED BY <3>2 DEF LogResult, Append1, LogIsCurrent
  <2>3. (c .. started) \ {c} = c + 1 .. started
    BY <1>1 DEF TypeOK
  <2>4. Len(results') = c /\ \A i \in 1 .. c : results'[i] = i
    BY <1>1, <2>1, NextNumber DEF LogResult, TypeOK
  <2>5. Answered' = c /\ started' = started
    BY DEF Answered, Over
  <2> QED BY <2>2, <2>3, <2>4, <2>5 DEF LogIsCurrent
<1>3. TypeOK'
  <2>1. trace' \in Log!Traces /\ rejected' \in BOOLEAN /\ results' \in Seq(Calls)
    <3>1. Answered' + 1 .. started' \in SUBSET Calls
      BY <1>1 DEF TypeOK, Calls, Answered, Over
    <3>2. results' \in Seq(Calls)
      BY <1>1 DEF LogResult, TypeOK
    <3> QED BY <1>2, <3>1, <3>2, PendingTyped DEF LogIsCurrent, LogResult, Append1, TypeOK
  <2> QED BY <1>1, <2>1 DEF TypeOK, PCs, Awaiting, Calls, CallStates
<1>4. CountersFit'
  BY <1>1 DEF TypeOK, CountersFit, InGroup, GroupEnd, Calls
<1>5. SlotsFit'
  BY <1>1 DEF TypeOK, SlotsFit, Over, Calls
<1>6. PoolFits'
  BY DEF PoolFits
<1>7. SignalIsRead'
  BY DEF SignalIsRead
<1> QED BY <1>2, <1>3, <1>4, <1>5, <1>6, <1>7

\* A settled slot is committed as it is.
LEMMA CommitFinalKeeps == ASSUME IInv, CommitFinal  PROVE IInv'
<1>1. committed < started
  BY CallsAssumption DEF IInv, CommitFinal, Ready, TypeOK, SlotsFit, Calls
<1> QED BY <1>1, CommitSlotKeeps DEF CommitFinal

\* A post-processed slot is committed.
LEMMA FinalizedKeeps == ASSUME IInv, Finalized  PROVE IInv'
<1>1. committed < started
  BY DEF IInv, Finalized, CountersFit
<1> QED BY <1>1, CommitSlotKeeps DEF Finalized

\* A finalizer that throws leaves its slot to the catch.
LEMMA FinalizeThrowsKeeps == ASSUME IInv, FinalizeThrows  PROVE IInv'
<1> USE CallsAssumption DEF IInv, FinalizeThrows, Throw
<1>1. committed + 1 \in Calls /\ committed < started
  BY DEF TypeOK, CountersFit, Calls
<1>2. TypeOK'
  BY <1>1 DEF TypeOK, PCs, Awaiting, group, log, Calls, CallStates
<1>3. CountersFit'
  BY <1>1 DEF TypeOK, CountersFit, InGroup, GroupEnd, Calls, group
<1>4. SlotsFit'
  BY <1>1 DEF TypeOK, SlotsFit, Over, Calls, group
<1>5. PoolFits'
  BY DEF PoolFits
<1>6. LogIsCurrent'
  BY SameLog DEF Answered, Over, group
<1>7. SignalIsRead'
  BY DEF SignalIsRead
<1> QED BY <1>2, <1>3, <1>4, <1>5, <1>6, <1>7

\* A skipped call is logged with its result, which is the next number.
LEMMA SkipKeeps == ASSUME IInv, Skip  PROVE IInv'
<1> USE CallsAssumption DEF IInv, Skip
<1> DEFINE c == started + 1
<1>1. c \in Calls /\ committed < c /\ started \in Nat /\ started \in 0 .. NumCalls
  BY DEF TypeOK, CountersFit, Calls
<1>2. LogIsCurrent'
  <2>1. trace = Pending({}) /\ Len(results) = started
        /\ \A i \in 1 .. started : results[i] = i
    <3>1. started + 1 .. started = {}
      BY <1>1
    <3> QED BY <3>1 DEF LogIsCurrent, Answered, Over
  <2>2. /\ Log!Legal(trace, Log!ToolCall(Turn, Step, c))
        /\ Log!Apply(trace, Log!ToolCall(Turn, Step, c)) = Pending({} \cup {c})
    BY <2>1, CallPends
  <2>3. /\ Log!Legal(Pending({} \cup {c}), Log!ToolResult(Turn, Step, c))
        /\ Log!Apply(Pending({} \cup {c}), Log!ToolResult(Turn, Step, c))
              = Pending(({} \cup {c}) \ {c})
    BY ResultSettles
  <2>4. ({} \cup {c}) \ {c} = c + 1 .. c
    BY <1>1
  <2>5. trace' = Pending(c + 1 .. c) /\ ~rejected'
    BY <2>2, <2>3, <2>4 DEF LogIsCurrent
  <2>6. Len(results') = c /\ \A i \in 1 .. c : results'[i] = i
    BY <1>1, <2>1, NextNumber DEF TypeOK
  <2>7. Answered' = c /\ started' = c
    BY DEF Answered, Over
  <2> QED BY <2>5, <2>6, <2>7 DEF LogIsCurrent
<1>3. TypeOK'
  <2>1. trace' \in Log!Traces /\ rejected' \in BOOLEAN /\ results' \in Seq(Calls)
    <3>1. Answered' + 1 .. started' \in SUBSET Calls
      BY <1>1 DEF Calls, Answered, Over
    <3>2. results' \in Seq(Calls)
      BY <1>1 DEF TypeOK
    <3> QED BY <1>2, <3>1, <3>2, PendingTyped DEF LogIsCurrent, TypeOK
  <2> QED BY <1>1, <2>1 DEF TypeOK, Calls, CallStates
<1>4. CountersFit'
  BY <1>1 DEF TypeOK, CountersFit, InGroup, Calls
<1>5. SlotsFit'
  BY <1>1 DEF TypeOK, SlotsFit, Over, Calls
<1>6. PoolFits'
  BY DEF PoolFits
<1>7. SignalIsRead'
  BY DEF SignalIsRead
<1> QED BY <1>2, <1>3, <1>4, <1>5, <1>6, <1>7

-----------------------------------------------------------------------------
(***************************************************************************)
(* The theorems.                                                           *)
(***************************************************************************)
\* A batch begins with everything planned.
LEMMA InitHolds == Init => IInv
<1> SUFFICES ASSUME Init  PROVE IInv
  OBVIOUS
<1> USE CallsAssumption DEF Init
<1>1. trace = Pending({})
  BY OpenStepPendsNothing
<1>2. TypeOK
  <2>1. trace \in Log!Traces
    BY <1>1, PendingTyped
  <2>2. results \in Seq(Calls) /\ inFlight \subseteq Calls
    OBVIOUS
  <2>3. call \in [Calls -> CallStates]
    BY DEF CallStates
  <2>4. pc \in PCs /\ mode \in {"parallel", "exclusive"}
    BY DEF PCs, Awaiting
  <2> HIDE DEF Init
  <2>5. /\ first \in 1 .. NumCalls + 1 /\ last \in 0 .. NumCalls
        /\ toStart \in 1 .. NumCalls + 1
        /\ started \in 0 .. NumCalls /\ committed \in 0 .. NumCalls
    BY DEF Init
  <2>6. /\ cancelled \in BOOLEAN /\ aborted \in BOOLEAN
        /\ failed \in BOOLEAN /\ concluded \in BOOLEAN /\ rejected \in BOOLEAN
    BY DEF Init
  <2> QED BY <2>1, <2>2, <2>3, <2>4, <2>5, <2>6 DEF TypeOK
<1>3. CountersFit
  BY DEF CountersFit, InGroup
<1>4. SlotsFit
  BY DEF SlotsFit, Over, Calls
<1>5. PoolFits
  BY FS_EmptySet DEF PoolFits
<1>6. LogIsCurrent
  <2>1. Answered = 0 /\ Answered + 1 .. started = {} /\ 1 .. Answered = {}
    BY DEF Answered, Over
  <2> QED BY <1>1, <2>1 DEF LogIsCurrent
<1>7. SignalIsRead
  BY DEF SignalIsRead
<1> QED BY <1>2, <1>3, <1>4, <1>5, <1>6, <1>7 DEF IInv

\* Every step keeps the invariant: one case per action.
LEMMA StepKeeps == IInv /\ [Next]_vars => IInv'
<1> SUFFICES ASSUME IInv, [Next]_vars  PROVE IInv'
  OBVIOUS
<1>1. CASE Bodies
  BY <1>1, BodySettlesKeeps DEF Bodies
<1>2. CASE Cancel
  BY <1>2, CancelKeeps
<1>3. CASE Scheduler
  BY <1>3, ClassifyKeeps, ReturnAllKeeps, StartCallKeeps, StopFillingKeeps, FinishGroupKeeps,
     PreparedKeeps, PrepareThrowsKeeps, BeginCommitKeeps, CommitFinalKeeps, BeginFinalizeKeeps,
     FinalizedKeeps, FinalizeThrowsKeeps, CommitDoneKeeps, TakeSettledKeeps, SkipKeeps,
     ReturnAbortedKeeps, RethrowKeeps DEF Scheduler
<1>4. CASE UNCHANGED vars
  <2> USE <1>4 DEF vars, group, log, IInv
  <2>1. TypeOK'
    BY DEF TypeOK
  <2>2. CountersFit'
    BY DEF CountersFit, InGroup, GroupEnd
  <2>3. SlotsFit' /\ PoolFits' /\ SignalIsRead'
    BY DEF SlotsFit, Over, PoolFits, SignalIsRead
  <2>4. LogIsCurrent'
    BY SameLog DEF Answered, Over
  <2> QED BY <2>1, <2>2, <2>3, <2>4
<1> QED BY <1>1, <1>2, <1>3, <1>4 DEF Next

\* The slots, the counters and the log agree in every reachable state.
THEOREM SlotsAgreeWithLog == Spec => []IInv
BY InitHolds, StepKeeps, PTL DEF Spec

\* The session accepts every event of the batch: the grammar of the log holds
\* whatever the order in which bodies settle, throw or are skipped.
THEOREM EveryEventIsAccepted == Spec => []LogGrammar
<1>1. IInv => LogGrammar
  BY DEF IInv, LogIsCurrent, LogGrammar
<1> QED BY <1>1, SlotsAgreeWithLog, PTL

\* The log holds the results in the order in which the model asked.
THEOREM ResultsAreOrdered == Spec => []ResultsInModelOrder
<1>1. IInv => ResultsInModelOrder
  BY DEF IInv, LogIsCurrent, ResultsInModelOrder, TypeOK
<1> QED BY <1>1, SlotsAgreeWithLog, PTL

\* A batch that returns has answered every call, and nothing is left pending.
THEOREM NoCallIsForgotten == Spec => []EveryCallAnswered
<1>1. ASSUME IInv, pc = "returned"  PROVE Len(results) = NumCalls /\ trace.pendingCalls = {}
  <2>1. Answered = NumCalls /\ Answered + 1 .. started = {}
    BY <1>1, CallsAssumption DEF IInv, CountersFit, Answered, Over
  <2> QED BY <1>1, <2>1 DEF IInv, LogIsCurrent, Pending
<1>2. IInv => EveryCallAnswered
  BY <1>1 DEF EveryCallAnswered
<1> QED BY <1>2, SlotsAgreeWithLog, PTL

\* The pool is bounded, a barrier runs alone, and a group that is over has
\* committed all it started: the disciplines of tool-calls.ts, at every pool size.
THEOREM SchedulerIsDisciplined == Spec => []SchedulerInv
<1> SUFFICES ASSUME IInv  PROVE SchedulerInv
  BY SlotsAgreeWithLog, PTL
<1> USE CallsAssumption DEF IInv
<1>1. GroupCommitted
  BY DEF GroupCommitted, CountersFit
<1>2. PoolBounded
  <2> DEFINE running == {c \in Calls : call[c] = "running"}
  <2>1. running \subseteq inFlight
    BY DEF SlotsFit
  <2>2. Cardinality(running) <= Cardinality(inFlight) /\ Cardinality(running) \in Nat
    BY <2>1, InFlightIsFinite, FS_Subset, FS_CardinalityType
  <2> QED BY <2>2, InFlightIsFinite DEF PoolBounded, PoolFits
<1>3. BarrierRunsAlone
  <2> SUFFICES ASSUME mode = "exclusive", NEW c \in Calls, call[c] \in {"prepare", "running"}
               PROVE  c = first
    BY DEF BarrierRunsAlone
  <2>1. committed < c /\ c <= started /\ ~Over /\ pc # "threw"
    BY DEF SlotsFit, TypeOK, Calls
  <2>2. InGroup
    BY <2>1 DEF InGroup, Over, TypeOK, PCs, Awaiting, CountersFit
  <2> QED BY <2>1, <2>2 DEF CountersFit, GroupEnd, TypeOK, Calls
<1> QED BY <1>1, <1>2, <1>3 DEF SchedulerInv

\* Whoever hears of the end, by a return or a throw, finds nothing running.
THEOREM CallerSeesNothingRunning == Spec => []NothingLeftRunning
<1>1. ASSUME IInv, pc \in {"returned", "threw"}, NEW c \in Calls  PROVE call[c] # "running"
  BY <1>1 DEF IInv, SlotsFit, PoolFits
<1>2. IInv => NothingLeftRunning
  BY <1>1 DEF NothingLeftRunning
<1> QED BY <1>2, SlotsAgreeWithLog, PTL

\* After a cancel no further call is started; the rest is skipped.
THEOREM CancelStopsStarts == Spec => NoStartAfterCancel
<1>1. ASSUME IInv, [Next]_vars, started' # started, pc # "skip"  PROVE ~cancelled
  <2>1. CASE StartCall
    BY <1>1, <2>1 DEF StartCall, HasRoom, IInv, SignalIsRead
  <2>2. CASE ~StartCall
    BY <1>1, <2>2 DEF Next, Bodies, BodySettles, Cancel, Scheduler, Classify, ReturnAll,
       StopFilling, FinishGroup, Prepared, PrepareThrows, BeginCommit, CommitFinal, CommitSlot,
       BeginFinalize, Finalized, FinalizeThrows, CommitDone, TakeSettled, Skip, ReturnAborted,
       Rethrow, Throw, vars, group
  <2> QED BY <2>1, <2>2
<1>2. IInv /\ [Next]_vars => [started' # started /\ pc # "skip" => ~cancelled]_vars
  BY <1>1
<1> QED BY <1>2, SlotsAgreeWithLog, PTL DEF Spec, NoStartAfterCancel
=============================================================================
