--------------------------- MODULE ApprovalPrompts ---------------------------
(***************************************************************************)
(* Approvals: the service that asks (user-approval/src/index.ts), and the  *)
(* TUI's store that answers (dsh-tui/src/dsh-adapter/approvals.ts).  The   *)
(* service races the answer against the asker's signal; the store parks    *)
(* the ask, shows one at a time and takes the user's choice.               *)
(***************************************************************************)
EXTENDS Sequences, Naturals

CONSTANTS Asks,
          NoAsk             \* the source's undefined

ASSUME NoAskAssumption == NoAsk \notin Asks

VARIABLES
    stage,           \* of the service's request: idle, dispatching, open, closed
    outcome,         \* what request() resolves with
    signalled,       \* the asks whose signal has fired
    queue, active,   \* the store
    result,          \* what became of the ask in the store
    told,            \* what the store's listeners were last told to show
    shown            \* what the screen shows

service == <<stage, outcome, signalled>>
store == <<queue, active, result, told>>
vars == <<service, store, shown>>

Choices == {"allowed-once", "rejected"}
Outcomes == Choices \cup {"cancelled", "unavailable"}

\* Types: what becomes active is an ask or undefined, and a request resolves
\* with one of the service's outcomes.
TypeOK ==
    /\ stage \in [Asks -> {"idle", "dispatching", "open", "closed"}]
    /\ outcome \in [Asks -> Outcomes \cup {"none"}]
    /\ signalled \subseteq Asks
    /\ queue \in Seq(Asks) /\ active \in Asks \cup {NoAsk}
    /\ result \in [Asks -> {"new", "waiting", "withdrawn"} \cup Choices]
    /\ told \in Asks \cup {NoAsk} /\ shown \in Asks \cup {NoAsk}

Init ==
    /\ stage = [a \in Asks |-> "idle"] /\ outcome = [a \in Asks |-> "none"]
    /\ signalled = {}
    /\ queue = <<>> /\ active = NoAsk
    /\ result = [a \in Asks |-> "new"]
    /\ told = NoAsk /\ shown = NoAsk

-----------------------------------------------------------------------------
\* Mutant: shifting an empty queue makes undefined the active ask.
ShiftUnguarded(q, act) ==
    /\ queue' = IF act = NoAsk /\ q # <<>> THEN Tail(q) ELSE q
    /\ active' = IF act # NoAsk THEN act ELSE IF q = <<>> THEN "undefined" ELSE Head(q)

\* startNext: the first in the queue becomes active when nobody is.
StartNext(q, act) ==
    IF act = NoAsk /\ q # <<>>
    THEN queue' = Tail(q) /\ active' = Head(q)
    ELSE queue' = q /\ active' = act

\* Mutant: nobody hears that the first ask became active.
SaysNothing(q, act) == told' = told

\* startNext emits only when it moved an ask.
Announce(q, act) == told' = IF act = NoAsk /\ q # <<>> THEN active' ELSE told

\* Mutant: the ask that follows an aborted one becomes active unannounced.
StartNextSilently(q, act) == StartNext(q, act) /\ told' = told

AfterAbort(q, act) == StartNext(q, act) /\ Announce(q, act)

\* Mutant: the decision leaves the queue where it is.
NoSuccessor(q) == queue' = q /\ active' = NoAsk /\ told' = NoAsk

\* decide starts the next ask and emits in any case.
AfterDecision(q) == StartNext(q, NoAsk) /\ told' = active'

\* A promise keeps what it was first resolved with.
FirstOutcome(a, o) == IF outcome[a] = "none" THEN [outcome EXCEPT ![a] = o] ELSE outcome

-----------------------------------------------------------------------------
\* decide in the service: the signal has fired already, or the policy is never.
\* Neither reaches an answerer.
DecideAtOnce(a) ==
    /\ stage[a] = "idle"
    /\ stage' = [stage EXCEPT ![a] = "closed"]
    /\ \/ a \in signalled /\ outcome' = FirstOutcome(a, "cancelled")
       \/ a \notin signalled /\ outcome' = FirstOutcome(a, "rejected")
    /\ UNCHANGED <<signalled, store, shown>>

\* The ask enters the promise chain: its answerer is called in a later
\* microtask, or later still if another listener awaits first.
Request(a) ==
    /\ stage[a] = "idle" /\ a \notin signalled
    /\ stage' = [stage EXCEPT ![a] = "dispatching"]
    /\ UNCHANGED <<outcome, signalled, store, shown>>

\* Another agent's ask falls through to the default; a listener that throws
\* comes to the same.
Delegate(a) ==
    /\ stage[a] = "dispatching"
    /\ stage' = [stage EXCEPT ![a] = "closed"]
    /\ outcome' = FirstOutcome(a, "unavailable")
    /\ UNCHANGED <<signalled, store, shown>>

\* park.  It registers for the signal without looking whether it has fired.
Answerer(a) ==
    /\ stage[a] = "dispatching"
    /\ stage' = [stage EXCEPT ![a] = "open"]
    /\ result' = [result EXCEPT ![a] = "waiting"]
    /\ StartNext(Append(queue, a), active) /\ Announce(Append(queue, a), active)
    /\ UNCHANGED <<outcome, signalled, shown>>

\* Mutant: an aborted ask keeps its place in the queue.
StillQueued(i) == queue

\* The queue without its i-th ask.
Unqueued(i) == SubSeq(queue, 1, i - 1) \o SubSeq(queue, i + 1, Len(queue))

\* The store's onAbort: the ask leaves, whether it is shown or queued.
Unpark(a) ==
    /\ result' = [result EXCEPT ![a] = "withdrawn"]
    /\ \/ a = active /\ AfterAbort(queue, NoAsk)
       \/ \E i \in DOMAIN queue : queue[i] = a /\ AfterAbort(Unqueued(i), active)

\* Mutant: the service leaves it to the answerer to notice the signal.
AnswererNotices(a) == outcome

\* The service's own listener: it has entered the race once the ask is
\* dispatched.
Withdrawn(a) == IF stage[a] \in {"dispatching", "open"} THEN FirstOutcome(a, "cancelled") ELSE outcome

\* The signal fires once.  Both listeners run in that dispatch: the service
\* resolves with cancelled, then the store lets the ask go.
Abort(a) ==
    /\ a \notin signalled
    /\ signalled' = signalled \cup {a}
    /\ outcome' = Withdrawn(a)
    /\ IF result[a] = "waiting" THEN Unpark(a) ELSE UNCHANGED store
    /\ UNCHANGED <<stage, shown>>

\* The answer reaches the service's race.
Deliver(a) ==
    /\ stage[a] = "open" /\ result[a] # "waiting"
    /\ stage' = [stage EXCEPT ![a] = "closed"]
    /\ outcome' = FirstOutcome(a, IF result[a] = "withdrawn" THEN "cancelled" ELSE result[a])
    /\ UNCHANGED <<signalled, store, shown>>

\* A key on the panel drawn, however old it is; one Enter may fire its handler
\* twice.  decide takes no key: it settles whatever is active.
Press(v) ==
    /\ shown # NoAsk
    /\ IF active = NoAsk THEN UNCHANGED store
       ELSE /\ result' = [result EXCEPT ![active] = v]
            /\ AfterDecision(queue)
    /\ UNCHANGED <<service, shown>>

\* React draws the snapshot.
Render ==
    /\ shown # active
    /\ shown' = active
    /\ UNCHANGED <<service, store>>

\* settleAll: teardown.
SettleAll ==
    /\ result' = [a \in Asks |-> IF result[a] = "waiting" THEN "withdrawn" ELSE result[a]]
    /\ queue' = <<>> /\ active' = NoAsk /\ told' = NoAsk
    /\ UNCHANGED <<service, shown>>

Next ==
    \/ \E a \in Asks : \/ DecideAtOnce(a) \/ Request(a) \/ Delegate(a)
                       \/ Answerer(a) \/ Abort(a) \/ Deliver(a)
    \/ \E v \in Choices : Press(v)
    \/ Render \/ SettleAll

Spec == Init /\ [][Next]_vars

\* Promises settle, what the listeners are told is drawn, and the user answers
\* the prompt on the screen.
AttentiveSpec ==
    /\ Spec
    /\ \A a \in Asks : WF_vars(Answerer(a) \/ Delegate(a)) /\ WF_vars(Deliver(a))
    /\ WF_vars(told # shown /\ Render)
    /\ WF_vars(\E v \in Choices : Press(v))

-----------------------------------------------------------------------------
\* An undecided ask is the active one or is in the queue once; a settled one is
\* in neither.
OnePlace ==
    /\ \A a \in Asks : result[a] = "waiting" <=> a = active \/ \E i \in DOMAIN queue : queue[i] = a
    /\ \A i, j \in DOMAIN queue : queue[i] = queue[j] => i = j
    /\ \A i \in DOMAIN queue : queue[i] # active

\* Nobody waits behind an empty prompt.
NobodyWaitsUnseen == active = NoAsk => queue = <<>>

\* Waiting is being parked, whatever settles an ask and in whatever order.
ApprovalInv == TypeOK /\ OnePlace /\ NobodyWaitsUnseen

\* Consent is never taken late: what is granted is an answer the store gave
\* while the asker still waited.  If the signal fires while that answer is on its
\* way back through the promise chain, nothing is granted.
GrantsPrecedeAborts ==
    [][\A a \in Asks : outcome[a] # "allowed-once" /\ outcome'[a] = "allowed-once" =>
          a \notin signalled /\ result[a] = "allowed-once"]_vars

\* A choice settles another ask than the one on the screen only while an
\* announced change waits to be drawn.  A prompt that is withdrawn in silence
\* stays on the screen, but a key on it reaches nobody.
DrawnPromptsDecide ==
    [][\A a \in Asks : result[a] = "waiting" /\ result'[a] \in Choices =>
          a = shown \/ shown # told]_vars

\* If the user answers what is on the screen, every request is decided.
EveryRequestDecided == \A a \in Asks : stage[a] = "dispatching" ~> stage[a] = "closed"

-----------------------------------------------------------------------------
\* "The user decided on the current approval; settles it" (approvals.ts:166): a
\* choice settles the ask it was made on.
PromptsDecide ==
    [][\A a \in Asks : result[a] = "waiting" /\ result'[a] \in Choices => a = shown]_vars

\* "settles the harness promise when ... the asker's abort signal fires"
\* (approvals.ts:7): an ask whose signal has fired is off the screen.
AbortedAsksLeave == active # NoAsk => active \notin signalled
=============================================================================
