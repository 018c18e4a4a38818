----------------------------- MODULE TuiDialogs -----------------------------
(***************************************************************************)
(* The dialogs plugins put to the user (dsh-tui/src/dsh-adapter/dialogs.ts)*)
(* and the panel that shows them.  One dialog is active, the others queue. *)
(* The panel on screen lags behind the store: it is what React rendered    *)
(* last, and its key handler may fire more than once before it unmounts.   *)
(***************************************************************************)
EXTENDS Sequences, Naturals

CONSTANTS Asks, Answers,
          NoAsk              \* the source's null

ASSUME NoAskAssumption == NoAsk \notin Asks
ASSUME AnswersAssumption == Answers \cap {"new", "waiting", "withdrawn"} = {}

VARIABLES
    queue, active,   \* the store
    result,          \* what each dialog's promise resolved with
    shown,           \* the dialog on screen
    chosen           \* history: the user's choices, each on the dialog shown

vars == <<queue, active, result, shown, chosen>>

Results == {"new", "waiting", "withdrawn"} \cup Answers

\* Types: what becomes active is a dialog or null, never what an empty queue
\* would shift out.
TypeOK ==
    /\ queue \in Seq(Asks)
    /\ active \in Asks \cup {NoAsk}
    /\ result \in [Asks -> Results]
    /\ shown \in Asks \cup {NoAsk}
    /\ chosen \subseteq Asks \X Answers

Init ==
    /\ queue = <<>> /\ active = NoAsk
    /\ result = [a \in Asks |-> "new"]
    /\ shown = NoAsk /\ chosen = {}

-----------------------------------------------------------------------------
\* Mutant: shifting an empty queue makes undefined the active dialog.
ShiftUnguarded(q, act) ==
    /\ queue' = IF act = NoAsk /\ q # <<>> THEN Tail(q) ELSE q
    /\ active' = IF act # NoAsk THEN act ELSE IF q = <<>> THEN "undefined" ELSE Head(q)

\* advance: the first in the queue becomes active when nobody is.
Advance(q, act) ==
    IF act = NoAsk /\ q # <<>>
    THEN queue' = Tail(q) /\ active' = Head(q)
    ELSE queue' = q /\ active' = act

\* Mutants: an aborted, or an answered, dialog re-renders without advancing.
EmitOnly(q, act) == queue' = q /\ active' = act

AfterAbort(q, act) == Advance(q, act)

AfterAnswer(q, act) == Advance(q, act)

\* Mutant: teardown forgets the active dialog.
InQueue(a) == \E i \in DOMAIN queue : queue[i] = a

Parked(a) == a = active \/ \E i \in DOMAIN queue : queue[i] = a

-----------------------------------------------------------------------------
Ask(a) ==
    /\ result[a] = "new"
    /\ result' = [result EXCEPT ![a] = "waiting"]
    /\ Advance(Append(queue, a), active)
    /\ UNCHANGED <<shown, chosen>>

\* The caller's signal is aborted already, or its plugin is no longer active.
AskInVain(a) ==
    /\ result[a] = "new"
    /\ result' = [result EXCEPT ![a] = "withdrawn"]
    /\ UNCHANGED <<queue, active, shown, chosen>>

\* Mutant: an aborted dialog keeps its place in the queue.
StillQueued(i) == queue

\* The queue without its i-th dialog.
Unqueued(i) == SubSeq(queue, 1, i - 1) \o SubSeq(queue, i + 1, Len(queue))

\* onAbort: the signal, the timer or the owner's end takes the dialog back,
\* whether it waits in the queue or is on screen.
Withdraw(a) ==
    /\ result[a] = "waiting"
    /\ result' = [result EXCEPT ![a] = "withdrawn"]
    /\ \/ a = active /\ AfterAbort(queue, NoAsk)
       \/ \E i \in DOMAIN queue : queue[i] = a /\ AfterAbort(Unqueued(i), active)
    /\ UNCHANGED <<shown, chosen>>

\* Mutant: the active dialog is settled whatever panel the answer comes from.
AnyPanel == active # NoAsk

\* The handler passes the key of the dialog it rendered.
FromActivePanel == active # NoAsk /\ active = shown

\* decide and cancel: a key pressed on the panel; Esc is one of the answers.
Press(v) ==
    /\ shown # NoAsk
    /\ chosen' = chosen \cup {<<shown, v>>}
    /\ IF FromActivePanel
       THEN /\ result' = [result EXCEPT ![active] = v]
            /\ AfterAnswer(queue, NoAsk)
       ELSE UNCHANGED <<queue, active, result>>
    /\ UNCHANGED shown

\* React catches up with the store.
Render ==
    /\ shown # active
    /\ shown' = active
    /\ UNCHANGED <<queue, active, result, chosen>>

\* settleAll: teardown.
SettleAll ==
    /\ result' = [a \in Asks |-> IF Parked(a) THEN "withdrawn" ELSE result[a]]
    /\ queue' = <<>> /\ active' = NoAsk
    /\ UNCHANGED <<shown, chosen>>

Next ==
    \/ \E a \in Asks : Ask(a) \/ AskInVain(a) \/ Withdraw(a)
    \/ \E v \in Answers : Press(v)
    \/ Render \/ SettleAll

Spec == Init /\ [][Next]_vars

\* The screen is redrawn, and the user answers what stays on it.
AttentiveSpec == Spec /\ WF_vars(Render) /\ WF_vars(\E v \in Answers : Press(v))

-----------------------------------------------------------------------------
\* A dialog waits in one place: it is the active one or it is in the queue
\* once; whatever is settled has left both.
OnePlace ==
    /\ {a \in Asks : result[a] = "waiting"} = {a \in Asks : Parked(a)}
    /\ \A i, j \in DOMAIN queue : queue[i] = queue[j] => i = j
    /\ \A i \in DOMAIN queue : queue[i] # active

\* Nobody waits behind an empty screen: with no active dialog the queue is empty.
NobodyWaitsUnseen == active = NoAsk => queue = <<>>

\* A panel whose dialog still waits is the active dialog's panel.
PanelIsCurrent ==
    shown # NoAsk => result[shown] # "new" /\ (result[shown] = "waiting" => active = shown)

\* Waiting is being parked, so nobody is settled twice; what the panel shows
\* decides which results a key press may reach.
DialogInv == TypeOK /\ OnePlace /\ NobodyWaitsUnseen /\ PanelIsCurrent

\* An answer is one the user gave on that very dialog, and the only one:
\* the store implements AskOnce, however often an old panel's handler fires.
Abstract == INSTANCE AskOnce
ImplementsAskOnce == Abstract!Spec

\* If the user answers what is shown, no dialog's promise parks forever.
EveryDialogSettles == \A a \in Asks : result[a] = "waiting" ~> result[a] # "waiting"
=============================================================================
