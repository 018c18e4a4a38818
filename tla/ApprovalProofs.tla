---------------------------- MODULE ApprovalProofs ----------------------------
(***************************************************************************)
(* Proofs about the user's consent, where it is asked for and where it is  *)
(* used: ApprovalPrompts, the service and the prompt that a request passes *)
(* on its way to the user, and CleanFlow, whose scripts delete files on    *)
(* the strength of an answer.  The two modules have no variable in common. *)
(*                                                                         *)
(* The prompt's store keeps its asks the way TuiDialogs keeps its dialogs, *)
(* so the lemmas about places are those of TuiDialogsProofs (the choices   *)
(* that module remembers play no part in them); new are the service in     *)
(* front of it and the prompt the listeners were last told of.             *)
(***************************************************************************)
EXTENDS ApprovalPrompts, CleanFlow, TLAPS


Dialogs == INSTANCE TuiDialogsProofs WITH Answers <- Choices, chosen <- {}

\* An ask is new until the answerer parks it, and not after.
NewUntilParked ==
    \A a \in Asks :
        /\ stage[a] \in {"idle", "dispatching"} => result[a] = "new"
        /\ stage[a] = "open" => result[a] # "new"

\* The listeners know the active ask; or nobody told them that the last one was
\* withdrawn.
ToldIsActive ==
    \/ told = active
    \/ active = NoAsk /\ told # NoAsk /\ result[told] \notin {"new", "waiting"}

\* The signal of a dispatched ask has settled its race.
SignalsSettle ==
    \A a \in signalled : stage[a] \in {"dispatching", "open"} => outcome[a] # "none"

IInv == ApprovalInv /\ NewUntilParked /\ ToldIsActive /\ SignalsSettle

\* What a step may not do to the asks: take consent from another prompt than the
\* one drawn, or from an asker who has gone.
GrantsInTime ==
    \A a \in Asks : outcome[a] # "allowed-once" /\ outcome'[a] = "allowed-once" =>
        a \notin signalled /\ result[a] = "allowed-once"
ChoicesOnTheDrawn ==
    \A a \in Asks : result[a] = "waiting" /\ result'[a] \in Choices => a = shown \/ shown # told

-----------------------------------------------------------------------------
(***************************************************************************)
(* The store.                                                              *)
(***************************************************************************)
\* The two modules mean the same by a place.
LEMMA SamePlaces ==
    ASSUME TypeOK
    PROVE  /\ Dialogs!TypeOK
           /\ OnePlace <=> Dialogs!OnePlace
<1>1. Dialogs!TypeOK
  BY DEF TypeOK, Dialogs!TypeOK, Dialogs!Results
<1>2. (\A a \in Asks : result[a] = "waiting" <=> Dialogs!Parked(a))
        <=> {a \in Asks : result[a] = "waiting"} = {a \in Asks : Dialogs!Parked(a)}
  OBVIOUS
<1> QED BY <1>1, <1>2 DEF OnePlace, Dialogs!OnePlace, Dialogs!Parked

\* What startNext makes of places that hold exactly those who then wait.
LEMMA StartNextKeepsPlaces ==
    ASSUME NEW q, NEW act, Dialogs!Places(q, act), StartNext(q, act),
           \A a \in Asks : result'[a] = "waiting" <=> Dialogs!Holds(q, act, a)
    PROVE  /\ queue' \in Seq(Asks) /\ active' \in Asks \cup {NoAsk}
           /\ OnePlace' /\ NobodyWaitsUnseen'
           /\ act # NoAsk => active' = act
<1>1. Dialogs!Advance(q, act)
  BY DEF StartNext, Dialogs!Advance
<1>2. Choices \cap {"new", "waiting", "withdrawn"} = {}
  BY DEF Choices
<1>3. /\ Dialogs!Places(queue, active)' /\ Dialogs!NobodyWaitsUnseen'
      /\ \A a \in Asks : Dialogs!Parked(a)' <=> Dialogs!Holds(q, act, a)
      /\ act # NoAsk => active' = act
  BY <1>1, <1>2, NoAskAssumption, Dialogs!AdvanceKeepsPlaces
<1>4. OnePlace'
  BY <1>3 DEF OnePlace, Dialogs!Places, Dialogs!Parked
<1> QED BY <1>3, <1>4 DEF Dialogs!Places, Dialogs!NobodyWaitsUnseen, NobodyWaitsUnseen

\* An abort takes one ask out of its place, the others keep theirs.
LEMMA UnparkKeepsInv ==
    ASSUME IInv, NEW a \in Asks, result[a] = "waiting", Unpark(a)
    PROVE  /\ queue' \in Seq(Asks) /\ active' \in Asks \cup {NoAsk}
           /\ told' \in Asks \cup {NoAsk}
           /\ OnePlace' /\ NobodyWaitsUnseen' /\ ToldIsActive'
<1>1. result' = [result EXCEPT ![a] = "withdrawn"]
  BY DEF Unpark
<1>2. \A b \in Asks : result'[b] = "waiting" <=> Dialogs!Parked(b) /\ b # a
  BY <1>1 DEF IInv, ApprovalInv, TypeOK, OnePlace, Dialogs!Parked
<1>3. CASE a = active /\ AfterAbort(queue, NoAsk)
  <2>1. Dialogs!Places(queue, NoAsk)
    BY NoAskAssumption DEF IInv, ApprovalInv, OnePlace, Dialogs!Places, TypeOK
  <2>2. \A b \in Asks : Dialogs!Holds(queue, NoAsk, b) <=> Dialogs!Parked(b) /\ b # a
    BY <1>3, NoAskAssumption DEF IInv, ApprovalInv, OnePlace, Dialogs!Holds, Dialogs!Parked
  <2>3. /\ queue' \in Seq(Asks) /\ active' \in Asks \cup {NoAsk}
        /\ OnePlace' /\ NobodyWaitsUnseen'
    BY <1>2, <1>3, <2>1, <2>2, StartNextKeepsPlaces DEF AfterAbort
  <2>4. told = a
    BY <1>3, NoAskAssumption DEF IInv, ToldIsActive
  <2>5. CASE queue = <<>>
    BY <1>1, <1>3, <2>3, <2>4, <2>5, NoAskAssumption
       DEF AfterAbort, StartNext, Announce, ToldIsActive, IInv, ApprovalInv, TypeOK
  <2>6. CASE queue # <<>>
    BY <1>3, <2>3, <2>6 DEF AfterAbort, Announce, ToldIsActive
  <2> QED BY <2>3, <2>5, <2>6
<1>4. ASSUME NEW i \in DOMAIN queue, queue[i] = a, AfterAbort(Dialogs!Unqueued(i), active)
      PROVE  /\ queue' \in Seq(Asks) /\ active' \in Asks \cup {NoAsk}
             /\ told' \in Asks \cup {NoAsk}
             /\ OnePlace' /\ NobodyWaitsUnseen' /\ ToldIsActive'
  <2>1. /\ Dialogs!Places(Dialogs!Unqueued(i), active)
        /\ \A b \in Asks : Dialogs!Holds(Dialogs!Unqueued(i), active, b) <=> Dialogs!Parked(b) /\ b # a
    <3>1. Choices \cap {"new", "waiting", "withdrawn"} = {}
      BY DEF Choices
    <3> QED BY <1>4, <3>1, NoAskAssumption, SamePlaces, Dialogs!UnqueuedPlaces
            DEF IInv, ApprovalInv
  <2>2. active # NoAsk
    BY <1>4 DEF IInv, ApprovalInv, NobodyWaitsUnseen, TypeOK
  <2>3. /\ queue' \in Seq(Asks) /\ active' \in Asks \cup {NoAsk}
        /\ OnePlace' /\ NobodyWaitsUnseen' /\ active' = active
    BY <1>2, <1>4, <2>1, <2>2, StartNextKeepsPlaces DEF AfterAbort
  <2>4. told' = told /\ told = active
    BY <1>4, <2>2 DEF AfterAbort, Announce, IInv, ToldIsActive
  <2> QED BY <2>3, <2>4 DEF ToldIsActive
<1>5. \A i : Unqueued(i) = Dialogs!Unqueued(i)
  BY DEF Unqueued, Dialogs!Unqueued
<1> QED BY <1>3, <1>4, <1>5 DEF Unpark

-----------------------------------------------------------------------------
(***************************************************************************)
(* The steps.                                                              *)
(***************************************************************************)
\* A promise keeps its first outcome; that first one is any of them.
LEMMA FirstOutcomeKept ==
    ASSUME TypeOK, NEW a \in Asks, NEW o \in Outcomes, outcome' = FirstOutcome(a, o)
    PROVE  /\ outcome' \in [Asks -> Outcomes \cup {"none"}]
           /\ outcome'[a] # "none"
           /\ \A b \in Asks : outcome'[b] # outcome[b] => b = a /\ outcome[a] = "none" /\ outcome'[a] = o
           /\ \A b \in Asks : outcome[b] # "none" => outcome'[b] = outcome[b]
BY DEF TypeOK, FirstOutcome, Outcomes, Choices

\* What a step of the service alone has to keep.
LEMMA ServiceStep ==
    ASSUME IInv, UNCHANGED <<store, shown>>, signalled' \subseteq Asks,
           stage' \in [Asks -> {"idle", "dispatching", "open", "closed"}],
           outcome' \in [Asks -> Outcomes \cup {"none"}], NewUntilParked', SignalsSettle'
    PROVE  IInv' /\ ChoicesOnTheDrawn
<1>1. TypeOK'
  BY DEF IInv, ApprovalInv, TypeOK, store
<1>2. ChoicesOnTheDrawn
  BY DEF ChoicesOnTheDrawn, Choices, store
<1> QED BY <1>1, <1>2 DEF IInv, ApprovalInv, OnePlace, NobodyWaitsUnseen, ToldIsActive, store

\* The service decides, dispatches or hears from another answerer.
LEMMA ServiceKeepsInv ==
    ASSUME IInv, NEW a \in Asks, DecideAtOnce(a) \/ Request(a) \/ Delegate(a)
    PROVE  IInv' /\ GrantsInTime /\ ChoicesOnTheDrawn
<1>1. UNCHANGED <<signalled, store, shown>>
  BY DEF DecideAtOnce, Request, Delegate
<1>2. PICK s \in {"dispatching", "closed"} :
        /\ stage[a] \in {"idle", "dispatching"} /\ stage' = [stage EXCEPT ![a] = s]
        /\ s = "dispatching" => a \notin signalled
  BY DEF DecideAtOnce, Request, Delegate
<1>3. stage' \in [Asks -> {"idle", "dispatching", "open", "closed"}]
  BY <1>2 DEF IInv, ApprovalInv, TypeOK
<1>4. NewUntilParked'
  BY <1>1, <1>2 DEF IInv, ApprovalInv, TypeOK, NewUntilParked, store
<1>5. outcome' = outcome \/ \E o \in Outcomes \ {"allowed-once"} : outcome' = FirstOutcome(a, o)
  BY DEF DecideAtOnce, Request, Delegate, Outcomes, Choices
<1>6. /\ outcome' \in [Asks -> Outcomes \cup {"none"}] /\ GrantsInTime
      /\ \A b \in Asks : outcome[b] # "none" => outcome'[b] = outcome[b]
  <2>1. TypeOK
    BY DEF IInv, ApprovalInv
  <2>2. CASE outcome' = outcome
    BY <2>1, <2>2 DEF TypeOK, GrantsInTime
  <2>3. CASE \E o \in Outcomes \ {"allowed-once"} : outcome' = FirstOutcome(a, o)
    BY <2>1, <2>3, FirstOutcomeKept DEF GrantsInTime
  <2> QED BY <1>5, <2>2, <2>3
<1>7. signalled' \subseteq Asks
  BY <1>1 DEF IInv, ApprovalInv, TypeOK
<1>8. SignalsSettle'
  BY <1>1, <1>2, <1>6 DEF IInv, ApprovalInv, TypeOK, SignalsSettle
<1> QED BY <1>1, <1>3, <1>4, <1>6, <1>7, <1>8, ServiceStep

\* The answer reaches the service once the store has settled it; had the signal
\* fired before, the race would be lost.
LEMMA DeliverKeepsInv ==
    ASSUME IInv, NEW a \in Asks, Deliver(a)
    PROVE  IInv' /\ GrantsInTime /\ ChoicesOnTheDrawn
<1>1. /\ stage[a] = "open" /\ result[a] # "waiting" /\ stage' = [stage EXCEPT ![a] = "closed"]
      /\ UNCHANGED <<signalled, store, shown>>
  BY DEF Deliver
<1>2. TypeOK
  BY DEF IInv, ApprovalInv
<1> DEFINE answer == IF result[a] = "withdrawn" THEN "cancelled" ELSE result[a]
<1>3. answer \in Outcomes
  BY <1>1, <1>2 DEF IInv, NewUntilParked, TypeOK, Outcomes
<1>4. outcome' = FirstOutcome(a, answer)
  BY DEF Deliver
<1>5. /\ outcome' \in [Asks -> Outcomes \cup {"none"}]
      /\ \A b \in Asks : outcome[b] # "none" => outcome'[b] = outcome[b]
      /\ \A b \in Asks : outcome'[b] # outcome[b] => b = a /\ outcome[a] = "none" /\ outcome'[a] = answer
  BY <1>2, <1>3, <1>4, FirstOutcomeKept
<1>6. GrantsInTime
  <2> SUFFICES ASSUME NEW b \in Asks, outcome[b] # "allowed-once", outcome'[b] = "allowed-once"
               PROVE  b \notin signalled /\ result[b] = "allowed-once"
    BY DEF GrantsInTime
  <2>1. b = a /\ outcome[a] = "none" /\ answer = "allowed-once"
    BY <1>5
  <2>2. a \notin signalled
    BY <1>1, <2>1 DEF IInv, SignalsSettle
  <2> QED BY <2>1, <2>2
<1>7. stage' \in [Asks -> {"idle", "dispatching", "open", "closed"}] /\ NewUntilParked'
  BY <1>1, <1>2 DEF TypeOK, IInv, NewUntilParked, store
<1>8. signalled' \subseteq Asks /\ SignalsSettle'
  BY <1>1, <1>2, <1>5 DEF TypeOK, IInv, SignalsSettle
<1> QED BY <1>1, <1>5, <1>6, <1>7, <1>8, ServiceStep

\* park finds room behind the others for an ask that has no place yet.
LEMMA AnswererKeepsInv ==
    ASSUME IInv, NEW a \in Asks, Answerer(a)
    PROVE  IInv' /\ UNCHANGED outcome /\ ChoicesOnTheDrawn
<1> DEFINE q == Append(queue, a)
<1>1. /\ stage[a] = "dispatching" /\ stage' = [stage EXCEPT ![a] = "open"]
      /\ result' = [result EXCEPT ![a] = "waiting"]
      /\ StartNext(q, active) /\ Announce(q, active)
      /\ UNCHANGED <<outcome, signalled, shown>>
  BY DEF Answerer
<1>2. result[a] = "new"
  BY <1>1 DEF IInv, NewUntilParked
<1>3. TypeOK /\ Dialogs!TypeOK /\ Dialogs!OnePlace /\ ~Dialogs!Parked(a)
  BY <1>2, SamePlaces DEF IInv, ApprovalInv, OnePlace, Dialogs!Parked
<1>4. /\ Dialogs!Places(q, active)
      /\ \A b \in Asks : Dialogs!Holds(q, active, b) <=> Dialogs!Parked(b) \/ b = a
  <2>1. Choices \cap {"new", "waiting", "withdrawn"} = {}
    BY DEF Choices
  <2> QED BY <1>3, <2>1, NoAskAssumption, Dialogs!AppendedPlaces
<1>5. \A b \in Asks : result'[b] = "waiting" <=> Dialogs!Holds(q, active, b)
  BY <1>1, <1>4 DEF IInv, ApprovalInv, TypeOK, OnePlace, Dialogs!Parked
<1>6. q # <<>>
  <2>1. queue \in Seq(Asks)
    BY <1>3 DEF TypeOK
  <2>2. q \in Seq(Asks) /\ Len(q) = Len(queue) + 1 /\ Len(queue) \in Nat
    BY <2>1
  <2> QED BY <2>2
<1> HIDE DEF q
<1>7. /\ queue' \in Seq(Asks) /\ active' \in Asks \cup {NoAsk} /\ OnePlace' /\ NobodyWaitsUnseen'
      /\ active # NoAsk => active' = active
  BY <1>1, <1>4, <1>5, StartNextKeepsPlaces
<1>8. told' = active'
  <2>1. CASE active = NoAsk
    BY <1>1, <1>6, <2>1 DEF Announce
  <2>2. CASE active # NoAsk
    BY <1>1, <1>7, <2>2 DEF Announce, IInv, ToldIsActive
  <2> QED BY <2>1, <2>2
<1>9. NewUntilParked' /\ SignalsSettle' /\ ChoicesOnTheDrawn
  BY <1>1, <1>2, <1>3 DEF TypeOK, IInv, NewUntilParked, SignalsSettle, ChoicesOnTheDrawn, Choices
<1>10. TypeOK'
  BY <1>1, <1>3, <1>7, <1>8 DEF TypeOK
<1> QED BY <1>1, <1>7, <1>8, <1>9, <1>10 DEF IInv, ApprovalInv, ToldIsActive

\* Both listeners of the signal: the service's outcome, then the store's place.
LEMMA AbortKeepsInv ==
    ASSUME IInv, NEW a \in Asks, Abort(a)
    PROVE  IInv' /\ GrantsInTime /\ ChoicesOnTheDrawn
<1>1. TypeOK /\ signalled' = signalled \cup {a} /\ UNCHANGED <<stage, shown>>
  BY DEF IInv, ApprovalInv, Abort
<1>2. /\ outcome' \in [Asks -> Outcomes \cup {"none"}] /\ GrantsInTime
      /\ \A b \in Asks : outcome[b] # "none" => outcome'[b] = outcome[b]
      /\ stage[a] \in {"dispatching", "open"} => outcome'[a] # "none"
  <2>1. CASE stage[a] \notin {"dispatching", "open"}
    BY <1>1, <2>1 DEF Abort, Withdrawn, TypeOK, GrantsInTime
  <2>2. CASE stage[a] \in {"dispatching", "open"}
    <3>1. outcome' = FirstOutcome(a, "cancelled") /\ "cancelled" \in Outcomes
      BY <2>2 DEF Abort, Withdrawn, Outcomes
    <3> QED BY <1>1, <3>1, FirstOutcomeKept DEF GrantsInTime
  <2> QED BY <2>1, <2>2
<1>3. SignalsSettle'
  BY <1>1, <1>2 DEF IInv, TypeOK, SignalsSettle
<1>4. CASE result[a] = "waiting"
  <2>1. Unpark(a) /\ result' = [result EXCEPT ![a] = "withdrawn"]
    BY <1>4 DEF Abort, Unpark
  <2>2. /\ queue' \in Seq(Asks) /\ active' \in Asks \cup {NoAsk} /\ told' \in Asks \cup {NoAsk}
        /\ OnePlace' /\ NobodyWaitsUnseen' /\ ToldIsActive'
    BY <1>4, <2>1, UnparkKeepsInv
  <2>3. TypeOK'
    BY <1>1, <1>2, <2>1, <2>2 DEF TypeOK
  <2>4. NewUntilParked' /\ ChoicesOnTheDrawn
    BY <1>1, <1>4, <2>1 DEF TypeOK, IInv, NewUntilParked, ChoicesOnTheDrawn, Choices
  <2> QED BY <1>2, <1>3, <2>2, <2>3, <2>4 DEF IInv, ApprovalInv
<1>5. CASE result[a] # "waiting"
  <2>1. UNCHANGED <<store, shown>>
    BY <1>1, <1>5 DEF Abort
  <2>2. NewUntilParked' /\ stage' \in [Asks -> {"idle", "dispatching", "open", "closed"}]
    BY <1>1, <2>1 DEF IInv, NewUntilParked, store, TypeOK
  <2>3. signalled' \subseteq Asks
    BY <1>1 DEF TypeOK
  <2> QED BY <1>2, <1>3, <2>1, <2>2, <2>3, ServiceStep
<1> QED BY <1>4, <1>5

\* A key settles the active ask, whatever panel is drawn.
LEMMA PressKeepsInv ==
    ASSUME IInv, NEW v \in Choices, Press(v)
    PROVE  IInv' /\ UNCHANGED outcome /\ ChoicesOnTheDrawn
<1>1. TypeOK /\ UNCHANGED <<service, shown>>
  BY DEF IInv, ApprovalInv, Press
<1>2. CASE active = NoAsk
  <2>1. UNCHANGED store
    BY <1>2 DEF Press
  <2>2. TypeOK' /\ ChoicesOnTheDrawn
    BY <1>1, <2>1 DEF TypeOK, service, store, ChoicesOnTheDrawn, Choices
  <2> QED BY <1>1, <2>1, <2>2 DEF IInv, ApprovalInv, OnePlace, NobodyWaitsUnseen, ToldIsActive,
                                  NewUntilParked, SignalsSettle, service, store
<1>3. CASE active # NoAsk
  <2>1. result' = [result EXCEPT ![active] = v] /\ StartNext(queue, NoAsk) /\ told' = active'
    BY <1>3 DEF Press, AfterDecision
  <2>2. active \in Asks /\ result[active] = "waiting" /\ told = active
    BY <1>1, <1>3 DEF IInv, ApprovalInv, OnePlace, TypeOK, ToldIsActive
  <2>3. v \notin {"waiting", "new"}
    BY DEF Choices
  <2>4. Dialogs!Places(queue, NoAsk)
    BY NoAskAssumption DEF IInv, ApprovalInv, OnePlace, Dialogs!Places, TypeOK
  <2>5. \A b \in Asks : result'[b] = "waiting" <=> Dialogs!Holds(queue, NoAsk, b)
    BY <1>1, <2>1, <2>2, <2>3, NoAskAssumption
       DEF IInv, ApprovalInv, OnePlace, TypeOK, Dialogs!Holds
  <2>6. /\ queue' \in Seq(Asks) /\ active' \in Asks \cup {NoAsk} /\ OnePlace' /\ NobodyWaitsUnseen'
    BY <2>1, <2>4, <2>5, StartNextKeepsPlaces
  <2>7. TypeOK'
    BY <1>1, <2>1, <2>2, <2>6 DEF TypeOK, service
  <2>8. NewUntilParked' /\ SignalsSettle'
    BY <1>1, <2>1, <2>2, <2>3 DEF TypeOK, IInv, NewUntilParked, SignalsSettle, service
  <2>9. ChoicesOnTheDrawn
    BY <1>1, <2>1, <2>2 DEF TypeOK, ChoicesOnTheDrawn, Choices
  <2> QED BY <1>1, <2>1, <2>6, <2>7, <2>8, <2>9 DEF IInv, ApprovalInv, ToldIsActive, service
<1> QED BY <1>2, <1>3

\* Drawing changes no ask; teardown empties every place.
LEMMA RenderKeepsInv ==
    ASSUME IInv, Render
    PROVE  IInv' /\ UNCHANGED <<outcome, result>>
<1>1. TypeOK'
  BY DEF IInv, ApprovalInv, TypeOK, Render, service, store
<1> QED BY <1>1 DEF Render, IInv, ApprovalInv, OnePlace, NobodyWaitsUnseen, ToldIsActive,
                    NewUntilParked, SignalsSettle, service, store

\* Teardown withdraws whoever waits, all at once.
LEMMA SettleAllKeepsInv ==
    ASSUME IInv, SettleAll
    PROVE  IInv' /\ UNCHANGED outcome /\ ChoicesOnTheDrawn
<1>1. /\ result' = [a \in Asks |-> IF result[a] = "waiting" THEN "withdrawn" ELSE result[a]]
      /\ queue' = <<>> /\ active' = NoAsk /\ told' = NoAsk
      /\ UNCHANGED <<service, shown>>
  BY DEF SettleAll
<1>2. TypeOK'
  BY <1>1 DEF IInv, ApprovalInv, TypeOK, service
<1>3. OnePlace' /\ NobodyWaitsUnseen'
  BY <1>1, NoAskAssumption DEF OnePlace, NobodyWaitsUnseen
<1>4. NewUntilParked' /\ ToldIsActive' /\ SignalsSettle' /\ ChoicesOnTheDrawn
  BY <1>1 DEF IInv, NewUntilParked, ToldIsActive, SignalsSettle, ChoicesOnTheDrawn, Choices, service
<1> QED BY <1>1, <1>2, <1>3, <1>4 DEF IInv, ApprovalInv, service

-----------------------------------------------------------------------------
(***************************************************************************)
(* The theorems.                                                           *)
(***************************************************************************)
\* At first nothing is asked.
LEMMA InitHolds == Init => IInv
<1> SUFFICES ASSUME Init  PROVE IInv
  OBVIOUS
<1>1. TypeOK
  BY DEF Init, TypeOK
<1>2. OnePlace /\ NobodyWaitsUnseen /\ NewUntilParked /\ ToldIsActive /\ SignalsSettle
  BY NoAskAssumption DEF Init, OnePlace, NobodyWaitsUnseen, NewUntilParked, ToldIsActive, SignalsSettle
<1> QED BY <1>1, <1>2 DEF IInv, ApprovalInv

\* Every action keeps the invariant and takes no consent it may not take.
LEMMA StepHolds ==
    ASSUME IInv, [Next]_vars
    PROVE  IInv' /\ GrantsInTime /\ ChoicesOnTheDrawn
<1>1. ASSUME NEW a \in Asks, DecideAtOnce(a) \/ Request(a) \/ Delegate(a)
      PROVE  IInv' /\ GrantsInTime /\ ChoicesOnTheDrawn
  BY <1>1, ServiceKeepsInv
<1>2. ASSUME NEW a \in Asks, Deliver(a)
      PROVE  IInv' /\ GrantsInTime /\ ChoicesOnTheDrawn
  BY <1>2, DeliverKeepsInv
<1>3. ASSUME NEW a \in Asks, Answerer(a)
      PROVE  IInv' /\ GrantsInTime /\ ChoicesOnTheDrawn
  BY <1>3, AnswererKeepsInv DEF GrantsInTime
<1>4. ASSUME NEW a \in Asks, Abort(a)
      PROVE  IInv' /\ GrantsInTime /\ ChoicesOnTheDrawn
  BY <1>4, AbortKeepsInv
<1>5. ASSUME NEW v \in Choices, Press(v)
      PROVE  IInv' /\ GrantsInTime /\ ChoicesOnTheDrawn
  BY <1>5, PressKeepsInv DEF GrantsInTime
<1>6. CASE Render
  BY <1>6, RenderKeepsInv DEF GrantsInTime, ChoicesOnTheDrawn, Choices
<1>7. CASE SettleAll
  BY <1>7, SettleAllKeepsInv DEF GrantsInTime
<1>8. CASE UNCHANGED vars
  <2>1. TypeOK'
    BY <1>8 DEF vars, service, store, IInv, ApprovalInv, TypeOK
  <2> QED BY <1>8, <2>1 DEF vars, service, store, IInv, ApprovalInv, OnePlace, NobodyWaitsUnseen,
                            NewUntilParked, ToldIsActive, SignalsSettle, GrantsInTime,
                            ChoicesOnTheDrawn, Choices
<1> QED BY <1>1, <1>2, <1>3, <1>4, <1>5, <1>6, <1>7, <1>8 DEF Next

\* For any number of asks: an ask waits in one place, nobody waits unseen, and
\* the types hold, whatever the order of signals, keys, answers and teardown.
THEOREM ApprovalsInvariant == Spec => []ApprovalInv
<1>1. Init => IInv
  BY InitHolds
<1>2. IInv /\ [Next]_vars => IInv'
  BY StepHolds
<1>3. IInv => ApprovalInv
  BY DEF IInv
<1> QED BY <1>1, <1>2, <1>3, PTL DEF Spec

\* Nothing is granted to an asker whose signal has fired, however the signal, the
\* key and the answer's way back through the promise chain overlap.
THEOREM NoLateGrants == Spec => GrantsPrecedeAborts
<1>1. Init => IInv
  BY InitHolds
<1>2. IInv /\ [Next]_vars => IInv' /\ [GrantsInTime]_vars
  BY StepHolds
<1> QED BY <1>1, <1>2, PTL DEF Spec, GrantsPrecedeAborts, GrantsInTime

\* A prompt drawn as last announced decides its own ask or none; choices go
\* astray only while an announced change waits to be drawn.
THEOREM AnnouncedPromptsDecide == Spec => DrawnPromptsDecide
<1>1. Init => IInv
  BY InitHolds
<1>2. IInv /\ [Next]_vars => IInv' /\ [ChoicesOnTheDrawn]_vars
  BY StepHolds
<1> QED BY <1>1, <1>2, PTL DEF Spec, DrawnPromptsDecide, ChoicesOnTheDrawn

-----------------------------------------------------------------------------
(***************************************************************************)
(* The cleaning flow, for every number of overlapping requests and files:  *)
(* no removal without agreement, no false "nothing was removed", no script *)
(* that outlives its answer unless a taskkill is on its way.               *)
(***************************************************************************)
\* Nothing has been asked for yet.
LEMMA InitEstablishes == CleanInit => CleanInv
<1> SUFFICES ASSUME CleanInit PROVE CleanInv
  OBVIOUS
<1>1. /\ file \in [Files -> {"absent", "fresh", "old", "gone"}]
      /\ hostDir \in {"empty", "used", "gone"}
      /\ remover \in [Files -> Requests \cup {NoOne}]
  BY DEF CleanInit
<1>2. /\ pc \in [Requests -> {"idle", "previewing", "asking", "agreed", "executing", "done"}]
      /\ reply \in [Requests -> Replies \cup {"none"}]
      /\ listed \in [Requests -> SUBSET Files]
      /\ agreed \subseteq Requests /\ aborted \subseteq Tools /\ killing \subseteq Tools
  BY DEF CleanInit
<1>3. /\ script \in [Requests -> {"none", "preview", "execute"}]
      /\ category \in [Requests -> Categories \cup {"end"}]
      /\ plan \in [Requests -> (SUBSET Files) \cup {Nothing}]
  BY DEF CleanInit
<1>4. CleanTypeOK
  BY <1>1, <1>2, <1>3 DEF CleanTypeOK
<1>5. AgreedRequests /\ Answered /\ ScriptsHaveHandlers /\ RemovalWasAgreed
  BY DEF CleanInit, AgreedRequests, Answered, ScriptsHaveHandlers, RemovalWasAgreed
<1> QED BY <1>4, <1>5 DEF CleanInv

\* What a scan finds are files.
LEMMA FoundFiles ==
    ASSUME NEW r \in Requests, NEW found \in Found(r)
    PROVE  found \subseteq Files
BY DEF Found, Candidates, Files

\* Other programs move no handler and remove nothing for a request.
LEMMA WorldKeepsInv == CleanInv /\ World => CleanInv'
<1> SUFFICES ASSUME CleanInv, World PROVE CleanInv'
  OBVIOUS
<1> USE DEF CleanInv
<1>1. UNCHANGED <<remover, handler, process>>
  BY DEF World, Spill, Appear, Rewrite, TurnOld
<1>2. CleanTypeOK'
  <2>1. file' \in [Files -> {"absent", "fresh", "old", "gone"}]
    BY DEF World, Spill, Appear, Rewrite, TurnOld, CleanTypeOK
  <2>2. hostDir' \in {"empty", "used", "gone"}
    BY DEF World, Spill, Appear, Rewrite, TurnOld, CleanTypeOK
  <2> QED BY <1>1, <2>1, <2>2 DEF CleanTypeOK, handler, process
<1> QED BY <1>1, <1>2 DEF handler, process, AgreedRequests, Answered, ScriptsHaveHandlers, RemovalWasAgreed

\* The scripts' own steps move no handler, and remove only what an agreed
\* request's script planned.
LEMMA ScriptStepKeepsInv ==
    ASSUME CleanInv, NEW r \in Requests,
           ListCategory(r) \/ PlanCategory(r) \/ RemoveFile(r) \/ FinishCategory(r)
    PROVE  CleanInv'
<1> USE DEF CleanInv
<1>1. UNCHANGED <<pc, reply, agreed, aborted, script, killing>>
  BY DEF ListCategory, PlanCategory, RemoveFile, FinishCategory, disk, handler
<1>2. AgreedRequests' /\ Answered' /\ ScriptsHaveHandlers'
  BY <1>1 DEF AgreedRequests, Answered, ScriptsHaveHandlers
<1>3. CleanTypeOK' /\ RemovalWasAgreed'
  <2>1. CASE ListCategory(r)
    <3>1. UNCHANGED <<disk, plan>> /\ listed' \in [Requests -> SUBSET Files]
      BY <2>1, FoundFiles DEF ListCategory, CleanTypeOK
    <3>2. category' \in [Requests -> Categories \cup {"end"}]
      BY <2>1 DEF ListCategory, NextCategory, CleanTypeOK, Categories
    <3> QED BY <1>1, <3>1, <3>2 DEF CleanTypeOK, RemovalWasAgreed, disk
  <2>2. CASE PlanCategory(r)
    <3>1. UNCHANGED <<disk, listed, category>> /\ plan' \in [Requests -> (SUBSET Files) \cup {Nothing}]
      BY <2>2, FoundFiles DEF PlanCategory, CleanTypeOK, handler
    <3> QED BY <1>1, <3>1 DEF CleanTypeOK, RemovalWasAgreed, disk
  <2>3. CASE RemoveFile(r)
    <3>1. UNCHANGED <<hostDir, listed, category>>
      BY <2>3 DEF RemoveFile, handler
    <3>2. r \in agreed
      BY <2>3 DEF RemoveFile, ScriptsHaveHandlers
    <3>3. PICK f \in plan[r] : /\ plan' = [plan EXCEPT ![r] = @ \ {f}]
                               /\ \/ /\ Present(f)
                                     /\ file' = [file EXCEPT ![f] = "gone"]
                                     /\ remover' = [remover EXCEPT ![f] = r]
                                  \/ UNCHANGED <<file, remover>>
      BY <2>3 DEF RemoveFile
    <3>4. plan[r] \in SUBSET Files
      BY <2>3 DEF RemoveFile, CleanTypeOK
    <3>5. plan' \in [Requests -> (SUBSET Files) \cup {Nothing}]
      BY <3>3, <3>4 DEF CleanTypeOK
    <3>6. /\ file' \in [Files -> {"absent", "fresh", "old", "gone"}]
          /\ remover' \in [Files -> Requests \cup {NoOne}]
      BY <3>3, <3>4 DEF CleanTypeOK
    <3>7. RemovalWasAgreed'
      BY <1>1, <3>2, <3>3, <3>4 DEF RemovalWasAgreed, CleanTypeOK
    <3> QED BY <1>1, <3>1, <3>5, <3>6, <3>7 DEF CleanTypeOK
  <2>4. CASE FinishCategory(r)
    <3>1. UNCHANGED <<file, remover, listed>> /\ hostDir' \in {"empty", "used", "gone"}
      BY <2>4 DEF FinishCategory, CleanTypeOK, handler
    <3>2. /\ category' \in [Requests -> Categories \cup {"end"}]
          /\ plan' \in [Requests -> (SUBSET Files) \cup {Nothing}]
      BY <2>4 DEF FinishCategory, NextCategory, CleanTypeOK, Categories
    <3> QED BY <1>1, <3>1, <3>2 DEF CleanTypeOK, RemovalWasAgreed
  <2> QED BY <2>1, <2>2, <2>3, <2>4
<1> QED BY <1>2, <1>3

-----------------------------------------------------------------------------
\* A handler's step on its own request, seen from the invariant: what its new
\* position, answer and script have to agree on.
Consistent(p, what, s, isAgreed, isKilled) ==
    /\ p \in {"agreed", "executing"} => isAgreed
    /\ isAgreed => p \in {"agreed", "executing"} \/ (p = "done" /\ what \in {"failed", "cleaned"})
    /\ what # "none" => p = "done"
    /\ s = "preview" => p = "previewing" \/ (p = "done" /\ isKilled)
    /\ s = "execute" => isAgreed /\ (p = "executing" \/ (p = "done" /\ isKilled))

\* The invariant's middle part, request by request.
LEMMA ConsistentRequests ==
    CleanTypeOK => (AgreedRequests /\ Answered /\ ScriptsHaveHandlers
               <=> \A r \in Requests : Consistent(pc[r], reply[r], script[r], r \in agreed, r \in killing))
BY DEF AgreedRequests, Answered, ScriptsHaveHandlers, Consistent, CleanTypeOK

\* A step that leaves the other requests alone and its own consistent.
LEMMA HandlerStepKeepsInv ==
    ASSUME CleanInv, NEW r \in Requests,
           CleanTypeOK', UNCHANGED remover, agreed \subseteq agreed',
           \A q \in Requests \ {r} :
               /\ pc'[q] = pc[q] /\ reply'[q] = reply[q] /\ script'[q] = script[q]
               /\ q \in agreed' <=> q \in agreed
               /\ q \in killing' <=> q \in killing,
           Consistent(pc[r], reply[r], script[r], r \in agreed, r \in killing)'
    PROVE  CleanInv'
<1>1. \A q \in Requests : Consistent(pc[q], reply[q], script[q], q \in agreed, q \in killing)
  BY ConsistentRequests DEF CleanInv
<1>2. \A q \in Requests : Consistent(pc[q], reply[q], script[q], q \in agreed, q \in killing)'
  BY <1>1 DEF Consistent
<1>3. AgreedRequests' /\ Answered' /\ ScriptsHaveHandlers'
  BY <1>2 DEF AgreedRequests, Answered, ScriptsHaveHandlers, Consistent, CleanTypeOK
<1>4. RemovalWasAgreed'
  BY DEF RemovalWasAgreed, CleanInv
<1> QED BY <1>3, <1>4 DEF CleanInv

\* A handler that moves its own request to a consistent position keeps the
\* invariant; only its own membership in agreed and killing may change.
LEMMA HandlerMoves ==
    ASSUME CleanInv, NEW r \in Requests, UNCHANGED <<disk, listed>>,
           NEW p \in {"idle", "previewing", "asking", "agreed", "executing", "done"},
           pc' = [pc EXCEPT ![r] = p],
           NEW what \in Replies \cup {"none"}, reply' = [reply EXCEPT ![r] = what],
           NEW s \in {"none", "preview", "execute"}, script' = [script EXCEPT ![r] = s],
           agreed' \in {agreed, agreed \cup {r}},
           killing' \in {killing, killing \ {r}} \/ (r \in Tools /\ killing' = killing \cup {r}),
           aborted' \subseteq Tools,
           UNCHANGED <<category, plan>>
           \/ /\ category' = [category EXCEPT ![r] = "temp"]
              /\ plan' = [plan EXCEPT ![r] = Nothing],
           Consistent(p, what, s, r \in agreed', r \in killing')
    PROVE  CleanInv'
<1>1. /\ pc' \in [Requests -> {"idle", "previewing", "asking", "agreed", "executing", "done"}]
      /\ reply' \in [Requests -> Replies \cup {"none"}]
      /\ script' \in [Requests -> {"none", "preview", "execute"}]
      /\ category' \in [Requests -> Categories \cup {"end"}]
      /\ plan' \in [Requests -> (SUBSET Files) \cup {Nothing}]
      /\ agreed' \subseteq Requests /\ killing' \subseteq Tools
  BY DEF CleanInv, CleanTypeOK, Categories
<1>2. /\ CleanTypeOK'
      /\ pc'[r] = p /\ reply'[r] = what /\ script'[r] = s
      /\ \A q \in Requests \ {r} :
           pc'[q] = pc[q] /\ reply'[q] = reply[q] /\ script'[q] = script[q]
  BY <1>1 DEF CleanInv, CleanTypeOK, disk
<1>3. Consistent(pc[r], reply[r], script[r], r \in agreed, r \in killing)'
  BY <1>2
<1> QED BY <1>2, <1>3, HandlerStepKeepsInv DEF disk

\* One case per step of a handler, and for the end of its script.
LEMMA HandlerKeepsInv ==
    ASSUME CleanInv, NEW r \in Requests,
           \/ Decline(r) \/ Preview(r) \/ Refuse(r) \/ Agree(r) \/ Execute(r)
           \/ Timeout(r) \/ AbortTool(r) \/ KillLands(r) \/ ScriptEnds(r)
    PROVE  CleanInv'
<1>0. /\ CleanTypeOK /\ Consistent(pc[r], reply[r], script[r], r \in agreed, r \in killing)
      /\ pc = [pc EXCEPT ![r] = pc[r]] /\ reply = [reply EXCEPT ![r] = reply[r]]
      /\ script = [script EXCEPT ![r] = script[r]]
      /\ pc[r] \in {"idle", "previewing", "asking", "agreed", "executing", "done"}
      /\ reply[r] \in Replies \cup {"none"} /\ script[r] \in {"none", "preview", "execute"}
  BY ConsistentRequests DEF CleanInv, CleanTypeOK
<1>1. CASE Decline(r)
  BY <1>0, <1>1, HandlerMoves DEF Decline, Answer, process, Consistent, CleanTypeOK, Replies
<1>2. CASE Preview(r)
  BY <1>0, <1>2, HandlerMoves DEF Preview, Goto, Spawn, Consistent, CleanTypeOK, Replies
<1>3. CASE Refuse(r)
  BY <1>0, <1>3, HandlerMoves DEF Refuse, GiveUp, Answer, process, Consistent, CleanTypeOK, Replies
<1>4. CASE Agree(r)
  BY <1>0, <1>4, HandlerMoves DEF Agree, Goto, process, Consistent, CleanTypeOK, Replies
<1>5. CASE Execute(r)
  BY <1>0, <1>5, HandlerMoves DEF Execute, Goto, Spawn, Consistent, CleanTypeOK, Replies
<1>6. CASE Timeout(r)
  <2>1. CASE r \in Commands
    BY <1>0, <1>6, <2>1, HandlerMoves
       DEF Timeout, Timed, StopScript, Interrupted, Answer, Consistent, CleanTypeOK, Replies
  <2>2. CASE r \notin Commands
    BY <1>0, <1>6, <2>2, HandlerMoves
       DEF Timeout, Timed, StopScript, Interrupted, Answer, Consistent, CleanTypeOK, Replies, Requests
  <2> QED BY <2>1, <2>2
<1>7. CASE AbortTool(r)
  <2>1. CASE pc[r] \in {"previewing", "executing"}
    BY <1>0, <1>7, <2>1, KindsAssumption, HandlerMoves
       DEF AbortTool, StopScript, Interrupted, Answer, Consistent, CleanTypeOK, Replies
  <2>2. CASE pc[r] \notin {"previewing", "executing"}
    BY <1>0, <1>7, <2>2, HandlerMoves DEF AbortTool, Consistent, CleanTypeOK, Replies
  <2> QED BY <2>1, <2>2
<1>8. CASE KillLands(r)
  BY <1>0, <1>8, HandlerMoves DEF KillLands, handler, Consistent, CleanTypeOK, Replies
<1>9. CASE ScriptEnds(r)
  <2>1. PICK ok \in BOOLEAN : \/ pc[r] = "previewing" /\ AfterPreview(r, ok)
                              \/ pc[r] = "executing" /\ AfterExecute(r, ok)
                              \/ pc[r] = "done" /\ UNCHANGED <<pc, reply>>
    BY <1>9 DEF ScriptEnds
  <2>2. /\ script' = [script EXCEPT ![r] = "none"]
        /\ UNCHANGED <<disk, listed, agreed, aborted, category, plan, killing>>
    BY <1>9 DEF ScriptEnds
  <2>3. CASE pc[r] = "previewing" /\ AfterPreview(r, ok)
    BY <1>0, <2>2, <2>3, HandlerMoves DEF AfterPreview, Goto, Answer, Consistent, CleanTypeOK, Replies
  <2>4. CASE pc[r] = "executing" /\ AfterExecute(r, ok)
    BY <1>0, <2>2, <2>4, HandlerMoves DEF AfterExecute, Answer, Consistent, CleanTypeOK, Replies
  <2>5. CASE pc[r] = "done" /\ UNCHANGED <<pc, reply>>
    BY <1>0, <2>2, <2>5, HandlerMoves DEF Consistent, CleanTypeOK, Replies
  <2> QED BY <2>1, <2>3, <2>4, <2>5
<1> QED BY <1>1, <1>2, <1>3, <1>4, <1>5, <1>6, <1>7, <1>8, <1>9

-----------------------------------------------------------------------------
\* A quiet reply means the request was never agreed to; removal and deleting
\* scripts need agreement.
LEMMA InvariantImplies == CleanInv => QuietRepliesAreTrue /\ StopsWithItsReply
<1> SUFFICES ASSUME CleanInv PROVE QuietRepliesAreTrue /\ StopsWithItsReply
  OBVIOUS
<1>1. QuietRepliesAreTrue
  <2> SUFFICES ASSUME NEW r \in Requests, NoCleaningTold(r)
               PROVE  script[r] # "execute" /\ \A f \in Files : remover[f] # r
    BY DEF QuietRepliesAreTrue
  <2>1. r \notin agreed
    BY DEF CleanInv, AgreedRequests, Answered, NoCleaningTold
  <2>2. script[r] # "execute"
    BY <2>1 DEF CleanInv, ScriptsHaveHandlers
  <2>3. \A f \in Files : remover[f] # r
    BY <2>1, KindsAssumption DEF CleanInv, RemovalWasAgreed
  <2> QED BY <2>2, <2>3
<1>2. StopsWithItsReply
  BY DEF CleanInv, CleanTypeOK, Answered, ScriptsHaveHandlers, StopsWithItsReply
<1> QED BY <1>1, <1>2

\* At every moment of any number of overlapping requests a script has a handler
\* that waits for it or has told it to stop, an answered request has neither,
\* and a deleting script, like every removal, belongs to a request that the user
\* agreed to.
THEOREM CleanInvariant == CleanSpec => []CleanInv
<1>1. CleanInv /\ [CleanNext]_cleanVars => CleanInv'
  <2> SUFFICES ASSUME CleanInv, [CleanNext]_cleanVars PROVE CleanInv'
    OBVIOUS
  <2>1. CASE World
    BY <2>1, WorldKeepsInv
  <2>2. CASE Scripts
    BY <2>2, ScriptStepKeepsInv, HandlerKeepsInv DEF Scripts
  <2>3. CASE Handlers
    BY <2>3, HandlerKeepsInv DEF Handlers
  <2>4. CASE UNCHANGED cleanVars
    BY <2>4 DEF cleanVars, disk, handler, process, CleanInv, CleanTypeOK, AgreedRequests, Answered,
                ScriptsHaveHandlers, RemovalWasAgreed
  <2> QED BY <2>1, <2>2, <2>3, <2>4 DEF CleanNext
<1> QED BY <1>1, InitEstablishes, PTL DEF CleanSpec

\* A request answered as declined, previewed or denied, or failed before the user
\* agreed, has removed nothing and has no deleting script left; no script outlives
\* its request's answer unless a taskkill is on its way to it.
THEOREM RepliesAreKept == CleanSpec => [](QuietRepliesAreTrue /\ StopsWithItsReply)
BY CleanInvariant, InvariantImplies, PTL
=============================================================================
