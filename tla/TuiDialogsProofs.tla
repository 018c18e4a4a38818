-------------------------- MODULE TuiDialogsProofs --------------------------
(***************************************************************************)
(* Proofs about TuiDialogs: the dialogs' places and the panel on screen    *)
(* agree with their results, and the store implements AskOnce.             *)
(***************************************************************************)
EXTENDS TuiDialogs, TLAPS

-----------------------------------------------------------------------------
\* What advance may be handed: the dialogs that still wait, each in one place.
Places(q, act) ==
    /\ q \in Seq(Asks) /\ act \in Asks \cup {NoAsk}
    /\ \A i, j \in DOMAIN q : q[i] = q[j] => i = j
    /\ \A i \in DOMAIN q : q[i] # act

Holds(q, act, a) == a = act \/ \E i \in DOMAIN q : q[i] = a

\* advance moves a dialog from the queue to the screen and loses none; a
\* dialog that is active already stays.
LEMMA AdvanceKeepsPlaces ==
    ASSUME NEW q, NEW act, Places(q, act), Advance(q, act)
    PROVE  /\ Places(queue, active)'
           /\ NobodyWaitsUnseen'
           /\ \A a \in Asks : Parked(a)' <=> Holds(q, act, a)
           /\ act # NoAsk => active' = act
<1>1. CASE act = NoAsk /\ q # <<>>
  <2>1. queue' = Tail(q) /\ active' = Head(q)
    BY <1>1 DEF Advance
  <2>2. Len(q) \in Nat \ {0} /\ Head(q) = q[1] /\ Head(q) \in Asks
    BY <1>1 DEF Places
  <2>3. Tail(q) \in Seq(Asks) /\ Len(Tail(q)) = Len(q) - 1
        /\ \A i \in 1 .. Len(q) - 1 : Tail(q)[i] = q[i + 1]
    BY <1>1, <2>2 DEF Places
  <2>4. \A a \in Asks : (\E i \in DOMAIN Tail(q) : Tail(q)[i] = a) <=> (\E i \in 2 .. Len(q) : q[i] = a)
    <3> TAKE a \in Asks
    <3>1. ASSUME NEW i \in 2 .. Len(q), q[i] = a  PROVE \E k \in DOMAIN Tail(q) : Tail(q)[k] = a
      <4>1. i - 1 \in 1 .. Len(q) - 1 /\ Tail(q)[i - 1] = q[i]
        BY <2>2, <2>3
      <4>2. i - 1 \in DOMAIN Tail(q)
        BY <4>1, <2>3
      <4> QED BY <4>1, <4>2, <3>1
    <3>2. ASSUME NEW i \in DOMAIN Tail(q), Tail(q)[i] = a  PROVE \E k \in 2 .. Len(q) : q[k] = a
      <4>1. i + 1 \in 2 .. Len(q) /\ Tail(q)[i] = q[i + 1]
        BY <2>2, <2>3
      <4> QED BY <4>1, <3>2
    <3> QED BY <3>1, <3>2
  <2>5. Places(queue, active)'
    BY <1>1, <2>1, <2>2, <2>3 DEF Places
  <2>6. \A a \in Asks : Parked(a)' <=> Holds(q, act, a)
    <3> TAKE a \in Asks
    <3>1. Parked(a)' <=> (a = q[1] \/ \E i \in 2 .. Len(q) : q[i] = a)
      BY <2>1, <2>2, <2>4 DEF Parked
    <3>2. Holds(q, act, a) <=> \E i \in 1 .. Len(q) : q[i] = a
      BY <1>1, <2>2, NoAskAssumption DEF Holds, Places
    <3> QED BY <3>1, <3>2, <2>2
  <2> QED BY <1>1, <2>1, <2>2, <2>5, <2>6, NoAskAssumption DEF NobodyWaitsUnseen
<1>2. CASE ~(act = NoAsk /\ q # <<>>)
  BY <1>2 DEF Advance, Places, NobodyWaitsUnseen, Parked, Holds
<1> QED BY <1>1, <1>2

\* Taking a dialog out of the queue leaves the others where they were.
LEMMA UnqueuedPlaces ==
    ASSUME TypeOK, OnePlace, NEW i \in DOMAIN queue
    PROVE  /\ Places(Unqueued(i), active)
           /\ \A a \in Asks : Holds(Unqueued(i), active, a) <=> Parked(a) /\ a # queue[i]
<1> DEFINE q == Unqueued(i)
<1>1. Len(queue) \in Nat /\ i \in 1 .. Len(queue) /\ \A k \in 1 .. Len(queue) : queue[k] \in Asks
  BY DEF TypeOK
<1> DEFINE before == SubSeq(queue, 1, i - 1)
           after == SubSeq(queue, i + 1, Len(queue))
<1>a. before \in Seq(Asks) /\ Len(before) = i - 1 /\ \A k \in 1 .. i - 1 : before[k] = queue[k]
  BY <1>1 DEF TypeOK
<1>b. /\ after \in Seq(Asks) /\ Len(after) = Len(queue) - i
      /\ \A k \in 1 .. Len(queue) - i : after[k] = queue[i + k]
  BY <1>1 DEF TypeOK
<1>c. q = before \o after
  BY DEF Unqueued
<1> HIDE DEF before, after, q
<1>2. q \in Seq(Asks) /\ Len(q) = Len(queue) - 1
  BY <1>1, <1>a, <1>b, <1>c
<1>3. \A k \in 1 .. Len(q) : q[k] = IF k < i THEN queue[k] ELSE queue[k + 1]
  <2> TAKE k \in 1 .. Len(q)
  <2>1. k \in 1 .. Len(before) + Len(after) /\ k \in Nat
    BY <1>1, <1>2, <1>a, <1>b
  <2>2. q[k] = IF k <= Len(before) THEN before[k] ELSE after[k - Len(before)]
    BY <2>1, <1>a, <1>b, <1>c
  <2>3. CASE k < i
    BY <1>1, <1>a, <2>1, <2>2, <2>3
  <2>4. CASE ~(k < i)
    <3>1. k - (i - 1) \in 1 .. Len(queue) - i /\ i + (k - (i - 1)) = k + 1
      BY <1>1, <1>2, <2>1, <2>4
    <3>2. ~(k <= Len(before)) /\ k - Len(before) = k - (i - 1)
      BY <1>1, <1>a, <2>1, <2>4
    <3>3. after[k - (i - 1)] = queue[i + (k - (i - 1))]
      BY <1>b, <3>1
    <3> QED BY <2>2, <2>4, <3>1, <3>2, <3>3
  <2> QED BY <2>3, <2>4
<1>4. \A k, l \in 1 .. Len(queue) : queue[k] = queue[l] => k = l
  BY <1>1 DEF OnePlace, TypeOK
<1>5. \A k \in 1 .. Len(queue) : queue[k] # active
  BY <1>1 DEF OnePlace, TypeOK
<1>6. DOMAIN q = 1 .. Len(q)
  BY <1>2
<1>7. Places(q, active)
  <2>1. \A k, l \in 1 .. Len(q) : q[k] = q[l] => k = l
    BY <1>1, <1>2, <1>3, <1>4
  <2>2. \A k \in 1 .. Len(q) : q[k] # active
    BY <1>1, <1>2, <1>3, <1>5
  <2> QED BY <1>2, <1>6, <2>1, <2>2 DEF Places, TypeOK
<1>8. \A a \in Asks : (\E k \in 1 .. Len(q) : q[k] = a)
                       <=> (\E k \in 1 .. Len(queue) : queue[k] = a) /\ a # queue[i]
  <2> TAKE a \in Asks
  <2>1. ASSUME NEW k \in 1 .. Len(q), q[k] = a
        PROVE  (\E l \in 1 .. Len(queue) : queue[l] = a) /\ a # queue[i]
    BY <1>1, <1>2, <1>3, <1>4, <2>1
  <2>2. ASSUME NEW k \in 1 .. Len(queue), queue[k] = a, a # queue[i]
        PROVE  \E l \in 1 .. Len(q) : q[l] = a
    <3>1. CASE k < i
      <4>1. k \in 1 .. Len(q) /\ q[k] = queue[k]
        BY <1>1, <1>2, <1>3, <3>1
      <4> QED BY <4>1, <2>2
    <3>2. CASE ~(k < i)
      <4>1. k - 1 \in 1 .. Len(q) /\ ~(k - 1 < i) /\ (k - 1) + 1 = k
        BY <1>1, <1>2, <2>2, <3>2
      <4>2. q[k - 1] = queue[k]
        BY <1>3, <4>1
      <4> QED BY <4>1, <4>2, <2>2
    <3> QED BY <3>1, <3>2
  <2> QED BY <2>1, <2>2
<1>9. DOMAIN queue = 1 .. Len(queue)
  BY DEF TypeOK
<1> QED BY <1>1, <1>5, <1>6, <1>7, <1>8, <1>9 DEF Holds, Parked, q

\* A dialog that has no place yet gets one behind the others.
LEMMA AppendedPlaces ==
    ASSUME TypeOK, OnePlace, NEW a \in Asks, ~Parked(a)
    PROVE  /\ Places(Append(queue, a), active)
           /\ \A b \in Asks : Holds(Append(queue, a), active, b) <=> Parked(b) \/ b = a
<1> DEFINE q == Append(queue, a)
<1>1. a # active
  BY DEF Parked
<1>2. Len(queue) \in Nat /\ DOMAIN queue = 1 .. Len(queue)
  BY DEF TypeOK
<1>3. /\ q \in Seq(Asks) /\ Len(q) = Len(queue) + 1 /\ DOMAIN q = 1 .. Len(queue) + 1
      /\ \A i \in 1 .. Len(queue) : q[i] = queue[i]
      /\ q[Len(queue) + 1] = a
  BY <1>2 DEF TypeOK
<1> HIDE DEF q
<1>4. \A i \in DOMAIN q : i \in DOMAIN queue \/ i = Len(queue) + 1
  BY <1>2, <1>3
<1>5. \A i \in DOMAIN queue : i \in DOMAIN q /\ queue[i] # a
  BY <1>2, <1>3 DEF Parked
<1>6. Places(q, active)
  <2>1. \A i, j \in DOMAIN q : q[i] = q[j] => i = j
    BY <1>2, <1>3, <1>4, <1>5 DEF OnePlace
  <2>2. \A i \in DOMAIN q : q[i] # active
    BY <1>1, <1>2, <1>3, <1>4 DEF OnePlace
  <2> QED BY <1>3, <2>1, <2>2 DEF Places, TypeOK
<1>7. \A b \in Asks : Holds(q, active, b) <=> Parked(b) \/ b = a
  <2>1. Len(queue) + 1 \in DOMAIN q
    BY <1>2, <1>3
  <2> QED BY <1>2, <1>3, <1>4, <1>5, <2>1 DEF Holds, Parked
<1> QED BY <1>6, <1>7 DEF q

-----------------------------------------------------------------------------
\* The results after a step: who waits is who is parked, and the panel on
\* screen belongs to a dialog that waits only while it is the active one.
LEMMA Reparked ==
    ASSUME TypeOK', Places(queue, active)', NobodyWaitsUnseen', PanelIsCurrent',
           \A a \in Asks : result'[a] = "waiting" <=> Parked(a)'
    PROVE  DialogInv'
<1>1. OnePlace'
  BY DEF OnePlace, Places
<1> QED
  BY <1>1 DEF DialogInv

\* A fresh dialog is parked behind the others or becomes active.
LEMMA AskKeepsInv ==
    ASSUME DialogInv, NEW a \in Asks, Ask(a)
    PROVE  DialogInv' /\ Abstract!Ask(a)
<1> DEFINE q == Append(queue, a)
<1>1. result[a] = "new" /\ result' = [result EXCEPT ![a] = "waiting"] /\ UNCHANGED <<shown, chosen>>
      /\ Advance(q, active)
  BY DEF Ask
<1>2. ~Parked(a)
  BY <1>1 DEF DialogInv, OnePlace
<1>3. Places(q, active)
  BY <1>2, AppendedPlaces DEF DialogInv
<1>4. \A b \in Asks : Holds(q, active, b) <=> Parked(b) \/ b = a
  BY <1>2, AppendedPlaces DEF DialogInv
<1> HIDE DEF q
<1>5. /\ Places(queue, active)' /\ NobodyWaitsUnseen'
      /\ \A b \in Asks : Parked(b)' <=> Holds(q, active, b)
      /\ active # NoAsk => active' = active
  BY <1>1, <1>3, AdvanceKeepsPlaces
<1>6. TypeOK'
  BY <1>1, <1>5 DEF TypeOK, DialogInv, Places, Results
<1>7. PanelIsCurrent'
  BY <1>1, <1>5, NoAskAssumption DEF PanelIsCurrent, DialogInv, TypeOK
<1>8. \A b \in Asks : result'[b] = "waiting" <=> Parked(b)'
  BY <1>1, <1>4, <1>5 DEF DialogInv, OnePlace, TypeOK
<1> QED
  BY <1>1, <1>5, <1>6, <1>7, <1>8, Reparked DEF Abstract!Ask

\* An abort takes one dialog out of its place, the others keep theirs.
LEMMA WithdrawKeepsInv ==
    ASSUME DialogInv, NEW a \in Asks, Withdraw(a)
    PROVE  DialogInv' /\ Abstract!Withdraw({a})
<1>1. result[a] = "waiting" /\ result' = [result EXCEPT ![a] = "withdrawn"] /\ UNCHANGED <<shown, chosen>>
  BY DEF Withdraw
<1>2. PICK q, act :
        /\ Places(q, act) /\ Advance(q, act)
        /\ \A b \in Asks : Holds(q, act, b) <=> Parked(b) /\ b # a
        /\ active # a => act = active
  <2>1. CASE a = active /\ Advance(queue, NoAsk)
    <3>1. Places(queue, NoAsk)
      BY NoAskAssumption DEF DialogInv, OnePlace, Places, TypeOK
    <3>2. \A b \in Asks : Holds(queue, NoAsk, b) <=> Parked(b) /\ b # a
      BY <2>1, NoAskAssumption DEF DialogInv, OnePlace, Holds, Parked
    <3> QED BY <2>1, <3>1, <3>2
  <2>2. ASSUME NEW i \in DOMAIN queue, queue[i] = a, Advance(Unqueued(i), active)
        PROVE  \E q, act :
                 /\ Places(q, act) /\ Advance(q, act)
                 /\ \A b \in Asks : Holds(q, act, b) <=> Parked(b) /\ b # a
                 /\ active # a => act = active
    BY <2>2, UnqueuedPlaces DEF DialogInv
  <2> QED BY <2>1, <2>2 DEF Withdraw, AfterAbort
<1>3. /\ Places(queue, active)' /\ NobodyWaitsUnseen'
      /\ \A b \in Asks : Parked(b)' <=> Holds(q, act, b)
      /\ act # NoAsk => active' = act
  BY <1>2, AdvanceKeepsPlaces
<1>4. TypeOK'
  BY <1>1, <1>3 DEF TypeOK, DialogInv, Places, Results
<1>5. PanelIsCurrent'
  BY <1>1, <1>2, <1>3, NoAskAssumption DEF PanelIsCurrent, DialogInv, TypeOK
<1>6. \A b \in Asks : result'[b] = "waiting" <=> Parked(b)'
  BY <1>1, <1>2, <1>3 DEF DialogInv, OnePlace, TypeOK
<1>7. result' = [b \in Asks |-> IF b \in {a} THEN "withdrawn" ELSE result[b]]
  BY <1>1 DEF DialogInv, TypeOK
<1> QED
  BY <1>1, <1>3, <1>4, <1>5, <1>6, <1>7, Reparked DEF Abstract!Withdraw

\* A key reaches the dialog whose panel it was pressed on, or nothing.
LEMMA PressKeepsInv ==
    ASSUME DialogInv, NEW v \in Answers, Press(v)
    PROVE  DialogInv' /\ shown \in Asks /\ Abstract!Choose(shown, v)
<1>1. shown \in Asks /\ UNCHANGED shown /\ chosen' = chosen \cup {<<shown, v>>}
  BY DEF Press, DialogInv, TypeOK
<1>2. result[shown] # "new" /\ (result[shown] = "waiting" => active = shown)
  BY <1>1, NoAskAssumption DEF DialogInv, PanelIsCurrent
<1>3. CASE FromActivePanel
  <2>1. active = shown /\ result[shown] = "waiting"
    BY <1>1, <1>3 DEF FromActivePanel, DialogInv, OnePlace, Parked
  <2>2. result' = [result EXCEPT ![shown] = v] /\ Advance(queue, NoAsk)
    BY <1>3, <2>1 DEF Press, AfterAnswer
  <2>3. Places(queue, NoAsk)
    BY NoAskAssumption DEF DialogInv, OnePlace, Places, TypeOK
  <2>4. \A b \in Asks : Holds(queue, NoAsk, b) <=> Parked(b) /\ b # shown
    BY <2>1, NoAskAssumption DEF DialogInv, OnePlace, Holds, Parked
  <2>5. Places(queue, active)' /\ NobodyWaitsUnseen'
        /\ \A b \in Asks : Parked(b)' <=> Holds(queue, NoAsk, b)
    BY <2>2, <2>3, AdvanceKeepsPlaces
  <2>6. v # "waiting" /\ v # "new" /\ v \in Results
    BY AnswersAssumption DEF Results
  <2>7. TypeOK'
    BY <1>1, <2>2, <2>5, <2>6 DEF TypeOK, DialogInv, Places
  <2>8. PanelIsCurrent'
    BY <1>1, <2>2, <2>6 DEF PanelIsCurrent, DialogInv, TypeOK
  <2>9. \A b \in Asks : result'[b] = "waiting" <=> Parked(b)'
    BY <2>2, <2>4, <2>5, <2>6 DEF DialogInv, OnePlace, TypeOK
  <2> QED
    BY <1>1, <1>2, <2>1, <2>2, <2>5, <2>7, <2>8, <2>9, Reparked DEF Abstract!Choose
<1>4. CASE ~FromActivePanel
  <2>1. UNCHANGED <<queue, active, result>>
    BY <1>4 DEF Press
  <2>2. result[shown] # "waiting"
    BY <1>1, <1>2, <1>4, NoAskAssumption DEF FromActivePanel
  <2>3. DialogInv'
    BY <1>1, <2>1 DEF DialogInv, TypeOK, OnePlace, NobodyWaitsUnseen, PanelIsCurrent, Parked
  <2> QED
    BY <1>1, <1>2, <2>1, <2>2, <2>3 DEF Abstract!Choose
<1> QED BY <1>3, <1>4

\* Teardown empties every place.
LEMMA SettleAllKeepsInv ==
    ASSUME DialogInv, SettleAll
    PROVE  DialogInv' /\ Abstract!Withdraw({a \in Asks : Parked(a)})
<1>1. /\ result' = [a \in Asks |-> IF Parked(a) THEN "withdrawn" ELSE result[a]]
      /\ queue' = <<>> /\ active' = NoAsk /\ UNCHANGED <<shown, chosen>>
  BY DEF SettleAll
<1>2. \A a \in Asks : ~Parked(a)' /\ result'[a] # "waiting"
  BY <1>1, NoAskAssumption DEF Parked, DialogInv, OnePlace
<1>3. \A a \in Asks : result[a] # "new" => result'[a] # "new"
  BY <1>1
<1>4. DialogInv'
  BY <1>1, <1>2, <1>3, NoAskAssumption
     DEF DialogInv, TypeOK, OnePlace, NobodyWaitsUnseen, PanelIsCurrent, Results
<1>5. \A a \in Asks : Parked(a) => result[a] = "waiting"
  BY DEF DialogInv, OnePlace
<1> QED
  BY <1>1, <1>4, <1>5 DEF Abstract!Withdraw

\* AskInVain never parks, and Render only moves the panel to the active dialog.
LEMMA OthersKeepInv ==
    ASSUME DialogInv
    PROVE  /\ \A a \in Asks : AskInVain(a) => DialogInv' /\ Abstract!Withdraw({a})
           /\ Render => DialogInv' /\ UNCHANGED <<result, chosen>>
<1>1. ASSUME NEW a \in Asks, AskInVain(a)  PROVE DialogInv' /\ Abstract!Withdraw({a})
  <2>1. result[a] = "new" /\ result' = [result EXCEPT ![a] = "withdrawn"]
        /\ UNCHANGED <<queue, active, shown, chosen>>
    BY <1>1 DEF AskInVain
  <2>2. result' = [b \in Asks |-> IF b \in {a} THEN "withdrawn" ELSE result[b]]
    BY <2>1 DEF DialogInv, TypeOK
  <2>3. TypeOK'
    BY <2>1 DEF DialogInv, TypeOK, Results
  <2>4. \A b \in Asks : result'[b] = "waiting" <=> result[b] = "waiting"
    BY <2>1, <2>2
  <2>5. OnePlace'
    BY <2>1, <2>4 DEF DialogInv, OnePlace, Parked
  <2>6. PanelIsCurrent' /\ NobodyWaitsUnseen'
    BY <2>1, <2>2, <2>4 DEF DialogInv, TypeOK, PanelIsCurrent, NobodyWaitsUnseen
  <2> QED BY <2>1, <2>2, <2>3, <2>5, <2>6 DEF DialogInv, Abstract!Withdraw
<1>2. ASSUME Render  PROVE DialogInv' /\ UNCHANGED <<result, chosen>>
  <2>1. shown' = active /\ UNCHANGED <<queue, active, result, chosen>>
    BY <1>2 DEF Render
  <2>2. active # NoAsk => active \in Asks /\ result[active] = "waiting"
    BY DEF DialogInv, OnePlace, TypeOK, Parked
  <2> QED
    BY <2>1, <2>2 DEF DialogInv, TypeOK, OnePlace, NobodyWaitsUnseen, PanelIsCurrent, Parked
<1> QED BY <1>1, <1>2

-----------------------------------------------------------------------------
\* At first nothing is asked, parked or shown.
LEMMA DialogInit == Init => DialogInv
  BY NoAskAssumption DEF Init, DialogInv, TypeOK, OnePlace, NobodyWaitsUnseen, PanelIsCurrent,
                         Parked, Results

\* Every action keeps the invariant and is a step of AskOnce or a stutter.
LEMMA DialogStep ==
    DialogInv /\ [Next]_vars
        => DialogInv' /\ [Abstract!Next]_<<result, chosen>>
<1> SUFFICES ASSUME DialogInv, [Next]_vars
             PROVE  DialogInv' /\ [Abstract!Next]_<<result, chosen>>
  OBVIOUS
<1>1. ASSUME NEW a \in Asks, Ask(a)  PROVE DialogInv' /\ Abstract!Next
  BY <1>1, AskKeepsInv DEF Abstract!Next
<1>2. ASSUME NEW a \in Asks, AskInVain(a) \/ Withdraw(a)  PROVE DialogInv' /\ Abstract!Next
  <2>1. DialogInv' /\ Abstract!Withdraw({a})
    BY <1>2, WithdrawKeepsInv, OthersKeepInv
  <2>2. {a} \in SUBSET Asks
    OBVIOUS
  <2> QED BY <2>1, <2>2 DEF Abstract!Next
<1>3. ASSUME NEW v \in Answers, Press(v)  PROVE DialogInv' /\ Abstract!Next
  BY <1>3, PressKeepsInv DEF Abstract!Next
<1>4. CASE Render
  BY <1>4, OthersKeepInv
<1>5. CASE SettleAll
  <2>1. DialogInv' /\ Abstract!Withdraw({a \in Asks : Parked(a)})
    BY <1>5, SettleAllKeepsInv
  <2>2. {a \in Asks : Parked(a)} \in SUBSET Asks
    OBVIOUS
  <2> QED BY <2>1, <2>2 DEF Abstract!Next
<1>6. CASE UNCHANGED vars
  BY <1>6 DEF vars, DialogInv, TypeOK, OnePlace, NobodyWaitsUnseen, PanelIsCurrent, Parked
<1> QED
  BY <1>1, <1>2, <1>3, <1>4, <1>5, <1>6 DEF Next

\* Whatever is asked, withdrawn, pressed or torn down, in any order: a dialog
\* waits in one place, nobody waits unseen, a panel that can still be answered
\* is the active one.
THEOREM DialogsInvariant == Spec => []DialogInv
<1>1. Init => DialogInv
  BY DialogInit
<1>2. DialogInv /\ [Next]_vars => DialogInv'
  BY DialogStep
<1>3. DialogInv => TypeOK /\ OnePlace /\ NobodyWaitsUnseen /\ PanelIsCurrent
  BY DEF DialogInv
<1> QED
  BY <1>1, <1>2, <1>3, PTL DEF Spec

\* The store implements AskOnce: an answer is one the user gave on that very
\* dialog, and a settled dialog keeps its result, for any number of dialogs.
THEOREM StoreImplementsAskOnce == Spec => ImplementsAskOnce
<1>1. Init => Abstract!Init
  BY DEF Init, Abstract!Init
<1>2. Init => DialogInv
  BY DialogInit
<1>3. DialogInv /\ [Next]_vars => DialogInv' /\ [Abstract!Next]_<<result, chosen>>
  BY DialogStep
<1> QED
  BY <1>1, <1>2, <1>3, PTL DEF Spec, ImplementsAskOnce, Abstract!Spec
=============================================================================
