------------------------ MODULE SessionRecoveryProofs ------------------------
(***************************************************************************)
(* SessionRecovery is safe, for every set of messages, number of turns,    *)
(* steps and crashes, and every place a crash can cut the log:             *)
(* RecoveryIsSafe, EffectsSurvive, EffectsAreKnown, MessagesAreAccounted.  *)
(*                                                                         *)
(* A log is good when each of its events may follow those before it.  Each *)
(* beginning of a good log is good, so a crash leaves a good log; in a     *)
(* good log the grammar, the repair's scan, the inbox replay and the turn  *)
(* counter agree (Fit); so the repair's closers may follow.  The inductive *)
(* invariant IInv says that the log with what was torn off and what the    *)
(* repair has drafted is good, and that the driver is where it has come to.*)
(* That foldConsumedWork accounts for what left the inbox (AccountsFit) is *)
(* so of every good log too.                                               *)
(***************************************************************************)
EXTENDS SessionRecovery, WellFoundedInduction, TLAPS

-----------------------------------------------------------------------------
(***************************************************************************)
(* Induction, and how the folds of the log unfold.  The provers take no    *)
(* operator for a parameter, so there is one such group for each fold.     *)
(***************************************************************************)
\* Every nonempty set of naturals has a least element.
LEMMA LeastElement ==
    ASSUME NEW T \in SUBSET Nat, T # {}
    PROVE  \E n \in T : \A i \in T : n <= i
<1> DEFINE R == OpToRel(<, Nat)
<1>1. IsWellFoundedOn(R, Nat)
  BY NatLessThanWellFounded
<1>2. \A i, n \in Nat : i < n => <<i, n>> \in R
  BY DEF OpToRel
<1> HIDE DEF R
<1>3. PICK n \in T : \A i \in T : ~ (<<i, n>> \in R)
  BY <1>1, WFMin
<1>4. \A i \in T : ~ (i < n)
  BY <1>2, <1>3
<1> QED BY <1>3, <1>4

\* What holds of 0 and passes from each number to the next holds of all.
LEMMA SetInduction ==
    ASSUME NEW S, 0 \in S, \A n \in Nat : n \in S => n + 1 \in S
    PROVE  Nat \subseteq S
<1> SUFFICES ASSUME Nat \ S # {}  PROVE FALSE
  OBVIOUS
<1> DEFINE T == Nat \ S
<1>1. T \in SUBSET Nat /\ T # {}
  OBVIOUS
<1> HIDE DEF T
<1>2. PICK n \in T : \A i \in T : n <= i
  BY <1>1, LeastElement
<1>3. n \in Nat /\ n # 0 /\ n \notin S
  BY <1>2 DEF T
<1>4. n - 1 \in Nat /\ n - 1 + 1 = n /\ ~ (n <= n - 1)
  BY <1>3
<1>5. n - 1 \in S
  BY <1>2, <1>4 DEF T
<1> QED BY <1>3, <1>4, <1>5

\* The companion's fold.
TraceRun(s) ==
    CHOOSE g : g = [i \in 0..Len(s) |-> IF i = 0 THEN Grammar!FreshTrace ELSE Grammar!Apply(g[i - 1], s[i])]

\* The value of the fold is the last of its run: the grammar.
LEMMA TraceIsRun == \A s : Trace(s) = TraceRun(s)[Len(s)]
BY DEF Trace, Fold, Runs, TraceRun

\* The run exists: every finite sequence has one.
LEMMA TraceRuns ==
    ASSUME NEW s, Len(s) \in Nat
    PROVE  TraceRun(s) = [i \in 0..Len(s) |-> IF i = 0 THEN Grammar!FreshTrace ELSE Grammar!Apply(TraceRun(s)[i - 1], s[i])]
<1> DEFINE Walks(n, g) == g = [i \in 0..n |-> IF i = 0 THEN Grammar!FreshTrace ELSE Grammar!Apply(g[i - 1], s[i])]
           S == {n \in Nat : \E g : Walks(n, g)}
<1>1. 0 \in S
  <2>1. Walks(0, [i \in 0..0 |-> Grammar!FreshTrace])
    OBVIOUS
  <2> QED BY <2>1
<1>2. ASSUME NEW n \in Nat, n \in S  PROVE n + 1 \in S
  <2>1. PICK g : Walks(n, g)
    BY <1>2
  <2> DEFINE last == Grammar!Apply(g[n], s[n + 1])
             h == [i \in 0..(n + 1) |-> IF i = n + 1 THEN last ELSE g[i]]
  <2>2. \A i \in 0..n : g[i] = IF i = 0 THEN Grammar!FreshTrace ELSE Grammar!Apply(g[i - 1], s[i])
    BY <2>1
  <2>3. h[n + 1] = last /\ \A i \in 0..n : h[i] = g[i]
    OBVIOUS
  <2>4. h = [i \in 0..(n + 1) |-> h[i]]
    OBVIOUS
  <2> HIDE DEF h
  <2>5. \A i \in 0..(n + 1) : h[i] = IF i = 0 THEN Grammar!FreshTrace ELSE Grammar!Apply(h[i - 1], s[i])
    <3> TAKE i \in 0..(n + 1)
    <3>1. CASE i = n + 1
      <4>1. i # 0 /\ i - 1 = n /\ h[i - 1] = g[n]
        BY <2>3, <3>1
      <4> QED BY <2>3, <3>1, <4>1
    <3>2. CASE i \in 0..n /\ i # 0
      <4>1. i - 1 \in 0..n
        BY <3>2
      <4>2. h[i] = g[i] /\ h[i - 1] = g[i - 1]
        BY <2>3, <3>2, <4>1
      <4> QED BY <2>2, <3>2, <4>2
    <3>3. CASE i = 0
      BY <2>2, <2>3, <3>3
    <3> QED BY <3>1, <3>2, <3>3
  <2> HIDE DEF last
  <2>6. [i \in 0..(n + 1) |-> h[i]] = [i \in 0..(n + 1) |-> IF i = 0 THEN Grammar!FreshTrace ELSE Grammar!Apply(h[i - 1], s[i])]
    BY <2>5
  <2>7. h = [i \in 0..(n + 1) |-> IF i = 0 THEN Grammar!FreshTrace ELSE Grammar!Apply(h[i - 1], s[i])]
    BY <2>4, <2>6, Zenon
  <2>8. Walks(n + 1, h)
    BY <2>7
  <2>9. \E g2 : Walks(n + 1, g2)
    BY <2>8, Zenon
  <2> HIDE DEF Walks
  <2> QED BY <2>9
<1>3. Len(s) \in S
  <2> HIDE DEF S
  <2> QED BY <1>1, <1>2, SetInduction
<1>4. PICK g : Walks(Len(s), g)
  BY <1>3
<1> QED BY <1>4 DEF TraceRun

\* Over the empty sequence the fold is its base.
LEMMA TraceOfNone == Trace(<<>>) = Grammar!FreshTrace
<1>1. Len(<<>>) = 0 /\ 0 \in Nat /\ 0 \in 0..0
  OBVIOUS
<1> DEFINE s == <<>>
           f == TraceRun(s)
<1>a. Len(s) = 0
  BY <1>1
<1> HIDE DEF s
<1>b. f = [i \in 0..Len(s) |-> IF i = 0 THEN Grammar!FreshTrace ELSE Grammar!Apply(f[i - 1], s[i])]
  BY <1>1, <1>a, TraceRuns
<1> HIDE DEF f
<1>c. f[0] = Grammar!FreshTrace
  BY <1>1, <1>a, <1>b
<1>2. TraceRun(<<>>)[0] = Grammar!FreshTrace
  BY <1>c DEF f, s
<1> QED BY <1>1, <1>2, TraceIsRun

\* One more element is one more step of the fold.
LEMMA TraceUnfolds ==
    ASSUME NEW E, NEW s \in Seq(E), NEW e \in E
    PROVE  Trace(Append(s, e)) = Grammar!Apply(Trace(s), e)
<1> DEFINE t == Append(s, e)
           n == Len(s)
           f == TraceRun(s)
           g == TraceRun(t)
           S == {i \in Nat : i <= n => f[i] = g[i]}
<1>1. n \in Nat /\ Len(t) = n + 1 /\ t[n + 1] = e /\ \A i \in 1..n : t[i] = s[i]
  OBVIOUS
<1> HIDE DEF t
<1>2. f = [i \in 0..n |-> IF i = 0 THEN Grammar!FreshTrace ELSE Grammar!Apply(f[i - 1], s[i])]
  BY <1>1, TraceRuns
<1>3. g = [i \in 0..(n + 1) |-> IF i = 0 THEN Grammar!FreshTrace ELSE Grammar!Apply(g[i - 1], t[i])]
  BY <1>1, TraceRuns
<1> HIDE DEF f, g, n
<1>4. 0 \in S
  BY <1>1, <1>2, <1>3
<1>5. ASSUME NEW i \in Nat, i \in S  PROVE i + 1 \in S
  <2>1. SUFFICES ASSUME i + 1 <= n  PROVE f[i + 1] = g[i + 1]
    OBVIOUS
  <2>2. /\ i \in 0..n /\ i + 1 \in 0..n /\ i + 1 \in 0..(n + 1) /\ i + 1 \in 1..n
        /\ i + 1 # 0 /\ (i + 1) - 1 = i
    BY <1>1, <2>1
  <2>3. f[i] = g[i] /\ t[i + 1] = s[i + 1]
    BY <1>1, <1>5, <2>2
  <2>4. f[i + 1] = Grammar!Apply(f[i], s[i + 1])
    BY <1>2, <2>2
  <2>5. g[i + 1] = Grammar!Apply(g[i], t[i + 1])
    BY <1>3, <2>2
  <2> QED BY <2>3, <2>4, <2>5
<1>6. f[n] = g[n]
  <2>1. n \in S
    <3> HIDE DEF S
    <3> QED BY <1>1, <1>4, <1>5, SetInduction
  <2> QED BY <1>1, <2>1
<1>7. g[n + 1] = Grammar!Apply(g[n], e)
  <2>1. n + 1 \in 0..(n + 1) /\ n + 1 # 0 /\ (n + 1) - 1 = n
    BY <1>1
  <2>2. g[n + 1] = Grammar!Apply(g[n], t[n + 1])
    BY <1>3, <2>1
  <2> QED BY <1>1, <2>2
<1>8. Trace(s) = f[n] /\ Trace(t) = g[n + 1]
  BY <1>1, TraceIsRun DEF f, g, n
<1>9. Trace(t) = Grammar!Apply(Trace(s), e)
  BY <1>6, <1>7, <1>8
<1> QED BY <1>9 DEF t

\* The latest turn.
LastTurnRun(s) ==
    CHOOSE g : g = [i \in 0..Len(s) |-> IF i = 0 THEN 0 ELSE (IF s[i].type = "turn/start" THEN s[i].turn ELSE g[i - 1])]

\* The value of the fold is the last of its run: the turn counter.
LEMMA LastTurnIsRun == \A s : LastTurn(s) = LastTurnRun(s)[Len(s)]
BY DEF LastTurn, Fold, Runs, LastTurnRun

\* The run exists: every finite sequence has one.
LEMMA LastTurnRuns ==
    ASSUME NEW s, Len(s) \in Nat
    PROVE  LastTurnRun(s) = [i \in 0..Len(s) |-> IF i = 0 THEN 0 ELSE (IF s[i].type = "turn/start" THEN s[i].turn ELSE LastTurnRun(s)[i - 1])]
<1> DEFINE Walks(n, g) == g = [i \in 0..n |-> IF i = 0 THEN 0 ELSE (IF s[i].type = "turn/start" THEN s[i].turn ELSE g[i - 1])]
           S == {n \in Nat : \E g : Walks(n, g)}
<1>1. 0 \in S
  <2>1. Walks(0, [i \in 0..0 |-> 0])
    OBVIOUS
  <2> QED BY <2>1
<1>2. ASSUME NEW n \in Nat, n \in S  PROVE n + 1 \in S
  <2>1. PICK g : Walks(n, g)
    BY <1>2
  <2> DEFINE last == (IF s[n + 1].type = "turn/start" THEN s[n + 1].turn ELSE g[n])
             h == [i \in 0..(n + 1) |-> IF i = n + 1 THEN last ELSE g[i]]
  <2>2. \A i \in 0..n : g[i] = IF i = 0 THEN 0 ELSE (IF s[i].type = "turn/start" THEN s[i].turn ELSE g[i - 1])
    BY <2>1
  <2>3. h[n + 1] = last /\ \A i \in 0..n : h[i] = g[i]
    OBVIOUS
  <2>4. h = [i \in 0..(n + 1) |-> h[i]]
    OBVIOUS
  <2> HIDE DEF h
  <2>5. \A i \in 0..(n + 1) : h[i] = IF i = 0 THEN 0 ELSE (IF s[i].type = "turn/start" THEN s[i].turn ELSE h[i - 1])
    <3> TAKE i \in 0..(n + 1)
    <3>1. CASE i = n + 1
      <4>1. i # 0 /\ i - 1 = n /\ h[i - 1] = g[n]
        BY <2>3, <3>1
      <4> QED BY <2>3, <3>1, <4>1
    <3>2. CASE i \in 0..n /\ i # 0
      <4>1. i - 1 \in 0..n
        BY <3>2
      <4>2. h[i] = g[i] /\ h[i - 1] = g[i - 1]
        BY <2>3, <3>2, <4>1
      <4> QED BY <2>2, <3>2, <4>2
    <3>3. CASE i = 0
      BY <2>2, <2>3, <3>3
    <3> QED BY <3>1, <3>2, <3>3
  <2> HIDE DEF last
  <2>6. [i \in 0..(n + 1) |-> h[i]] = [i \in 0..(n + 1) |-> IF i = 0 THEN 0 ELSE (IF s[i].type = "turn/start" THEN s[i].turn ELSE h[i - 1])]
    BY <2>5
  <2>7. h = [i \in 0..(n + 1) |-> IF i = 0 THEN 0 ELSE (IF s[i].type = "turn/start" THEN s[i].turn ELSE h[i - 1])]
    BY <2>4, <2>6, Zenon
  <2>8. Walks(n + 1, h)
    BY <2>7
  <2>9. \E g2 : Walks(n + 1, g2)
    BY <2>8, Zenon
  <2> HIDE DEF Walks
  <2> QED BY <2>9
<1>3. Len(s) \in S
  <2> HIDE DEF S
  <2> QED BY <1>1, <1>2, SetInduction
<1>4. PICK g : Walks(Len(s), g)
  BY <1>3
<1> QED BY <1>4 DEF LastTurnRun

\* Over the empty sequence the fold is its base.
LEMMA LastTurnOfNone == LastTurn(<<>>) = 0
<1>1. Len(<<>>) = 0 /\ 0 \in Nat /\ 0 \in 0..0
  OBVIOUS
<1> DEFINE s == <<>>
           f == LastTurnRun(s)
<1>a. Len(s) = 0
  BY <1>1
<1> HIDE DEF s
<1>b. f = [i \in 0..Len(s) |-> IF i = 0 THEN 0 ELSE (IF s[i].type = "turn/start" THEN s[i].turn ELSE f[i - 1])]
  BY <1>1, <1>a, LastTurnRuns
<1> HIDE DEF f
<1>c. f[0] = 0
  BY <1>1, <1>a, <1>b
<1>2. LastTurnRun(<<>>)[0] = 0
  BY <1>c DEF f, s
<1> QED BY <1>1, <1>2, LastTurnIsRun

\* One more element is one more step of the fold.
LEMMA LastTurnUnfolds ==
    ASSUME NEW E, NEW s \in Seq(E), NEW e \in E
    PROVE  LastTurn(Append(s, e)) = (IF e.type = "turn/start" THEN e.turn ELSE LastTurn(s))
<1> DEFINE t == Append(s, e)
           n == Len(s)
           f == LastTurnRun(s)
           g == LastTurnRun(t)
           S == {i \in Nat : i <= n => f[i] = g[i]}
<1>1. n \in Nat /\ Len(t) = n + 1 /\ t[n + 1] = e /\ \A i \in 1..n : t[i] = s[i]
  OBVIOUS
<1> HIDE DEF t
<1>2. f = [i \in 0..n |-> IF i = 0 THEN 0 ELSE (IF s[i].type = "turn/start" THEN s[i].turn ELSE f[i - 1])]
  BY <1>1, LastTurnRuns
<1>3. g = [i \in 0..(n + 1) |-> IF i = 0 THEN 0 ELSE (IF t[i].type = "turn/start" THEN t[i].turn ELSE g[i - 1])]
  BY <1>1, LastTurnRuns
<1> HIDE DEF f, g, n
<1>4. 0 \in S
  BY <1>1, <1>2, <1>3
<1>5. ASSUME NEW i \in Nat, i \in S  PROVE i + 1 \in S
  <2>1. SUFFICES ASSUME i + 1 <= n  PROVE f[i + 1] = g[i + 1]
    OBVIOUS
  <2>2. /\ i \in 0..n /\ i + 1 \in 0..n /\ i + 1 \in 0..(n + 1) /\ i + 1 \in 1..n
        /\ i + 1 # 0 /\ (i + 1) - 1 = i
    BY <1>1, <2>1
  <2>3. f[i] = g[i] /\ t[i + 1] = s[i + 1]
    BY <1>1, <1>5, <2>2
  <2>4. f[i + 1] = (IF s[i + 1].type = "turn/start" THEN s[i + 1].turn ELSE f[i])
    BY <1>2, <2>2
  <2>5. g[i + 1] = (IF t[i + 1].type = "turn/start" THEN t[i + 1].turn ELSE g[i])
    BY <1>3, <2>2
  <2> QED BY <2>3, <2>4, <2>5
<1>6. f[n] = g[n]
  <2>1. n \in S
    <3> HIDE DEF S
    <3> QED BY <1>1, <1>4, <1>5, SetInduction
  <2> QED BY <1>1, <2>1
<1>7. g[n + 1] = (IF e.type = "turn/start" THEN e.turn ELSE g[n])
  <2>1. n + 1 \in 0..(n + 1) /\ n + 1 # 0 /\ (n + 1) - 1 = n
    BY <1>1
  <2>2. g[n + 1] = (IF t[n + 1].type = "turn/start" THEN t[n + 1].turn ELSE g[n])
    BY <1>3, <2>1
  <2> QED BY <1>1, <2>2
<1>8. LastTurn(s) = f[n] /\ LastTurn(t) = g[n + 1]
  BY <1>1, LastTurnIsRun DEF f, g, n
<1>9. LastTurn(t) = (IF e.type = "turn/start" THEN e.turn ELSE LastTurn(s))
  BY <1>6, <1>7, <1>8
<1> QED BY <1>9 DEF t

\* The inbox.
ReplayedRun(s) ==
    CHOOSE g : g = [i \in 0..Len(s) |-> IF i = 0 THEN EmptyInbox ELSE (IF IsSplice(s[i]) THEN Splice(g[i - 1], s[i].target, s[i].start, s[i].removed, s[i].inserted) ELSE g[i - 1])]

\* The value of the fold is the last of its run: the inbox replay.
LEMMA ReplayedIsRun == \A s : Replayed(s) = ReplayedRun(s)[Len(s)]
BY DEF Replayed, Fold, Runs, ReplayedRun

\* The run exists: every finite sequence has one.
LEMMA ReplayedRuns ==
    ASSUME NEW s, Len(s) \in Nat
    PROVE  ReplayedRun(s) = [i \in 0..Len(s) |-> IF i = 0 THEN EmptyInbox ELSE (IF IsSplice(s[i]) THEN Splice(ReplayedRun(s)[i - 1], s[i].target, s[i].start, s[i].removed, s[i].inserted) ELSE ReplayedRun(s)[i - 1])]
<1> DEFINE Walks(n, g) == g = [i \in 0..n |-> IF i = 0 THEN EmptyInbox ELSE (IF IsSplice(s[i]) THEN Splice(g[i - 1], s[i].target, s[i].start, s[i].removed, s[i].inserted) ELSE g[i - 1])]
           S == {n \in Nat : \E g : Walks(n, g)}
<1>1. 0 \in S
  <2>1. Walks(0, [i \in 0..0 |-> EmptyInbox])
    OBVIOUS
  <2> QED BY <2>1
<1>2. ASSUME NEW n \in Nat, n \in S  PROVE n + 1 \in S
  <2>1. PICK g : Walks(n, g)
    BY <1>2
  <2> DEFINE last == (IF IsSplice(s[n + 1]) THEN Splice(g[n], s[n + 1].target, s[n + 1].start, s[n + 1].removed, s[n + 1].inserted) ELSE g[n])
             h == [i \in 0..(n + 1) |-> IF i = n + 1 THEN last ELSE g[i]]
  <2>2. \A i \in 0..n : g[i] = IF i = 0 THEN EmptyInbox ELSE (IF IsSplice(s[i]) THEN Splice(g[i - 1], s[i].target, s[i].start, s[i].removed, s[i].inserted) ELSE g[i - 1])
    BY <2>1
  <2>3. h[n + 1] = last /\ \A i \in 0..n : h[i] = g[i]
    OBVIOUS
  <2>4. h = [i \in 0..(n + 1) |-> h[i]]
    OBVIOUS
  <2> HIDE DEF h
  <2>5. \A i \in 0..(n + 1) : h[i] = IF i = 0 THEN EmptyInbox ELSE (IF IsSplice(s[i]) THEN Splice(h[i - 1], s[i].target, s[i].start, s[i].removed, s[i].inserted) ELSE h[i - 1])
    <3> TAKE i \in 0..(n + 1)
    <3>1. CASE i = n + 1
      <4>1. i # 0 /\ i - 1 = n /\ h[i - 1] = g[n]
        BY <2>3, <3>1
      <4> QED BY <2>3, <3>1, <4>1
    <3>2. CASE i \in 0..n /\ i # 0
      <4>1. i - 1 \in 0..n
        BY <3>2
      <4>2. h[i] = g[i] /\ h[i - 1] = g[i - 1]
        BY <2>3, <3>2, <4>1
      <4> QED BY <2>2, <3>2, <4>2
    <3>3. CASE i = 0
      BY <2>2, <2>3, <3>3
    <3> QED BY <3>1, <3>2, <3>3
  <2> HIDE DEF last
  <2>6. [i \in 0..(n + 1) |-> h[i]] = [i \in 0..(n + 1) |-> IF i = 0 THEN EmptyInbox ELSE (IF IsSplice(s[i]) THEN Splice(h[i - 1], s[i].target, s[i].start, s[i].removed, s[i].inserted) ELSE h[i - 1])]
    BY <2>5
  <2>7. h = [i \in 0..(n + 1) |-> IF i = 0 THEN EmptyInbox ELSE (IF IsSplice(s[i]) THEN Splice(h[i - 1], s[i].target, s[i].start, s[i].removed, s[i].inserted) ELSE h[i - 1])]
    BY <2>4, <2>6, Zenon
  <2>8. Walks(n + 1, h)
    BY <2>7
  <2>9. \E g2 : Walks(n + 1, g2)
    BY <2>8, Zenon
  <2> HIDE DEF Walks
  <2> QED BY <2>9
<1>3. Len(s) \in S
  <2> HIDE DEF S
  <2> QED BY <1>1, <1>2, SetInduction
<1>4. PICK g : Walks(Len(s), g)
  BY <1>3
<1> QED BY <1>4 DEF ReplayedRun

\* Over the empty sequence the fold is its base.
LEMMA ReplayedOfNone == Replayed(<<>>) = EmptyInbox
<1>1. Len(<<>>) = 0 /\ 0 \in Nat /\ 0 \in 0..0
  OBVIOUS
<1> DEFINE s == <<>>
           f == ReplayedRun(s)
<1>a. Len(s) = 0
  BY <1>1
<1> HIDE DEF s
<1>b. f = [i \in 0..Len(s) |-> IF i = 0 THEN EmptyInbox ELSE (IF IsSplice(s[i]) THEN Splice(f[i - 1], s[i].target, s[i].start, s[i].removed, s[i].inserted) ELSE f[i - 1])]
  BY <1>1, <1>a, ReplayedRuns
<1> HIDE DEF f
<1>c. f[0] = EmptyInbox
  BY <1>1, <1>a, <1>b
<1>2. ReplayedRun(<<>>)[0] = EmptyInbox
  BY <1>c DEF f, s
<1> QED BY <1>1, <1>2, ReplayedIsRun

\* One more element is one more step of the fold.
LEMMA ReplayedUnfolds ==
    ASSUME NEW E, NEW s \in Seq(E), NEW e \in E
    PROVE  Replayed(Append(s, e)) = (IF IsSplice(e) THEN Splice(Replayed(s), e.target, e.start, e.removed, e.inserted) ELSE Replayed(s))
<1> DEFINE t == Append(s, e)
           n == Len(s)
           f == ReplayedRun(s)
           g == ReplayedRun(t)
           S == {i \in Nat : i <= n => f[i] = g[i]}
<1>1. n \in Nat /\ Len(t) = n + 1 /\ t[n + 1] = e /\ \A i \in 1..n : t[i] = s[i]
  OBVIOUS
<1> HIDE DEF t
<1>2. f = [i \in 0..n |-> IF i = 0 THEN EmptyInbox ELSE (IF IsSplice(s[i]) THEN Splice(f[i - 1], s[i].target, s[i].start, s[i].removed, s[i].inserted) ELSE f[i - 1])]
  BY <1>1, ReplayedRuns
<1>3. g = [i \in 0..(n + 1) |-> IF i = 0 THEN EmptyInbox ELSE (IF IsSplice(t[i]) THEN Splice(g[i - 1], t[i].target, t[i].start, t[i].removed, t[i].inserted) ELSE g[i - 1])]
  BY <1>1, ReplayedRuns
<1> HIDE DEF f, g, n
<1>4. 0 \in S
  BY <1>1, <1>2, <1>3
<1>5. ASSUME NEW i \in Nat, i \in S  PROVE i + 1 \in S
  <2>1. SUFFICES ASSUME i + 1 <= n  PROVE f[i + 1] = g[i + 1]
    OBVIOUS
  <2>2. /\ i \in 0..n /\ i + 1 \in 0..n /\ i + 1 \in 0..(n + 1) /\ i + 1 \in 1..n
        /\ i + 1 # 0 /\ (i + 1) - 1 = i
    BY <1>1, <2>1
  <2>3. f[i] = g[i] /\ t[i + 1] = s[i + 1]
    BY <1>1, <1>5, <2>2
  <2>4. f[i + 1] = (IF IsSplice(s[i + 1]) THEN Splice(f[i], s[i + 1].target, s[i + 1].start, s[i + 1].removed, s[i + 1].inserted) ELSE f[i])
    BY <1>2, <2>2
  <2>5. g[i + 1] = (IF IsSplice(t[i + 1]) THEN Splice(g[i], t[i + 1].target, t[i + 1].start, t[i + 1].removed, t[i + 1].inserted) ELSE g[i])
    BY <1>3, <2>2
  <2> QED BY <2>3, <2>4, <2>5
<1>6. f[n] = g[n]
  <2>1. n \in S
    <3> HIDE DEF S
    <3> QED BY <1>1, <1>4, <1>5, SetInduction
  <2> QED BY <1>1, <2>1
<1>7. g[n + 1] = (IF IsSplice(e) THEN Splice(g[n], e.target, e.start, e.removed, e.inserted) ELSE g[n])
  <2>1. n + 1 \in 0..(n + 1) /\ n + 1 # 0 /\ (n + 1) - 1 = n
    BY <1>1
  <2>2. g[n + 1] = (IF IsSplice(t[n + 1]) THEN Splice(g[n], t[n + 1].target, t[n + 1].start, t[n + 1].removed, t[n + 1].inserted) ELSE g[n])
    BY <1>3, <2>1
  <2> QED BY <1>1, <2>2
<1>8. Replayed(s) = f[n] /\ Replayed(t) = g[n + 1]
  BY <1>1, ReplayedIsRun DEF f, g, n
<1>9. Replayed(t) = (IF IsSplice(e) THEN Splice(Replayed(s), e.target, e.start, e.removed, e.inserted) ELSE Replayed(s))
  BY <1>6, <1>7, <1>8
<1> QED BY <1>9 DEF t

\* The repair's scan.
OpenedRun(s) ==
    CHOOSE g : g = [i \in 0..Len(s) |-> IF i = 0 THEN NothingOpen ELSE Scan(g[i - 1], s[i])]

\* The value of the fold is the last of its run: the repair's scan.
LEMMA OpenedIsRun == \A s : Opened(s) = OpenedRun(s)[Len(s)]
BY DEF Opened, Fold, Runs, OpenedRun

\* The run exists: every finite sequence has one.
LEMMA OpenedRuns ==
    ASSUME NEW s, Len(s) \in Nat
    PROVE  OpenedRun(s) = [i \in 0..Len(s) |-> IF i = 0 THEN NothingOpen ELSE Scan(OpenedRun(s)[i - 1], s[i])]
<1> DEFINE Walks(n, g) == g = [i \in 0..n |-> IF i = 0 THEN NothingOpen ELSE Scan(g[i - 1], s[i])]
           S == {n \in Nat : \E g : Walks(n, g)}
<1>1. 0 \in S
  <2>1. Walks(0, [i \in 0..0 |-> NothingOpen])
    OBVIOUS
  <2> QED BY <2>1
<1>2. ASSUME NEW n \in Nat, n \in S  PROVE n + 1 \in S
  <2>1. PICK g : Walks(n, g)
    BY <1>2
  <2> DEFINE last == Scan(g[n], s[n + 1])
             h == [i \in 0..(n + 1) |-> IF i = n + 1 THEN last ELSE g[i]]
  <2>2. \A i \in 0..n : g[i] = IF i = 0 THEN NothingOpen ELSE Scan(g[i - 1], s[i])
    BY <2>1
  <2>3. h[n + 1] = last /\ \A i \in 0..n : h[i] = g[i]
    OBVIOUS
  <2>4. h = [i \in 0..(n + 1) |-> h[i]]
    OBVIOUS
  <2> HIDE DEF h
  <2>5. \A i \in 0..(n + 1) : h[i] = IF i = 0 THEN NothingOpen ELSE Scan(h[i - 1], s[i])
    <3> TAKE i \in 0..(n + 1)
    <3>1. CASE i = n + 1
      <4>1. i # 0 /\ i - 1 = n /\ h[i - 1] = g[n]
        BY <2>3, <3>1
      <4> QED BY <2>3, <3>1, <4>1
    <3>2. CASE i \in 0..n /\ i # 0
      <4>1. i - 1 \in 0..n
        BY <3>2
      <4>2. h[i] = g[i] /\ h[i - 1] = g[i - 1]
        BY <2>3, <3>2, <4>1
      <4> QED BY <2>2, <3>2, <4>2
    <3>3. CASE i = 0
      BY <2>2, <2>3, <3>3
    <3> QED BY <3>1, <3>2, <3>3
  <2> HIDE DEF last
  <2>6. [i \in 0..(n + 1) |-> h[i]] = [i \in 0..(n + 1) |-> IF i = 0 THEN NothingOpen ELSE Scan(h[i - 1], s[i])]
    BY <2>5
  <2>7. h = [i \in 0..(n + 1) |-> IF i = 0 THEN NothingOpen ELSE Scan(h[i - 1], s[i])]
    BY <2>4, <2>6, Zenon
  <2>8. Walks(n + 1, h)
    BY <2>7
  <2>9. \E g2 : Walks(n + 1, g2)
    BY <2>8, Zenon
  <2> HIDE DEF Walks
  <2> QED BY <2>9
<1>3. Len(s) \in S
  <2> HIDE DEF S
  <2> QED BY <1>1, <1>2, SetInduction
<1>4. PICK g : Walks(Len(s), g)
  BY <1>3
<1> QED BY <1>4 DEF OpenedRun

\* Over the empty sequence the fold is its base.
LEMMA OpenedOfNone == Opened(<<>>) = NothingOpen
<1>1. Len(<<>>) = 0 /\ 0 \in Nat /\ 0 \in 0..0
  OBVIOUS
<1> DEFINE s == <<>>
           f == OpenedRun(s)
<1>a. Len(s) = 0
  BY <1>1
<1> HIDE DEF s
<1>b. f = [i \in 0..Len(s) |-> IF i = 0 THEN NothingOpen ELSE Scan(f[i - 1], s[i])]
  BY <1>1, <1>a, OpenedRuns
<1> HIDE DEF f
<1>c. f[0] = NothingOpen
  BY <1>1, <1>a, <1>b
<1>2. OpenedRun(<<>>)[0] = NothingOpen
  BY <1>c DEF f, s
<1> QED BY <1>1, <1>2, OpenedIsRun

\* One more element is one more step of the fold.
LEMMA OpenedUnfolds ==
    ASSUME NEW E, NEW s \in Seq(E), NEW e \in E
    PROVE  Opened(Append(s, e)) = Scan(Opened(s), e)
<1> DEFINE t == Append(s, e)
           n == Len(s)
           f == OpenedRun(s)
           g == OpenedRun(t)
           S == {i \in Nat : i <= n => f[i] = g[i]}
<1>1. n \in Nat /\ Len(t) = n + 1 /\ t[n + 1] = e /\ \A i \in 1..n : t[i] = s[i]
  OBVIOUS
<1> HIDE DEF t
<1>2. f = [i \in 0..n |-> IF i = 0 THEN NothingOpen ELSE Scan(f[i - 1], s[i])]
  BY <1>1, OpenedRuns
<1>3. g = [i \in 0..(n + 1) |-> IF i = 0 THEN NothingOpen ELSE Scan(g[i - 1], t[i])]
  BY <1>1, OpenedRuns
<1> HIDE DEF f, g, n
<1>4. 0 \in S
  BY <1>1, <1>2, <1>3
<1>5. ASSUME NEW i \in Nat, i \in S  PROVE i + 1 \in S
  <2>1. SUFFICES ASSUME i + 1 <= n  PROVE f[i + 1] = g[i + 1]
    OBVIOUS
  <2>2. /\ i \in 0..n /\ i + 1 \in 0..n /\ i + 1 \in 0..(n + 1) /\ i + 1 \in 1..n
        /\ i + 1 # 0 /\ (i + 1) - 1 = i
    BY <1>1, <2>1
  <2>3. f[i] = g[i] /\ t[i + 1] = s[i + 1]
    BY <1>1, <1>5, <2>2
  <2>4. f[i + 1] = Scan(f[i], s[i + 1])
    BY <1>2, <2>2
  <2>5. g[i + 1] = Scan(g[i], t[i + 1])
    BY <1>3, <2>2
  <2> QED BY <2>3, <2>4, <2>5
<1>6. f[n] = g[n]
  <2>1. n \in S
    <3> HIDE DEF S
    <3> QED BY <1>1, <1>4, <1>5, SetInduction
  <2> QED BY <1>1, <2>1
<1>7. g[n + 1] = Scan(g[n], e)
  <2>1. n + 1 \in 0..(n + 1) /\ n + 1 # 0 /\ (n + 1) - 1 = n
    BY <1>1
  <2>2. g[n + 1] = Scan(g[n], t[n + 1])
    BY <1>3, <2>1
  <2> QED BY <1>1, <2>2
<1>8. Opened(s) = f[n] /\ Opened(t) = g[n + 1]
  BY <1>1, OpenedIsRun DEF f, g, n
<1>9. Opened(t) = Scan(Opened(s), e)
  BY <1>6, <1>7, <1>8
<1> QED BY <1>9 DEF t

\* A list without some of its members.
WithoutRun(s, some) ==
    CHOOSE g : g = [i \in 0..Len(s) |-> IF i = 0 THEN <<>> ELSE (IF s[i] \in some THEN g[i - 1] ELSE Append(g[i - 1], s[i]))]

\* The value of the fold is the last of its run: the list without some calls.
LEMMA WithoutIsRun == \A s, some : Without(s, some) = WithoutRun(s, some)[Len(s)]
BY SMTT(60) DEF Without, Fold, Runs, WithoutRun

\* The run exists: every finite sequence has one.
LEMMA WithoutRuns ==
    ASSUME NEW s, Len(s) \in Nat, NEW some
    PROVE  WithoutRun(s, some) = [i \in 0..Len(s) |-> IF i = 0 THEN <<>> ELSE (IF s[i] \in some THEN WithoutRun(s, some)[i - 1] ELSE Append(WithoutRun(s, some)[i - 1], s[i]))]
<1> DEFINE Walks(n, g) == g = [i \in 0..n |-> IF i = 0 THEN <<>> ELSE (IF s[i] \in some THEN g[i - 1] ELSE Append(g[i - 1], s[i]))]
           S == {n \in Nat : \E g : Walks(n, g)}
<1>1. 0 \in S
  <2>1. Walks(0, [i \in 0..0 |-> <<>>])
    OBVIOUS
  <2> QED BY <2>1
<1>2. ASSUME NEW n \in Nat, n \in S  PROVE n + 1 \in S
  <2>1. PICK g : Walks(n, g)
    BY <1>2
  <2> DEFINE last == (IF s[n + 1] \in some THEN g[n] ELSE Append(g[n], s[n + 1]))
             h == [i \in 0..(n + 1) |-> IF i = n + 1 THEN last ELSE g[i]]
  <2>2. \A i \in 0..n : g[i] = IF i = 0 THEN <<>> ELSE (IF s[i] \in some THEN g[i - 1] ELSE Append(g[i - 1], s[i]))
    BY <2>1
  <2>3. h[n + 1] = last /\ \A i \in 0..n : h[i] = g[i]
    OBVIOUS
  <2>4. h = [i \in 0..(n + 1) |-> h[i]]
    OBVIOUS
  <2> HIDE DEF h
  <2>5. \A i \in 0..(n + 1) : h[i] = IF i = 0 THEN <<>> ELSE (IF s[i] \in some THEN h[i - 1] ELSE Append(h[i - 1], s[i]))
    <3> TAKE i \in 0..(n + 1)
    <3>1. CASE i = n + 1
      <4>1. i # 0 /\ i - 1 = n /\ h[i - 1] = g[n]
        BY <2>3, <3>1
      <4> QED BY <2>3, <3>1, <4>1
    <3>2. CASE i \in 0..n /\ i # 0
      <4>1. i - 1 \in 0..n
        BY <3>2
      <4>2. h[i] = g[i] /\ h[i - 1] = g[i - 1]
        BY <2>3, <3>2, <4>1
      <4> QED BY <2>2, <3>2, <4>2
    <3>3. CASE i = 0
      BY <2>2, <2>3, <3>3
    <3> QED BY <3>1, <3>2, <3>3
  <2> HIDE DEF last
  <2>6. [i \in 0..(n + 1) |-> h[i]] = [i \in 0..(n + 1) |-> IF i = 0 THEN <<>> ELSE (IF s[i] \in some THEN h[i - 1] ELSE Append(h[i - 1], s[i]))]
    BY <2>5
  <2>7. h = [i \in 0..(n + 1) |-> IF i = 0 THEN <<>> ELSE (IF s[i] \in some THEN h[i - 1] ELSE Append(h[i - 1], s[i]))]
    BY <2>4, <2>6, Zenon
  <2>8. Walks(n + 1, h)
    BY <2>7
  <2>9. \E g2 : Walks(n + 1, g2)
    BY <2>8, Zenon
  <2> HIDE DEF Walks
  <2> QED BY <2>9
<1>3. Len(s) \in S
  <2> HIDE DEF S
  <2> QED BY <1>1, <1>2, SetInduction
<1>4. PICK g : Walks(Len(s), g)
  BY <1>3
<1> QED BY <1>4 DEF WithoutRun

\* Over the empty sequence the fold is its base.
LEMMA WithoutOfNone == \A some : Without(<<>>, some) = <<>>
<1> TAKE some
<1>1. Len(<<>>) = 0 /\ 0 \in Nat /\ 0 \in 0..0
  OBVIOUS
<1> DEFINE s == <<>>
           f == WithoutRun(s, some)
<1>a. Len(s) = 0
  BY <1>1
<1> HIDE DEF s
<1>b. f = [i \in 0..Len(s) |-> IF i = 0 THEN <<>> ELSE (IF s[i] \in some THEN f[i - 1] ELSE Append(f[i - 1], s[i]))]
  BY <1>1, <1>a, WithoutRuns
<1> HIDE DEF f
<1>c. f[0] = <<>>
  BY <1>1, <1>a, <1>b
<1>2. WithoutRun(<<>>, some)[0] = <<>>
  BY <1>c DEF f, s
<1> QED BY <1>1, <1>2, WithoutIsRun

\* One more element is one more step of the fold.
LEMMA WithoutUnfolds ==
    ASSUME NEW E, NEW s \in Seq(E), NEW e \in E, NEW some
    PROVE  Without(Append(s, e), some) = (IF e \in some THEN Without(s, some) ELSE Append(Without(s, some), e))
<1> DEFINE t == Append(s, e)
           n == Len(s)
           f == WithoutRun(s, some)
           g == WithoutRun(t, some)
           S == {i \in Nat : i <= n => f[i] = g[i]}
<1>1. n \in Nat /\ Len(t) = n + 1 /\ t[n + 1] = e /\ \A i \in 1..n : t[i] = s[i]
  OBVIOUS
<1> HIDE DEF t
<1>2. f = [i \in 0..n |-> IF i = 0 THEN <<>> ELSE (IF s[i] \in some THEN f[i - 1] ELSE Append(f[i - 1], s[i]))]
  BY <1>1, WithoutRuns
<1>3. g = [i \in 0..(n + 1) |-> IF i = 0 THEN <<>> ELSE (IF t[i] \in some THEN g[i - 1] ELSE Append(g[i - 1], t[i]))]
  BY <1>1, WithoutRuns
<1> HIDE DEF f, g, n
<1>4. 0 \in S
  BY <1>1, <1>2, <1>3
<1>5. ASSUME NEW i \in Nat, i \in S  PROVE i + 1 \in S
  <2>1. SUFFICES ASSUME i + 1 <= n  PROVE f[i + 1] = g[i + 1]
    OBVIOUS
  <2>2. /\ i \in 0..n /\ i + 1 \in 0..n /\ i + 1 \in 0..(n + 1) /\ i + 1 \in 1..n
        /\ i + 1 # 0 /\ (i + 1) - 1 = i
    BY <1>1, <2>1
  <2>3. f[i] = g[i] /\ t[i + 1] = s[i + 1]
    BY <1>1, <1>5, <2>2
  <2>4. f[i + 1] = (IF s[i + 1] \in some THEN f[i] ELSE Append(f[i], s[i + 1]))
    BY <1>2, <2>2
  <2>5. g[i + 1] = (IF t[i + 1] \in some THEN g[i] ELSE Append(g[i], t[i + 1]))
    BY <1>3, <2>2
  <2> QED BY <2>3, <2>4, <2>5
<1>6. f[n] = g[n]
  <2>1. n \in S
    <3> HIDE DEF S
    <3> QED BY <1>1, <1>4, <1>5, SetInduction
  <2> QED BY <1>1, <2>1
<1>7. g[n + 1] = (IF e \in some THEN g[n] ELSE Append(g[n], e))
  <2>1. n + 1 \in 0..(n + 1) /\ n + 1 # 0 /\ (n + 1) - 1 = n
    BY <1>1
  <2>2. g[n + 1] = (IF t[n + 1] \in some THEN g[n] ELSE Append(g[n], t[n + 1]))
    BY <1>3, <2>1
  <2> QED BY <1>1, <2>2
<1>8. Without(s, some) = f[n] /\ Without(t, some) = g[n + 1]
  BY <1>1, WithoutIsRun DEF f, g, n
<1>9. Without(t, some) = (IF e \in some THEN Without(s, some) ELSE Append(Without(s, some), e))
  BY <1>6, <1>7, <1>8
<1> QED BY <1>9 DEF t

\* What a step's results answer.
ResultsOfRun(s, t1, s1) ==
    CHOOSE g : g = [i \in 0..Len(s) |-> IF i = 0 THEN <<>> ELSE (IF IsResult(s[i]) /\ s[i].turn = t1 /\ s[i].step = s1 THEN Append(g[i - 1], s[i].calls) ELSE g[i - 1])]

\* The value of the fold is the last of its run: a step's results.
LEMMA ResultsOfIsRun == \A s, t1, s1 : ResultsOf(s, t1, s1) = ResultsOfRun(s, t1, s1)[Len(s)]
BY DEF ResultsOf, Fold, Runs, ResultsOfRun

\* The run exists: every finite sequence has one.
LEMMA ResultsOfRuns ==
    ASSUME NEW s, Len(s) \in Nat, NEW t1, NEW s1
    PROVE  ResultsOfRun(s, t1, s1) = [i \in 0..Len(s) |-> IF i = 0 THEN <<>> ELSE (IF IsResult(s[i]) /\ s[i].turn = t1 /\ s[i].step = s1 THEN Append(ResultsOfRun(s, t1, s1)[i - 1], s[i].calls) ELSE ResultsOfRun(s, t1, s1)[i - 1])]
<1> DEFINE Walks(n, g) == g = [i \in 0..n |-> IF i = 0 THEN <<>> ELSE (IF IsResult(s[i]) /\ s[i].turn = t1 /\ s[i].step = s1 THEN Append(g[i - 1], s[i].calls) ELSE g[i - 1])]
           S == {n \in Nat : \E g : Walks(n, g)}
<1>1. 0 \in S
  <2>1. Walks(0, [i \in 0..0 |-> <<>>])
    OBVIOUS
  <2> QED BY <2>1
<1>2. ASSUME NEW n \in Nat, n \in S  PROVE n + 1 \in S
  <2>1. PICK g : Walks(n, g)
    BY <1>2
  <2> DEFINE last == (IF IsResult(s[n + 1]) /\ s[n + 1].turn = t1 /\ s[n + 1].step = s1 THEN Append(g[n], s[n + 1].calls) ELSE g[n])
             h == [i \in 0..(n + 1) |-> IF i = n + 1 THEN last ELSE g[i]]
  <2>2. \A i \in 0..n : g[i] = IF i = 0 THEN <<>> ELSE (IF IsResult(s[i]) /\ s[i].turn = t1 /\ s[i].step = s1 THEN Append(g[i - 1], s[i].calls) ELSE g[i - 1])
    BY <2>1
  <2>3. h[n + 1] = last /\ \A i \in 0..n : h[i] = g[i]
    OBVIOUS
  <2>4. h = [i \in 0..(n + 1) |-> h[i]]
    OBVIOUS
  <2> HIDE DEF h
  <2>5. \A i \in 0..(n + 1) : h[i] = IF i = 0 THEN <<>> ELSE (IF IsResult(s[i]) /\ s[i].turn = t1 /\ s[i].step = s1 THEN Append(h[i - 1], s[i].calls) ELSE h[i - 1])
    <3> TAKE i \in 0..(n + 1)
    <3>1. CASE i = n + 1
      <4>1. i # 0 /\ i - 1 = n /\ h[i - 1] = g[n]
        BY <2>3, <3>1
      <4> QED BY <2>3, <3>1, <4>1
    <3>2. CASE i \in 0..n /\ i # 0
      <4>1. i - 1 \in 0..n
        BY <3>2
      <4>2. h[i] = g[i] /\ h[i - 1] = g[i - 1]
        BY <2>3, <3>2, <4>1
      <4> QED BY <2>2, <3>2, <4>2
    <3>3. CASE i = 0
      BY <2>2, <2>3, <3>3
    <3> QED BY <3>1, <3>2, <3>3
  <2> HIDE DEF last
  <2>6. [i \in 0..(n + 1) |-> h[i]] = [i \in 0..(n + 1) |-> IF i = 0 THEN <<>> ELSE (IF IsResult(s[i]) /\ s[i].turn = t1 /\ s[i].step = s1 THEN Append(h[i - 1], s[i].calls) ELSE h[i - 1])]
    BY <2>5
  <2>7. h = [i \in 0..(n + 1) |-> IF i = 0 THEN <<>> ELSE (IF IsResult(s[i]) /\ s[i].turn = t1 /\ s[i].step = s1 THEN Append(h[i - 1], s[i].calls) ELSE h[i - 1])]
    BY <2>4, <2>6, Zenon
  <2>8. Walks(n + 1, h)
    BY <2>7
  <2>9. \E g2 : Walks(n + 1, g2)
    BY <2>8, Zenon
  <2> HIDE DEF Walks
  <2> QED BY <2>9
<1>3. Len(s) \in S
  <2> HIDE DEF S
  <2> QED BY <1>1, <1>2, SetInduction
<1>4. PICK g : Walks(Len(s), g)
  BY <1>3
<1> QED BY <1>4 DEF ResultsOfRun

\* Over the empty sequence the fold is its base.
LEMMA ResultsOfNone == \A t1, s1 : ResultsOf(<<>>, t1, s1) = <<>>
<1> TAKE t1, s1
<1>1. Len(<<>>) = 0 /\ 0 \in Nat /\ 0 \in 0..0
  OBVIOUS
<1> DEFINE s == <<>>
           f == ResultsOfRun(s, t1, s1)
<1>a. Len(s) = 0
  BY <1>1
<1> HIDE DEF s
<1>b. f = [i \in 0..Len(s) |-> IF i = 0 THEN <<>> ELSE (IF IsResult(s[i]) /\ s[i].turn = t1 /\ s[i].step = s1 THEN Append(f[i - 1], s[i].calls) ELSE f[i - 1])]
  BY <1>1, <1>a, ResultsOfRuns
<1> HIDE DEF f
<1>c. f[0] = <<>>
  BY <1>1, <1>a, <1>b
<1>2. ResultsOfRun(<<>>, t1, s1)[0] = <<>>
  BY <1>c DEF f, s
<1> QED BY <1>1, <1>2, ResultsOfIsRun

\* One more element is one more step of the fold.
LEMMA ResultsOfUnfolds ==
    ASSUME NEW E, NEW s \in Seq(E), NEW e \in E, NEW t1, NEW s1
    PROVE  ResultsOf(Append(s, e), t1, s1) = (IF IsResult(e) /\ e.turn = t1 /\ e.step = s1 THEN Append(ResultsOf(s, t1, s1), e.calls) ELSE ResultsOf(s, t1, s1))
<1> DEFINE t == Append(s, e)
           n == Len(s)
           f == ResultsOfRun(s, t1, s1)
           g == ResultsOfRun(t, t1, s1)
           S == {i \in Nat : i <= n => f[i] = g[i]}
<1>1. n \in Nat /\ Len(t) = n + 1 /\ t[n + 1] = e /\ \A i \in 1..n : t[i] = s[i]
  OBVIOUS
<1> HIDE DEF t
<1>2. f = [i \in 0..n |-> IF i = 0 THEN <<>> ELSE (IF IsResult(s[i]) /\ s[i].turn = t1 /\ s[i].step = s1 THEN Append(f[i - 1], s[i].calls) ELSE f[i - 1])]
  BY <1>1, ResultsOfRuns
<1>3. g = [i \in 0..(n + 1) |-> IF i = 0 THEN <<>> ELSE (IF IsResult(t[i]) /\ t[i].turn = t1 /\ t[i].step = s1 THEN Append(g[i - 1], t[i].calls) ELSE g[i - 1])]
  BY <1>1, ResultsOfRuns
<1> HIDE DEF f, g, n
<1>4. 0 \in S
  BY <1>1, <1>2, <1>3
<1>5. ASSUME NEW i \in Nat, i \in S  PROVE i + 1 \in S
  <2>1. SUFFICES ASSUME i + 1 <= n  PROVE f[i + 1] = g[i + 1]
    OBVIOUS
  <2>2. /\ i \in 0..n /\ i + 1 \in 0..n /\ i + 1 \in 0..(n + 1) /\ i + 1 \in 1..n
        /\ i + 1 # 0 /\ (i + 1) - 1 = i
    BY <1>1, <2>1
  <2>3. f[i] = g[i] /\ t[i + 1] = s[i + 1]
    BY <1>1, <1>5, <2>2
  <2>4. f[i + 1] = (IF IsResult(s[i + 1]) /\ s[i + 1].turn = t1 /\ s[i + 1].step = s1 THEN Append(f[i], s[i + 1].calls) ELSE f[i])
    BY <1>2, <2>2
  <2>5. g[i + 1] = (IF IsResult(t[i + 1]) /\ t[i + 1].turn = t1 /\ t[i + 1].step = s1 THEN Append(g[i], t[i + 1].calls) ELSE g[i])
    BY <1>3, <2>2
  <2> QED BY <2>3, <2>4, <2>5
<1>6. f[n] = g[n]
  <2>1. n \in S
    <3> HIDE DEF S
    <3> QED BY <1>1, <1>4, <1>5, SetInduction
  <2> QED BY <1>1, <2>1
<1>7. g[n + 1] = (IF IsResult(e) /\ e.turn = t1 /\ e.step = s1 THEN Append(g[n], e.calls) ELSE g[n])
  <2>1. n + 1 \in 0..(n + 1) /\ n + 1 # 0 /\ (n + 1) - 1 = n
    BY <1>1
  <2>2. g[n + 1] = (IF IsResult(t[n + 1]) /\ t[n + 1].turn = t1 /\ t[n + 1].step = s1 THEN Append(g[n], t[n + 1].calls) ELSE g[n])
    BY <1>3, <2>1
  <2> QED BY <1>1, <2>2
<1>8. ResultsOf(s, t1, s1) = f[n] /\ ResultsOf(t, t1, s1) = g[n + 1]
  BY <1>1, ResultsOfIsRun DEF f, g, n
<1>9. ResultsOf(t, t1, s1) = (IF IsResult(e) /\ e.turn = t1 /\ e.step = s1 THEN Append(ResultsOf(s, t1, s1), e.calls) ELSE ResultsOf(s, t1, s1))
  BY <1>6, <1>7, <1>8
<1> QED BY <1>9 DEF t

-----------------------------------------------------------------------------
(***************************************************************************)
(* Events.                                                                 *)
(***************************************************************************)
\* Those that name the open step.
Within == {"step/end", "assistant/message", "tool/call", "tool/result", "tool/not-started"}

\* Everything a log may hold.
EventTypes == Within \cup {"agent/inbox/spliced", "user/message", "turn/start", "turn/end", "step/start"}

\* How a turn may end, or none.
Reasons == {"none", "aborted", "error", "completed", "interrupted"}

\* The events of the log.
Events == [type : EventTypes, turn : 0..MaxTurns, step : 0..MaxSteps, calls : SUBSET Calls,
           asks : Seq(Calls), target : Targets \cup {"none"}, start : Nat, removed : Nat,
           inserted : Seq(Messages), canceled : BOOLEAN, reason : Reasons]

\* A call is a turn, a step and a number.
LEMMA CallParts ==
    ASSUME NEW c \in Calls
    PROVE  c[1] \in 1..MaxTurns /\ c[2] \in 1..MaxSteps /\ c = <<c[1], c[2], c[3]>>
BY DEF Calls

\* An event of the grammar without a payload.
LEMMA PlainFacts ==
    ASSUME NEW type \in EventTypes, NEW t \in 0..MaxTurns, NEW s \in 0..MaxSteps, NEW about \in SUBSET Calls,
           NEW e, e = Plain(Grammar!Event(type, t, s, about))
    PROVE  /\ e \in Events
           /\ e.type = type /\ e.turn = t /\ e.step = s /\ e.calls = about
           /\ e.asks = <<>> /\ e.inserted = <<>>
<1>1. e = [type |-> type, turn |-> t, step |-> s, calls |-> about,
           asks |-> <<>>, target |-> "none", start |-> 0, removed |-> 0, inserted |-> <<>>,
           canceled |-> FALSE, reason |-> "none"]
  BY DEF Plain, Grammar!Event
<1>2. <<>> \in Seq(Calls) /\ <<>> \in Seq(Messages)
  OBVIOUS
<1>3. e \in Events
  BY <1>1, <1>2 DEF Events, Reasons
<1> QED BY <1>1, <1>3

\* The parts of a splice.
LEMMA SplicedFacts ==
    ASSUME NEW target \in Targets, NEW start \in Nat, NEW removed \in Nat,
           NEW inserted \in Seq(Messages), NEW canceled \in BOOLEAN
    PROVE  LET e == Spliced(target, start, removed, inserted, canceled)
           IN  /\ e \in Events
               /\ e.type = "agent/inbox/spliced" /\ e.target = target /\ e.start = start
               /\ e.removed = removed /\ e.inserted = inserted /\ e.canceled = canceled
               /\ e.turn = 0 /\ e.step = 0 /\ e.calls = {}
<1> DEFINE p == Plain(Grammar!Event("agent/inbox/spliced", 0, 0, {}))
           e == Spliced(target, start, removed, inserted, canceled)
<1>1. p \in Events /\ p.type = "agent/inbox/spliced" /\ p.turn = 0 /\ p.step = 0 /\ p.calls = {}
  <2>1. 0 \in 0..MaxTurns /\ 0 \in 0..MaxSteps /\ {} \in SUBSET Calls
    BY RecoveryBounds
  <2> QED BY <2>1, PlainFacts DEF EventTypes
<1>2. e = [p EXCEPT !.target = target, !.start = start, !.removed = removed, !.inserted = inserted,
                    !.canceled = canceled]
  BY DEF Spliced
<1> HIDE DEF p, e
<1>3. e \in Events
  BY <1>1, <1>2 DEF Events
<1>4. /\ e.type = "agent/inbox/spliced" /\ e.target = target /\ e.start = start
      /\ e.removed = removed /\ e.inserted = inserted /\ e.canceled = canceled
      /\ e.turn = 0 /\ e.step = 0 /\ e.calls = {}
  BY <1>1, <1>2 DEF Events
<1> QED BY <1>3, <1>4 DEF e

\* The parts of a user message.
LEMMA UserMessageFacts ==
    ASSUME NEW m \in Messages
    PROVE  /\ UserMessage(m) \in Events /\ UserMessage(m).type = "user/message"
           /\ UserMessage(m).inserted = <<m>>
<1> DEFINE p == Plain(Grammar!Event("user/message", 0, 0, {}))
           e == UserMessage(m)
<1>1. p \in Events /\ p.type = "user/message"
  <2>1. 0 \in 0..MaxTurns /\ 0 \in 0..MaxSteps /\ {} \in SUBSET Calls
    BY RecoveryBounds
  <2>2. "user/message" \in EventTypes
    BY DEF EventTypes
  <2> QED BY <2>1, <2>2, PlainFacts
<1>2. e = [p EXCEPT !.inserted = <<m>>] /\ <<m>> \in Seq(Messages)
  BY DEF UserMessage
<1> HIDE DEF p, e
<1>3. e \in Events /\ e.type = "user/message" /\ e.inserted = <<m>>
  BY <1>1, <1>2 DEF Events
<1> QED BY <1>3 DEF e

\* The parts of the model's answer.
LEMMA AnswerFacts ==
    ASSUME NEW t \in 0..MaxTurns, NEW s \in 0..MaxSteps, NEW asks \in Seq(Calls)
    PROVE  LET e == Answer(t, s, asks)
           IN  e \in Events /\ e.type = "assistant/message" /\ e.turn = t /\ e.step = s /\ e.asks = asks
                            /\ e.inserted = <<>>
<1> DEFINE p == Plain(Grammar!Event("assistant/message", t, s, {}))
           e == Answer(t, s, asks)
<1>1. p \in Events /\ p.type = "assistant/message" /\ p.turn = t /\ p.step = s /\ p.inserted = <<>>
  <2>1. {} \in SUBSET Calls
    OBVIOUS
  <2> QED BY <2>1, PlainFacts DEF EventTypes, Within
<1>2. e = [p EXCEPT !.asks = asks]
  BY DEF Answer, Grammar!AssistantMessage
<1> HIDE DEF p, e
<1>3. e \in Events /\ e.type = "assistant/message" /\ e.turn = t /\ e.step = s /\ e.asks = asks /\ e.inserted = <<>>
  BY <1>1, <1>2 DEF Events
<1> QED BY <1>3 DEF e

\* The parts of a turn's end.
LEMMA TurnEndFacts ==
    ASSUME NEW t \in 0..MaxTurns, NEW why \in Reasons
    PROVE  LET e == TurnEnd(t, why)
           IN  e \in Events /\ e.type = "turn/end" /\ e.turn = t /\ e.reason = why /\ e.inserted = <<>>
<1> DEFINE p == Plain(Grammar!Event("turn/end", t, 0, {}))
           e == TurnEnd(t, why)
<1>1. p \in Events /\ p.type = "turn/end" /\ p.turn = t /\ p.inserted = <<>>
  <2>1. 0 \in 0..MaxTurns /\ 0 \in 0..MaxSteps /\ {} \in SUBSET Calls
    BY RecoveryBounds
  <2> QED BY <2>1, PlainFacts DEF EventTypes
<1>2. e = [p EXCEPT !.reason = why]
  BY DEF TurnEnd, Grammar!TurnEnd
<1> HIDE DEF p, e
<1>3. e \in Events /\ e.type = "turn/end" /\ e.turn = t /\ e.reason = why /\ e.inserted = <<>>
  BY <1>1, <1>2 DEF Events
<1> QED BY <1>3 DEF e

\* The parts of the events that open a turn, open a step and end it.
LEMMA StepFacts ==
    ASSUME NEW t \in 0..MaxTurns, NEW s \in 0..MaxSteps
    PROVE  /\ TurnStart(t) \in Events /\ TurnStart(t).type = "turn/start" /\ TurnStart(t).turn = t
           /\ TurnStart(t).inserted = <<>>
           /\ StepStart(t, s) \in Events /\ StepStart(t, s).type = "step/start"
           /\ StepStart(t, s).turn = t /\ StepStart(t, s).step = s /\ StepStart(t, s).inserted = <<>>
           /\ StepEnd(t, s) \in Events /\ StepEnd(t, s).type = "step/end"
           /\ StepEnd(t, s).turn = t /\ StepEnd(t, s).step = s /\ StepEnd(t, s).inserted = <<>>
<1>1. 0 \in 0..MaxSteps /\ {} \in SUBSET Calls
  BY RecoveryBounds
<1>2. TurnStart(t) = Plain(Grammar!Event("turn/start", t, 0, {}))
  BY DEF TurnStart, Grammar!TurnStart
<1>3. StepStart(t, s) = Plain(Grammar!Event("step/start", t, s, {}))
  BY DEF StepStart, Grammar!StepStart
<1>4. StepEnd(t, s) = Plain(Grammar!Event("step/end", t, s, {}))
  BY DEF StepEnd, Grammar!StepEnd
<1>5. "turn/start" \in EventTypes /\ "step/start" \in EventTypes /\ "step/end" \in EventTypes
  BY DEF EventTypes, Within
<1>6. TurnStart(t) \in Events /\ TurnStart(t).type = "turn/start" /\ TurnStart(t).turn = t
           /\ TurnStart(t).inserted = <<>>
  BY <1>1, <1>2, <1>5, PlainFacts
<1>7. StepStart(t, s) \in Events /\ StepStart(t, s).type = "step/start"
           /\ StepStart(t, s).turn = t /\ StepStart(t, s).step = s /\ StepStart(t, s).inserted = <<>>
  BY <1>1, <1>3, <1>5, PlainFacts
<1>8. StepEnd(t, s) \in Events /\ StepEnd(t, s).type = "step/end"
           /\ StepEnd(t, s).turn = t /\ StepEnd(t, s).step = s /\ StepEnd(t, s).inserted = <<>>
  BY <1>1, <1>4, <1>5, PlainFacts
<1> QED BY <1>6, <1>7, <1>8

\* The parts of an event about one call.
LEMMA CallFacts ==
    ASSUME NEW c \in Calls, NEW type \in {"tool/call", "tool/result", "tool/not-started"},
           NEW e, e = Plain(Grammar!Event(type, c[1], c[2], {c}))
    PROVE  /\ e \in Events /\ e.type = type /\ e.turn = c[1] /\ e.step = c[2] /\ e.calls = {c}
           /\ e.inserted = <<>>
<1>1. c[1] \in 0..MaxTurns /\ c[2] \in 0..MaxSteps /\ {c} \in SUBSET Calls /\ type \in EventTypes
  BY CallParts, RecoveryBounds DEF EventTypes, Within
<1> QED BY <1>1, PlainFacts

\* The parts of a call, of its result and of the report that it never started.
LEMMA CallEventFacts ==
    ASSUME NEW c \in Calls
    PROVE  /\ ToolCall(c) \in Events /\ ToolCall(c).type = "tool/call"
           /\ ToolCall(c).turn = c[1] /\ ToolCall(c).step = c[2] /\ ToolCall(c).calls = {c}
           /\ ToolCall(c).inserted = <<>>
           /\ ToolResult(c) \in Events /\ ToolResult(c).type = "tool/result"
           /\ ToolResult(c).turn = c[1] /\ ToolResult(c).step = c[2] /\ ToolResult(c).calls = {c}
           /\ ToolResult(c).inserted = <<>>
           /\ ToolNotStarted(c) \in Events /\ ToolNotStarted(c).type = "tool/not-started"
           /\ ToolNotStarted(c).turn = c[1] /\ ToolNotStarted(c).step = c[2]
           /\ ToolNotStarted(c).calls = {c} /\ ToolNotStarted(c).inserted = <<>>
<1>1. ToolCall(c) = Plain(Grammar!Event("tool/call", c[1], c[2], {c}))
  BY DEF ToolCall, Grammar!ToolCall
<1>2. ToolResult(c) = Plain(Grammar!Event("tool/result", c[1], c[2], {c}))
  BY DEF ToolResult, Grammar!ToolResult
<1>3. ToolNotStarted(c) = Plain(Grammar!Event("tool/not-started", c[1], c[2], {c}))
  BY DEF ToolNotStarted, Grammar!ToolNotStarted
<1>4. /\ ToolCall(c) \in Events /\ ToolCall(c).type = "tool/call"
      /\ ToolCall(c).turn = c[1] /\ ToolCall(c).step = c[2] /\ ToolCall(c).calls = {c}
      /\ ToolCall(c).inserted = <<>>
  BY <1>1, CallFacts
<1>5. /\ ToolResult(c) \in Events /\ ToolResult(c).type = "tool/result"
      /\ ToolResult(c).turn = c[1] /\ ToolResult(c).step = c[2] /\ ToolResult(c).calls = {c}
      /\ ToolResult(c).inserted = <<>>
  BY <1>2, CallFacts
<1>6. /\ ToolNotStarted(c) \in Events /\ ToolNotStarted(c).type = "tool/not-started"
      /\ ToolNotStarted(c).turn = c[1] /\ ToolNotStarted(c).step = c[2]
      /\ ToolNotStarted(c).calls = {c} /\ ToolNotStarted(c).inserted = <<>>
  BY <1>3, CallFacts
<1> QED BY <1>4, <1>5, <1>6

-----------------------------------------------------------------------------
(***************************************************************************)
(* Sequences.                                                              *)
(***************************************************************************)
LEMMA AppendFacts ==
    ASSUME NEW E, NEW s \in Seq(E), NEW e \in E
    PROVE  /\ Append(s, e) \in Seq(E) /\ Len(Append(s, e)) = Len(s) + 1 /\ Len(s) \in Nat
           /\ Append(s, e)[Len(s) + 1] = e
           /\ \A i \in 1..Len(s) : Append(s, e)[i] = s[i]
           /\ Range(Append(s, e)) = Range(s) \cup {e}
           /\ \A n \in 0..Len(s) : SubSeq(Append(s, e), 1, n) = SubSeq(s, 1, n)
<1>1. /\ Append(s, e) \in Seq(E) /\ Len(Append(s, e)) = Len(s) + 1 /\ Len(s) \in Nat
      /\ Append(s, e)[Len(s) + 1] = e
      /\ \A i \in 1..Len(s) : Append(s, e)[i] = s[i]
  OBVIOUS
<1> DEFINE t == Append(s, e)
<1> HIDE DEF t
<1>2. Range(t) = Range(s) \cup {e}
  <2>1. DOMAIN t = 1..(Len(s) + 1) /\ DOMAIN s = 1..Len(s)
    BY <1>1 DEF t
  <2>2. \A i \in DOMAIN t : i \in DOMAIN s \/ i = Len(s) + 1
    BY <1>1, <2>1
  <2>3. \A i \in DOMAIN s : i \in DOMAIN t
    BY <1>1, <2>1
  <2>4. Len(s) + 1 \in DOMAIN t
    BY <1>1, <2>1
  <2>5. t[Len(s) + 1] = e /\ \A i \in DOMAIN s : t[i] = s[i]
    BY <1>1, <2>1 DEF t
  <2> QED BY <2>2, <2>3, <2>4, <2>5 DEF Range
<1>3. \A n \in 0..Len(s) : SubSeq(t, 1, n) = SubSeq(s, 1, n)
  <2> TAKE n \in 0..Len(s)
  <2>1. n \in Nat /\ n <= Len(s) /\ n <= Len(t)
    BY <1>1 DEF t
  <2>2. /\ SubSeq(t, 1, n) \in Seq(E) /\ Len(SubSeq(t, 1, n)) = n
        /\ \A i \in 1..n : SubSeq(t, 1, n)[i] = t[i]
    BY <1>1, <2>1 DEF t
  <2>3. /\ SubSeq(s, 1, n) \in Seq(E) /\ Len(SubSeq(s, 1, n)) = n
        /\ \A i \in 1..n : SubSeq(s, 1, n)[i] = s[i]
    BY <1>1, <2>1
  <2>4. \A i \in 1..n : t[i] = s[i]
    BY <1>1, <2>1 DEF t
  <2>5. \A k, l \in Seq(E) : Len(k) = Len(l) /\ (\A i \in 1..Len(k) : k[i] = l[i]) => k = l
    OBVIOUS
  <2> QED BY <2>2, <2>3, <2>4, <2>5
<1> QED BY <1>1, <1>2, <1>3 DEF t

\* A sequence is its front with its last member.
LEMMA FrontFacts ==
    ASSUME NEW E, NEW s \in Seq(E), NEW n \in Nat, n + 1 <= Len(s)
    PROVE  /\ SubSeq(s, 1, n) \in Seq(E) /\ Len(SubSeq(s, 1, n)) = n /\ s[n + 1] \in E
           /\ SubSeq(s, 1, n + 1) = Append(SubSeq(s, 1, n), s[n + 1])
<1>1. /\ SubSeq(s, 1, n) \in Seq(E) /\ Len(SubSeq(s, 1, n)) = n /\ s[n + 1] \in E
      /\ \A i \in 1..n : SubSeq(s, 1, n)[i] = s[i]
  OBVIOUS
<1>2. /\ SubSeq(s, 1, n + 1) \in Seq(E) /\ Len(SubSeq(s, 1, n + 1)) = n + 1
      /\ \A i \in 1..(n + 1) : SubSeq(s, 1, n + 1)[i] = s[i]
  OBVIOUS
<1> DEFINE f == SubSeq(s, 1, n)
           t == Append(f, s[n + 1])
<1>3. t \in Seq(E) /\ Len(t) = n + 1 /\ t[n + 1] = s[n + 1] /\ \A i \in 1..n : t[i] = s[i]
  <2> HIDE DEF f
  <2> QED BY <1>1, AppendFacts DEF f
<1> HIDE DEF t
<1>4. \A i \in 1..(n + 1) : t[i] = s[i]
  <2>1. \A i \in 1..(n + 1) : i \in 1..n \/ i = n + 1
    OBVIOUS
  <2> QED BY <1>3, <2>1
<1>5. \A k, l \in Seq(E) : Len(k) = Len(l) /\ (\A i \in 1..Len(k) : k[i] = l[i]) => k = l
  OBVIOUS
<1>6. SubSeq(s, 1, n + 1) = t
  BY <1>2, <1>3, <1>4, <1>5
<1> QED BY <1>1, <1>6 DEF t

\* The elements of a sequence, and its front of full length.
LEMMA WholeFacts ==
    ASSUME NEW E, NEW s \in Seq(E)
    PROVE  /\ SubSeq(s, 1, Len(s)) = s /\ SubSeq(s, 1, 0) = <<>> /\ s \o <<>> = s /\ <<>> \o s = s
           /\ Len(s) \in Nat /\ DOMAIN s = 1..Len(s) /\ Range(s) \subseteq E
           /\ (Len(s) = 0 <=> s = <<>>)
<1>1. SubSeq(s, 1, Len(s)) = s /\ SubSeq(s, 1, 0) = <<>> /\ s \o <<>> = s /\ <<>> \o s = s
      /\ Len(s) \in Nat /\ DOMAIN s = 1..Len(s) /\ (Len(s) = 0 <=> s = <<>>)
  OBVIOUS
<1>2. Range(s) \subseteq E
  BY DEF Range
<1> QED BY <1>1, <1>2

\* A sequence in front of another is a prefix.
LEMMA ConcatFacts ==
    ASSUME NEW E, NEW s \in Seq(E), NEW t \in Seq(E)
    PROVE  /\ s \o t \in Seq(E) /\ Len(s \o t) = Len(s) + Len(t)
           /\ SubSeq(s \o t, 1, Len(s)) = s
           /\ Range(s \o t) = Range(s) \cup Range(t)
           /\ \A n \in 0..Len(t) : SubSeq(s \o t, 1, Len(s) + n) = s \o SubSeq(t, 1, n)
<1> DEFINE u == s \o t
<1>1. /\ u \in Seq(E) /\ Len(u) = Len(s) + Len(t) /\ Len(s) \in Nat /\ Len(t) \in Nat
      /\ \A i \in 1..Len(s) : u[i] = s[i]
      /\ \A i \in 1..Len(t) : u[Len(s) + i] = t[i]
  OBVIOUS
<1> HIDE DEF u
<1>2. \A k, l \in Seq(E) : Len(k) = Len(l) /\ (\A i \in 1..Len(k) : k[i] = l[i]) => k = l
  OBVIOUS
<1>3. Range(u) = Range(s) \cup Range(t)
  <2>1. DOMAIN u = 1..(Len(s) + Len(t)) /\ DOMAIN s = 1..Len(s) /\ DOMAIN t = 1..Len(t)
    BY <1>1
  <2>2. \A i \in DOMAIN u : i \in DOMAIN s \/ (i - Len(s) \in DOMAIN t /\ i = Len(s) + (i - Len(s)))
    BY <1>1, <2>1
  <2>3. \A i \in DOMAIN s : i \in DOMAIN u
    BY <1>1, <2>1
  <2>4. \A i \in DOMAIN t : Len(s) + i \in DOMAIN u
    BY <1>1, <2>1
  <2>5. Range(u) \subseteq Range(s) \cup Range(t)
    <3> SUFFICES ASSUME NEW i \in DOMAIN u  PROVE u[i] \in Range(s) \cup Range(t)
      BY DEF Range
    <3>1. CASE i \in DOMAIN s
      BY <1>1, <2>1, <3>1 DEF Range
    <3>2. CASE i - Len(s) \in DOMAIN t /\ i = Len(s) + (i - Len(s))
      BY <1>1, <2>1, <3>2 DEF Range
    <3> QED BY <2>2, <3>1, <3>2
  <2>6. Range(s) \subseteq Range(u)
    BY <1>1, <2>1, <2>3 DEF Range
  <2>7. Range(t) \subseteq Range(u)
    <3> SUFFICES ASSUME NEW i \in DOMAIN t  PROVE t[i] \in Range(u)
      BY DEF Range
    <3>1. u[Len(s) + i] = t[i]
      BY <1>1, <2>1
    <3> QED BY <2>4, <3>1 DEF Range
  <2> QED BY <2>5, <2>6, <2>7
<1>4. \A n \in 0..Len(t) : SubSeq(u, 1, Len(s) + n) = s \o SubSeq(t, 1, n)
  <2> TAKE n \in 0..Len(t)
  <2> DEFINE f == SubSeq(t, 1, n)
             a == SubSeq(u, 1, Len(s) + n)
             c == s \o f
  <2>0. n \in Nat /\ n <= Len(t) /\ Len(s) + n \in Nat /\ Len(s) + n <= Len(u)
    BY <1>1
  <2>1. f \in Seq(E) /\ Len(f) = n /\ \A i \in 1..n : f[i] = t[i]
    BY <1>1, <2>0
  <2>2. a \in Seq(E) /\ Len(a) = Len(s) + n /\ \A i \in 1..(Len(s) + n) : a[i] = u[i]
    BY <1>1, <2>0
  <2> HIDE DEF f, a
  <2>3. /\ c \in Seq(E) /\ Len(c) = Len(s) + n
        /\ \A i \in 1..Len(s) : c[i] = s[i]
        /\ \A i \in 1..n : c[Len(s) + i] = f[i]
    <3>1. \A k, l \in Seq(E) : /\ k \o l \in Seq(E) /\ Len(k \o l) = Len(k) + Len(l)
                               /\ \A i \in 1..Len(k) : (k \o l)[i] = k[i]
                               /\ \A i \in 1..Len(l) : (k \o l)[Len(k) + i] = l[i]
      OBVIOUS
    <3>2. /\ s \o f \in Seq(E) /\ Len(s \o f) = Len(s) + Len(f)
          /\ \A i \in 1..Len(s) : (s \o f)[i] = s[i]
          /\ \A i \in 1..Len(f) : (s \o f)[Len(s) + i] = f[i]
      <4> DEFINE k == s
                 l == f
      <4>1. k \in Seq(E) /\ l \in Seq(E)
        BY <2>1
      <4> HIDE DEF k, l
      <4>2. /\ k \o l \in Seq(E) /\ Len(k \o l) = Len(k) + Len(l)
            /\ \A i \in 1..Len(k) : (k \o l)[i] = k[i]
            /\ \A i \in 1..Len(l) : (k \o l)[Len(k) + i] = l[i]
        BY ONLY <4>1
      <4> QED BY <4>2 DEF k, l
    <3> HIDE DEF c
    <3>3. c = s \o f
      BY DEF c
    <3> QED BY <2>1, <3>2, <3>3
  <2> HIDE DEF c
  <2>4. ASSUME NEW i \in 1..(Len(s) + n)  PROVE a[i] = c[i]
    <3>1. CASE i \in 1..Len(s)
      BY <1>1, <2>2, <2>3, <3>1
    <3>2. CASE i \notin 1..Len(s)
      <4>1. i - Len(s) \in 1..n /\ i = Len(s) + (i - Len(s)) /\ i - Len(s) \in 1..Len(t)
        BY <1>1, <2>0, <3>2
      <4>2. a[i] = t[i - Len(s)]
        BY <1>1, <2>2, <4>1
      <4>3. c[i] = t[i - Len(s)]
        BY <2>1, <2>3, <4>1
      <4> QED BY <4>2, <4>3
    <3> QED BY <3>1, <3>2
  <2>5. a = c
    BY <1>2, <2>2, <2>3, <2>4
  <2> QED BY <2>5 DEF a, c, f
<1>5. SubSeq(u, 1, Len(s)) = s
  <2>1. 0 \in 0..Len(t) /\ Len(s) + 0 = Len(s)
    BY <1>1
  <2>2. SubSeq(u, 1, Len(s)) = s \o SubSeq(t, 1, 0)
    BY <1>4, <2>1
  <2> QED BY <2>2, WholeFacts
<1> QED BY <1>1, <1>3, <1>4, <1>5 DEF u

\* An event at a time.
LEMMA ConcatAppend ==
    ASSUME NEW E, NEW s \in Seq(E), NEW t \in Seq(E), NEW e \in E
    PROVE  s \o Append(t, e) = Append(s \o t, e)
  OBVIOUS

-----------------------------------------------------------------------------
(***************************************************************************)
(* What is so of every log the program writes.                             *)
(***************************************************************************)
\* What the repair's scan may find.
Opens == [turn : Nat, step : Nat, asked : Seq(Calls), begun : SUBSET Calls]

\* A step that is over, in the grammar's numbering.
Over(at, t, s) == t < at.nextTurn \/ (t = at.openTurn /\ s < at.nextStep)

\* The step that is open.
IsOpen(at, t, s) == t = at.openTurn /\ s = at.openStep

\* The model has answered in the open step.
HasAnswer(p) ==
    \E e \in Range(p) : e.type = "assistant/message" /\ IsOpen(Trace(p), e.turn, e.step)

\* The messages a log has brought in.
KnownIn(p) == UNION {Range(e.inserted) : e \in Range(p)}

\* The grammar's fold, the repair's scan and the turn counter agree.
FoldsAgree(p) ==
    LET at == Trace(p)
        open == Opened(p)
    IN  /\ at \in Grammar!Traces /\ open \in Opens
        /\ at.openTurn <= MaxTurns /\ at.openStep <= MaxSteps /\ at.nextTurn <= MaxTurns + 1
        /\ open.turn = at.openTurn /\ open.step = at.openStep
        /\ at.openTurn = 0 => at.openStep = 0
        /\ at.openTurn # 0 => at.openTurn = at.nextTurn
        /\ at.openStep # 0 => at.openStep = at.nextStep
        /\ LastTurn(p) = IF at.openTurn = 0 THEN at.nextTurn - 1 ELSE at.openTurn

\* What names a step names the open one or one that is over.
EventsArePlaced(p) ==
    /\ \A e \in Range(p) : e.type \in Within =>
          /\ e.turn >= 1 /\ e.step >= 1
          /\ Over(Trace(p), e.turn, e.step) \/ (IsOpen(Trace(p), e.turn, e.step) /\ e.type # "step/end")
    /\ \A t, s \in Nat : ResultsOf(p, t, s) # <<>> =>
          t >= 1 /\ s >= 1 /\ (Over(Trace(p), t, s) \/ IsOpen(Trace(p), t, s))

\* The calls that wait for their results, and those of them that were started.
CallsAgree(p) ==
    LET at == Trace(p)
        open == Opened(p)
    IN  /\ IsInjective(open.asked)
        /\ \A c \in Range(open.asked) : c[1] = open.turn /\ c[2] = open.step
        /\ Range(open.asked) \cap at.pendingCalls = Range(open.asked) \cap open.begun
        /\ open.step = 0 \/ ~HasAnswer(p) => open.asked = <<>> /\ open.begun = {} /\ at.pendingCalls = {}
        /\ \A e \in Range(p) :
              e.type = "tool/call" /\ IsOpen(at, e.turn, e.step) => e.calls \subseteq open.begun

\* One set for each call of a list.
Singles(list) == [i \in DOMAIN list |-> {list[i]}]

\* Results come in the order of the calls, and a step that is over has them all.
ResultsFit(p, b) ==
    /\ \A t, s \in Nat : ResultsOf(p, t, s) \in Seq(SUBSET Calls)
    /\ HasAnswer(p) \/ ResultsOf(p, Trace(p).openTurn, Trace(p).openStep) = <<>>
    /\ \A e \in Range(p) : e.type = "assistant/message" =>
          IF IsOpen(Trace(p), e.turn, e.step)
          THEN ResultsOf(p, e.turn, e.step) \o Singles(Opened(p).asked) = Singles(e.asks)
          ELSE ResultsOf(p, e.turn, e.step) = Singles(e.asks) \/ <<e.turn, e.step>> \in b

\* No message is in the inbox twice.
Once(box) ==
    /\ \A target \in Targets : IsInjective(box[target])
    /\ Range(box["next-turn"]) \cap Range(box["next-step"]) = {}

\* What the log replays to: a message that entered a step does not wait.
InboxFits(p) ==
    /\ Replayed(p) \in Inboxes /\ Once(Replayed(p))
    /\ Pending(Replayed(p)) \subseteq KnownIn(p)
    /\ \A e \in Range(p) :
          e.type = "user/message" => Range(e.inserted) \cap Pending(Replayed(p)) = {}

-----------------------------------------------------------------------------
\* What the program may append to a log, where b are the broken steps.
MayFollow(p, e, b) ==
    LET at == Trace(p)
        open == Opened(p)
    IN  /\ e \in Events /\ Grammar!Legal(at, e)
        /\ e.type \in Within => at.openStep # 0
        /\ e.type \in {"turn/end", "step/start"} => at.openTurn # 0
        /\ e.type = "assistant/message" =>
              /\ ~HasAnswer(p) /\ IsInjective(e.asks)
              /\ \A c \in Range(e.asks) : c[1] = e.turn /\ c[2] = e.step
        /\ e.type = "tool/call" => e.calls \subseteq Range(open.asked)
        /\ IsResult(e) => open.asked # <<>> /\ e.calls = {Head(open.asked)}
        /\ e.type = "step/end" => open.asked = <<>> \/ <<e.turn, e.step>> \in b
        /\ IsSplice(e) =>
              /\ e.target \in Targets /\ e.start + e.removed <= Len(Replayed(p)[e.target])
              /\ e.inserted = <<>> \/ \E m \in Messages \ KnownIn(p) : e.inserted = <<m>>
              /\ e.removed = 0 \/ e.canceled \/ at.openTurn # 0
        /\ ~IsSplice(e) /\ e.type # "user/message" => e.inserted = <<>>
        /\ e.type = "turn/end" => e = TurnEnd(e.turn, e.reason)
        /\ e.type = "user/message" => \E m \in KnownIn(p) \ Pending(Replayed(p)) : e.inserted = <<m>>

\* Every event may follow what is before it.
Good(log1, b) ==
    /\ log1 \in Seq(Events)
    /\ \A n \in DOMAIN log1 : MayFollow(SubSeq(log1, 1, n - 1), log1[n], b)

\* What is then so of the whole log.
Fit(p, b) == FoldsAgree(p) /\ EventsArePlaced(p) /\ CallsAgree(p) /\ ResultsFit(p, b) /\ InboxFits(p)

-----------------------------------------------------------------------------
\* What one more event does to each fold of the log.
LEMMA FoldsUnfold ==
    ASSUME NEW p \in Seq(Events), NEW e \in Events
    PROVE  /\ Trace(Append(p, e)) = Grammar!Apply(Trace(p), e)
           /\ Opened(Append(p, e)) = Scan(Opened(p), e)
           /\ LastTurn(Append(p, e)) = (IF e.type = "turn/start" THEN e.turn ELSE LastTurn(p))
           /\ Replayed(Append(p, e)) =
                (IF IsSplice(e) THEN Splice(Replayed(p), e.target, e.start, e.removed, e.inserted)
                 ELSE Replayed(p))
           /\ \A t, s : ResultsOf(Append(p, e), t, s) =
                IF IsResult(e) /\ e.turn = t /\ e.step = s THEN Append(ResultsOf(p, t, s), e.calls)
                ELSE ResultsOf(p, t, s)
<1>1. Trace(Append(p, e)) = Grammar!Apply(Trace(p), e)
  BY TraceUnfolds
<1>2. Opened(Append(p, e)) = Scan(Opened(p), e)
  BY OpenedUnfolds
<1>3. LastTurn(Append(p, e)) = (IF e.type = "turn/start" THEN e.turn ELSE LastTurn(p))
  BY LastTurnUnfolds
<1>4. Replayed(Append(p, e)) =
                (IF IsSplice(e) THEN Splice(Replayed(p), e.target, e.start, e.removed, e.inserted)
                 ELSE Replayed(p))
  BY ReplayedUnfolds
<1>5. \A t, s : ResultsOf(Append(p, e), t, s) =
                IF IsResult(e) /\ e.turn = t /\ e.step = s THEN Append(ResultsOf(p, t, s), e.calls)
                ELSE ResultsOf(p, t, s)
  BY ResultsOfUnfolds
<1> QED BY <1>1, <1>2, <1>3, <1>4, <1>5

\* Before anything is logged.
LEMMA EmptyFits == \A b : Fit(<<>>, b)
<1> SUFFICES ASSUME NEW b  PROVE Fit(<<>>, b)
  OBVIOUS
<1>1. /\ Trace(<<>>) = Grammar!FreshTrace /\ Opened(<<>>) = NothingOpen /\ LastTurn(<<>>) = 0
      /\ Replayed(<<>>) = EmptyInbox /\ \A t, s : ResultsOf(<<>>, t, s) = <<>>
  BY TraceOfNone, OpenedOfNone, LastTurnOfNone, ReplayedOfNone, ResultsOfNone
<1>2. Range(<<>>) = {}
  BY DEF Range
<1>3. FoldsAgree(<<>>)
  <2>1. <<>> \in Seq(Calls)
    OBVIOUS
  <2> DEFINE at == [openTurn |-> 0, openStep |-> 0, nextTurn |-> 1, nextStep |-> 1, pendingCalls |-> {}]
             open == [turn |-> 0, step |-> 0, asked |-> <<>>, begun |-> {}]
  <2>2. Trace(<<>>) = at /\ Opened(<<>>) = open
    BY <1>1 DEF Grammar!FreshTrace, NothingOpen, Grammar!Closed
  <2>3. at \in Grammar!Traces
    BY DEF Grammar!Traces
  <2>4. open \in Opens
    BY <2>1 DEF Opens
  <2>5. at.openTurn = 0 /\ at.openStep = 0 /\ at.nextTurn = 1 /\ open.turn = 0 /\ open.step = 0
    OBVIOUS
  <2> HIDE DEF at, open
  <2> QED BY <1>1, <2>2, <2>3, <2>4, <2>5, RecoveryBounds DEF FoldsAgree
<1>4. EventsArePlaced(<<>>)
  BY <1>1, <1>2 DEF EventsArePlaced
<1>5. CallsAgree(<<>>)
  BY <1>1, <1>2 DEF CallsAgree, NothingOpen, Grammar!FreshTrace, IsInjective
<1>6. ResultsFit(<<>>, b)
  <2>1. <<>> \in Seq(SUBSET Calls)
    OBVIOUS
  <2> QED BY <1>1, <1>2, <2>1 DEF ResultsFit
<1>7. InboxFits(<<>>)
  <2>1. <<>> \in Seq(Messages) /\ EmptyInbox["next-turn"] = <<>> /\ EmptyInbox["next-step"] = <<>>
    BY DEF EmptyInbox, Targets
  <2>2. EmptyInbox \in Inboxes /\ Once(EmptyInbox) /\ Pending(EmptyInbox) = {}
    BY <1>2, <2>1 DEF EmptyInbox, Inboxes, Targets, Once, Pending, IsInjective
  <2> QED BY <1>1, <1>2, <2>2 DEF InboxFits
<1> QED BY <1>3, <1>4, <1>5, <1>6, <1>7 DEF Fit

\* A list without some calls holds the others.
LEMMA WithoutFacts ==
    ASSUME NEW E, NEW some, NEW list \in Seq(E)
    PROVE  /\ Without(list, some) \in Seq(E)
           /\ Range(Without(list, some)) = Range(list) \ some
<1> DEFINE Fine(s) == Without(s, some) \in Seq(E) /\ Range(Without(s, some)) = Range(s) \ some
           S == {n \in Nat : n <= Len(list) => Fine(SubSeq(list, 1, n))}
<1>1. 0 \in S
  <2>1. SubSeq(list, 1, 0) = <<>> /\ Without(<<>>, some) = <<>> /\ <<>> \in Seq(E)
    BY WholeFacts, WithoutOfNone
  <2>2. Range(<<>>) = {}
    BY DEF Range
  <2> QED BY <2>1, <2>2
<1>2. ASSUME NEW n \in Nat, n \in S  PROVE n + 1 \in S
  <2> SUFFICES ASSUME n + 1 <= Len(list)  PROVE Fine(SubSeq(list, 1, n + 1))
    OBVIOUS
  <2> DEFINE f == SubSeq(list, 1, n)
             e == list[n + 1]
  <2>1. f \in Seq(E) /\ e \in E /\ SubSeq(list, 1, n + 1) = Append(f, e)
    BY FrontFacts
  <2>2. n <= Len(list)
    BY WholeFacts
  <2>3. Fine(f)
    BY <1>2, <2>2
  <2> HIDE DEF f, e
  <2>4. Without(Append(f, e), some) = (IF e \in some THEN Without(f, some) ELSE Append(Without(f, some), e))
    BY <2>1, WithoutUnfolds
  <2>5. Range(Append(f, e)) = Range(f) \cup {e}
    BY <2>1, AppendFacts
  <2>6. CASE e \in some
    BY <2>1, <2>3, <2>4, <2>5, <2>6
  <2>7. CASE e \notin some
    <3>1. Without(Append(f, e), some) = Append(Without(f, some), e)
      BY <2>4, <2>7
    <3>2. /\ Append(Without(f, some), e) \in Seq(E)
          /\ Range(Append(Without(f, some), e)) = Range(Without(f, some)) \cup {e}
      BY <2>1, <2>3, AppendFacts
    <3> QED BY <2>1, <2>3, <2>5, <2>7, <3>1, <3>2
  <2> QED BY <2>6, <2>7
<1>3. Fine(SubSeq(list, 1, Len(list)))
  <2>1. Len(list) \in Nat
    BY WholeFacts
  <2>2. Len(list) \in S
    <3> HIDE DEF S
    <3> QED BY <1>1, <1>2, <2>1, SetInduction
  <2> QED BY <2>1, <2>2
<1> QED BY <1>3, WholeFacts

\* The first of a list without repetition leaves the others as they were.
LEMMA WithoutHead ==
    ASSUME NEW E, NEW list \in Seq(E), list # <<>>, IsInjective(list)
    PROVE  Without(list, {Head(list)}) = Tail(list)
<1> DEFINE h == Head(list)
           Fine(n) == Without(SubSeq(list, 1, n), {h}) = SubSeq(list, 2, n)
           S == {n \in Nat : n <= Len(list) => Fine(n)}
<1>1. /\ h = list[1] /\ Len(list) \in Nat /\ Len(list) >= 1 /\ DOMAIN list = 1..Len(list)
      /\ \A i \in 1..Len(list) : list[i] \in E
  OBVIOUS
<1>2. \A n \in 1..Len(list) : list[n] \in {h} <=> n = 1
  <2> HIDE DEF h
  <2> QED BY <1>1 DEF IsInjective
<1>3. 0 \in S
  <2>1. SubSeq(list, 1, 0) = <<>> /\ SubSeq(list, 2, 0) = <<>>
    OBVIOUS
  <2>2. Without(<<>>, {h}) = <<>>
    BY WithoutOfNone
  <2> HIDE DEF h
  <2> QED BY <2>1, <2>2
<1> HIDE DEF Fine
<1>4. ASSUME NEW n \in Nat, n \in S  PROVE n + 1 \in S
  <2> SUFFICES ASSUME n + 1 <= Len(list)  PROVE Fine(n + 1)
    OBVIOUS
  <2> USE DEF Fine
  <2> DEFINE f == SubSeq(list, 1, n)
             e == list[n + 1]
  <2>1. f \in Seq(E) /\ e \in E /\ SubSeq(list, 1, n + 1) = Append(f, e)
    BY FrontFacts
  <2>2. n + 1 \in 1..Len(list) /\ n <= Len(list)
    BY <1>1
  <2>3. Without(f, {h}) = SubSeq(list, 2, n)
    BY <1>4, <2>2
  <2>4. e \in {h} <=> n = 0
    BY <1>2, <2>2
  <2>5. SubSeq(list, 2, n + 1) = IF n = 0 THEN SubSeq(list, 2, n) ELSE Append(SubSeq(list, 2, n), list[n + 1])
    <3>1. CASE n = 0
      BY <3>1
    <3>2. CASE n # 0
      <4> DEFINE q == SubSeq(list, 2, n)
                 r == SubSeq(list, 2, n + 1)
      <4>1. Len(q) = n - 1 /\ Len(r) = n /\ q \in Seq(E) /\ r \in Seq(E)
        BY <3>2, <2>2
      <4>2. \A i \in 1..(n - 1) : q[i] = list[i + 1]
        BY <3>2, <2>2
      <4>3. \A i \in 1..n : r[i] = list[i + 1]
        BY <3>2, <2>2
      <4> HIDE DEF q, r
      <4>4. /\ Append(q, e) \in Seq(E) /\ Len(Append(q, e)) = n /\ Append(q, e)[n] = e
            /\ \A i \in 1..(n - 1) : Append(q, e)[i] = q[i]
        <5>1. Len(q) + 1 = n
          BY <4>1
        <5> QED BY <2>1, <4>1, <5>1, AppendFacts
      <4>5. \A i \in 1..n : r[i] = Append(q, e)[i]
        <5> TAKE i \in 1..n
        <5>1. CASE i = n
          BY <4>3, <4>4, <5>1
        <5>2. CASE i # n
          BY <4>2, <4>3, <4>4, <5>2
        <5> QED BY <5>1, <5>2
      <4>6. r = Append(q, e)
        BY ONLY <4>1, <4>4, <4>5
      <4> QED BY <3>2, <4>6 DEF q, r
    <3> QED BY <3>1, <3>2
  <2>6. Without(Append(f, e), {h}) = IF e \in {h} THEN Without(f, {h}) ELSE Append(Without(f, {h}), e)
    <3> HIDE DEF f, e, h
    <3> QED BY <2>1, WithoutUnfolds
  <2>7. CASE n = 0
    <3>1. Without(Append(f, e), {h}) = SubSeq(list, 2, n)
      <4> HIDE DEF f, e, h
      <4> QED BY <2>3, <2>4, <2>6, <2>7
    <3> QED BY <2>1, <2>5, <2>7, <3>1
  <2>8. CASE n # 0
    <3>1. Without(Append(f, e), {h}) = Append(SubSeq(list, 2, n), e)
      <4> HIDE DEF f, e, h
      <4> QED BY <2>3, <2>4, <2>6, <2>8
    <3> QED BY <2>1, <2>5, <2>8, <3>1
  <2> QED BY <2>7, <2>8
<1>5. Len(list) \in S
  <2> HIDE DEF S
  <2> QED BY <1>1, <1>3, <1>4, SetInduction
<1>6. Fine(Len(list))
  BY <1>5, <1>1
<1>7. SubSeq(list, 1, Len(list)) = list /\ Tail(list) = SubSeq(list, 2, Len(list))
  BY WholeFacts
<1> QED BY <1>6, <1>7 DEF Fine

-----------------------------------------------------------------------------
(***************************************************************************)
(* A good log fits: one lemma for each part of Fit.                        *)
(***************************************************************************)
\* What the grammar asks of each event.
LEMMA LegalSays ==
    ASSUME NEW p, NEW e, NEW b, FoldsAgree(p), MayFollow(p, e, b)
    PROVE  /\ e \in Events
           /\ e.type = "turn/start" => Trace(p).openTurn = 0 /\ e.turn = Trace(p).nextTurn
           /\ e.type = "turn/end" => /\ Trace(p).openTurn = e.turn /\ e.turn # 0 /\ Trace(p).openStep = 0
           /\ e.type = "step/start" =>
                /\ Trace(p).openTurn = e.turn /\ e.turn # 0 /\ Trace(p).openStep = 0
                /\ e.step = Trace(p).nextStep
           /\ e.type \in Within =>
                /\ Trace(p).openTurn = e.turn /\ Trace(p).openStep = e.step /\ e.turn # 0 /\ e.step # 0
<1> DEFINE at == Trace(p)
<1>1. e \in Events /\ Grammar!Legal(at, e)
  BY DEF MayFollow
<1>2. /\ e.type \in Within => at.openStep # 0
      /\ e.type \in {"turn/end", "step/start"} => at.openTurn # 0
      /\ at.openTurn = 0 => at.openStep = 0
  BY DEF MayFollow, FoldsAgree
<1> HIDE DEF at
<1>3. e.type = "turn/start" => at.openTurn = 0 /\ e.turn = at.nextTurn
  BY <1>1 DEF Grammar!Legal, Grammar!Closed
<1>4. e.type = "turn/end" => at.openTurn = e.turn /\ at.openStep = 0
  BY <1>1 DEF Grammar!Legal, Grammar!Closed
<1>5. e.type = "step/start" => at.openTurn = e.turn /\ at.openStep = 0 /\ e.step = at.nextStep
  BY <1>1 DEF Grammar!Legal, Grammar!Closed
<1>6. e.type \in Within => at.openTurn = e.turn /\ at.openStep = e.step
  BY <1>1 DEF Grammar!Legal, Grammar!NamesOpenStep, Within
<1> QED BY <1>1, <1>2, <1>3, <1>4, <1>5, <1>6 DEF at

\* What an event does to the folds, part by part.
LEMMA FoldsMove ==
    ASSUME NEW p \in Seq(Events), NEW e \in Events, Trace(p) \in Grammar!Traces, Opened(p) \in Opens
    PROVE  /\ Trace(Append(p, e)) \in Grammar!Traces /\ Opened(Append(p, e)) \in Opens
           /\ Trace(Append(p, e)).openTurn = (IF e.type = "turn/start" THEN e.turn
                             ELSE IF e.type = "turn/end" THEN 0 ELSE Trace(p).openTurn)
           /\ Trace(Append(p, e)).openStep = (IF e.type = "step/start" THEN e.step
                             ELSE IF e.type = "step/end" THEN 0 ELSE Trace(p).openStep)
           /\ Trace(Append(p, e)).nextTurn = (IF e.type = "turn/end" THEN Trace(p).nextTurn + 1 ELSE Trace(p).nextTurn)
           /\ Trace(Append(p, e)).nextStep = (IF e.type = "turn/start" THEN 1
                             ELSE IF e.type = "step/end" THEN Trace(p).nextStep + 1 ELSE Trace(p).nextStep)
           /\ Trace(Append(p, e)).pendingCalls = (IF e.type = "step/end" THEN {}
                                 ELSE IF e.type = "tool/call" THEN Trace(p).pendingCalls \cup e.calls
                                 ELSE IF IsResult(e) THEN Trace(p).pendingCalls \ e.calls
                                 ELSE Trace(p).pendingCalls)
           /\ Opened(Append(p, e)).turn = (IF e.type = "turn/start" THEN e.turn
                          ELSE IF e.type = "turn/end" THEN 0 ELSE Opened(p).turn)
           /\ Opened(Append(p, e)).step = (IF e.type = "step/start" THEN e.step
                          ELSE IF e.type \in {"turn/start", "turn/end", "step/end"} THEN 0 ELSE Opened(p).step)
           /\ Opened(Append(p, e)).asked = (IF e.type \in {"turn/start", "turn/end", "step/end"} THEN <<>>
                           ELSE IF e.type = "assistant/message" THEN Opened(p).asked \o e.asks
                           ELSE IF IsResult(e) THEN Without(Opened(p).asked, e.calls) ELSE Opened(p).asked)
           /\ Opened(Append(p, e)).begun = (IF e.type \in {"turn/start", "turn/end", "step/end"} THEN {}
                           ELSE IF e.type = "tool/call" THEN Opened(p).begun \cup (e.calls \cap Range(Opened(p).asked))
                           ELSE Opened(p).begun)
<1> DEFINE at == Trace(p)
           open == Opened(p)
           to == Trace(Append(p, e))
           now == Opened(Append(p, e))
<1>0. at \in Grammar!Traces /\ open \in Opens /\ to = Grammar!Apply(at, e) /\ now = Scan(open, e)
  BY FoldsUnfold
<1> SUFFICES /\ to \in Grammar!Traces /\ now \in Opens
         /\ to.openTurn = (IF e.type = "turn/start" THEN e.turn
                           ELSE IF e.type = "turn/end" THEN 0 ELSE at.openTurn)
         /\ to.openStep = (IF e.type = "step/start" THEN e.step
                           ELSE IF e.type = "step/end" THEN 0 ELSE at.openStep)
         /\ to.nextTurn = (IF e.type = "turn/end" THEN at.nextTurn + 1 ELSE at.nextTurn)
         /\ to.nextStep = (IF e.type = "turn/start" THEN 1
                           ELSE IF e.type = "step/end" THEN at.nextStep + 1 ELSE at.nextStep)
         /\ to.pendingCalls = (IF e.type = "step/end" THEN {}
                               ELSE IF e.type = "tool/call" THEN at.pendingCalls \cup e.calls
                               ELSE IF IsResult(e) THEN at.pendingCalls \ e.calls
                               ELSE at.pendingCalls)
         /\ now.turn = (IF e.type = "turn/start" THEN e.turn
                        ELSE IF e.type = "turn/end" THEN 0 ELSE open.turn)
         /\ now.step = (IF e.type = "step/start" THEN e.step
                        ELSE IF e.type \in {"turn/start", "turn/end", "step/end"} THEN 0 ELSE open.step)
         /\ now.asked = (IF e.type \in {"turn/start", "turn/end", "step/end"} THEN <<>>
                         ELSE IF e.type = "assistant/message" THEN open.asked \o e.asks
                         ELSE IF IsResult(e) THEN Without(open.asked, e.calls) ELSE open.asked)
         /\ now.begun = (IF e.type \in {"turn/start", "turn/end", "step/end"} THEN {}
                         ELSE IF e.type = "tool/call" THEN open.begun \cup (e.calls \cap Range(open.asked))
                         ELSE open.begun)
  OBVIOUS
<1> HIDE DEF at, open, to, now
<1>1. /\ at = [openTurn |-> at.openTurn, openStep |-> at.openStep, nextTurn |-> at.nextTurn,
               nextStep |-> at.nextStep, pendingCalls |-> at.pendingCalls]
      /\ at.openTurn \in Nat /\ at.openStep \in Nat /\ at.nextTurn \in Nat \ {0}
      /\ at.nextStep \in Nat \ {0} /\ at.pendingCalls \subseteq Calls
  BY <1>0 DEF Grammar!Traces
<1>2. /\ open = [turn |-> open.turn, step |-> open.step, asked |-> open.asked, begun |-> open.begun]
      /\ open.turn \in Nat /\ open.step \in Nat /\ open.asked \in Seq(Calls) /\ open.begun \subseteq Calls
  BY <1>0 DEF Opens
<1>3. /\ e.turn \in Nat /\ e.step \in Nat /\ e.calls \subseteq Calls /\ e.asks \in Seq(Calls)
      /\ e.type \in EventTypes
  BY RecoveryBounds DEF Events
<1>4. /\ <<>> \in Seq(Calls) /\ open.asked \o e.asks \in Seq(Calls)
      /\ Without(open.asked, e.calls) \in Seq(Calls)
  <2>1. <<>> \in Seq(Calls)
    OBVIOUS
  <2>2. open.asked \o e.asks \in Seq(Calls)
    BY <1>2, <1>3, ConcatFacts
  <2>3. Without(open.asked, e.calls) \in Seq(Calls)
    BY <1>2, WithoutFacts
  <2> QED BY <2>1, <2>2, <2>3
<1> DEFINE joined == open.asked \o e.asks
           less == Without(open.asked, e.calls)
           more == open.begun \cup (e.calls \cap Range(open.asked))
<1>5. joined \in Seq(Calls) /\ less \in Seq(Calls) /\ more \subseteq Calls /\ <<>> \in Seq(Calls)
  BY <1>2, <1>3, <1>4
<1>6. Grammar!Apply(at, e) =
        CASE e.type = "turn/start" -> [at EXCEPT !.openTurn = e.turn, !.nextStep = 1]
          [] e.type = "turn/end" -> [at EXCEPT !.openTurn = 0, !.nextTurn = at.nextTurn + 1]
          [] e.type = "step/start" -> [at EXCEPT !.openStep = e.step]
          [] e.type = "step/end" ->
                [at EXCEPT !.openStep = 0, !.nextStep = at.nextStep + 1, !.pendingCalls = {}]
          [] e.type = "tool/call" -> [at EXCEPT !.pendingCalls = at.pendingCalls \cup e.calls]
          [] e.type \in {"tool/result", "tool/not-started"} ->
                [at EXCEPT !.pendingCalls = at.pendingCalls \ e.calls]
          [] OTHER -> at
  BY DEF Grammar!Apply, Grammar!Closed
<1> HIDE DEF joined, less, more
<1> USE DEF Opens, Grammar!Traces, IsResult
<1>10. CASE e.type = "turn/start"
  <2>1. to = [openTurn |-> e.turn, openStep |-> at.openStep, nextTurn |-> at.nextTurn, nextStep |-> 1,
              pendingCalls |-> at.pendingCalls]
    BY <1>0, <1>1, <1>6, <1>10
  <2>2. now = [turn |-> e.turn, step |-> 0, asked |-> <<>>, begun |-> {}]
    BY <1>0, <1>10 DEF Scan, NothingOpen, Grammar!Closed, joined, less, more
  <2> QED BY <1>1, <1>3, <1>5, <1>10, <2>1, <2>2
<1>11. CASE e.type = "turn/end"
  <2>1. to = [openTurn |-> 0, openStep |-> at.openStep, nextTurn |-> at.nextTurn + 1,
              nextStep |-> at.nextStep, pendingCalls |-> at.pendingCalls]
    BY <1>0, <1>1, <1>6, <1>11
  <2>2. now = [turn |-> 0, step |-> 0, asked |-> <<>>, begun |-> {}]
    BY <1>0, <1>11 DEF Scan, NothingOpen, Grammar!Closed, joined, less, more
  <2> QED BY <1>1, <1>5, <1>11, <2>1, <2>2
<1>12. CASE e.type = "step/start"
  <2>1. to = [openTurn |-> at.openTurn, openStep |-> e.step, nextTurn |-> at.nextTurn,
              nextStep |-> at.nextStep, pendingCalls |-> at.pendingCalls]
    BY <1>0, <1>1, <1>6, <1>12
  <2>2. now = [turn |-> open.turn, step |-> e.step, asked |-> open.asked, begun |-> open.begun]
    BY <1>0, <1>2, <1>12 DEF Scan, NothingOpen, Grammar!Closed, joined, less, more
  <2> QED BY <1>1, <1>2, <1>3, <1>12, <2>1, <2>2
<1>13. CASE e.type = "step/end"
  <2>1. to = [openTurn |-> at.openTurn, openStep |-> 0, nextTurn |-> at.nextTurn,
              nextStep |-> at.nextStep + 1, pendingCalls |-> {}]
    BY <1>0, <1>1, <1>6, <1>13
  <2>2. now = [turn |-> open.turn, step |-> 0, asked |-> <<>>, begun |-> {}]
    BY <1>0, <1>13 DEF Scan, NothingOpen, Grammar!Closed, joined, less, more
  <2> QED BY <1>1, <1>2, <1>5, <1>13, <2>1, <2>2, SMTT(60)
<1>14. CASE e.type = "assistant/message"
  <2>1. to = at
    BY <1>0, <1>6, <1>14
  <2>2. now = [turn |-> open.turn, step |-> open.step, asked |-> joined, begun |-> open.begun]
    BY <1>0, <1>2, <1>14 DEF Scan, NothingOpen, Grammar!Closed, joined, less, more
  <2> QED BY <1>1, <1>2, <1>5, <1>14, <2>1, <2>2 DEF joined
<1>15. CASE e.type = "tool/call"
  <2>1. to = [openTurn |-> at.openTurn, openStep |-> at.openStep, nextTurn |-> at.nextTurn,
              nextStep |-> at.nextStep, pendingCalls |-> at.pendingCalls \cup e.calls]
    BY <1>0, <1>1, <1>6, <1>15
  <2>2. now = [turn |-> open.turn, step |-> open.step, asked |-> open.asked, begun |-> more]
    BY <1>0, <1>2, <1>15 DEF Scan, NothingOpen, Grammar!Closed, joined, less, more
  <2> QED BY <1>1, <1>2, <1>3, <1>5, <1>15, <2>1, <2>2 DEF more
<1>16. CASE e.type \in {"tool/result", "tool/not-started"}
  <2>1. to = [openTurn |-> at.openTurn, openStep |-> at.openStep, nextTurn |-> at.nextTurn,
              nextStep |-> at.nextStep, pendingCalls |-> at.pendingCalls \ e.calls]
    BY <1>0, <1>1, <1>6, <1>16
  <2>2. now = [turn |-> open.turn, step |-> open.step, asked |-> less, begun |-> open.begun]
    BY <1>0, <1>2, <1>16 DEF Scan, NothingOpen, Grammar!Closed, joined, less, more
  <2> QED BY <1>1, <1>2, <1>5, <1>16, <2>1, <2>2 DEF less
<1>17. CASE e.type \in {"agent/inbox/spliced", "user/message"}
  <2>1. to = at /\ now = open
    BY <1>0, <1>6, <1>17 DEF Scan
  <2> QED BY <1>1, <1>2, <1>17, <2>1
<1> QED BY <1>3, <1>10, <1>11, <1>12, <1>13, <1>14, <1>15, <1>16, <1>17 DEF EventTypes, Within

\* The folds after an event.
LEMMA FoldsStayAgreed ==
    ASSUME NEW p \in Seq(Events), NEW e, NEW b, FoldsAgree(p), MayFollow(p, e, b)
    PROVE  FoldsAgree(Append(p, e))
<1> DEFINE at == Trace(p)
           open == Opened(p)
           to == Trace(Append(p, e))
           now == Opened(Append(p, e))
           turn1 == LastTurn(p)
           turn2 == LastTurn(Append(p, e))
<1>1. /\ at \in Grammar!Traces /\ open \in Opens
      /\ at.openTurn <= MaxTurns /\ at.openStep <= MaxSteps /\ at.nextTurn <= MaxTurns + 1
      /\ open.turn = at.openTurn /\ open.step = at.openStep
      /\ at.openTurn = 0 => at.openStep = 0
      /\ at.openTurn # 0 => at.openTurn = at.nextTurn
      /\ at.openStep # 0 => at.openStep = at.nextStep
      /\ turn1 = IF at.openTurn = 0 THEN at.nextTurn - 1 ELSE at.openTurn
  BY DEF FoldsAgree
<1>2. /\ e \in Events
      /\ e.type = "turn/start" => at.openTurn = 0 /\ e.turn = at.nextTurn
      /\ e.type = "turn/end" => /\ at.openTurn = e.turn /\ e.turn # 0 /\ at.openStep = 0
      /\ e.type = "step/start" =>
          /\ at.openTurn = e.turn /\ e.turn # 0 /\ at.openStep = 0 /\ e.step = at.nextStep
      /\ e.type \in Within => at.openTurn = e.turn /\ at.openStep = e.step /\ e.turn # 0 /\ e.step # 0
  BY LegalSays
<1>3. to = Grammar!Apply(at, e) /\ now = Scan(open, e)
      /\ turn2 = IF e.type = "turn/start" THEN e.turn ELSE turn1
  BY <1>2, FoldsUnfold
<1> DEFINE Goal == FoldsAgree(Append(p, e))
<1>4. Goal <=> /\ to \in Grammar!Traces /\ now \in Opens
               /\ to.openTurn <= MaxTurns /\ to.openStep <= MaxSteps /\ to.nextTurn <= MaxTurns + 1
               /\ now.turn = to.openTurn /\ now.step = to.openStep
               /\ to.openTurn = 0 => to.openStep = 0
               /\ to.openTurn # 0 => to.openTurn = to.nextTurn
               /\ to.openStep # 0 => to.openStep = to.nextStep
               /\ turn2 = IF to.openTurn = 0 THEN to.nextTurn - 1 ELSE to.openTurn
  BY DEF FoldsAgree
<1> SUFFICES Goal
  BY DEF Goal
<1> HIDE DEF at, open, to, now, turn1, turn2, Goal
<1>5. /\ e.turn \in 0..MaxTurns /\ e.step \in 0..MaxSteps /\ e.type \in EventTypes
      /\ MaxTurns \in Nat /\ MaxSteps \in Nat
  BY <1>2, RecoveryBounds DEF Events
<1>6. /\ at.openTurn \in Nat /\ at.openStep \in Nat /\ at.nextTurn \in Nat \ {0} /\ at.nextStep \in Nat \ {0}
  BY <1>1 DEF Grammar!Traces
<1>7. /\ to \in Grammar!Traces /\ now \in Opens
      /\ to.openTurn = (IF e.type = "turn/start" THEN e.turn
                        ELSE IF e.type = "turn/end" THEN 0 ELSE at.openTurn)
      /\ to.openStep = (IF e.type = "step/start" THEN e.step
                        ELSE IF e.type = "step/end" THEN 0 ELSE at.openStep)
      /\ to.nextTurn = (IF e.type = "turn/end" THEN at.nextTurn + 1 ELSE at.nextTurn)
      /\ to.nextStep = (IF e.type = "turn/start" THEN 1
                        ELSE IF e.type = "step/end" THEN at.nextStep + 1 ELSE at.nextStep)
      /\ now.turn = (IF e.type = "turn/start" THEN e.turn
                     ELSE IF e.type = "turn/end" THEN 0 ELSE open.turn)
      /\ now.step = (IF e.type = "step/start" THEN e.step
                     ELSE IF e.type \in {"turn/start", "turn/end", "step/end"} THEN 0 ELSE open.step)
  BY <1>1, <1>2, FoldsMove DEF at, open, to, now
<1>8. e.type = "step/end" => at.openTurn = e.turn /\ at.openStep = e.step /\ e.turn # 0 /\ e.step # 0
  BY <1>2 DEF Within
<1> QED BY <1>1, <1>2, <1>3, <1>4, <1>5, <1>6, <1>7, <1>8

\* What has become of a step after an event.
LEMMA StepsMove ==
    ASSUME NEW p \in Seq(Events), NEW e, NEW b, FoldsAgree(p), MayFollow(p, e, b),
           NEW t \in Nat, NEW s \in Nat, t >= 1, s >= 1
    PROVE  /\ Over(Trace(p), t, s) => Over(Trace(Append(p, e)), t, s)
           /\ IsOpen(Trace(p), t, s) =>
                IF e.type = "step/end" THEN Over(Trace(Append(p, e)), t, s)
                ELSE IsOpen(Trace(Append(p, e)), t, s)
           /\ IsOpen(Trace(Append(p, e)), t, s) =>
                \/ IsOpen(Trace(p), t, s) /\ e.type # "step/end"
                \/ e.type = "step/start" /\ t = e.turn /\ s = e.step /\ Trace(p).openStep = 0
           /\ e.type = "step/start" /\ t = e.turn /\ s = e.step => ~Over(Trace(p), t, s)
           /\ ~(IsOpen(Trace(p), t, s) /\ Over(Trace(p), t, s))
<1> DEFINE at == Trace(p)
           to == Trace(Append(p, e))
<1>1. /\ at \in Grammar!Traces /\ Opened(p) \in Opens
      /\ at.openTurn = 0 => at.openStep = 0
      /\ at.openTurn # 0 => at.openTurn = at.nextTurn
      /\ at.openStep # 0 => at.openStep = at.nextStep
  BY DEF FoldsAgree
<1>2. /\ e \in Events
      /\ e.type = "turn/start" => at.openTurn = 0 /\ e.turn = at.nextTurn
      /\ e.type = "turn/end" => at.openTurn = e.turn /\ e.turn # 0 /\ at.openStep = 0
      /\ e.type = "step/start" =>
          /\ at.openTurn = e.turn /\ e.turn # 0 /\ at.openStep = 0 /\ e.step = at.nextStep
      /\ e.type \in Within => at.openTurn = e.turn /\ at.openStep = e.step /\ e.turn # 0 /\ e.step # 0
  BY LegalSays
<1>3. /\ to.openTurn = (IF e.type = "turn/start" THEN e.turn
                        ELSE IF e.type = "turn/end" THEN 0 ELSE at.openTurn)
      /\ to.openStep = (IF e.type = "step/start" THEN e.step
                        ELSE IF e.type = "step/end" THEN 0 ELSE at.openStep)
      /\ to.nextTurn = (IF e.type = "turn/end" THEN at.nextTurn + 1 ELSE at.nextTurn)
      /\ to.nextStep = (IF e.type = "turn/start" THEN 1
                        ELSE IF e.type = "step/end" THEN at.nextStep + 1 ELSE at.nextStep)
  BY <1>1, <1>2, FoldsMove
<1> HIDE DEF at, to
<1>4. /\ e.turn \in Nat /\ e.step \in Nat
      /\ at.openTurn \in Nat /\ at.openStep \in Nat /\ at.nextTurn \in Nat \ {0} /\ at.nextStep \in Nat \ {0}
  BY <1>1, <1>2, RecoveryBounds DEF Grammar!Traces, Events
<1>5. e.type = "step/end" => at.openTurn = e.turn /\ at.openStep = e.step /\ e.turn # 0 /\ e.step # 0
  BY <1>2 DEF Within
<1>6. Over(at, t, s) => Over(to, t, s)
  BY <1>1, <1>2, <1>3, <1>4, <1>5 DEF Over
<1>7. IsOpen(at, t, s) => IF e.type = "step/end" THEN Over(to, t, s) ELSE IsOpen(to, t, s)
  BY <1>1, <1>2, <1>3, <1>4, <1>5 DEF Over, IsOpen
<1>8. IsOpen(to, t, s) => \/ IsOpen(at, t, s) /\ e.type # "step/end"
                          \/ e.type = "step/start" /\ t = e.turn /\ s = e.step /\ at.openStep = 0
  BY <1>1, <1>2, <1>3, <1>4, <1>5 DEF IsOpen
<1>9. /\ e.type = "step/start" /\ t = e.turn /\ s = e.step => ~Over(at, t, s)
      /\ ~(IsOpen(at, t, s) /\ Over(at, t, s))
  BY <1>1, <1>2, <1>4 DEF IsOpen, Over
<1> QED BY <1>6, <1>7, <1>8, <1>9 DEF at, to

\* An event that may follow leaves every event in a step that is open or over.
LEMMA EventsStayPlaced ==
    ASSUME NEW p \in Seq(Events), NEW e, NEW b, FoldsAgree(p), EventsArePlaced(p), MayFollow(p, e, b)
    PROVE  EventsArePlaced(Append(p, e))
<1>1. /\ e \in Events
      /\ e.type \in Within => /\ Trace(p).openTurn = e.turn /\ Trace(p).openStep = e.step
                              /\ e.turn # 0 /\ e.step # 0
  BY LegalSays
<1>2. Range(Append(p, e)) = Range(p) \cup {e}
  BY <1>1, AppendFacts
<1>3. e.type \in Within => e.turn >= 1 /\ e.step >= 1 /\ IsOpen(Trace(p), e.turn, e.step)
  BY <1>1, RecoveryBounds, SMTT(60) DEF IsOpen, Events
<1>4. ASSUME NEW d \in Range(Append(p, e)), d.type \in Within
      PROVE  /\ d.turn >= 1 /\ d.step >= 1
             /\ \/ Over(Trace(Append(p, e)), d.turn, d.step)
                \/ IsOpen(Trace(Append(p, e)), d.turn, d.step) /\ d.type # "step/end"
  <2>1. d \in Events
    BY <1>1, <1>2, WholeFacts
  <2>2. d.turn \in Nat /\ d.step \in Nat
    BY <2>1, RecoveryBounds DEF Events
  <2>3. CASE d \in Range(p)
    <3>1. /\ d.turn >= 1 /\ d.step >= 1
          /\ Over(Trace(p), d.turn, d.step) \/ (IsOpen(Trace(p), d.turn, d.step) /\ d.type # "step/end")
      BY <1>4, <2>3 DEF EventsArePlaced
    <3> QED BY <2>2, <3>1, StepsMove
  <2>4. CASE d = e
    <3>1. d.turn >= 1 /\ d.step >= 1 /\ IsOpen(Trace(p), d.turn, d.step)
      BY <1>3, <1>4, <2>4
    <3> QED BY <2>2, <2>4, <3>1, StepsMove
  <2> QED BY <1>2, <2>3, <2>4
<1>5. ASSUME NEW t \in Nat, NEW s \in Nat, ResultsOf(Append(p, e), t, s) # <<>>
      PROVE  t >= 1 /\ s >= 1 /\ (Over(Trace(Append(p, e)), t, s) \/ IsOpen(Trace(Append(p, e)), t, s))
  <2>1. ResultsOf(Append(p, e), t, s) =
            IF IsResult(e) /\ e.turn = t /\ e.step = s THEN Append(ResultsOf(p, t, s), e.calls)
            ELSE ResultsOf(p, t, s)
    BY <1>1, FoldsUnfold
  <2>2. t >= 1 /\ s >= 1 /\ (Over(Trace(p), t, s) \/ IsOpen(Trace(p), t, s))
    <3>1. CASE ResultsOf(p, t, s) # <<>>
      BY <3>1 DEF EventsArePlaced
    <3>2. CASE IsResult(e) /\ e.turn = t /\ e.step = s
      BY <1>3, <3>2 DEF IsResult, Within
    <3> QED BY <1>5, <2>1, <3>1, <3>2
  <2> QED BY <2>2, StepsMove
<1> QED BY <1>4, <1>5 DEF EventsArePlaced

\* An answer of the open step appears with its event, and goes with the step.
LEMMA AnswersMove ==
    ASSUME NEW p \in Seq(Events), NEW e, NEW b, FoldsAgree(p), EventsArePlaced(p), MayFollow(p, e, b)
    PROVE  /\ e.type = "assistant/message" => HasAnswer(Append(p, e))
           /\ HasAnswer(p) /\ e.type # "step/end" => HasAnswer(Append(p, e))
           /\ HasAnswer(Append(p, e)) =>
                e.type = "assistant/message" \/ (HasAnswer(p) /\ e.type # "step/end")
<1>1. /\ e \in Events
      /\ e.type \in Within => /\ Trace(p).openTurn = e.turn /\ Trace(p).openStep = e.step
                              /\ e.turn # 0 /\ e.step # 0
  BY LegalSays
<1>2. Range(Append(p, e)) = Range(p) \cup {e}
  BY <1>1, AppendFacts
<1>3. \A d \in Range(p) \cup {e} : d.turn \in Nat /\ d.step \in Nat
  <2>1. Range(p) \cup {e} \subseteq Events
    BY <1>1, WholeFacts
  <2> QED BY <2>1, RecoveryBounds DEF Events
<1>4. ASSUME e.type = "assistant/message"  PROVE HasAnswer(Append(p, e))
  <2>1. e.turn >= 1 /\ e.step >= 1 /\ IsOpen(Trace(p), e.turn, e.step)
    BY <1>1, <1>3, <1>4 DEF IsOpen, Within
  <2>2. IsOpen(Trace(Append(p, e)), e.turn, e.step)
    BY <1>3, <1>4, <2>1, StepsMove
  <2> QED BY <1>2, <1>4, <2>2 DEF HasAnswer
<1>5. ASSUME HasAnswer(p), e.type # "step/end"  PROVE HasAnswer(Append(p, e))
  <2>1. PICK d \in Range(p) : d.type = "assistant/message" /\ IsOpen(Trace(p), d.turn, d.step)
    BY <1>5 DEF HasAnswer
  <2>2. d.turn >= 1 /\ d.step >= 1
    BY <2>1 DEF EventsArePlaced, Within
  <2>3. IsOpen(Trace(Append(p, e)), d.turn, d.step)
    BY <1>3, <1>5, <2>1, <2>2, StepsMove
  <2> QED BY <1>2, <2>1, <2>3 DEF HasAnswer
<1>6. ASSUME HasAnswer(Append(p, e)), e.type # "assistant/message"
      PROVE  HasAnswer(p) /\ e.type # "step/end"
  <2>1. PICK d \in Range(p) \cup {e} :
            d.type = "assistant/message" /\ IsOpen(Trace(Append(p, e)), d.turn, d.step)
    BY <1>2, <1>6 DEF HasAnswer
  <2>2. d \in Range(p)
    BY <1>6, <2>1
  <2>3. /\ d.turn >= 1 /\ d.step >= 1
        /\ Over(Trace(p), d.turn, d.step) \/ IsOpen(Trace(p), d.turn, d.step)
    BY <2>1, <2>2 DEF EventsArePlaced, Within
  <2>4. IsOpen(Trace(p), d.turn, d.step) /\ e.type # "step/end"
    BY <1>3, <2>1, <2>3, StepsMove
  <2> QED BY <2>1, <2>2, <2>4 DEF HasAnswer
<1> QED BY <1>4, <1>5, <1>6

\* A list without repetition, but for its first.
LEMMA TailFacts ==
    ASSUME NEW E, NEW list \in Seq(E), list # <<>>, IsInjective(list)
    PROVE  /\ Head(list) \in E /\ Tail(list) \in Seq(E) /\ IsInjective(Tail(list))
           /\ Range(list) = {Head(list)} \cup Range(Tail(list)) /\ Head(list) \notin Range(Tail(list))
<1> DEFINE h == Head(list)
           r == Tail(list)
<1>1. /\ h = list[1] /\ h \in E /\ r \in Seq(E) /\ Len(list) \in Nat /\ Len(list) >= 1
      /\ DOMAIN list = 1..Len(list) /\ DOMAIN r = 1..(Len(list) - 1)
      /\ \A i \in 1..(Len(list) - 1) : r[i] = list[i + 1]
  OBVIOUS
<1> HIDE DEF h, r
<1>2. \A i, j \in DOMAIN list : list[i] = list[j] => i = j
  BY DEF IsInjective
<1>3. IsInjective(r)
  BY <1>1, <1>2 DEF IsInjective
<1>4. h \notin Range(r)
  BY <1>1, <1>2 DEF Range
<1>5. ASSUME NEW c \in Range(list)  PROVE c = h \/ c \in Range(r)
  <2>1. PICK i \in 1..Len(list) : c = list[i]
    BY <1>1 DEF Range
  <2>2. CASE i = 1
    BY <1>1, <2>1, <2>2
  <2>3. CASE i # 1
    <3>1. i - 1 \in 1..(Len(list) - 1) /\ r[i - 1] = list[i]
      BY <1>1, <2>3
    <3> QED BY <1>1, <2>1, <3>1 DEF Range
  <2> QED BY <2>2, <2>3
<1>6. h \in Range(list)
  BY <1>1 DEF Range
<1>7. Range(r) \subseteq Range(list)
  <2> SUFFICES ASSUME NEW i \in DOMAIN r  PROVE r[i] \in Range(list)
    BY DEF Range
  <2>1. i + 1 \in DOMAIN list /\ r[i] = list[i + 1]
    BY <1>1
  <2> QED BY <2>1 DEF Range
<1> QED BY <1>1, <1>3, <1>4, <1>5, <1>6, <1>7 DEF h, r

\* An event that may follow keeps the scan's calls and the grammar's together.
LEMMA CallsStayAgreed ==
    ASSUME NEW p \in Seq(Events), NEW e, NEW b, FoldsAgree(p), EventsArePlaced(p), CallsAgree(p),
           MayFollow(p, e, b)
    PROVE  CallsAgree(Append(p, e))
<1> DEFINE at == Trace(p)
           open == Opened(p)
           to == Trace(Append(p, e))
           now == Opened(Append(p, e))
<1>1. /\ at \in Grammar!Traces /\ open \in Opens /\ open.turn = at.openTurn /\ open.step = at.openStep
      /\ at.openTurn = 0 => at.openStep = 0
  BY DEF FoldsAgree
<1>2. /\ e \in Events
      /\ e.type = "turn/start" => at.openTurn = 0
      /\ e.type = "turn/end" => at.openStep = 0
      /\ e.type = "step/start" => at.openStep = 0
      /\ e.type \in Within => at.openTurn = e.turn /\ at.openStep = e.step /\ e.turn # 0 /\ e.step # 0
  BY LegalSays
<1>3. /\ to.openStep = (IF e.type = "step/start" THEN e.step
                        ELSE IF e.type = "step/end" THEN 0 ELSE at.openStep)
      /\ to.pendingCalls = (IF e.type = "step/end" THEN {}
                            ELSE IF e.type = "tool/call" THEN at.pendingCalls \cup e.calls
                            ELSE IF IsResult(e) THEN at.pendingCalls \ e.calls
                            ELSE at.pendingCalls)
      /\ now.turn = (IF e.type = "turn/start" THEN e.turn
                     ELSE IF e.type = "turn/end" THEN 0 ELSE open.turn)
      /\ now.step = (IF e.type = "step/start" THEN e.step
                     ELSE IF e.type \in {"turn/start", "turn/end", "step/end"} THEN 0 ELSE open.step)
      /\ now.asked = (IF e.type \in {"turn/start", "turn/end", "step/end"} THEN <<>>
                      ELSE IF e.type = "assistant/message" THEN open.asked \o e.asks
                      ELSE IF IsResult(e) THEN Without(open.asked, e.calls) ELSE open.asked)
      /\ now.begun = (IF e.type \in {"turn/start", "turn/end", "step/end"} THEN {}
                      ELSE IF e.type = "tool/call" THEN open.begun \cup (e.calls \cap Range(open.asked))
                      ELSE open.begun)
  BY <1>1, <1>2, FoldsMove
<1>4. /\ e.type = "assistant/message" => HasAnswer(Append(p, e))
      /\ HasAnswer(p) /\ e.type # "step/end" => HasAnswer(Append(p, e))
  BY AnswersMove
<1>5. /\ IsInjective(open.asked)
      /\ \A c \in Range(open.asked) : c[1] = open.turn /\ c[2] = open.step
      /\ Range(open.asked) \cap at.pendingCalls = Range(open.asked) \cap open.begun
      /\ open.step = 0 \/ ~HasAnswer(p) => open.asked = <<>> /\ open.begun = {} /\ at.pendingCalls = {}
      /\ \A d \in Range(p) :
              d.type = "tool/call" /\ IsOpen(at, d.turn, d.step) => d.calls \subseteq open.begun
  BY DEF CallsAgree
<1>6. open.asked \in Seq(Calls) /\ open.begun \subseteq Calls
  BY <1>1 DEF Opens
<1>7. /\ e.type = "assistant/message" =>
              /\ ~HasAnswer(p) /\ IsInjective(e.asks)
              /\ \A c \in Range(e.asks) : c[1] = e.turn /\ c[2] = e.step
      /\ e.type = "tool/call" => e.calls \subseteq Range(open.asked)
      /\ IsResult(e) => open.asked # <<>> /\ e.calls = {Head(open.asked)}
  BY DEF MayFollow
\* The calls that were begun in the open step.
<1>8. ASSUME NEW d \in Range(Append(p, e)), d.type = "tool/call", IsOpen(to, d.turn, d.step)
      PROVE  /\ e.type \notin {"turn/start", "turn/end", "step/end", "step/start"}
             /\ d = e \/ d.calls \subseteq open.begun
  <2>1. Range(Append(p, e)) = Range(p) \cup {e} /\ d \in Events
    <3>1. Range(Append(p, e)) = Range(p) \cup {e} /\ Append(p, e) \in Seq(Events)
      BY <1>2, AppendFacts
    <3>2. Range(Append(p, e)) \subseteq Events
      BY <3>1, WholeFacts
    <3> QED BY <3>1, <3>2
  <2>2. d.turn \in Nat /\ d.step \in Nat
    BY <2>1, RecoveryBounds DEF Events
  <2>3. CASE d = e
    BY <1>8, <2>3
  <2>4. CASE d \in Range(p)
    <3>1. /\ d.turn >= 1 /\ d.step >= 1
          /\ Over(at, d.turn, d.step) \/ IsOpen(at, d.turn, d.step)
      BY <1>8, <2>4 DEF EventsArePlaced, Within
    <3>2. /\ IsOpen(to, d.turn, d.step) =>
                \/ IsOpen(at, d.turn, d.step) /\ e.type # "step/end"
                \/ e.type = "step/start" /\ d.turn = e.turn /\ d.step = e.step /\ at.openStep = 0
          /\ e.type = "step/start" /\ d.turn = e.turn /\ d.step = e.step => ~Over(at, d.turn, d.step)
      BY <2>2, <3>1, StepsMove
    <3>3. IsOpen(at, d.turn, d.step) /\ at.openStep # 0 /\ e.type # "step/end"
      BY <1>8, <2>2, <3>1, <3>2 DEF IsOpen
    <3> QED BY <1>1, <1>2, <1>5, <1>8, <2>4, <3>3
  <2> QED BY <2>1, <2>3, <2>4
<1> DEFINE Goal ==
        /\ IsInjective(now.asked)
        /\ \A c \in Range(now.asked) : c[1] = now.turn /\ c[2] = now.step
        /\ Range(now.asked) \cap to.pendingCalls = Range(now.asked) \cap now.begun
        /\ now.step = 0 \/ ~HasAnswer(Append(p, e)) =>
              now.asked = <<>> /\ now.begun = {} /\ to.pendingCalls = {}
        /\ \A d \in Range(Append(p, e)) :
              d.type = "tool/call" /\ IsOpen(to, d.turn, d.step) => d.calls \subseteq now.begun
<1> SUFFICES Goal
  BY DEF CallsAgree
<1>9. Range(<<>>) = {} /\ IsInjective(<<>>)
  BY DEF Range, IsInjective
<1> HIDE DEF at, open, to, now
<1>10. CASE e.type \in {"turn/start", "turn/end", "step/end"}
  <2>1. now.asked = <<>> /\ now.begun = {} /\ to.pendingCalls = {}
    BY <1>1, <1>2, <1>3, <1>5, <1>10 DEF IsResult
  <2> QED BY <1>8, <1>9, <1>10, <2>1
<1>11. CASE e.type = "step/start"
  <2>1. now.asked = <<>> /\ now.begun = {} /\ to.pendingCalls = {}
    BY <1>1, <1>2, <1>3, <1>5, <1>11 DEF IsResult
  <2> QED BY <1>8, <1>9, <1>11, <2>1
<1>12. CASE e.type = "assistant/message"
  <2>1. /\ now.asked = open.asked \o e.asks /\ now.begun = open.begun /\ now.turn = open.turn
        /\ now.step = open.step /\ to.pendingCalls = at.pendingCalls
    BY <1>3, <1>12 DEF IsResult
  <2>2. open.asked = <<>> /\ now.begun = {} /\ to.pendingCalls = {}
    BY <1>5, <1>7, <1>12, <2>1
  <2>3. now.asked = e.asks
    BY <1>2, <2>1, <2>2, WholeFacts DEF Events
  <2>4. now.turn = e.turn /\ now.step = e.step /\ now.step # 0
    BY <1>1, <1>2, <1>12, <2>1 DEF Within
  <2> QED BY <1>2, <1>4, <1>7, <1>8, <1>12, <2>1, <2>2, <2>3, <2>4
<1>13. CASE e.type = "tool/call"
  <2>1. /\ now.asked = open.asked /\ now.begun = open.begun \cup e.calls /\ now.turn = open.turn
        /\ now.step = open.step /\ to.pendingCalls = at.pendingCalls \cup e.calls
    BY <1>3, <1>7, <1>13 DEF IsResult
  <2>2. now.step = 0 \/ ~HasAnswer(Append(p, e)) =>
              now.asked = <<>> /\ now.begun = {} /\ to.pendingCalls = {}
    BY <1>4, <1>5, <1>7, <1>9, <1>13, <2>1
  <2> QED BY <1>5, <1>8, <2>1, <2>2
<1>14. CASE IsResult(e)
  <2>1. /\ now.asked = Without(open.asked, e.calls) /\ now.begun = open.begun /\ now.turn = open.turn
        /\ now.step = open.step /\ to.pendingCalls = at.pendingCalls \ e.calls
    BY <1>3, <1>14 DEF IsResult
  <2>2. now.asked = Tail(open.asked)
    BY <1>5, <1>6, <1>7, <1>14, <2>1, WithoutHead
  <2>3. /\ IsInjective(now.asked) /\ Head(open.asked) \notin Range(now.asked)
        /\ Range(open.asked) = {Head(open.asked)} \cup Range(now.asked)
    BY <1>5, <1>6, <1>7, <1>14, <2>2, TailFacts
  <2>4. now.step # 0 /\ HasAnswer(Append(p, e))
    BY <1>4, <1>5, <1>7, <1>14, <2>1 DEF IsResult
  <2>5. \A d \in Range(Append(p, e)) :
              d.type = "tool/call" /\ IsOpen(to, d.turn, d.step) => d.calls \subseteq now.begun
    BY <1>8, <1>14, <2>1 DEF IsResult
  <2> QED BY <1>5, <1>7, <1>14, <2>1, <2>3, <2>4, <2>5
<1>15. CASE e.type \in {"agent/inbox/spliced", "user/message"}
  <2>1. /\ now.asked = open.asked /\ now.begun = open.begun /\ now.turn = open.turn
        /\ now.step = open.step /\ to.pendingCalls = at.pendingCalls
    BY <1>3, <1>15 DEF IsResult
  <2> QED BY <1>4, <1>5, <1>8, <1>15, <2>1
<1>16. e.type \in EventTypes
  BY <1>2 DEF Events
<1> QED BY <1>10, <1>11, <1>12, <1>13, <1>14, <1>15, <1>16 DEF EventTypes, Within, IsResult

\* What the results of a list of calls answer, one call each.
LEMMA SinglesFacts ==
    ASSUME NEW list \in Seq(Calls)
    PROVE  /\ Singles(list) \in Seq(SUBSET Calls) /\ Len(Singles(list)) = Len(list)
           /\ DOMAIN Singles(list) = 1..Len(list) /\ \A i \in 1..Len(list) : Singles(list)[i] = {list[i]}
<1>1. Len(list) \in Nat /\ DOMAIN list = 1..Len(list) /\ \A i \in 1..Len(list) : list[i] \in Calls
  OBVIOUS
<1>2. Singles(list) = [i \in 1..Len(list) |-> {list[i]}]
  BY <1>1 DEF Singles
<1>3. \A i \in 1..Len(list) : {list[i]} \in SUBSET Calls
  BY <1>1
<1> HIDE DEF Singles
<1> QED BY <1>1, <1>2, <1>3

\* The first call's result moves from what is to come to what has come.
LEMMA SinglesMove ==
    ASSUME NEW list \in Seq(Calls), list # <<>>, NEW had \in Seq(SUBSET Calls)
    PROVE  Append(had, {Head(list)}) \o Singles(Tail(list)) = had \o Singles(list)
<1> DEFINE r == Tail(list)
           h == Head(list)
           rs == Singles(r)
           ls == Singles(list)
           n == Len(list)
           m == Len(had)
<1>1. /\ h = list[1] /\ r \in Seq(Calls) /\ n \in Nat /\ n >= 1 /\ Len(r) = n - 1 /\ h \in Calls
      /\ \A i \in 1..(n - 1) : r[i] = list[i + 1]
  OBVIOUS
<1> HIDE DEF r, h
<1>2. /\ rs \in Seq(SUBSET Calls) /\ Len(rs) = n - 1
      /\ \A i \in 1..(n - 1) : rs[i] = {r[i]}
  BY <1>1, SinglesFacts
<1>3. ls \in Seq(SUBSET Calls) /\ Len(ls) = n /\ \A i \in 1..n : ls[i] = {list[i]}
  BY SinglesFacts
<1> HIDE DEF rs, ls
<1> DEFINE f == Append(had, {h})
<1>4. /\ f \in Seq(SUBSET Calls) /\ Len(f) = m + 1 /\ m \in Nat /\ f[m + 1] = {h}
      /\ \A i \in 1..m : f[i] = had[i]
  BY <1>1, AppendFacts
<1> HIDE DEF f, n, m
<1>5. \A k, l \in Seq(SUBSET Calls) :
        /\ k \o l \in Seq(SUBSET Calls) /\ Len(k \o l) = Len(k) + Len(l)
        /\ \A i \in 1..Len(k) : (k \o l)[i] = k[i]
        /\ \A i \in 1..Len(l) : (k \o l)[Len(k) + i] = l[i]
  OBVIOUS
<1>6. /\ f \o rs \in Seq(SUBSET Calls) /\ Len(f \o rs) = m + n
      /\ \A i \in 1..(m + 1) : (f \o rs)[i] = f[i]
      /\ \A i \in 1..(n - 1) : (f \o rs)[(m + 1) + i] = rs[i]
  <2>1. /\ f \o rs \in Seq(SUBSET Calls) /\ Len(f \o rs) = Len(f) + Len(rs)
        /\ \A i \in 1..Len(f) : (f \o rs)[i] = f[i]
        /\ \A i \in 1..Len(rs) : (f \o rs)[Len(f) + i] = rs[i]
    BY <1>2, <1>4, <1>5
  <2>2. Len(f) = m + 1 /\ Len(rs) = n - 1 /\ n \in Nat /\ m \in Nat
    BY <1>1, <1>2, <1>4
  <2>3. Len(f) + Len(rs) = m + n
    BY <2>2
  <2> QED BY <2>1, <2>2, <2>3
<1>7. /\ had \o ls \in Seq(SUBSET Calls) /\ Len(had \o ls) = m + n
      /\ \A i \in 1..m : (had \o ls)[i] = had[i]
      /\ \A i \in 1..n : (had \o ls)[m + i] = ls[i]
  BY <1>3, <1>5 DEF m
<1>8. ASSUME NEW i \in 1..(m + n)  PROVE (f \o rs)[i] = (had \o ls)[i]
  <2>1. CASE i <= m
    BY <1>4, <1>6, <1>7, <2>1
  <2>2. CASE i = m + 1
    <3>1. (f \o rs)[i] = {h}
      BY <1>4, <1>6, <2>2
    <3>2. (had \o ls)[i] = {list[1]}
      BY <1>1, <1>3, <1>7, <2>2
    <3> QED BY <1>1, <3>1, <3>2
  <2>3. CASE i > m + 1
    <3> DEFINE k == i - (m + 1)
    <3>1. k \in 1..(n - 1) /\ (m + 1) + k = i /\ k + 1 \in 1..n /\ m + (k + 1) = i
      BY <1>1, <1>4, <2>3
    <3> HIDE DEF k
    <3>2. (f \o rs)[i] = {list[k + 1]}
      <4>1. (f \o rs)[(m + 1) + k] = rs[k]
        BY <1>6, <3>1
      <4>2. rs[k] = {r[k]} /\ r[k] = list[k + 1]
        BY <1>1, <1>2, <3>1
      <4> QED BY <3>1, <4>1, <4>2
    <3>3. (had \o ls)[i] = {list[k + 1]}
      BY <1>3, <1>7, <3>1
    <3> QED BY <3>2, <3>3
  <2>4. i \in Int /\ m \in Int
    BY <1>4, <1>1
  <2>5. i <= m \/ i = m + 1 \/ i > m + 1
    BY <2>4
  <2> QED BY <2>1, <2>2, <2>3, <2>5
<1> DEFINE a == f \o rs
           c == had \o ls
<1>9. a \in Seq(SUBSET Calls) /\ c \in Seq(SUBSET Calls) /\ Len(a) = Len(c) /\ \A i \in 1..Len(a) : a[i] = c[i]
  BY <1>6, <1>7, <1>8
<1> HIDE DEF a, c
<1>10. a = c
  BY ONLY <1>9
<1> QED BY <1>10 DEF a, c, f, ls, rs, r, h

\* An event that may follow keeps the results in the order of the calls.
LEMMA ResultsStayFit ==
    ASSUME NEW p \in Seq(Events), NEW e, NEW b, FoldsAgree(p), EventsArePlaced(p), CallsAgree(p),
           ResultsFit(p, b), MayFollow(p, e, b)
    PROVE  ResultsFit(Append(p, e), b)
<1> DEFINE at == Trace(p)
           open == Opened(p)
           to == Trace(Append(p, e))
           now == Opened(Append(p, e))
           Of(t, s) == ResultsOf(p, t, s)
           Will(t, s) == ResultsOf(Append(p, e), t, s)
<1>1. /\ at \in Grammar!Traces /\ open \in Opens /\ open.turn = at.openTurn /\ open.step = at.openStep
      /\ at.openTurn = 0 => at.openStep = 0
  BY DEF FoldsAgree
<1>2. /\ e \in Events
      /\ e.type = "turn/start" => at.openTurn = 0
      /\ e.type = "turn/end" => at.openStep = 0
      /\ e.type = "step/start" => at.openTurn = e.turn /\ e.turn # 0 /\ at.openStep = 0 /\ e.step = at.nextStep
      /\ e.type \in Within => at.openTurn = e.turn /\ at.openStep = e.step /\ e.turn # 0 /\ e.step # 0
  BY LegalSays
<1>3. /\ to.openTurn = (IF e.type = "turn/start" THEN e.turn
                        ELSE IF e.type = "turn/end" THEN 0 ELSE at.openTurn)
      /\ to.openStep = (IF e.type = "step/start" THEN e.step
                        ELSE IF e.type = "step/end" THEN 0 ELSE at.openStep)
      /\ to.openTurn \in Nat /\ to.openStep \in Nat
      /\ now.asked = (IF e.type \in {"turn/start", "turn/end", "step/end"} THEN <<>>
                      ELSE IF e.type = "assistant/message" THEN open.asked \o e.asks
                      ELSE IF IsResult(e) THEN Without(open.asked, e.calls) ELSE open.asked)
  <2>1. to \in Grammar!Traces
    BY <1>1, <1>2, FoldsMove
  <2> QED BY <1>1, <1>2, <2>1, FoldsMove DEF Grammar!Traces
<1>4. /\ e.type = "assistant/message" => HasAnswer(Append(p, e))
      /\ HasAnswer(p) /\ e.type # "step/end" => HasAnswer(Append(p, e))
  BY AnswersMove
<1>5. /\ IsInjective(open.asked) /\ open.asked \in Seq(Calls)
      /\ open.step = 0 \/ ~HasAnswer(p) => open.asked = <<>>
  BY <1>1 DEF CallsAgree, Opens
<1>6. /\ \A t, s \in Nat : Of(t, s) \in Seq(SUBSET Calls)
      /\ HasAnswer(p) \/ Of(at.openTurn, at.openStep) = <<>>
      /\ \A d \in Range(p) : d.type = "assistant/message" =>
            IF IsOpen(at, d.turn, d.step) THEN Of(d.turn, d.step) \o Singles(open.asked) = Singles(d.asks)
            ELSE Of(d.turn, d.step) = Singles(d.asks) \/ <<d.turn, d.step>> \in b
  BY DEF ResultsFit
<1>7. /\ e.type = "assistant/message" => ~HasAnswer(p)
      /\ IsResult(e) => open.asked # <<>> /\ e.calls = {Head(open.asked)}
      /\ e.type = "step/end" => open.asked = <<>> \/ <<e.turn, e.step>> \in b
  BY DEF MayFollow
<1>8. \A t, s : Will(t, s) = IF IsResult(e) /\ e.turn = t /\ e.step = s THEN Append(Of(t, s), e.calls)
                             ELSE Of(t, s)
  BY <1>2, FoldsUnfold
<1>9. /\ \A t, s \in Nat : Of(t, s) # <<>> => t >= 1 /\ s >= 1 /\ (Over(at, t, s) \/ IsOpen(at, t, s))
      /\ \A d \in Range(p) : d.type = "assistant/message" =>
            d.turn >= 1 /\ d.step >= 1 /\ (Over(at, d.turn, d.step) \/ IsOpen(at, d.turn, d.step))
  BY DEF EventsArePlaced, Within
<1>10. \A t, s \in Nat : t >= 1 /\ s >= 1 =>
           /\ IsOpen(to, t, s) =>
                \/ IsOpen(at, t, s) /\ e.type # "step/end"
                \/ e.type = "step/start" /\ t = e.turn /\ s = e.step /\ at.openStep = 0
           /\ IsOpen(at, t, s) => IF e.type = "step/end" THEN Over(to, t, s) ELSE IsOpen(to, t, s)
           /\ e.type = "step/start" /\ t = e.turn /\ s = e.step => ~Over(at, t, s)
           /\ ~(IsOpen(at, t, s) /\ Over(at, t, s))
  BY StepsMove
<1>11. Range(Append(p, e)) = Range(p) \cup {e} /\ \A d \in Range(p) \cup {e} : d \in Events
  BY <1>2, AppendFacts, WholeFacts
<1>12. \A d \in Range(p) \cup {e} : d.turn \in Nat /\ d.step \in Nat /\ d.asks \in Seq(Calls)
  BY <1>11, RecoveryBounds DEF Events
<1>13. at.openTurn \in Nat /\ at.openStep \in Nat
  BY <1>1 DEF Grammar!Traces
<1> HIDE DEF at, open, to, now, Of, Will
<1>20. \A t, s \in Nat : Will(t, s) \in Seq(SUBSET Calls)
  <2> TAKE t, s \in Nat
  <2>1. Of(t, s) \in Seq(SUBSET Calls) /\ e.calls \in SUBSET Calls
    BY <1>2, <1>6 DEF Events
  <2>2. Append(Of(t, s), e.calls) \in Seq(SUBSET Calls)
    BY <2>1, AppendFacts
  <2> QED BY <1>8, <2>1, <2>2
<1>21. HasAnswer(Append(p, e)) \/ Will(to.openTurn, to.openStep) = <<>>
  <2> SUFFICES ASSUME ~HasAnswer(Append(p, e))  PROVE Will(to.openTurn, to.openStep) = <<>>
    OBVIOUS
  <2>1. ~HasAnswer(p) \/ e.type = "step/end"
    BY <1>4
  <2>2. ~IsResult(e)
    BY <1>5, <1>7, <2>1 DEF IsResult
  <2>3. Will(to.openTurn, to.openStep) = Of(to.openTurn, to.openStep)
    BY <1>8, <2>2
  <2>4. Of(to.openTurn, to.openStep) = <<>>
    <3>1. CASE e.type = "step/start"
      <4> SUFFICES ASSUME Of(e.turn, e.step) # <<>>  PROVE FALSE
        BY <1>2, <1>3, <3>1
      <4>1. e.turn \in Nat /\ e.step \in Nat
        BY <1>12
      <4>2. e.turn >= 1 /\ e.step >= 1 /\ (Over(at, e.turn, e.step) \/ IsOpen(at, e.turn, e.step))
        BY <1>9, <4>1
      <4>3. ~Over(at, e.turn, e.step)
        BY <1>10, <3>1, <4>1, <4>2
      <4> QED BY <1>2, <3>1, <4>1, <4>2, <4>3 DEF IsOpen
    <3>2. CASE e.type \in {"step/end", "turn/start", "turn/end"}
      <4>1. to.openStep = 0
        BY <1>1, <1>2, <1>3, <3>2
      <4> QED BY <1>3, <1>9, <4>1
    <3>3. CASE e.type \notin {"step/end", "turn/start", "turn/end", "step/start"}
      <4>1. to.openTurn = at.openTurn /\ to.openStep = at.openStep
        BY <1>3, <3>3
      <4> QED BY <1>6, <2>1, <3>3, <4>1
    <3> QED BY <3>1, <3>2, <3>3
  <2> QED BY <2>3, <2>4
<1>22. ASSUME NEW d \in Range(Append(p, e)), d.type = "assistant/message"
       PROVE  IF IsOpen(to, d.turn, d.step)
              THEN Will(d.turn, d.step) \o Singles(now.asked) = Singles(d.asks)
              ELSE Will(d.turn, d.step) = Singles(d.asks) \/ <<d.turn, d.step>> \in b
  <2>1. d.turn \in Nat /\ d.step \in Nat /\ d.asks \in Seq(Calls)
    BY <1>11, <1>12
  <2>2. CASE d \in Range(p) /\ ~IsOpen(at, d.turn, d.step)
    <3>1. d.turn >= 1 /\ d.step >= 1 /\ Over(at, d.turn, d.step)
      BY <1>9, <1>22, <2>2
    <3>2. ~IsOpen(to, d.turn, d.step)
      BY <1>10, <2>1, <2>2, <3>1
    <3>3. ~(IsResult(e) /\ e.turn = d.turn /\ e.step = d.step)
      BY <1>2, <2>2 DEF IsResult, Within, IsOpen
    <3>4. Will(d.turn, d.step) = Of(d.turn, d.step)
      BY <1>8, <3>3
    <3> QED BY <1>6, <1>22, <2>2, <3>2, <3>4
  <2>3. CASE d \in Range(p) /\ IsOpen(at, d.turn, d.step)
    <3>1. d.turn = at.openTurn /\ d.step = at.openStep /\ d.step >= 1
      BY <1>9, <1>22, <2>3 DEF IsOpen
    <3>2. HasAnswer(p)
      BY <1>22, <2>3 DEF HasAnswer, at
    <3>3. Of(d.turn, d.step) \o Singles(open.asked) = Singles(d.asks) /\ Of(d.turn, d.step) \in Seq(SUBSET Calls)
      BY <1>6, <1>22, <2>1, <2>3
    <3>4. e.type \notin {"turn/start", "turn/end", "step/start", "assistant/message"}
      BY <1>1, <1>2, <1>7, <2>1, <3>1, <3>2
    <3>5. CASE e.type = "step/end"
      <4>1. to.openStep = 0 /\ Will(d.turn, d.step) = Of(d.turn, d.step)
        BY <1>3, <1>8, <3>5 DEF IsResult
      <4>2. ~IsOpen(to, d.turn, d.step)
        BY <2>1, <3>1, <4>1 DEF IsOpen
      <4>3. e.turn = d.turn /\ e.step = d.step
        BY <1>2, <3>1, <3>5 DEF Within
      <4>4. CASE open.asked = <<>>
        <5>1. Singles(open.asked) = <<>>
          BY <4>4 DEF Singles
        <5> QED BY <3>3, <4>1, <4>2, <5>1, WholeFacts
      <4> QED BY <1>7, <3>5, <4>2, <4>3, <4>4
    <3>6. CASE IsResult(e)
      <4>1. e.turn = d.turn /\ e.step = d.step /\ e.type # "step/end"
        BY <1>2, <3>1, <3>6 DEF Within, IsResult
      <4>2. Will(d.turn, d.step) = Append(Of(d.turn, d.step), {Head(open.asked)})
        BY <1>7, <1>8, <3>6, <4>1
      <4>3. now.asked = Tail(open.asked)
        <5>1. now.asked = Without(open.asked, {Head(open.asked)})
          BY <1>3, <1>7, <3>6 DEF IsResult
        <5> QED BY <1>5, <1>7, <3>6, <5>1, WithoutHead
      <4>4. Will(d.turn, d.step) \o Singles(now.asked) = Of(d.turn, d.step) \o Singles(open.asked)
        BY <1>5, <1>7, <3>3, <3>6, <4>2, <4>3, SinglesMove
      <4>5. IsOpen(to, d.turn, d.step)
        BY <1>9, <1>10, <1>22, <2>1, <2>3, <4>1
      <4> QED BY <3>3, <4>4, <4>5
    <3>7. CASE e.type \notin {"turn/start", "turn/end", "step/start", "assistant/message", "step/end"} /\ ~IsResult(e)
      <4>1. now.asked = open.asked /\ Will(d.turn, d.step) = Of(d.turn, d.step)
        BY <1>3, <1>8, <3>7
      <4>2. IsOpen(to, d.turn, d.step)
        BY <1>9, <1>10, <1>22, <2>1, <2>3, <3>7
      <4> QED BY <3>3, <4>1, <4>2
    <3> QED BY <3>4, <3>5, <3>6, <3>7
  <2>4. CASE d = e
    <3>1. e.turn = at.openTurn /\ e.step = at.openStep /\ e.turn # 0 /\ e.step # 0
      BY <1>2, <1>22, <2>4 DEF Within
    <3>2. IsOpen(to, d.turn, d.step)
      BY <1>3, <1>22, <2>4, <3>1 DEF IsOpen
    <3>3. ~HasAnswer(p) /\ open.asked = <<>> /\ Of(e.turn, e.step) = <<>>
      BY <1>5, <1>6, <1>7, <1>22, <2>4, <3>1
    <3>4. now.asked = d.asks
      <4>1. now.asked = <<>> \o d.asks
        BY <1>3, <1>22, <2>4, <3>3
      <4> QED BY <2>1, <4>1, WholeFacts
    <3>5. Will(d.turn, d.step) = <<>>
      BY <1>8, <1>22, <2>4, <3>3 DEF IsResult
    <3>6. Singles(d.asks) \in Seq(SUBSET Calls)
      BY <2>1, SinglesFacts
    <3> QED BY <3>2, <3>4, <3>5, <3>6, WholeFacts
  <2> QED BY <1>11, <2>2, <2>3, <2>4
<1> QED BY <1>20, <1>21, <1>22 DEF ResultsFit, at, open, to, now, Of, Will

\* A list after a splice, which brings at most one new member.
Cut(list, a, r, ins) == SubSeq(list, 1, a) \o ins \o SubSeq(list, a + r + 1, Len(list))

\* A splice of a list without repetitions that brings in something new has none.
LEMMA CutFacts ==
    ASSUME NEW E, NEW list \in Seq(E), NEW a \in Nat, NEW r \in Nat, a + r <= Len(list),
           NEW ins \in Seq(E), Len(ins) <= 1,
           IsInjective(list), Range(ins) \cap Range(list) = {}
    PROVE  /\ Cut(list, a, r, ins) \in Seq(E) /\ IsInjective(Cut(list, a, r, ins))
           /\ Range(Cut(list, a, r, ins)) \subseteq Range(list) \cup Range(ins)
<1> DEFINE f == SubSeq(list, 1, a)
           g == SubSeq(list, a + r + 1, Len(list))
           n == Len(list)
           k == Len(ins)
           q == Len(g)
           new == Cut(list, a, r, ins)
<1>1. /\ n \in Nat /\ DOMAIN list = 1..n /\ k \in 0..1 /\ DOMAIN ins = 1..k
      /\ f \in Seq(E) /\ Len(f) = a /\ g \in Seq(E) /\ q \in Nat /\ n = (a + r) + q
  <2>1. n \in Nat /\ DOMAIN list = 1..n
    OBVIOUS
  <2>2. k \in 0..1 /\ DOMAIN ins = 1..k
    <3>1. Len(ins) \in Nat /\ DOMAIN ins = 1..Len(ins)
      OBVIOUS
    <3> QED BY <3>1
  <2>3. f \in Seq(E) /\ Len(f) = a
    OBVIOUS
  <2>4. g \in Seq(E) /\ q \in Nat
    OBVIOUS
  <2>5. n = (a + r) + q
    <3>1. Len(g) = Len(list) - (a + r)
      OBVIOUS
    <3> HIDE DEF g
    <3> QED BY <2>1, <3>1
  <2> QED BY ONLY <2>1, <2>2, <2>3, <2>4, <2>5
<1>2. \A i \in 1..a : f[i] = list[i]
  OBVIOUS
<1>3. \A i \in 1..q : g[i] = list[(a + r) + i]
  OBVIOUS
<1>4. \A x, y \in Seq(E) :
        /\ x \o y \in Seq(E) /\ Len(x \o y) = Len(x) + Len(y)
        /\ \A i \in 1..Len(x) : (x \o y)[i] = x[i]
        /\ \A i \in 1..Len(y) : (x \o y)[Len(x) + i] = y[i]
  OBVIOUS
<1> DEFINE h == f \o ins
           all == h \o g
<1>5. h \in Seq(E) /\ Len(h) = Len(f) + k /\ all \in Seq(E) /\ Len(all) = Len(h) + q
  <2> HIDE DEF f, g
  <2>1. h \in Seq(E) /\ Len(h) = Len(f) + k
    BY <1>1, <1>4
  <2> HIDE DEF h
  <2> QED BY <1>1, <1>4, <2>1
<1>6. /\ \A i \in 1..Len(f) : h[i] = f[i]
      /\ \A i \in 1..k : h[Len(f) + i] = ins[i]
  <2> HIDE DEF f, g
  <2> QED BY <1>1, <1>4
<1>7. /\ \A i \in 1..Len(h) : all[i] = h[i]
      /\ \A i \in 1..q : all[Len(h) + i] = g[i]
  <2> HIDE DEF h, g
  <2> QED BY <1>1, <1>4, <1>5
<1>8. new = all
  BY DEF Cut
<1> HIDE DEF f, g, n, k, q, h, all, new
<1>9. new \in Seq(E) /\ DOMAIN new = 1..((a + k) + q) /\ Len(h) = a + k
  <2>1. DOMAIN all = 1..Len(all)
    BY <1>5
  <2> QED BY <1>1, <1>5, <1>8, <2>1
\* Where a member comes from.
<1> DEFINE From(i) == IF i <= a THEN i ELSE (i - k) + r
           IsNew(i) == i = a + 1 /\ k = 1
<1>10. \A i \in DOMAIN new :
        \/ ~IsNew(i) /\ From(i) \in 1..n /\ new[i] = list[From(i)]
        \/ IsNew(i) /\ 1 \in 1..k /\ new[i] = ins[1]
  <2> TAKE i \in DOMAIN new
  <2>1. i \in Int /\ 1 <= i /\ i <= (a + k) + q
    <3>1. i \in 1..((a + k) + q)
      BY <1>9
    <3> QED BY <1>1, <3>1
  <2>2. CASE i <= a
    <3>1. i \in 1..Len(f) /\ i \in 1..Len(h) /\ i \in 1..n
      BY <1>1, <1>9, <2>1, <2>2
    <3>2. new[i] = list[i]
      BY <1>1, <1>2, <1>6, <1>7, <1>8, <3>1
    <3> QED BY <1>1, <2>1, <2>2, <3>1, <3>2
  <2>3. CASE i > a /\ i <= a + k
    <3>1. k = 1 /\ i = a + 1 /\ i \in 1..Len(h) /\ 1 \in 1..k
      BY <1>1, <1>9, <2>1, <2>3
    <3>2. new[i] = ins[1]
      BY <1>1, <1>6, <1>7, <1>8, <3>1
    <3> QED BY <3>1, <3>2
  <2>4. CASE i > a + k
    <3> DEFINE j == i - (a + k)
    <3>1. /\ j \in 1..q /\ Len(h) + j = i /\ (a + r) + j = From(i) /\ (a + r) + j \in 1..n /\ ~IsNew(i)
      <4>1. j \in 1..q /\ (a + k) + j = i /\ (a + r) + j = (i - k) + r /\ ~(i <= a) /\ ~IsNew(i)
        <5>1. a \in Nat /\ k \in Nat /\ q \in Nat /\ r \in Nat
          BY <1>1
        <5>2. j \in Int /\ 1 <= j /\ j <= q
          BY <2>1, <2>4, <5>1
        <5> QED BY <2>1, <2>4, <5>1, <5>2
      <4>2. (a + r) + j \in 1..n
        BY <1>1, <4>1
      <4> QED BY <1>9, <4>1, <4>2
    <3> HIDE DEF j, From, IsNew
    <3>2. new[i] = list[From(i)]
      <4>1. all[Len(h) + j] = g[j] /\ g[j] = list[(a + r) + j]
        BY <1>3, <1>7, <3>1
      <4> QED BY <1>8, <3>1, <4>1
    <3>3. From(i) \in 1..n
      BY <3>1
    <3> QED BY <3>1, <3>2, <3>3
  <2>5. i <= a \/ (i > a /\ i <= a + k) \/ i > a + k
    BY <1>1, <2>1
  <2> QED BY ONLY <2>2, <2>3, <2>4, <2>5
<1>11. \A i, j \in DOMAIN new : ~IsNew(i) /\ ~IsNew(j) /\ From(i) = From(j) => i = j
  <2> TAKE i, j \in DOMAIN new
  <2>1. i \in Int /\ j \in Int /\ 1 <= i /\ 1 <= j
    BY <1>9
  <2> QED BY <1>1, <2>1
<1> HIDE DEF From
<1>12. Range(new) \subseteq Range(list) \cup Range(ins)
  <2> SUFFICES ASSUME NEW i \in DOMAIN new  PROVE new[i] \in Range(list) \cup Range(ins)
    BY DEF Range
  <2>1. \A j \in 1..n : list[j] \in Range(list)
    BY <1>1 DEF Range
  <2>2. 1 \in 1..k => ins[1] \in Range(ins)
    BY <1>1 DEF Range
  <2> QED BY <1>10, <2>1, <2>2
<1>13. \A i, j \in 1..n : list[i] = list[j] => i = j
  BY <1>1 DEF IsInjective
<1>14. \A i \in 1..n : 1 \in 1..k => list[i] # ins[1]
  <2> SUFFICES ASSUME NEW i \in 1..n, 1 \in 1..k  PROVE list[i] # ins[1]
    OBVIOUS
  <2>1. list[i] \in Range(list) /\ ins[1] \in Range(ins)
    BY <1>1 DEF Range
  <2> QED BY <2>1
<1>15. ASSUME NEW i \in DOMAIN new, NEW j \in DOMAIN new, new[i] = new[j]  PROVE i = j
  <2>1. CASE IsNew(i) /\ IsNew(j)
    BY <2>1
  <2> HIDE DEF IsNew
  <2>2. CASE ~IsNew(i) /\ ~IsNew(j)
    BY <1>10, <1>11, <1>13, <1>15, <2>2
  <2>3. CASE IsNew(i) /\ ~IsNew(j)
    BY <1>10, <1>14, <1>15, <2>3
  <2>4. CASE ~IsNew(i) /\ IsNew(j)
    BY <1>10, <1>14, <1>15, <2>4
  <2> QED BY <2>1, <2>2, <2>3, <2>4
<1>16. IsInjective(new)
  BY <1>15 DEF IsInjective
<1> QED BY <1>9, <1>12, <1>16, SMTT(60) DEF new

\* A splice of the inbox puts no message in twice.
LEMMA SpliceFacts ==
    ASSUME NEW box \in Inboxes, Once(box), NEW target \in Targets, NEW a \in Nat, NEW r \in Nat,
           a + r <= Len(box[target]), NEW ins \in Seq(Messages), Len(ins) <= 1,
           Range(ins) \cap Pending(box) = {}
    PROVE  /\ Splice(box, target, a, r, ins) \in Inboxes /\ Once(Splice(box, target, a, r, ins))
           /\ Pending(Splice(box, target, a, r, ins)) \subseteq Pending(box) \cup Range(ins)
<1> DEFINE new == Splice(box, target, a, r, ins)
           list == box[target]
           cut == Cut(list, a, r, ins)
           other == IF target = "next-turn" THEN "next-step" ELSE "next-turn"
<1>1. /\ DOMAIN box = Targets /\ list \in Seq(Messages) /\ box[other] \in Seq(Messages)
      /\ other \in Targets /\ other # target /\ Targets = {target, other}
      /\ "next-turn" \in Targets /\ "next-step" \in Targets
  BY DEF Inboxes, Targets
<1>2. /\ IsInjective(list) /\ IsInjective(box[other]) /\ Range(list) \cap Range(box[other]) = {}
  BY <1>1 DEF Once, Targets
<1>3. Pending(box) = Range(list) \cup Range(box[other])
  BY <1>1 DEF Pending, Targets
<1>4. new = [box EXCEPT ![target] = cut]
  BY DEF Splice, Cut
<1> HIDE DEF list, new
<1>5. cut \in Seq(Messages) /\ IsInjective(cut) /\ Range(cut) \subseteq Range(list) \cup Range(ins)
  <2>1. Range(ins) \cap Range(list) = {} /\ a + r <= Len(list)
    BY <1>3 DEF list
  <2> QED BY <1>1, <1>2, <2>1, CutFacts
<1> HIDE DEF cut
<1>6. new[target] = cut /\ new[other] = box[other] /\ DOMAIN new = Targets
  BY <1>1, <1>4
<1>7. new \in Inboxes
  BY <1>1, <1>4, <1>5 DEF Inboxes
<1>8. Range(cut) \cap Range(box[other]) = {}
  BY <1>2, <1>3, <1>5
<1>9. Once(new)
  <2>1. \A x \in Targets : IsInjective(new[x])
    BY <1>1, <1>2, <1>5, <1>6
  <2>2. Range(new["next-turn"]) \cap Range(new["next-step"]) = {}
    BY <1>1, <1>6, <1>8 DEF Targets
  <2> QED BY <2>1, <2>2 DEF Once
<1>10. Pending(new) = Range(cut) \cup Range(box[other])
  BY <1>1, <1>6 DEF Pending, Targets
<1> QED BY <1>3, <1>5, <1>7, <1>9, <1>10 DEF new

\* What is known of a log and an event.
LEMMA KnownMoves ==
    ASSUME NEW p \in Seq(Events), NEW e \in Events
    PROVE  KnownIn(Append(p, e)) = KnownIn(p) \cup Range(e.inserted)
<1>1. Range(Append(p, e)) = Range(p) \cup {e}
  BY AppendFacts
<1> QED BY <1>1 DEF KnownIn

\* An event that may follow keeps the inbox the log replays to without repetitions.
LEMMA InboxStaysFit ==
    ASSUME NEW p \in Seq(Events), NEW e, NEW b, InboxFits(p), MayFollow(p, e, b)
    PROVE  InboxFits(Append(p, e))
<1> DEFINE box == Replayed(p)
           new == Replayed(Append(p, e))
<1>1. /\ e \in Events
      /\ IsSplice(e) =>
              /\ e.target \in Targets /\ e.start + e.removed <= Len(box[e.target])
              /\ e.inserted = <<>> \/ \E m \in Messages \ KnownIn(p) : e.inserted = <<m>>
      /\ e.type = "user/message" => \E m \in KnownIn(p) \ Pending(box) : e.inserted = <<m>>
  BY DEF MayFollow
<1>2. /\ box \in Inboxes /\ Once(box) /\ Pending(box) \subseteq KnownIn(p)
      /\ \A d \in Range(p) : d.type = "user/message" => Range(d.inserted) \cap Pending(box) = {}
  BY DEF InboxFits
<1>3. Range(Append(p, e)) = Range(p) \cup {e} /\ KnownIn(Append(p, e)) = KnownIn(p) \cup Range(e.inserted)
  BY <1>1, AppendFacts, KnownMoves
<1>4. new = IF IsSplice(e) THEN Splice(box, e.target, e.start, e.removed, e.inserted) ELSE box
  BY <1>1, FoldsUnfold
<1>5. \A d \in Range(p) : Range(d.inserted) \subseteq KnownIn(p)
  BY DEF KnownIn
<1>6. \A m : Range(<<m>>) = {m}
  BY DEF Range
<1> SUFFICES /\ new \in Inboxes /\ Once(new) /\ Pending(new) \subseteq KnownIn(Append(p, e))
             /\ \A d \in Range(Append(p, e)) :
                    d.type = "user/message" => Range(d.inserted) \cap Pending(new) = {}
  BY DEF InboxFits
<1> HIDE DEF box, new
<1>7. CASE IsSplice(e)
  <2>1. /\ e.start \in Nat /\ e.removed \in Nat /\ e.inserted \in Seq(Messages)
        /\ e.type # "user/message"
    BY <1>1, <1>7 DEF Events, IsSplice
  <2>2. Len(e.inserted) <= 1 /\ Range(e.inserted) \cap KnownIn(p) = {}
    <3>1. CASE e.inserted = <<>>
      <4>1. Range(<<>>) = {}
        BY DEF Range
      <4> QED BY <3>1, <4>1
    <3>2. CASE \E m \in Messages \ KnownIn(p) : e.inserted = <<m>>
      <4>1. PICK m \in Messages \ KnownIn(p) : e.inserted = <<m>>
        BY <3>2
      <4>2. Len(<<m>>) = 1
        OBVIOUS
      <4> QED BY <1>6, <4>1, <4>2
    <3> QED BY <1>1, <1>7, <3>1, <3>2
  <2>3. /\ new \in Inboxes /\ Once(new) /\ Pending(new) \subseteq Pending(box) \cup Range(e.inserted)
    BY <1>1, <1>2, <1>4, <1>7, <2>1, <2>2, SpliceFacts
  <2> QED BY <1>2, <1>3, <1>5, <2>1, <2>2, <2>3
<1>8. CASE e.type = "user/message"
  <2>1. PICK m \in KnownIn(p) \ Pending(box) : e.inserted = <<m>>
    BY <1>1, <1>8
  <2>2. new = box
    BY <1>4, <1>8 DEF IsSplice
  <2> QED BY <1>2, <1>3, <1>6, <2>1, <2>2
<1>9. CASE e.type \notin {"agent/inbox/spliced", "user/message"}
  <2>1. new = box
    BY <1>4, <1>9 DEF IsSplice
  <2> QED BY <1>2, <1>3, <1>9, <2>1
<1> QED BY <1>7, <1>8, <1>9 DEF IsSplice

\* An event that may follow a log leaves a log of which the same is so.
LEMMA FitStays ==
    ASSUME NEW p \in Seq(Events), NEW e, NEW b, Fit(p, b), MayFollow(p, e, b)
    PROVE  Fit(Append(p, e), b)
BY FoldsStayAgreed, EventsStayPlaced, CallsStayAgreed, ResultsStayFit, InboxStaysFit DEF Fit

-----------------------------------------------------------------------------
(***************************************************************************)
(* Logs the program may write.                                             *)
(***************************************************************************)
LEMMA GoodOfNone == \A b : Good(<<>>, b)
<1>1. <<>> \in Seq(Events) /\ DOMAIN <<>> = {}
  OBVIOUS
<1> QED BY <1>1 DEF Good

\* A good log with an event that may follow it is good.
LEMMA GoodAppend ==
    ASSUME NEW s, NEW b, NEW e, Good(s, b), MayFollow(s, e, b)
    PROVE  Good(Append(s, e), b)
<1> DEFINE t == Append(s, e)
<1>1. s \in Seq(Events) /\ e \in Events
  BY DEF Good, MayFollow
<1>2. /\ t \in Seq(Events) /\ Len(t) = Len(s) + 1 /\ Len(s) \in Nat /\ t[Len(s) + 1] = e
      /\ \A i \in 1..Len(s) : t[i] = s[i]
      /\ \A n \in 0..Len(s) : SubSeq(t, 1, n) = SubSeq(s, 1, n)
  BY <1>1, AppendFacts
<1>3. SubSeq(s, 1, Len(s)) = s /\ DOMAIN s = 1..Len(s)
  BY <1>1, WholeFacts
<1>4. DOMAIN t = 1..(Len(s) + 1)
  BY <1>2
<1> HIDE DEF t
<1>5. ASSUME NEW n \in DOMAIN t  PROVE MayFollow(SubSeq(t, 1, n - 1), t[n], b)
  <2>1. CASE n = Len(s) + 1
    <3>1. n - 1 = Len(s) /\ Len(s) \in 0..Len(s)
      BY <1>2, <2>1
    <3>2. SubSeq(t, 1, n - 1) = s /\ t[n] = e
      BY <1>2, <1>3, <2>1, <3>1
    <3> QED BY <3>2
  <2>2. CASE n # Len(s) + 1
    <3>1. n \in DOMAIN s /\ n - 1 \in 0..Len(s)
      BY <1>2, <1>3, <1>4, <2>2
    <3>2. SubSeq(t, 1, n - 1) = SubSeq(s, 1, n - 1) /\ t[n] = s[n]
      BY <1>2, <1>3, <3>1
    <3> QED BY <3>1, <3>2 DEF Good
  <2> QED BY <2>1, <2>2
<1> QED BY <1>2, <1>5 DEF Good, t

\* Every beginning of a good log is good.
LEMMA GoodPrefix ==
    ASSUME NEW s, NEW b, Good(s, b), NEW n \in 0..Len(s)
    PROVE  Good(SubSeq(s, 1, n), b)
<1> DEFINE t == SubSeq(s, 1, n)
<1>1. s \in Seq(Events) /\ DOMAIN s = 1..Len(s) /\ Len(s) \in Nat
  BY WholeFacts DEF Good
<1>2. t \in Seq(Events) /\ Len(t) = n /\ DOMAIN t = 1..n /\ \A i \in 1..n : t[i] = s[i]
  BY <1>1
<1>3. ASSUME NEW k \in 1..n  PROVE SubSeq(t, 1, k - 1) = SubSeq(s, 1, k - 1)
  <2>1. /\ SubSeq(s, 1, k - 1) \in Seq(Events) /\ Len(SubSeq(s, 1, k - 1)) = k - 1
        /\ \A i \in 1..(k - 1) : SubSeq(s, 1, k - 1)[i] = s[i]
    BY <1>1
  <2>2. /\ SubSeq(t, 1, k - 1) \in Seq(Events) /\ Len(SubSeq(t, 1, k - 1)) = k - 1
        /\ \A i \in 1..(k - 1) : SubSeq(t, 1, k - 1)[i] = t[i]
    <3> HIDE DEF t
    <3> QED BY <1>2
  <2> DEFINE x == SubSeq(s, 1, k - 1)
             y == SubSeq(t, 1, k - 1)
  <2>3. x \in Seq(Events) /\ y \in Seq(Events) /\ Len(x) = Len(y) /\ \A i \in 1..Len(x) : x[i] = y[i]
    BY <1>2, <2>1, <2>2
  <2> HIDE DEF x, y
  <2>4. x = y
    BY ONLY <2>3
  <2> QED BY <2>4 DEF x, y
<1> HIDE DEF t
<1>4. ASSUME NEW k \in DOMAIN t  PROVE MayFollow(SubSeq(t, 1, k - 1), t[k], b)
  <2>1. k \in 1..n /\ k \in DOMAIN s
    BY <1>1, <1>2
  <2>2. MayFollow(SubSeq(s, 1, k - 1), s[k], b)
    BY <2>1 DEF Good
  <2> QED BY <1>2, <1>3, <2>1, <2>2
<1> QED BY <1>2, <1>4 DEF Good, t

\* What is cut from the end of a good log leaves it good.
LEMMA GoodBefore ==
    ASSUME NEW s \in Seq(Events), NEW t \in Seq(Events), NEW b, Good(s \o t, b)
    PROVE  Good(s, b) /\ \A n \in 0..Len(t) : Good(s \o SubSeq(t, 1, n), b)
<1>1. /\ Len(s \o t) = Len(s) + Len(t) /\ SubSeq(s \o t, 1, Len(s)) = s
      /\ \A n \in 0..Len(t) : SubSeq(s \o t, 1, Len(s) + n) = s \o SubSeq(t, 1, n)
  BY ConcatFacts
<1>2. Len(s) \in Nat /\ Len(t) \in Nat
  BY WholeFacts
<1>3. ASSUME NEW n \in 0..Len(t)  PROVE Good(s \o SubSeq(t, 1, n), b)
  <2>1. Len(s) + n \in 0..Len(s \o t)
    BY <1>1, <1>2
  <2>2. Good(SubSeq(s \o t, 1, Len(s) + n), b)
    BY <2>1, GoodPrefix
  <2> QED BY <1>1, <2>2
<1>4. Good(s, b)
  <2>1. Len(s) \in 0..Len(s \o t)
    BY <1>1, <1>2
  <2>2. Good(SubSeq(s \o t, 1, Len(s)), b)
    BY <2>1, GoodPrefix
  <2> QED BY <1>1, <2>2
<1> QED BY <1>3, <1>4

\* A log stays good when more steps count as broken.
LEMMA GoodOfMore ==
    ASSUME NEW s, NEW b, NEW b2, b \subseteq b2, Good(s, b)
    PROVE  Good(s, b2)
<1>1. ASSUME NEW n \in DOMAIN s  PROVE MayFollow(SubSeq(s, 1, n - 1), s[n], b2)
  <2>1. MayFollow(SubSeq(s, 1, n - 1), s[n], b)
    BY DEF Good
  <2> QED BY <2>1 DEF MayFollow
<1> QED BY <1>1 DEF Good

\* In a good log everything fits: by induction over its length.
LEMMA GoodFits ==
    ASSUME NEW s, NEW b, Good(s, b)
    PROVE  Fit(s, b)
<1> DEFINE S == {n \in Nat : n <= Len(s) => Fit(SubSeq(s, 1, n), b)}
<1>1. s \in Seq(Events) /\ Len(s) \in Nat /\ SubSeq(s, 1, Len(s)) = s /\ SubSeq(s, 1, 0) = <<>> /\ DOMAIN s = 1..Len(s)
  BY WholeFacts DEF Good
<1>2. 0 \in S
  BY <1>1, EmptyFits
<1>3. ASSUME NEW n \in Nat, n \in S  PROVE n + 1 \in S
  <2> SUFFICES ASSUME n + 1 <= Len(s)  PROVE Fit(SubSeq(s, 1, n + 1), b)
    OBVIOUS
  <2>1. n + 1 \in DOMAIN s /\ (n + 1) - 1 = n /\ n <= Len(s)
    BY <1>1
  <2>2. MayFollow(SubSeq(s, 1, (n + 1) - 1), s[n + 1], b)
    BY <2>1 DEF Good
  <2>3. /\ SubSeq(s, 1, n) \in Seq(Events)
        /\ SubSeq(s, 1, n + 1) = Append(SubSeq(s, 1, n), s[n + 1])
    BY <1>1, FrontFacts
  <2>4. Fit(SubSeq(s, 1, n), b) /\ MayFollow(SubSeq(s, 1, n), s[n + 1], b)
    BY <1>3, <2>1, <2>2
  <2> QED BY <2>3, <2>4, FitStays
<1>4. Len(s) \in S
  <2> HIDE DEF S
  <2> QED BY <1>1, <1>2, <1>3, SetInduction
<1>5. Fit(SubSeq(s, 1, Len(s)), b)
  BY <1>1, <1>4
<1> QED BY <1>1, <1>5

\* The companion's fold on its way is its fold of what it has read.
LEMMA TraceRunsAlong ==
    ASSUME NEW s \in Seq(Events), NEW k \in 0..Len(s)
    PROVE  TraceRun(s)[k] = Trace(SubSeq(s, 1, k))
<1> DEFINE S == {n \in Nat : n <= Len(s) => TraceRun(s)[n] = Trace(SubSeq(s, 1, n))}
<1>1. Len(s) \in Nat /\ SubSeq(s, 1, 0) = <<>>
  BY WholeFacts
<1>2. TraceRun(s) = [i \in 0..Len(s) |-> IF i = 0 THEN Grammar!FreshTrace
                                         ELSE Grammar!Apply(TraceRun(s)[i - 1], s[i])]
  BY <1>1, TraceRuns
<1>3. 0 \in S
  <2>1. TraceRun(s)[0] = Grammar!FreshTrace
    BY <1>1, <1>2
  <2> QED BY <1>1, <2>1, TraceOfNone
<1>4. ASSUME NEW n \in Nat, n \in S  PROVE n + 1 \in S
  <2> SUFFICES ASSUME n + 1 <= Len(s)  PROVE TraceRun(s)[n + 1] = Trace(SubSeq(s, 1, n + 1))
    OBVIOUS
  <2>1. n + 1 \in 0..Len(s) /\ n + 1 # 0 /\ (n + 1) - 1 = n /\ n <= Len(s)
    BY <1>1
  <2>2. TraceRun(s)[n + 1] = Grammar!Apply(TraceRun(s)[n], s[n + 1])
    BY <1>2, <2>1
  <2>3. /\ SubSeq(s, 1, n) \in Seq(Events) /\ s[n + 1] \in Events
        /\ SubSeq(s, 1, n + 1) = Append(SubSeq(s, 1, n), s[n + 1])
    BY FrontFacts
  <2>4. Trace(SubSeq(s, 1, n + 1)) = Grammar!Apply(Trace(SubSeq(s, 1, n)), s[n + 1])
    BY <2>3, TraceUnfolds
  <2> QED BY <1>4, <2>1, <2>2, <2>4
<1>5. k \in S
  <2>1. k \in Nat
    BY <1>1
  <2> HIDE DEF S
  <2> QED BY <1>3, <1>4, <2>1, SetInduction
<1> QED BY <1>1, <1>5

\* The grammar accepts a good log.
LEMMA GoodIsAccepted ==
    ASSUME NEW s, NEW b, Good(s, b)
    PROVE  Accepted(s)
<1>1. s \in Seq(Events) /\ DOMAIN s = 1..Len(s) /\ Len(s) \in Nat
  BY WholeFacts DEF Good
<1>2. ASSUME NEW n \in DOMAIN s  PROVE Grammar!Legal(TraceRun(s)[n - 1], s[n])
  <2>1. n - 1 \in 0..Len(s)
    BY <1>1
  <2>2. TraceRun(s)[n - 1] = Trace(SubSeq(s, 1, n - 1))
    BY <1>1, <2>1, TraceRunsAlong
  <2>3. MayFollow(SubSeq(s, 1, n - 1), s[n], b)
    BY DEF Good
  <2> QED BY <2>2, <2>3 DEF MayFollow
<1> QED BY <1>2 DEF Accepted, Runs, TraceRun

-----------------------------------------------------------------------------
(***************************************************************************)
(* Where a log has come to: its open turn and step, the number of the next *)
(* step, whether the open step has its answer, the calls without a result  *)
(* and those that were started.                                            *)
(***************************************************************************)
At(p, t, s, n, answered, asked, begun) ==
    /\ Trace(p).openTurn = t /\ Trace(p).openStep = s /\ Trace(p).nextStep = n
    /\ HasAnswer(p) <=> answered
    /\ Opened(p).asked = asked /\ Opened(p).begun = begun

\* What an event that may follow does to it.
Moved(p, e) ==
    /\ Trace(Append(p, e)).openTurn = (IF e.type = "turn/start" THEN e.turn
                      ELSE IF e.type = "turn/end" THEN 0 ELSE Trace(p).openTurn)
    /\ Trace(Append(p, e)).openStep = (IF e.type = "step/start" THEN e.step
                      ELSE IF e.type = "step/end" THEN 0 ELSE Trace(p).openStep)
    /\ Trace(Append(p, e)).nextStep = (IF e.type = "turn/start" THEN 1
                      ELSE IF e.type = "step/end" THEN Trace(p).nextStep + 1 ELSE Trace(p).nextStep)
    /\ HasAnswer(Append(p, e)) <=>
          e.type = "assistant/message" \/ (HasAnswer(p) /\ e.type # "step/end")
    /\ Opened(Append(p, e)).asked =
         (IF e.type \in {"turn/start", "turn/end", "step/end"} THEN <<>>
          ELSE IF e.type = "assistant/message" THEN Opened(p).asked \o e.asks
          ELSE IF IsResult(e) THEN Without(Opened(p).asked, e.calls) ELSE Opened(p).asked)
    /\ Opened(Append(p, e)).begun =
         (IF e.type \in {"turn/start", "turn/end", "step/end"} THEN {}
          ELSE IF e.type = "tool/call" THEN Opened(p).begun \cup (e.calls \cap Range(Opened(p).asked))
          ELSE Opened(p).begun)
    /\ LastTurn(Append(p, e)) = (IF e.type = "turn/start" THEN e.turn ELSE LastTurn(p))
    /\ Replayed(Append(p, e)) =
          (IF IsSplice(e) THEN Splice(Replayed(p), e.target, e.start, e.removed, e.inserted)
           ELSE Replayed(p))
    /\ KnownIn(Append(p, e)) = KnownIn(p) \cup Range(e.inserted)

\* The inbox and the turn counter have not moved.
Kept(p, q) == Replayed(q) = Replayed(p) /\ LastTurn(q) = LastTurn(p) /\ KnownIn(p) \subseteq KnownIn(q)

\* What an event that may follow does to the place the log has come to.
LEMMA AtMoves ==
    ASSUME NEW p, NEW b, NEW e, Good(p, b), MayFollow(p, e, b)
    PROVE  Good(Append(p, e), b) /\ e \in Events /\ p \in Seq(Events) /\ Moved(p, e)
<1>1. Good(Append(p, e), b) /\ p \in Seq(Events) /\ e \in Events
  <2>1. Good(Append(p, e), b)
    BY GoodAppend
  <2>2. p \in Seq(Events) /\ e \in Events
    BY DEF Good, MayFollow
  <2> QED BY <2>1, <2>2
<1>2. Fit(p, b)
  BY GoodFits
<1>3. Trace(p) \in Grammar!Traces /\ Opened(p) \in Opens
  BY <1>2 DEF Fit, FoldsAgree
<1>4. HasAnswer(Append(p, e)) <=> e.type = "assistant/message" \/ (HasAnswer(p) /\ e.type # "step/end")
  <2>1. /\ e.type = "assistant/message" => HasAnswer(Append(p, e))
        /\ HasAnswer(p) /\ e.type # "step/end" => HasAnswer(Append(p, e))
        /\ HasAnswer(Append(p, e)) =>
                e.type = "assistant/message" \/ (HasAnswer(p) /\ e.type # "step/end")
    BY <1>1, <1>2, AnswersMove DEF Fit
  <2> QED BY <2>1
<1>5. Moved(p, e)
  BY <1>1, <1>3, <1>4, FoldsMove, FoldsUnfold, KnownMoves DEF Moved
<1> QED BY <1>1, <1>5

\* Where no turn is open the next one may start.
LEMMA TurnStarts ==
    ASSUME NEW p, NEW b, Good(p, b), NEW n, At(p, 0, 0, n, FALSE, <<>>, {}), LastTurn(p) < MaxTurns
    PROVE  /\ MayFollow(p, TurnStart(LastTurn(p) + 1), b)
           /\ At(Append(p, TurnStart(LastTurn(p) + 1)), LastTurn(p) + 1, 0, 1, FALSE, <<>>, {})
           /\ Replayed(Append(p, TurnStart(LastTurn(p) + 1))) = Replayed(p)
           /\ LastTurn(Append(p, TurnStart(LastTurn(p) + 1))) = LastTurn(p) + 1
           /\ KnownIn(p) \subseteq KnownIn(Append(p, TurnStart(LastTurn(p) + 1)))
<1> DEFINE t == LastTurn(p) + 1
           e == TurnStart(t)
<1>1. FoldsAgree(p)
  BY GoodFits DEF Fit
<1>2. Trace(p).openTurn = 0 /\ Trace(p).openStep = 0
  BY DEF At
<1>3. t = Trace(p).nextTurn /\ t \in 0..MaxTurns
  BY <1>1, <1>2, RecoveryBounds DEF FoldsAgree, Grammar!Traces
<1> HIDE DEF t
<1>4. e \in Events /\ e.type = "turn/start" /\ e.turn = t /\ e.inserted = <<>>
  <2>1. 0 \in 0..MaxSteps
    BY RecoveryBounds
  <2> QED BY <1>3, <2>1, StepFacts
<1> HIDE DEF e
<1>5. Grammar!Legal(Trace(p), e)
  BY <1>2, <1>3, <1>4 DEF Grammar!Legal, Grammar!Closed
<1>6. MayFollow(p, e, b)
  BY <1>4, <1>5 DEF MayFollow, Within, IsResult, IsSplice
<1>7. At(Append(p, e), t, 0, 1, FALSE, <<>>, {})
  <2> DEFINE q == Append(p, e)
  <2>0. Moved(p, e)
    BY AtMoves, <1>6
  <2>1. /\ Trace(q).openTurn = t /\ Trace(q).openStep = 0 /\ Trace(q).nextStep = 1
        /\ Opened(q).asked = <<>> /\ Opened(q).begun = {}
    BY <1>2, <1>4, <2>0 DEF Moved
  <2>2. ~HasAnswer(p)
    BY DEF At
  <2>3. ~HasAnswer(q)
    BY <1>4, <2>0, <2>2 DEF Moved
  <2> QED BY <2>1, <2>3 DEF At
<1>8. /\ Replayed(Append(p, e)) = Replayed(p) /\ LastTurn(Append(p, e)) = t
      /\ KnownIn(p) \subseteq KnownIn(Append(p, e))
  <2>1. Moved(p, e)
    BY <1>6, AtMoves
  <2> QED BY <1>4, <2>1 DEF Moved, IsSplice
<1> QED BY <1>6, <1>7, <1>8 DEF e, t

\* In an open turn its next step may start.
LEMMA StepStarts ==
    ASSUME NEW p, NEW b, Good(p, b), NEW t \in 1..MaxTurns, NEW s \in 1..MaxSteps,
           At(p, t, 0, s, FALSE, <<>>, {})
    PROVE  /\ MayFollow(p, StepStart(t, s), b)
           /\ At(Append(p, StepStart(t, s)), t, s, s, FALSE, <<>>, {})
           /\ Kept(p, Append(p, StepStart(t, s)))
<1> DEFINE e == StepStart(t, s)
<1>1. Trace(p).openTurn = t /\ Trace(p).openStep = 0 /\ Trace(p).nextStep = s /\ t # 0
  BY DEF At
<1>2. e \in Events /\ e.type = "step/start" /\ e.turn = t /\ e.step = s /\ e.inserted = <<>>
  <2>1. t \in 0..MaxTurns /\ s \in 0..MaxSteps
    BY RecoveryBounds
  <2> QED BY <2>1, StepFacts
<1> HIDE DEF e
<1>3. Grammar!Legal(Trace(p), e)
  BY <1>1, <1>2 DEF Grammar!Legal, Grammar!Closed
<1>4. MayFollow(p, e, b)
  BY <1>1, <1>2, <1>3 DEF MayFollow, Within, IsResult, IsSplice
<1>5. At(Append(p, e), t, s, s, FALSE, <<>>, {})
  BY <1>1, <1>2, <1>4, AtMoves DEF At, Moved, IsResult
<1>20. Kept(p, Append(p, e))
  <2>1. Moved(p, e)
    BY <1>4, AtMoves
  <2> QED BY <1>2, <2>1 DEF Moved, Kept, IsSplice
<1> QED BY <1>20, <1>4, <1>5 DEF e

\* A step may end when every call has its result, or when it is broken.
LEMMA StepEnds ==
    ASSUME NEW p, NEW b, Good(p, b), NEW t \in 1..MaxTurns, NEW s \in 1..MaxSteps,
           NEW answered, NEW asked, NEW begun, At(p, t, s, s, answered, asked, begun),
           asked = <<>> \/ <<t, s>> \in b
    PROVE  /\ MayFollow(p, StepEnd(t, s), b)
           /\ At(Append(p, StepEnd(t, s)), t, 0, s + 1, FALSE, <<>>, {})
           /\ Kept(p, Append(p, StepEnd(t, s)))
<1> DEFINE e == StepEnd(t, s)
<1>1. Trace(p).openTurn = t /\ Trace(p).openStep = s /\ Trace(p).nextStep = s /\ s # 0
      /\ Opened(p).asked = asked
  BY DEF At
<1>2. e \in Events /\ e.type = "step/end" /\ e.turn = t /\ e.step = s /\ e.inserted = <<>>
  <2>1. t \in 0..MaxTurns /\ s \in 0..MaxSteps
    BY RecoveryBounds
  <2> QED BY <2>1, StepFacts
<1> HIDE DEF e
<1>3. Grammar!Legal(Trace(p), e)
  BY <1>1, <1>2 DEF Grammar!Legal, Grammar!NamesOpenStep
<1>4. MayFollow(p, e, b)
  BY <1>1, <1>2, <1>3 DEF MayFollow, IsResult, IsSplice
<1>5. At(Append(p, e), t, 0, s + 1, FALSE, <<>>, {})
  <2> DEFINE q == Append(p, e)
  <2>0. Moved(p, e)
    BY AtMoves, <1>4
  <2>1. /\ Trace(q).openTurn = t /\ Trace(q).openStep = 0 /\ Trace(q).nextStep = s + 1
        /\ Opened(q).asked = <<>> /\ Opened(q).begun = {}
    BY <1>1, <1>2, <1>4, <2>0 DEF Moved, IsResult
  <2>2. ~HasAnswer(q)
    BY <1>1, <1>2, <1>4, <2>0 DEF Moved
  <2> QED BY <2>1, <2>2 DEF At
<1>20. Kept(p, Append(p, e))
  <2>1. Moved(p, e)
    BY <1>4, AtMoves
  <2> QED BY <1>2, <2>1 DEF Moved, Kept, IsSplice
<1> QED BY <1>20, <1>4, <1>5 DEF e

\* A turn without an open step may end.
LEMMA TurnEnds ==
    ASSUME NEW p, NEW b, Good(p, b), NEW t \in 1..MaxTurns, NEW n, NEW why \in Reasons,
           At(p, t, 0, n, FALSE, <<>>, {})
    PROVE  /\ MayFollow(p, TurnEnd(t, why), b)
           /\ At(Append(p, TurnEnd(t, why)), 0, 0, n, FALSE, <<>>, {})
           /\ Kept(p, Append(p, TurnEnd(t, why)))
<1> DEFINE e == TurnEnd(t, why)
<1>1. Trace(p).openTurn = t /\ Trace(p).openStep = 0 /\ t # 0
  BY DEF At
<1>2. /\ e \in Events /\ e.type = "turn/end" /\ e.turn = t /\ e.inserted = <<>>
      /\ e = TurnEnd(e.turn, e.reason)
  <2>1. t \in 0..MaxTurns
    BY RecoveryBounds
  <2> QED BY <2>1, TurnEndFacts
<1> HIDE DEF e
<1>3. Grammar!Legal(Trace(p), e)
  BY <1>1, <1>2 DEF Grammar!Legal, Grammar!Closed
<1>4. MayFollow(p, e, b)
  BY <1>1, <1>2, <1>3 DEF MayFollow, IsResult, IsSplice, Within
<1>5. At(Append(p, e), 0, 0, n, FALSE, <<>>, {})
  BY <1>1, <1>2, <1>4, AtMoves DEF At, Moved
<1>20. Kept(p, Append(p, e))
  <2>1. Moved(p, e)
    BY <1>4, AtMoves
  <2> QED BY <1>2, <2>1 DEF Moved, Kept, IsSplice
<1> QED BY <1>20, <1>4, <1>5 DEF e

\* An open step may be answered once.
LEMMA StepIsAnswered ==
    ASSUME NEW p, NEW b, Good(p, b), NEW t \in 1..MaxTurns, NEW s \in 1..MaxSteps,
           At(p, t, s, s, FALSE, <<>>, {}), NEW asks \in Seq(Calls), IsInjective(asks),
           \A c \in Range(asks) : c[1] = t /\ c[2] = s
    PROVE  /\ MayFollow(p, Answer(t, s, asks), b)
           /\ At(Append(p, Answer(t, s, asks)), t, s, s, TRUE, asks, {})
           /\ Kept(p, Append(p, Answer(t, s, asks)))
<1> DEFINE e == Answer(t, s, asks)
<1>1. Trace(p).openTurn = t /\ Trace(p).openStep = s /\ Trace(p).nextStep = s /\ s # 0
      /\ Opened(p).asked = <<>> /\ Opened(p).begun = {} /\ ~HasAnswer(p)
  BY DEF At
<1>2. e \in Events /\ e.type = "assistant/message" /\ e.turn = t /\ e.step = s /\ e.asks = asks
      /\ e.inserted = <<>>
  <2>1. t \in 0..MaxTurns /\ s \in 0..MaxSteps
    BY RecoveryBounds
  <2> QED BY <2>1, AnswerFacts
<1> HIDE DEF e
<1>3. Grammar!Legal(Trace(p), e)
  BY <1>1, <1>2 DEF Grammar!Legal, Grammar!NamesOpenStep
<1>4. MayFollow(p, e, b)
  BY <1>1, <1>2, <1>3 DEF MayFollow, IsResult, IsSplice
<1>5. <<>> \o asks = asks
  BY WholeFacts
<1>6. At(Append(p, e), t, s, s, TRUE, asks, {})
  <2> DEFINE q == Append(p, e)
  <2>0. Moved(p, e)
    BY AtMoves, <1>4
  <2>1. /\ Trace(q).openTurn = t /\ Trace(q).openStep = s /\ Trace(q).nextStep = s
        /\ Opened(q).asked = asks /\ Opened(q).begun = {}
    BY <1>1, <1>2, <1>4, <1>5, <2>0 DEF Moved, IsResult
  <2>2. HasAnswer(q)
    BY <1>1, <1>2, <1>4, <1>5, <2>0 DEF Moved
  <2> QED BY <2>1, <2>2 DEF At
<1>20. Kept(p, Append(p, e))
  <2>1. Moved(p, e)
    BY <1>4, AtMoves
  <2> QED BY <1>2, <2>1 DEF Moved, Kept, IsSplice
<1> QED BY <1>20, <1>4, <1>6 DEF e

\* A call the answer asked for may be started.
LEMMA CallStarts ==
    ASSUME NEW p, NEW b, Good(p, b), NEW t, NEW s, NEW n, NEW asked, NEW begun,
           At(p, t, s, n, TRUE, asked, begun), NEW c \in Range(asked)
    PROVE  /\ MayFollow(p, ToolCall(c), b) /\ c \in Calls /\ c[1] = t /\ c[2] = s
           /\ At(Append(p, ToolCall(c)), t, s, n, TRUE, asked, begun \cup {c})
           /\ Kept(p, Append(p, ToolCall(c)))
<1> DEFINE e == ToolCall(c)
<1>1. Trace(p).openTurn = t /\ Trace(p).openStep = s /\ Opened(p).asked = asked /\ Opened(p).begun = begun
  BY DEF At
<1>2. FoldsAgree(p) /\ CallsAgree(p)
  BY GoodFits DEF Fit
<1>3. asked \in Seq(Calls)
  BY <1>1, <1>2 DEF FoldsAgree, Opens
<1>4. c \in Calls /\ asked # <<>>
  <2>1. Range(<<>>) = {}
    BY DEF Range
  <2> QED BY <1>3, <2>1, WholeFacts
<1>5. c[1] = t /\ c[2] = s /\ s # 0
  BY <1>1, <1>2, <1>4 DEF CallsAgree, FoldsAgree
<1>6. e \in Events /\ e.type = "tool/call" /\ e.turn = t /\ e.step = s /\ e.calls = {c} /\ e.inserted = <<>>
  BY <1>4, <1>5, CallEventFacts
<1> HIDE DEF e
<1>7. Grammar!Legal(Trace(p), e)
  BY <1>1, <1>6 DEF Grammar!Legal, Grammar!NamesOpenStep
<1>8. MayFollow(p, e, b)
  BY <1>1, <1>5, <1>6, <1>7 DEF MayFollow, IsResult, IsSplice
<1>9. {c} \cap Range(asked) = {c}
  OBVIOUS
<1>11. Trace(p).nextStep = n /\ HasAnswer(p)
  BY DEF At
<1>10. At(Append(p, e), t, s, n, TRUE, asked, begun \cup {c})
  <2> DEFINE q == Append(p, e)
  <2>0. Moved(p, e)
    BY AtMoves, <1>8
  <2>1. /\ Trace(q).openTurn = t /\ Trace(q).openStep = s /\ Trace(q).nextStep = n
        /\ Opened(q).asked = asked /\ Opened(q).begun = begun \cup {c}
    BY <1>1, <1>6, <1>8, <1>9, <1>11, <2>0 DEF Moved, IsResult
  <2>2. HasAnswer(q)
    BY <1>1, <1>6, <1>8, <1>9, <1>11, <2>0 DEF Moved
  <2> QED BY <2>1, <2>2 DEF At
<1>20. Kept(p, Append(p, e))
  <2>1. Moved(p, e)
    BY <1>8, AtMoves
  <2> QED BY <1>6, <2>1 DEF Moved, Kept, IsSplice
<1> QED BY <1>20, <1>4, <1>5, <1>8, <1>10 DEF e

\* The result of the first call without one: from its run or from the repair.
LEMMA CallEnds ==
    ASSUME NEW p, NEW b, Good(p, b), NEW t, NEW s, NEW n, NEW answered, NEW asked, NEW begun,
           At(p, t, s, n, answered, asked, begun), asked # <<>>, NEW e,
           \/ Head(asked) \in begun /\ e = ToolResult(Head(asked))
           \/ e = ToolNotStarted(Head(asked))
    PROVE  /\ MayFollow(p, e, b) /\ At(Append(p, e), t, s, n, TRUE, Tail(asked), begun)
           /\ asked \in Seq(Calls) /\ IsInjective(asked)
           /\ Kept(p, Append(p, e))
<1>1. /\ Trace(p).openTurn = t /\ Trace(p).openStep = s /\ Opened(p).asked = asked
      /\ Opened(p).begun = begun /\ Trace(p).nextStep = n
  BY DEF At
<1>2. FoldsAgree(p) /\ CallsAgree(p)
  BY GoodFits DEF Fit
<1>3. asked \in Seq(Calls) /\ IsInjective(asked)
  BY <1>1, <1>2 DEF FoldsAgree, Opens, CallsAgree
<1> DEFINE c == Head(asked)
<1>4. c \in Calls /\ c \in Range(asked) /\ Without(asked, {c}) = Tail(asked)
  BY <1>3, TailFacts, WithoutHead
<1> HIDE DEF c
<1>5. /\ c[1] = t /\ c[2] = s /\ s # 0 /\ HasAnswer(p)
      /\ c \in begun => c \in Trace(p).pendingCalls
  <2>1. Opened(p).turn = t /\ Opened(p).step = s
    BY <1>1, <1>2 DEF FoldsAgree
  <2>2. /\ \A d \in Range(asked) : d[1] = t /\ d[2] = s
        /\ Range(asked) \cap Trace(p).pendingCalls = Range(asked) \cap begun
        /\ s = 0 \/ ~HasAnswer(p) => asked = <<>>
    BY <1>1, <1>2, <2>1 DEF CallsAgree
  <2> QED BY <1>4, <2>2
<1>6. /\ e \in Events /\ e.turn = t /\ e.step = s /\ e.calls = {c} /\ e.inserted = <<>>
      /\ (e.type = "tool/result" /\ c \in begun) \/ e.type = "tool/not-started"
  BY <1>4, <1>5, CallEventFacts DEF c
<1>7. Grammar!Legal(Trace(p), e)
  BY <1>1, <1>5, <1>6 DEF Grammar!Legal, Grammar!NamesOpenStep
<1>8. MayFollow(p, e, b)
  BY <1>1, <1>5, <1>6, <1>7 DEF MayFollow, IsResult, IsSplice, c
<1>9. At(Append(p, e), t, s, n, TRUE, Tail(asked), begun)
  <2> DEFINE q == Append(p, e)
  <2>0. Moved(p, e)
    BY AtMoves, <1>8
  <2>1. /\ Trace(q).openTurn = t /\ Trace(q).openStep = s /\ Trace(q).nextStep = n
        /\ Opened(q).asked = Tail(asked) /\ Opened(q).begun = begun
    BY <1>1, <1>4, <1>5, <1>6, <1>8, <2>0 DEF Moved, IsResult
  <2>2. HasAnswer(q)
    BY <1>1, <1>4, <1>5, <1>6, <1>8, <2>0 DEF Moved
  <2> QED BY <2>1, <2>2 DEF At
<1>20. Kept(p, Append(p, e))
  <2>1. Moved(p, e)
    BY <1>8, AtMoves
  <2> QED BY <1>6, <2>1 DEF Moved, Kept, IsSplice
<1> QED BY <1>20, <1>3, <1>8, <1>9

\* A splice within the list it is made on, of a message that no event has named.
LEMMA InboxSpliced ==
    ASSUME NEW p, NEW b, Good(p, b), NEW t, NEW s, NEW n, NEW answered, NEW asked, NEW begun,
           At(p, t, s, n, answered, asked, begun),
           NEW target \in Targets, NEW start \in Nat, NEW removed \in Nat,
           start + removed <= Len(Replayed(p)[target]),
           NEW inserted \in Seq(Messages), NEW canceled \in BOOLEAN,
           inserted = <<>> \/ \E m \in Messages \ KnownIn(p) : inserted = <<m>>,
           removed = 0 \/ canceled \/ t # 0,
           NEW e, e = Spliced(target, start, removed, inserted, canceled)
    PROVE  /\ MayFollow(p, e, b) /\ At(Append(p, e), t, s, n, answered, asked, begun)
           /\ Replayed(Append(p, e)) = Splice(Replayed(p), target, start, removed, inserted)
           /\ LastTurn(Append(p, e)) = LastTurn(p) /\ KnownIn(p) \subseteq KnownIn(Append(p, e))
           /\ e \in Events /\ IsSplice(e)
<1>1. /\ e \in Events /\ e.type = "agent/inbox/spliced" /\ e.target = target /\ e.start = start
      /\ e.removed = removed /\ e.inserted = inserted /\ e.canceled = canceled
      /\ Trace(p).openTurn = t
  BY SplicedFacts DEF At
<1>2. Grammar!Legal(Trace(p), e)
  BY <1>1 DEF Grammar!Legal
<1>3. MayFollow(p, e, b)
  BY <1>1, <1>2 DEF MayFollow, IsResult, IsSplice, Within
<1>4. Moved(p, e)
  BY <1>3, AtMoves
<1> DEFINE q == Append(p, e)
<1>5. /\ Trace(q).openTurn = Trace(p).openTurn /\ Trace(q).openStep = Trace(p).openStep
      /\ Trace(q).nextStep = Trace(p).nextStep
      /\ Opened(q).asked = Opened(p).asked /\ Opened(q).begun = Opened(p).begun
  BY <1>1, <1>4 DEF Moved, IsResult
<1>6. HasAnswer(q) <=> HasAnswer(p)
  BY <1>1, <1>4 DEF Moved
<1>7. At(q, t, s, n, answered, asked, begun)
  BY <1>5, <1>6 DEF At
<1>8. Replayed(q) = Splice(Replayed(p), target, start, removed, inserted) /\ LastTurn(q) = LastTurn(p)
      /\ KnownIn(p) \subseteq KnownIn(q)
  BY <1>1, <1>4 DEF Moved, IsSplice
<1> QED BY <1>1, <1>3, <1>7, <1>8 DEF IsSplice

\* A message that left the inbox enters a step.
LEMMA MessageEnters ==
    ASSUME NEW p, NEW b, Good(p, b), NEW t, NEW s, NEW n, NEW answered, NEW asked, NEW begun,
           At(p, t, s, n, answered, asked, begun),
           NEW m \in Messages, m \in KnownIn(p), m \notin Pending(Replayed(p))
    PROVE  /\ MayFollow(p, UserMessage(m), b)
           /\ At(Append(p, UserMessage(m)), t, s, n, answered, asked, begun)
           /\ Kept(p, Append(p, UserMessage(m)))
<1> DEFINE e == UserMessage(m)
<1>1. e \in Events /\ e.type = "user/message" /\ e.inserted = <<m>>
  BY UserMessageFacts
<1> HIDE DEF e
<1>2. Grammar!Legal(Trace(p), e)
  BY <1>1 DEF Grammar!Legal
<1>3. MayFollow(p, e, b)
  BY <1>1, <1>2 DEF MayFollow, IsResult, IsSplice, Within
<1>4. Moved(p, e)
  BY <1>3, AtMoves
<1> DEFINE q == Append(p, e)
<1>5. /\ Trace(q).openTurn = Trace(p).openTurn /\ Trace(q).openStep = Trace(p).openStep
      /\ Trace(q).nextStep = Trace(p).nextStep
      /\ Opened(q).asked = Opened(p).asked /\ Opened(q).begun = Opened(p).begun
  BY <1>1, <1>4 DEF Moved, IsResult
<1>6. HasAnswer(q) <=> HasAnswer(p)
  BY <1>1, <1>4 DEF Moved
<1>7. At(q, t, s, n, answered, asked, begun)
  BY <1>5, <1>6 DEF At
<1>8. Kept(p, q)
  BY <1>1, <1>4 DEF Moved, IsSplice, Kept
<1> QED BY <1>3, <1>7, <1>8 DEF e

-----------------------------------------------------------------------------
\* What a log has come to when it is read.
LEMMA SomewhereAt ==
    ASSUME NEW p, NEW b, Good(p, b)
    PROVE  /\ At(p, Trace(p).openTurn, Trace(p).openStep, Trace(p).nextStep, HasAnswer(p),
                 Opened(p).asked, Opened(p).begun)
           /\ p \in Seq(Events) /\ Opened(p).turn = Trace(p).openTurn /\ Opened(p).step = Trace(p).openStep
           /\ Opened(p).asked \in Seq(Calls) /\ IsInjective(Opened(p).asked)
           /\ \A c \in Range(Opened(p).asked) :
                c \in Calls /\ c[1] = Trace(p).openTurn /\ c[2] = Trace(p).openStep
           /\ Trace(p).openTurn \in 0..MaxTurns /\ Trace(p).openStep \in 0..MaxSteps
           /\ Trace(p).nextTurn \in 1..(MaxTurns + 1)
           /\ Trace(p).openTurn = 0 => Trace(p).openStep = 0
           /\ Trace(p).openStep = 0 \/ ~HasAnswer(p) => Opened(p).asked = <<>> /\ Opened(p).begun = {}
           /\ Trace(p).openStep # 0 => Trace(p).nextStep = Trace(p).openStep
           /\ Trace(p).openStep = 0 => ~HasAnswer(p)
           /\ LastTurn(p) = IF Trace(p).openTurn = 0 THEN Trace(p).nextTurn - 1 ELSE Trace(p).openTurn
<1>1. FoldsAgree(p) /\ CallsAgree(p) /\ EventsArePlaced(p)
  BY GoodFits DEF Fit
<1>2. p \in Seq(Events)
  BY DEF Good
<1>3. At(p, Trace(p).openTurn, Trace(p).openStep, Trace(p).nextStep, HasAnswer(p),
                 Opened(p).asked, Opened(p).begun)
  BY DEF At
<1>4. /\ Trace(p).openTurn \in Nat /\ Trace(p).openStep \in Nat /\ Trace(p).nextTurn \in Nat \ {0}
      /\ Opened(p).asked \in Seq(Calls)
  BY <1>1 DEF FoldsAgree, Opens, Grammar!Traces
<1>5. /\ Trace(p).openTurn \in 0..MaxTurns /\ Trace(p).openStep \in 0..MaxSteps
      /\ Trace(p).nextTurn \in 1..(MaxTurns + 1)
      /\ Opened(p).turn = Trace(p).openTurn /\ Opened(p).step = Trace(p).openStep
      /\ Trace(p).openTurn = 0 => Trace(p).openStep = 0
      /\ Trace(p).openStep # 0 => Trace(p).nextStep = Trace(p).openStep
      /\ LastTurn(p) = IF Trace(p).openTurn = 0 THEN Trace(p).nextTurn - 1 ELSE Trace(p).openTurn
  BY <1>1, <1>4, RecoveryBounds DEF FoldsAgree
<1>6. /\ Trace(p).openStep = 0 \/ ~HasAnswer(p) => Opened(p).asked = <<>> /\ Opened(p).begun = {}
      /\ IsInjective(Opened(p).asked)
      /\ \A c \in Range(Opened(p).asked) : c[1] = Trace(p).openTurn /\ c[2] = Trace(p).openStep
  BY <1>1, <1>5 DEF CallsAgree
<1>7. Trace(p).openStep = 0 => ~HasAnswer(p)
  <2> SUFFICES ASSUME NEW d \in Range(p), d.type = "assistant/message", IsOpen(Trace(p), d.turn, d.step)
               PROVE  Trace(p).openStep # 0
    BY DEF HasAnswer
  <2>1. d.step >= 1 /\ d.step = Trace(p).openStep
    BY <1>1 DEF EventsArePlaced, Within, IsOpen
  <2> QED BY <2>1
<1>8. \A c \in Range(Opened(p).asked) : c \in Calls
  BY <1>4, WholeFacts
<1> QED BY <1>2, <1>3, <1>4, <1>5, <1>6, <1>7, <1>8

-----------------------------------------------------------------------------
(***************************************************************************)
(* interruptedTurnClosers.                                                 *)
(***************************************************************************)
Results(open) == [i \in DOMAIN open.asked |-> Outcome(open, open.asked[i])]

\* The results, one after the other.
LEMMA ResultsClose ==
    ASSUME NEW p, NEW b, Good(p, b)
    PROVE  /\ Results(Opened(p)) \in Seq(Events)
           /\ Good(p \o Results(Opened(p)), b)
           /\ \E answered : At(p \o Results(Opened(p)), Trace(p).openTurn, Trace(p).openStep, Trace(p).nextStep,
                               answered, <<>>, Opened(p).begun)
<1> DEFINE open == Opened(p)
           k == open.asked
           t == Trace(p).openTurn
           s == Trace(p).openStep
           n == Trace(p).nextStep
           g == open.begun
           r == Results(open)
<1>1. /\ p \in Seq(Events) /\ At(p, t, s, n, HasAnswer(p), k, g) /\ k \in Seq(Calls)
      /\ \A c \in Range(k) : c \in Calls
  BY SomewhereAt
<1>2. Len(k) \in Nat /\ DOMAIN k = 1..Len(k) /\ \A i \in 1..Len(k) : k[i] \in Calls
  BY <1>1
<1> HIDE DEF t, s, n, g
<1>3. \A c \in Calls : Outcome(open, c) \in Events
  BY CallEventFacts DEF Outcome
<1>4. r \in Seq(Events) /\ Len(r) = Len(k) /\ \A i \in 1..Len(k) : r[i] = Outcome(open, k[i])
  <2>1. r = [i \in 1..Len(k) |-> Outcome(open, k[i])]
    BY <1>2 DEF Results
  <2>2. \A i \in 1..Len(k) : Outcome(open, k[i]) \in Events
    BY <1>2, <1>3
  <2> DEFINE f(i) == Outcome(open, k[i])
  <2>3. r = [i \in 1..Len(k) |-> f(i)] /\ \A i \in 1..Len(k) : f(i) \in Events
    BY <2>1, <2>2
  <2> HIDE DEF f, r, k
  <2>4. r \in Seq(Events) /\ Len(r) = Len(k) /\ \A i \in 1..Len(k) : r[i] = f(i)
    BY <1>2, <2>3
  <2> QED BY <2>4 DEF f
<1> HIDE DEF r
<1> DEFINE P(i) == /\ Good(p \o SubSeq(r, 1, i), b)
                   /\ \E answered : At(p \o SubSeq(r, 1, i), t, s, n, answered, SubSeq(k, i + 1, Len(k)), g)
           S == {i \in Nat : i <= Len(k) => P(i)}
<1>5. 0 \in S
  <2>1. SubSeq(r, 1, 0) = <<>> /\ p \o <<>> = p
    BY <1>1, <1>4, WholeFacts
  <2>2. SubSeq(k, 0 + 1, Len(k)) = k
    BY <1>1, WholeFacts
  <2> HIDE DEF k
  <2> QED BY <1>1, <2>1, <2>2
<1>6. ASSUME NEW i \in Nat, i \in S  PROVE i + 1 \in S
  <2> SUFFICES ASSUME i + 1 <= Len(k)  PROVE P(i + 1)
    OBVIOUS
  <2> DEFINE q == p \o SubSeq(r, 1, i)
             left == SubSeq(k, i + 1, Len(k))
             e == r[i + 1]
  <2>1. i <= Len(k) /\ i + 1 \in 1..Len(k)
    BY <1>2
  <2>2. Good(q, b) /\ \E answered : At(q, t, s, n, answered, left, g)
    BY <1>6, <2>1
  <2>3. left # <<>> /\ Head(left) = k[i + 1] /\ Tail(left) = SubSeq(k, (i + 1) + 1, Len(k))
    <3>1. /\ left \in Seq(Calls) /\ Len(left) = Len(k) - i
          /\ \A j \in 1..(Len(k) - i) : left[j] = k[i + j]
      BY <1>1, <2>1
    <3>2. left # <<>> /\ Head(left) = k[i + 1]
      <4>1. left # <<>> /\ Head(left) = left[1] /\ 1 \in 1..(Len(k) - i)
        <5>1. Len(left) >= 1 /\ 1 \in 1..(Len(k) - i)
          BY <1>2, <2>1, <3>1
        <5>2. \A x \in Seq(Calls) : Len(x) >= 1 => x # <<>> /\ Head(x) = x[1]
          OBVIOUS
        <5> HIDE DEF left, k
        <5> QED BY <3>1, <5>1, <5>2
      <4> QED BY <3>1, <4>1
    <3> DEFINE x == Tail(left)
               y == SubSeq(k, (i + 1) + 1, Len(k))
    <3>3. x \in Seq(Calls) /\ Len(x) = (Len(k) - i) - 1 /\ \A j \in 1..((Len(k) - i) - 1) : x[j] = left[j + 1]
      <4> HIDE DEF left
      <4> QED BY <3>1, <3>2
    <3>4. y \in Seq(Calls) /\ Len(y) = Len(k) - (i + 1) /\ \A j \in 1..(Len(k) - (i + 1)) : y[j] = k[(i + 1) + j]
      BY <1>1, <2>1
    <3> HIDE DEF x, y, left, k
    <3>5. Len(x) = Len(y) /\ \A j \in 1..Len(x) : x[j] = y[j]
      <4>1. Len(x) = Len(y)
        BY <1>2, <3>3, <3>4
      <4>2. ASSUME NEW j \in 1..Len(x)  PROVE x[j] = y[j]
        <5>1. /\ j \in 1..((Len(k) - i) - 1) /\ j + 1 \in 1..(Len(k) - i) /\ j \in 1..(Len(k) - (i + 1))
              /\ i + (j + 1) = (i + 1) + j
          BY <1>2, <3>3, <4>2
        <5> QED BY <3>1, <3>3, <3>4, <5>1
      <4> QED BY <4>1, <4>2
    <3>6. x = y
      BY ONLY <3>3, <3>4, <3>5
    <3> QED BY <3>2, <3>6 DEF x, y
  <2>4. /\ SubSeq(r, 1, i) \in Seq(Events) /\ e \in Events
        /\ SubSeq(r, 1, i + 1) = Append(SubSeq(r, 1, i), e)
    BY <1>4, <2>1, FrontFacts
  <2>5. p \o SubSeq(r, 1, i + 1) = Append(q, e)
    BY <1>1, <2>4, ConcatAppend
  <2>6. (Head(left) \in g /\ e = ToolResult(Head(left))) \/ e = ToolNotStarted(Head(left))
    BY <1>4, <2>1, <2>3 DEF Outcome, g
  <2> HIDE DEF q, left, e, k
  <2>7. MayFollow(q, e, b) /\ At(Append(q, e), t, s, n, TRUE, Tail(left), g)
    <3>1. PICK answered : At(q, t, s, n, answered, left, g)
      BY <2>2
    <3> QED BY <2>2, <2>3, <2>6, <3>1, CallEnds
  <2>8. Good(Append(q, e), b)
    BY <2>2, <2>7, GoodAppend
  <2> QED BY <2>3, <2>5, <2>7, <2>8
<1>7. P(Len(k))
  <2>1. Len(k) \in S
    <3> HIDE DEF S
    <3> QED BY <1>2, <1>5, <1>6, SetInduction
  <2> QED BY <1>2, <2>1
<1>8. SubSeq(r, 1, Len(k)) = r /\ SubSeq(k, Len(k) + 1, Len(k)) = <<>>
  <2>1. SubSeq(r, 1, Len(r)) = r
    BY <1>4, WholeFacts
  <2>2. SubSeq(k, Len(k) + 1, Len(k)) = <<>>
    BY <1>1
  <2> QED BY <1>4, <2>1, <2>2
<1> QED BY <1>4, <1>7, <1>8 DEF r, t, s, n, g

\* interruptedTurnClosers closes a good log, and finds nothing to close in what it closed.
LEMMA ClosersClose ==
    ASSUME NEW p, NEW b, Good(p, b)
    PROVE  /\ Closers(p) \in Seq(Events) /\ Good(p \o Closers(p), b)
           /\ Closers(p \o Closers(p)) = <<>>
           /\ Closers(p) = <<>> => Trace(p).openTurn = 0
<1> DEFINE open == Opened(p)
           t == Trace(p).openTurn
           s == Trace(p).openStep
           n == Trace(p).nextStep
           r == Results(open)
           closing == StepCloser(open)
           end == TurnEnd(t, "interrupted")
           all == (r \o closing) \o <<end>>
<1>1. /\ p \in Seq(Events) /\ open.turn = t /\ open.step = s /\ t \in 0..MaxTurns /\ s \in 0..MaxSteps
      /\ t = 0 => s = 0
      /\ s # 0 => n = s
  BY SomewhereAt
<1>2. Closers(p) = IF t = 0 THEN <<>> ELSE all
  BY <1>1 DEF Closers, Results, Grammar!Closed
<1>3. /\ r \in Seq(Events) /\ Good(p \o r, b)
      /\ \E answered : At(p \o r, t, s, n, answered, <<>>, open.begun)
  BY ResultsClose
<1>4. closing = IF s = 0 THEN <<>> ELSE <<StepEnd(t, s)>>
  BY <1>1 DEF StepCloser, Grammar!Closed
<1>5. /\ \A x \in Seq(Events) : \A e \in Events : x \o <<e>> = Append(x, e) /\ <<e>> \in Seq(Events)
      /\ \A x, y \in Seq(Events) : x \o y \in Seq(Events)
      /\ <<>> \in Seq(Events) /\ \A x \in Seq(Events) : x \o <<>> = x
  BY ConcatFacts
<1>6. \A x, y, z \in Seq(Events) : (x \o y) \o z = x \o (y \o z)
  OBVIOUS
<1>7. CASE t = 0
  <2>1. Closers(p) = <<>> /\ p \o <<>> = p
    BY <1>1, <1>2, <1>5, <1>7
  <2> HIDE DEF t
  <2> QED BY <1>5, <1>7, <2>1 DEF t
<1>8. CASE t # 0
  <2> HIDE DEF t, s, n, r, closing, end, open, all
  <2>1. t \in 1..MaxTurns /\ end \in Events
    <3>1. t \in 1..MaxTurns
      BY <1>1, <1>8, RecoveryBounds
    <3> QED BY <1>1, <3>1, TurnEndFacts DEF end, Reasons
  <2>2. closing \in Seq(Events) /\ Good((p \o r) \o closing, b) /\ \E k : At((p \o r) \o closing, t, 0, k, FALSE, <<>>, {})
    <3>1. CASE s = 0
      <4>1. closing = <<>> /\ (p \o r) \o closing = p \o r
        BY <1>1, <1>3, <1>4, <1>5, <3>1
      <4>2. At(p \o r, t, 0, n, FALSE, <<>>, {})
        <5>1. PICK answered : At(p \o r, t, 0, n, answered, <<>>, open.begun)
          BY <1>3, <3>1
        <5>2. Trace(p \o r).openTurn = t /\ Trace(p \o r).openStep = 0 /\ Trace(p \o r).nextStep = n
              /\ Opened(p \o r).asked = <<>>
          BY <5>1 DEF At
        <5>3. ~HasAnswer(p \o r) /\ Opened(p \o r).begun = {}
          BY <1>3, <5>2, SomewhereAt
        <5> QED BY <5>2, <5>3 DEF At
      <4> QED BY <1>3, <1>5, <4>1, <4>2
    <3>2. CASE s # 0
      <4>1. s \in 1..MaxSteps /\ n = s
        BY <1>1, <3>2, RecoveryBounds
      <4>2. PICK answered : At(p \o r, t, s, s, answered, <<>>, open.begun)
        BY <1>3, <4>1
      <4>3. /\ MayFollow(p \o r, StepEnd(t, s), b)
            /\ At(Append(p \o r, StepEnd(t, s)), t, 0, s + 1, FALSE, <<>>, {})
        BY <1>3, <2>1, <4>1, <4>2, StepEnds
      <4>4. StepEnd(t, s) \in Events /\ Good(Append(p \o r, StepEnd(t, s)), b)
        BY <1>3, <4>3, GoodAppend DEF MayFollow
      <4>5. closing = <<StepEnd(t, s)>> /\ p \o r \in Seq(Events)
        BY <1>1, <1>3, <1>4, <1>5, <3>2
      <4>6. (p \o r) \o closing = Append(p \o r, StepEnd(t, s)) /\ closing \in Seq(Events)
        BY <1>5, <4>4, <4>5
      <4> QED BY <4>3, <4>4, <4>6
    <3> QED BY <3>1, <3>2
  <2> DEFINE q == (p \o r) \o closing
  <2>3. q \in Seq(Events)
    BY <1>1, <1>3, <1>5, <2>2
  <2> HIDE DEF q
  <2>4. PICK k : At(q, t, 0, k, FALSE, <<>>, {})
    BY <2>2 DEF q
  <2>5. MayFollow(q, end, b) /\ At(Append(q, end), 0, 0, k, FALSE, <<>>, {})
    BY <2>1, <2>2, <2>4, TurnEnds DEF end, Reasons, q
  <2>6. Good(Append(q, end), b)
    BY <2>2, <2>5, GoodAppend DEF q
  <2>7. p \o all = Append(q, end) /\ all \in Seq(Events)
    <3>1. r \o closing \in Seq(Events) /\ <<end>> \in Seq(Events)
      BY <1>3, <1>5, <2>1, <2>2
    <3>2. p \o all = (p \o (r \o closing)) \o <<end>>
      BY <1>1, <1>6, <3>1 DEF all
    <3>3. p \o (r \o closing) = q
      BY <1>1, <1>3, <1>6, <2>2 DEF q
    <3>4. q \o <<end>> = Append(q, end)
      BY <1>5, <2>1, <2>3
    <3> QED BY <1>5, <3>1, <3>2, <3>3, <3>4 DEF all
  <2>8. Closers(p) = all
    BY <1>2, <1>8
  <2>9. Opened(Append(q, end)).turn = 0
    <3>1. Opened(Append(q, end)).turn = Trace(Append(q, end)).openTurn
      BY <2>6, SomewhereAt
    <3> QED BY <2>5, <3>1 DEF At
  <2>10. Closers(p \o all) = <<>>
    BY <2>7, <2>9 DEF Closers, Grammar!Closed
  <2>11. all # <<>>
    <3>1. \A x \in Seq(Events) : Append(x, end) # <<>>
      BY <2>1
    <3>2. r \o closing \in Seq(Events)
      BY <1>3, <1>5, <2>2
    <3>3. all = Append(r \o closing, end)
      BY <1>5, <2>1, <3>2 DEF all
    <3> QED BY <3>1, <3>2, <3>3
  <2> QED BY <2>6, <2>7, <2>8, <2>10, <2>11
<1> QED BY <1>7, <1>8

\* A call that the repair reports as not started has no tool/call in the log.
LEMMA ClosersAreRight ==
    ASSUME NEW p, NEW b, Good(p, b), NEW e \in Range(Closers(p)), e.type = "tool/not-started"
    PROVE  \E c \in Calls : e = ToolNotStarted(c) /\ ToolCall(c) \notin Range(p)
<1> DEFINE open == Opened(p)
           t == Trace(p).openTurn
           s == Trace(p).openStep
           r == Results(open)
           closing == StepCloser(open)
           end == TurnEnd(t, "interrupted")
<1>1. /\ p \in Seq(Events) /\ open.turn = t /\ open.step = s /\ t \in 0..MaxTurns /\ s \in 0..MaxSteps
      /\ open.asked \in Seq(Calls)
      /\ \A c \in Range(open.asked) : c \in Calls /\ c[1] = t /\ c[2] = s
  BY SomewhereAt
<1>2. Closers(p) = IF t = 0 THEN <<>> ELSE (r \o closing) \o <<end>>
  BY <1>1 DEF Closers, Results, Grammar!Closed
<1>3. r \in Seq(Events)
  BY ResultsClose
<1>4. closing = IF s = 0 THEN <<>> ELSE <<StepEnd(t, s)>>
  BY <1>1 DEF StepCloser, Grammar!Closed
<1>5. /\ end \in Events /\ end.type = "turn/end" /\ StepEnd(t, s) \in Events
      /\ StepEnd(t, s).type = "step/end"
  <2>1. "interrupted" \in Reasons
    BY DEF Reasons
  <2> QED BY <1>1, <2>1, TurnEndFacts, StepFacts
<1>6. /\ \A d : Range(<<d>>) = {d}
      /\ Range(<<>>) = {}
  BY DEF Range
<1> HIDE DEF r, end, t, s
<1>7. closing \in Seq(Events) /\ Range(closing) \subseteq {StepEnd(t, s)} /\ <<end>> \in Seq(Events)
  <2>1. <<>> \in Seq(Events) /\ <<StepEnd(t, s)>> \in Seq(Events) /\ <<end>> \in Seq(Events)
    BY <1>5
  <2> QED BY <1>4, <1>6, <2>1
<1> HIDE DEF closing
<1>8. Range((r \o closing) \o <<end>>) = (Range(r) \cup Range(closing)) \cup {end}
  <2>1. r \o closing \in Seq(Events) /\ Range(r \o closing) = Range(r) \cup Range(closing)
    BY <1>3, <1>7, ConcatFacts
  <2> DEFINE x == r \o closing
             y == <<end>>
  <2>2. x \in Seq(Events) /\ y \in Seq(Events) /\ Range(y) = {end}
    BY <1>6, <1>7, <2>1
  <2> HIDE DEF x, y
  <2>3. Range(x \o y) = Range(x) \cup Range(y)
    BY <2>2, ConcatFacts
  <2> QED BY <2>1, <2>2, <2>3 DEF x, y
<1>9. e \in Range(r)
  <2>1. e \in (Range(r) \cup Range(closing)) \cup {end}
    BY <1>2, <1>6, <1>8
  <2> QED BY <1>5, <1>7, <2>1
<1>10. PICK i \in DOMAIN open.asked : e = Outcome(open, open.asked[i])
  <2>1. DOMAIN r = DOMAIN open.asked
    BY DEF r, Results
  <2>2. PICK i \in DOMAIN r : e = r[i]
    BY <1>9 DEF Range
  <2> QED BY <2>1, <2>2 DEF r, Results
<1> DEFINE c == open.asked[i]
<1>11. c \in Range(open.asked)
  BY <1>10 DEF Range
<1>12. c \in Calls /\ c[1] = t /\ c[2] = s
  BY <1>1, <1>11
<1> HIDE DEF c
<1>13. e = ToolNotStarted(c) /\ c \notin open.begun
  <2>1. ToolResult(c).type = "tool/result"
    BY <1>12, CallEventFacts
  <2> QED BY <1>10, <2>1 DEF Outcome, c
<1>14. ToolCall(c) \notin Range(p)
  <2> SUFFICES ASSUME ToolCall(c) \in Range(p)  PROVE FALSE
    OBVIOUS
  <2>1. CallsAgree(p)
    BY GoodFits DEF Fit
  <2>2. /\ ToolCall(c).type = "tool/call" /\ ToolCall(c).turn = t /\ ToolCall(c).step = s
        /\ ToolCall(c).calls = {c}
    BY <1>12, CallEventFacts
  <2>3. IsOpen(Trace(p), ToolCall(c).turn, ToolCall(c).step)
    BY <2>2 DEF IsOpen, t, s
  <2>4. {c} \subseteq open.begun
    BY <2>1, <2>2, <2>3 DEF CallsAgree
  <2> QED BY <1>13, <2>4
<1> QED BY <1>12, <1>13, <1>14

-----------------------------------------------------------------------------
(***************************************************************************)
(* The inductive invariant.                                                *)
(***************************************************************************)
\* Everything that is or will be in the log.
Whole == (log \o torn) \o repair

\* What is in the log now, with what was torn off and what the repair has drafted.
LogsAreGood ==
    /\ log \in Seq(Events) /\ torn \in Seq(Events) /\ repair \in Seq(Events)
    /\ Good(Whole, broken)

\* Only a closed session has a torn tail, only a repair has a draft.
ModesFit ==
    /\ mode = "live" => ~damaged /\ torn = <<>> /\ repair = <<>>
    /\ mode = "closed" => repair = <<>>
    /\ mode = "repairing" => ~damaged /\ torn = <<>> /\ Closers(log \o repair) = <<>>
    /\ mode # "live" => pc = "idle"

\* The driver is where its log has come to.
DriverFits ==
    /\ mode = "live" =>
          /\ inbox = Replayed(log) /\ turn = LastTurn(log)
          /\ pc = "idle" => At(log, 0, 0, Trace(log).nextStep, FALSE, <<>>, {})
          /\ pc = "claimed" => turn >= 1 /\ At(log, turn, 0, step + 1, FALSE, <<>>, {})
          /\ pc \in {"entered", "streaming"} =>
                turn >= 1 /\ step >= 1 /\ At(log, turn, step, step, FALSE, <<>>, {})
          /\ pc = "tools" => turn >= 1 /\ step >= 1 /\ At(log, turn, step, step, TRUE, calls, started)
    /\ calls \in Seq(Calls) /\ started \subseteq Range(calls) \cup settled
    /\ pc # "tools" => calls = <<>> /\ started = {}

\* The claimed messages wait nowhere, and then they are in the log.
BatchFits ==
    /\ pc = "claimed" => Range(batch) \subseteq KnownIn(log) \ Pending(inbox)
    /\ pc = "entered" => \A m \in Range(batch) : UserMessage(m) \in Range(SubSeq(log, 1, mark))

\* What a tool did or the model saw has its event in the durable part.
EffectsAreStored ==
    /\ \A c \in ran : ToolCall(c) \in Range(SubSeq(log, 1, stored))
    /\ \A m \in prompted : UserMessage(m) \in Range(SubSeq(log, 1, stored))

\* What the repair reports as not started is of a step that is over and has not run.
ReportsAreRight ==
    /\ \A e \in Range(Whole) : e.type = "tool/not-started" => \E c \in Calls \ ran : e = ToolNotStarted(c)
    /\ mode = "live" =>
          \A e \in Range(log) : e.type = "tool/not-started" => ~IsOpen(Trace(log), e.turn, e.step)

\* The inductive invariant.
IInv ==
    /\ TypeOK /\ LogsAreGood /\ ModesFit /\ DriverFits /\ BatchFits /\ EffectsAreStored /\ ReportsAreRight

-----------------------------------------------------------------------------
\* What the agent logs itself.
Told == {e \in Events : e.type # "tool/not-started"}

\* A step that is open now was open before, if it was named before.
LEMMA OldStepsStay ==
    ASSUME NEW p \in Seq(Events), NEW evs \in Seq(Events), NEW b, Good(p \o evs, b),
           NEW d \in Range(p), d.type \in Within, IsOpen(Trace(p \o evs), d.turn, d.step)
    PROVE  IsOpen(Trace(p), d.turn, d.step)
<1> DEFINE P(i) == IsOpen(Trace(p \o SubSeq(evs, 1, i)), d.turn, d.step) => IsOpen(Trace(p), d.turn, d.step)
           S == {i \in Nat : i <= Len(evs) => P(i)}
<1>1. Len(evs) \in Nat /\ SubSeq(evs, 1, 0) = <<>> /\ SubSeq(evs, 1, Len(evs)) = evs /\ p \o <<>> = p
  BY WholeFacts
<1>2. 0 \in S
  BY <1>1
<1>3. ASSUME NEW i \in Nat, i \in S  PROVE i + 1 \in S
  <2> SUFFICES ASSUME i + 1 <= Len(evs), IsOpen(Trace(p \o SubSeq(evs, 1, i + 1)), d.turn, d.step)
               PROVE  IsOpen(Trace(p), d.turn, d.step)
    OBVIOUS
  <2> DEFINE q == p \o SubSeq(evs, 1, i)
             e == evs[i + 1]
  <2>1. i <= Len(evs) /\ i \in 0..Len(evs) /\ i + 1 \in 0..Len(evs)
    BY <1>1
  <2>2. /\ SubSeq(evs, 1, i) \in Seq(Events) /\ e \in Events
        /\ SubSeq(evs, 1, i + 1) = Append(SubSeq(evs, 1, i), e)
    BY FrontFacts
  <2>3. p \o SubSeq(evs, 1, i + 1) = Append(q, e)
    BY <2>2, ConcatAppend
  <2>4. Good(q, b) /\ Good(Append(q, e), b)
    <3>1. Good(q, b) /\ Good(p \o SubSeq(evs, 1, i + 1), b)
      BY <2>1, GoodBefore
    <3> QED BY <2>3, <3>1
  <2>5. q \in Seq(Events) /\ d \in Range(q)
    <3> DEFINE f == SubSeq(evs, 1, i)
    <3>1. f \in Seq(Events)
      BY <2>2
    <3> HIDE DEF f
    <3>2. p \o f \in Seq(Events) /\ Range(p \o f) = Range(p) \cup Range(f)
      BY <3>1, ConcatFacts
    <3> QED BY <3>2 DEF f
  <2> HIDE DEF q, e
  <2>6. MayFollow(q, e, b)
    <3>1. /\ Len(Append(q, e)) = Len(q) + 1 /\ Len(q) \in Nat /\ Append(q, e)[Len(q) + 1] = e
          /\ SubSeq(Append(q, e), 1, Len(q)) = q /\ Append(q, e) \in Seq(Events)
      <4>1. SubSeq(q, 1, Len(q)) = q /\ Len(q) \in 0..Len(q)
        BY <2>5, WholeFacts
      <4> QED BY <2>2, <2>5, <4>1, AppendFacts
    <3>2. Len(q) + 1 \in DOMAIN Append(q, e) /\ (Len(q) + 1) - 1 = Len(q)
      BY <3>1
    <3>3. MayFollow(SubSeq(Append(q, e), 1, (Len(q) + 1) - 1), Append(q, e)[Len(q) + 1], b)
      BY <2>4, <3>2 DEF Good
    <3> QED BY <3>1, <3>2, <3>3
  <2>7. FoldsAgree(q) /\ EventsArePlaced(q)
    BY <2>4, GoodFits DEF Fit
  <2>8. /\ d.turn >= 1 /\ d.step >= 1 /\ d.turn \in Nat /\ d.step \in Nat
        /\ Over(Trace(q), d.turn, d.step) \/ IsOpen(Trace(q), d.turn, d.step)
    <3>1. d \in Events
      BY WholeFacts
    <3>2. /\ d.turn >= 1 /\ d.step >= 1
          /\ Over(Trace(q), d.turn, d.step) \/ IsOpen(Trace(q), d.turn, d.step)
      BY <2>5, <2>7 DEF EventsArePlaced
    <3> QED BY <3>1, <3>2, RecoveryBounds DEF Events
  <2>9. IsOpen(Trace(q), d.turn, d.step)
    <3> HIDE DEF P, S
    <3> DEFINE t == d.turn
               s == d.step
    <3>1. /\ q \in Seq(Events) /\ FoldsAgree(q) /\ t \in Nat /\ s \in Nat /\ t >= 1 /\ s >= 1
          /\ Over(Trace(q), t, s) \/ IsOpen(Trace(q), t, s)
      BY <2>5, <2>7, <2>8
    <3>2. IsOpen(Trace(Append(q, e)), t, s)
      BY <2>3
    <3> HIDE DEF t, s
    <3>3. /\ IsOpen(Trace(Append(q, e)), t, s) =>
                IsOpen(Trace(q), t, s) \/ (e.type = "step/start" /\ t = e.turn /\ s = e.step)
          /\ e.type = "step/start" /\ t = e.turn /\ s = e.step => ~Over(Trace(q), t, s)
      BY <2>6, <3>1, StepsMove
    <3>4. IsOpen(Trace(q), t, s)
      BY <3>1, <3>2, <3>3
    <3> QED BY <3>4 DEF t, s
  <2> QED BY <1>3, <2>1, <2>9 DEF q
<1>4. P(Len(evs))
  <2>1. Len(evs) \in S
    <3> HIDE DEF S
    <3> QED BY <1>1, <1>2, <1>3, SetInduction
  <2> QED BY <1>1, <2>1
<1> QED BY <1>1, <1>4

\* What holds of the log whenever the agent adds to it.
LEMMA LogGrows ==
    ASSUME IInv, mode = "live", NEW evs \in Seq(Told), log' = log \o evs,
           UNCHANGED <<store, ran, prompted>>, broken \subseteq broken', Good(log \o evs, broken')
    PROVE  /\ LogsAreGood' /\ EffectsAreStored' /\ ReportsAreRight'
           /\ Len(log) \in Nat /\ Len(log') \in Nat /\ Len(log') = Len(log) + Len(evs)
           /\ stored' \in 0..Len(log') /\ mark \in 0..Len(log')
           /\ \A n \in 0..Len(log) : SubSeq(log', 1, n) = SubSeq(log, 1, n)
<1>1. /\ mode' = mode /\ stored' = stored /\ torn' = torn /\ repair' = repair /\ ran' = ran
      /\ prompted' = prompted /\ log \in Seq(Events) /\ torn = <<>> /\ repair = <<>>
      /\ stored \in 0..Len(log) /\ mark \in 0..Len(log)
  BY DEF store, IInv, ModesFit, LogsAreGood, TypeOK
<1>2. evs \in Seq(Events)
  <2>1. Told \subseteq Events
    BY DEF Told
  <2>2. \A A, B : A \subseteq B => Seq(A) \subseteq Seq(B)
    OBVIOUS
  <2> QED BY <2>1, <2>2
<1>3. /\ log' \in Seq(Events) /\ Len(log') = Len(log) + Len(evs) /\ Range(log') = Range(log) \cup Range(evs)
      /\ SubSeq(log', 1, Len(log)) = log /\ Len(log) \in Nat /\ Len(evs) \in Nat
  BY <1>1, <1>2, ConcatFacts, WholeFacts
<1>4. Whole = log /\ Whole' = log'
  <2>1. Whole = log
    BY <1>1, WholeFacts DEF Whole
  <2>2. Whole' = (log' \o <<>>) \o <<>>
    BY <1>1 DEF Whole
  <2> QED BY <1>3, <2>1, <2>2, WholeFacts
<1>5. LogsAreGood'
  BY <1>1, <1>3, <1>4 DEF LogsAreGood
<1>6. \A n \in 0..Len(log) : SubSeq(log', 1, n) = SubSeq(log, 1, n)
  <2> DEFINE k == log
  <2>1. \A n \in 0..Len(k) : \A x \in Seq(Events) : Len(x) >= Len(k) =>
            SubSeq(SubSeq(x, 1, Len(k)), 1, n) = SubSeq(x, 1, n)
    <3> HIDE DEF k
    <3> SUFFICES ASSUME NEW x \in Seq(Events), NEW l \in Nat, l <= Len(x), NEW n \in 0..l
                 PROVE  SubSeq(SubSeq(x, 1, l), 1, n) = SubSeq(x, 1, n)
      BY <1>3 DEF k
    <3> DEFINE y == SubSeq(x, 1, l)
               u == SubSeq(y, 1, n)
               w == SubSeq(x, 1, n)
    <3>1. y \in Seq(Events) /\ Len(y) = l /\ \A i \in 1..l : y[i] = x[i]
      OBVIOUS
    <3>2. w \in Seq(Events) /\ Len(w) = n /\ \A i \in 1..n : w[i] = x[i]
      OBVIOUS
    <3> HIDE DEF y, w
    <3>3. u \in Seq(Events) /\ Len(u) = n /\ \A i \in 1..n : u[i] = y[i]
      BY <3>1
    <3> HIDE DEF u
    <3>4. Len(u) = Len(w) /\ \A i \in 1..Len(u) : u[i] = w[i]
      BY <3>1, <3>2, <3>3
    <3>5. u = w
      BY ONLY <3>2, <3>3, <3>4
    <3> QED BY <3>5 DEF u, w, y
  <2> QED BY <1>3, <2>1
<1>7. EffectsAreStored'
  <2>1. SubSeq(log', 1, stored') = SubSeq(log, 1, stored)
    BY <1>1, <1>6
  <2> QED BY <1>1, <2>1 DEF EffectsAreStored, IInv
<1>8. \A e \in Range(evs) : e.type # "tool/not-started"
  <2>1. Range(evs) \subseteq Told
    BY WholeFacts
  <2> QED BY <2>1 DEF Told
<1>9. ReportsAreRight'
  <2>1. \A e \in Range(Whole') : e.type = "tool/not-started" => \E c \in Calls \ ran' : e = ToolNotStarted(c)
    BY <1>1, <1>3, <1>4, <1>8 DEF ReportsAreRight, IInv
  <2>2. ASSUME NEW e \in Range(log'), e.type = "tool/not-started"
        PROVE  ~IsOpen(Trace(log'), e.turn, e.step)
    <3>1. e \in Range(log) /\ e.type \in Within
      BY <1>3, <1>8, <2>2 DEF Within
    <3>2. ~IsOpen(Trace(log), e.turn, e.step)
      BY <2>2, <3>1 DEF ReportsAreRight, IInv
    <3> QED BY <1>1, <1>2, <3>1, <3>2, OldStepsStay
  <2> QED BY <1>1, <2>1, <2>2 DEF ReportsAreRight
<1> QED BY <1>1, <1>3, <1>5, <1>6, <1>7, <1>9

-----------------------------------------------------------------------------
(***************************************************************************)
(* What the agent tells its log at once.                                   *)
(***************************************************************************)
Tells(p, evs, b, box, last) ==
    /\ evs \in Seq(Told) /\ Good(p \o evs, b)
    /\ Replayed(p \o evs) = box /\ LastTurn(p \o evs) = last /\ KnownIn(p) \subseteq KnownIn(p \o evs)

\* What is told one after the other is told.
LEMMA ToldFacts ==
    /\ \A evs \in Seq(Told) : evs \in Seq(Events)
    /\ \A e \in Events : e.type # "tool/not-started" => <<e>> \in Seq(Told)
    /\ \A x, y \in Seq(Told) : x \o y \in Seq(Told)
    /\ <<>> \in Seq(Told)
<1>1. Told \subseteq Events
  BY DEF Told
<1>2. \A A, B : A \subseteq B => \A x \in Seq(A) : x \in Seq(B)
  OBVIOUS
<1>3. \A e \in Told : <<e>> \in Seq(Told)
  OBVIOUS
<1>4. \A e \in Events : e.type # "tool/not-started" => e \in Told
  BY DEF Told
<1>5. <<>> \in Seq(Told)
  OBVIOUS
<1>6. \A x, y \in Seq(Told) : x \o y \in Seq(Told)
  OBVIOUS
<1>7. \A evs \in Seq(Told) : evs \in Seq(Events)
  BY <1>1, <1>2
<1> QED BY <1>3, <1>4, <1>5, <1>6, <1>7

\* One telling after another.
LEMMA TellsMore ==
    ASSUME NEW p \in Seq(Events), NEW b, NEW x, NEW y, NEW box1, NEW box2, NEW last1, NEW last2,
           Tells(p, x, b, box1, last1), Tells(p \o x, y, b, box2, last2)
    PROVE  Tells(p, x \o y, b, box2, last2) /\ p \o (x \o y) = (p \o x) \o y
<1>1. x \in Seq(Told) /\ y \in Seq(Told)
  BY DEF Tells
<1>2. x \in Seq(Events) /\ y \in Seq(Events) /\ x \o y \in Seq(Told)
  BY <1>1, ToldFacts
<1>3. p \o (x \o y) = (p \o x) \o y
  BY <1>2
<1> QED BY <1>2, <1>3 DEF Tells

\* Telling one event that may follow.
LEMMA TellsOne ==
    ASSUME NEW p, NEW b, NEW e, NEW box, NEW last, Good(p, b), MayFollow(p, e, b),
           e.type # "tool/not-started", Replayed(Append(p, e)) = box, LastTurn(Append(p, e)) = last,
           KnownIn(p) \subseteq KnownIn(Append(p, e))
    PROVE  Tells(p, <<e>>, b, box, last) /\ p \o <<e>> = Append(p, e)
<1>1. p \in Seq(Events) /\ e \in Events
  BY DEF Good, MayFollow
<1>2. Good(Append(p, e), b)
  BY GoodAppend
<1>3. p \o <<e>> = Append(p, e)
  BY <1>1
<1>4. <<e>> \in Seq(Told)
  BY <1>1, ToldFacts
<1> QED BY <1>2, <1>3, <1>4 DEF Tells

\* Telling nothing.
LEMMA TellsNone ==
    ASSUME NEW p, NEW b, Good(p, b)
    PROVE  Tells(p, <<>>, b, Replayed(p), LastTurn(p)) /\ p \o <<>> = p
<1>1. p \in Seq(Events)
  BY DEF Good
<1>2. p \o <<>> = p
  BY <1>1, WholeFacts
<1> QED BY <1>2, ToldFacts DEF Tells

-----------------------------------------------------------------------------
\* Telling the start of a turn.
LEMMA TellsTurnStart ==
    ASSUME NEW p, NEW b, Good(p, b), NEW n, At(p, 0, 0, n, FALSE, <<>>, {}), LastTurn(p) < MaxTurns
    PROVE  /\ Tells(p, <<TurnStart(LastTurn(p) + 1)>>, b, Replayed(p), LastTurn(p) + 1)
           /\ At(p \o <<TurnStart(LastTurn(p) + 1)>>, LastTurn(p) + 1, 0, 1, FALSE, <<>>, {})
<1> DEFINE e == TurnStart(LastTurn(p) + 1)
<1>1. /\ MayFollow(p, e, b) /\ At(Append(p, e), LastTurn(p) + 1, 0, 1, FALSE, <<>>, {})
      /\ Replayed(Append(p, e)) = Replayed(p) /\ LastTurn(Append(p, e)) = LastTurn(p) + 1
      /\ KnownIn(p) \subseteq KnownIn(Append(p, e))
  BY TurnStarts
<1>2. e.type # "tool/not-started"
  BY DEF TurnStart, Plain, Grammar!TurnStart, Grammar!Event
<1> HIDE DEF e
<1>3. Tells(p, <<e>>, b, Replayed(p), LastTurn(p) + 1) /\ p \o <<e>> = Append(p, e)
  BY <1>1, <1>2, TellsOne
<1> QED BY <1>1, <1>3 DEF e

\* Of an event that leaves the inbox alone.
LEMMA TellsKept ==
    ASSUME NEW p, NEW b, NEW e, Good(p, b), MayFollow(p, e, b), Kept(p, Append(p, e)),
           e.type # "tool/not-started"
    PROVE  Tells(p, <<e>>, b, Replayed(p), LastTurn(p)) /\ p \o <<e>> = Append(p, e)
BY TellsOne DEF Kept

\* Telling the start of a step.
LEMMA TellsStepStart ==
    ASSUME NEW p, NEW b, Good(p, b), NEW t \in 1..MaxTurns, NEW s \in 1..MaxSteps,
           At(p, t, 0, s, FALSE, <<>>, {})
    PROVE  /\ Tells(p, <<StepStart(t, s)>>, b, Replayed(p), LastTurn(p))
           /\ At(p \o <<StepStart(t, s)>>, t, s, s, FALSE, <<>>, {})
<1>1. StepStart(t, s).type # "tool/not-started"
  BY DEF StepStart, Plain, Grammar!StepStart, Grammar!Event
<1> QED BY <1>1, StepStarts, TellsKept

\* Telling a step's end.
LEMMA TellsStepEnd ==
    ASSUME NEW p, NEW b, Good(p, b), NEW t \in 1..MaxTurns, NEW s \in 1..MaxSteps,
           NEW answered, NEW asked, NEW begun, At(p, t, s, s, answered, asked, begun),
           asked = <<>> \/ <<t, s>> \in b
    PROVE  /\ Tells(p, <<StepEnd(t, s)>>, b, Replayed(p), LastTurn(p))
           /\ At(p \o <<StepEnd(t, s)>>, t, 0, s + 1, FALSE, <<>>, {})
<1>1. StepEnd(t, s).type # "tool/not-started"
  BY DEF StepEnd, Plain, Grammar!StepEnd, Grammar!Event
<1>2. /\ MayFollow(p, StepEnd(t, s), b) /\ Kept(p, Append(p, StepEnd(t, s)))
      /\ At(Append(p, StepEnd(t, s)), t, 0, s + 1, FALSE, <<>>, {})
  BY StepEnds
<1> QED BY <1>1, <1>2, TellsKept

\* Telling a turn's end.
LEMMA TellsTurnEnd ==
    ASSUME NEW p, NEW b, Good(p, b), NEW t \in 1..MaxTurns, NEW n, NEW why \in Reasons,
           At(p, t, 0, n, FALSE, <<>>, {})
    PROVE  /\ Tells(p, <<TurnEnd(t, why)>>, b, Replayed(p), LastTurn(p))
           /\ At(p \o <<TurnEnd(t, why)>>, 0, 0, n, FALSE, <<>>, {})
<1>1. TurnEnd(t, why).type # "tool/not-started"
  <2>1. t \in 0..MaxTurns
    BY RecoveryBounds
  <2> QED BY <2>1, TurnEndFacts
<1>2. /\ MayFollow(p, TurnEnd(t, why), b) /\ Kept(p, Append(p, TurnEnd(t, why)))
      /\ At(Append(p, TurnEnd(t, why)), 0, 0, n, FALSE, <<>>, {})
  BY TurnEnds
<1> QED BY <1>1, <1>2, TellsKept

\* Telling the model's answer.
LEMMA TellsAnswer ==
    ASSUME NEW p, NEW b, Good(p, b), NEW t \in 1..MaxTurns, NEW s \in 1..MaxSteps,
           At(p, t, s, s, FALSE, <<>>, {}), NEW asks \in Seq(Calls), IsInjective(asks),
           \A c \in Range(asks) : c[1] = t /\ c[2] = s
    PROVE  /\ Tells(p, <<Answer(t, s, asks)>>, b, Replayed(p), LastTurn(p))
           /\ At(p \o <<Answer(t, s, asks)>>, t, s, s, TRUE, asks, {})
<1>1. Answer(t, s, asks).type # "tool/not-started"
  <2>1. t \in 0..MaxTurns /\ s \in 0..MaxSteps
    BY RecoveryBounds
  <2> QED BY <2>1, AnswerFacts
<1>2. /\ MayFollow(p, Answer(t, s, asks), b) /\ Kept(p, Append(p, Answer(t, s, asks)))
      /\ At(Append(p, Answer(t, s, asks)), t, s, s, TRUE, asks, {})
  BY StepIsAnswered
<1> QED BY <1>1, <1>2, TellsKept

\* Telling a call.
LEMMA TellsCall ==
    ASSUME NEW p, NEW b, Good(p, b), NEW t, NEW s, NEW n, NEW asked, NEW begun,
           At(p, t, s, n, TRUE, asked, begun), NEW c \in Range(asked)
    PROVE  /\ Tells(p, <<ToolCall(c)>>, b, Replayed(p), LastTurn(p))
           /\ At(p \o <<ToolCall(c)>>, t, s, n, TRUE, asked, begun \cup {c})
           /\ c \in Calls /\ c[1] = t /\ c[2] = s
<1>1. ToolCall(c).type # "tool/not-started"
  BY DEF ToolCall, Plain, Grammar!ToolCall, Grammar!Event
<1>2. MayFollow(p, ToolCall(c), b) /\ Kept(p, Append(p, ToolCall(c)))
  BY CallStarts
<1>3. At(Append(p, ToolCall(c)), t, s, n, TRUE, asked, begun \cup {c})
  BY CallStarts
<1>4. c \in Calls /\ c[1] = t /\ c[2] = s
  <2>1. Opened(p).asked = asked /\ Trace(p).openTurn = t /\ Trace(p).openStep = s
    BY DEF At
  <2> QED BY <2>1, SomewhereAt
<1>5. Tells(p, <<ToolCall(c)>>, b, Replayed(p), LastTurn(p)) /\ p \o <<ToolCall(c)>> = Append(p, ToolCall(c))
  BY <1>1, <1>2, TellsKept
<1> QED BY <1>3, <1>4, <1>5

\* Telling the result of the first call that waits for one.
LEMMA TellsResult ==
    ASSUME NEW p, NEW b, Good(p, b), NEW t, NEW s, NEW n, NEW answered, NEW asked, NEW begun,
           At(p, t, s, n, answered, asked, begun), asked # <<>>, Head(asked) \in begun
    PROVE  /\ Tells(p, <<ToolResult(Head(asked))>>, b, Replayed(p), LastTurn(p))
           /\ At(p \o <<ToolResult(Head(asked))>>, t, s, n, TRUE, Tail(asked), begun)
           /\ asked \in Seq(Calls) /\ IsInjective(asked)
<1> DEFINE e == ToolResult(Head(asked))
<1>1. e.type # "tool/not-started"
  BY DEF ToolResult, Plain, Grammar!ToolResult, Grammar!Event
<1> HIDE DEF e
<1>2. /\ MayFollow(p, e, b) /\ Kept(p, Append(p, e))
      /\ At(Append(p, e), t, s, n, TRUE, Tail(asked), begun)
      /\ asked \in Seq(Calls) /\ IsInjective(asked)
  BY CallEnds DEF e
<1>3. Tells(p, <<e>>, b, Replayed(p), LastTurn(p)) /\ p \o <<e>> = Append(p, e)
  BY <1>1, <1>2, TellsKept
<1> QED BY <1>2, <1>3 DEF e

\* Telling a message that waits nowhere.
LEMMA TellsMessage ==
    ASSUME NEW p, NEW b, Good(p, b), NEW t, NEW s, NEW n, NEW answered, NEW asked, NEW begun,
           At(p, t, s, n, answered, asked, begun),
           NEW m \in Messages, m \in KnownIn(p), m \notin Pending(Replayed(p))
    PROVE  /\ Tells(p, <<UserMessage(m)>>, b, Replayed(p), LastTurn(p))
           /\ At(p \o <<UserMessage(m)>>, t, s, n, answered, asked, begun)
           /\ p \o <<UserMessage(m)>> = Append(p, UserMessage(m))
<1>1. UserMessage(m).type # "tool/not-started"
  BY UserMessageFacts
<1>2. /\ MayFollow(p, UserMessage(m), b) /\ Kept(p, Append(p, UserMessage(m)))
      /\ At(Append(p, UserMessage(m)), t, s, n, answered, asked, begun)
  BY MessageEnters
<1> QED BY <1>1, <1>2, TellsKept

\* Telling a splice of the inbox.
LEMMA TellsSplice ==
    ASSUME NEW p, NEW b, Good(p, b), NEW t, NEW s, NEW n, NEW answered, NEW asked, NEW begun,
           At(p, t, s, n, answered, asked, begun),
           NEW target \in Targets, NEW start \in Nat, NEW removed \in Nat,
           start + removed <= Len(Replayed(p)[target]),
           NEW inserted \in Seq(Messages), NEW canceled \in BOOLEAN,
           inserted = <<>> \/ \E m \in Messages \ KnownIn(p) : inserted = <<m>>,
           removed = 0 \/ canceled \/ t # 0
    PROVE  /\ Tells(p, <<Spliced(target, start, removed, inserted, canceled)>>, b,
                    Splice(Replayed(p), target, start, removed, inserted), LastTurn(p))
           /\ At(p \o <<Spliced(target, start, removed, inserted, canceled)>>, t, s, n, answered, asked, begun)
<1> DEFINE box == Splice(Replayed(p), target, start, removed, inserted)
<1>1. PICK e : e = Spliced(target, start, removed, inserted, canceled)
  OBVIOUS
<1>2. /\ MayFollow(p, e, b) /\ At(Append(p, e), t, s, n, answered, asked, begun)
      /\ Replayed(Append(p, e)) = box
      /\ LastTurn(Append(p, e)) = LastTurn(p) /\ KnownIn(p) \subseteq KnownIn(Append(p, e))
      /\ IsSplice(e)
  BY <1>1, InboxSpliced
<1> HIDE DEF box
<1>3. Tells(p, <<e>>, b, box, LastTurn(p)) /\ p \o <<e>> = Append(p, e)
  BY <1>2, TellsOne DEF IsSplice
<1> QED BY <1>1, <1>2, <1>3 DEF box

-----------------------------------------------------------------------------
(***************************************************************************)
(* Taking messages out of the inbox.                                       *)
(***************************************************************************)
LEMMA SpliceOfNothing ==
    ASSUME NEW box \in Inboxes, NEW target \in Targets
    PROVE  Splice(box, target, 0, 0, <<>>) = box
<1>1. box[target] \in Seq(Messages)
  BY DEF Inboxes
<1>2. SubSeq(box[target], 1, 0) = <<>> /\ SubSeq(box[target], 1, Len(box[target])) = box[target]
  BY <1>1, WholeFacts
<1>3. (<<>> \o <<>>) \o box[target] = box[target]
  BY <1>1
<1>4. Splice(box, target, 0, 0, <<>>) = [box EXCEPT ![target] = box[target]]
  <2>1. SubSeq(box[target], 0 + 0 + 1, Len(box[target])) = box[target]
    BY <1>2
  <2> QED BY <1>2, <1>3, <2>1 DEF Splice
<1> QED BY <1>4 DEF Inboxes

\* Taking messages from the front of a queue is told in one splice.
LEMMA TakesTell ==
    ASSUME NEW p, NEW b, Good(p, b), NEW t, NEW s, NEW n, NEW answered, NEW asked, NEW begun,
           At(p, t, s, n, answered, asked, begun),
           NEW target \in Targets, NEW count \in Nat, count <= Len(Replayed(p)[target]), NEW canceled \in BOOLEAN,
           canceled \/ t # 0
    PROVE  /\ Tells(p, Takes(target, count, canceled), b, Splice(Replayed(p), target, 0, count, <<>>), LastTurn(p))
           /\ At(p \o Takes(target, count, canceled), t, s, n, answered, asked, begun)
<1>1. CASE count = 0
  <2>1. Takes(target, count, canceled) = <<>>
    BY <1>1 DEF Takes
  <2>2. Replayed(p) \in Inboxes
    BY GoodFits DEF Fit, InboxFits
  <2>3. Splice(Replayed(p), target, 0, count, <<>>) = Replayed(p)
    BY <1>1, <2>2, SpliceOfNothing
  <2>4. Tells(p, <<>>, b, Replayed(p), LastTurn(p)) /\ p \o <<>> = p
    BY TellsNone
  <2> QED BY <2>1, <2>3, <2>4
<1>2. CASE count # 0
  <2>1. Takes(target, count, canceled) = <<Spliced(target, 0, count, <<>>, canceled)>>
    BY <1>2 DEF Takes
  <2>2. <<>> \in Seq(Messages) /\ 0 \in Nat /\ 0 + count = count
    OBVIOUS
  <2>3. /\ Tells(p, <<Spliced(target, 0, count, <<>>, canceled)>>, b,
                 Splice(Replayed(p), target, 0, count, <<>>), LastTurn(p))
        /\ At(p \o <<Spliced(target, 0, count, <<>>, canceled)>>, t, s, n, answered, asked, begun)
    BY <2>2, TellsSplice
  <2> QED BY <2>1, <2>3
<1> QED BY <1>1, <1>2

\* Both lists, each by one splice.
LEMMA BothTell ==
    ASSUME NEW p, NEW b, Good(p, b), NEW t, NEW s, NEW n, NEW answered, NEW asked, NEW begun,
           At(p, t, s, n, answered, asked, begun), NEW canceled \in BOOLEAN,
           NEW some \in Nat, some <= Len(Replayed(p)["next-step"]),
           NEW more \in Nat, more <= Len(Replayed(p)["next-turn"]), canceled \/ t # 0
    PROVE  /\ Tells(p, Takes("next-step", some, canceled) \o Takes("next-turn", more, canceled), b,
                    Splice(Splice(Replayed(p), "next-step", 0, some, <<>>), "next-turn", 0, more, <<>>),
                    LastTurn(p))
           /\ At(p \o (Takes("next-step", some, canceled) \o Takes("next-turn", more, canceled)),
                 t, s, n, answered, asked, begun)
<1> DEFINE x == Takes("next-step", some, canceled)
           y == Takes("next-turn", more, canceled)
           box == Splice(Replayed(p), "next-step", 0, some, <<>>)
<1>1. "next-step" \in Targets /\ "next-turn" \in Targets
  BY DEF Targets
<1>2. Tells(p, x, b, box, LastTurn(p)) /\ At(p \o x, t, s, n, answered, asked, begun)
  BY <1>1, TakesTell
<1>3. Replayed(p \o x) = box /\ Good(p \o x, b) /\ LastTurn(p \o x) = LastTurn(p)
  BY <1>2 DEF Tells
<1>4. box["next-turn"] = Replayed(p)["next-turn"]
  BY DEF Splice
<1>5. /\ Tells(p \o x, y, b, Splice(box, "next-turn", 0, more, <<>>), LastTurn(p))
      /\ At((p \o x) \o y, t, s, n, answered, asked, begun)
  <2> HIDE DEF x, box
  <2>1. /\ Tells(p \o x, y, b, Splice(Replayed(p \o x), "next-turn", 0, more, <<>>), LastTurn(p \o x))
        /\ At((p \o x) \o y, t, s, n, answered, asked, begun)
    BY <1>1, <1>2, <1>3, <1>4, TakesTell
  <2> QED BY <1>3, <2>1
<1>6. p \in Seq(Events)
  BY DEF Good
<1> HIDE DEF x, y, box
<1>7. Tells(p, x \o y, b, Splice(box, "next-turn", 0, more, <<>>), LastTurn(p)) /\ p \o (x \o y) = (p \o x) \o y
  BY <1>2, <1>5, <1>6, TellsMore
<1> QED BY <1>5, <1>7 DEF x, y, box

\* What a claim takes waits nowhere afterwards.
LEMMA ClaimFacts ==
    ASSUME NEW box \in Inboxes, Once(box), NEW target
    PROVE  /\ QueuedTurn(box, target) \in Nat /\ QueuedTurn(box, target) <= Len(box["next-turn"])
           /\ Claimed(box, target) \in Seq(Messages)
           /\ AfterClaim(box, target) \in Inboxes
           /\ Range(Claimed(box, target)) \subseteq Pending(box) \ Pending(AfterClaim(box, target))
<1> DEFINE S == box["next-step"]
           T == box["next-turn"]
           k == QueuedTurn(box, target)
           front == SubSeq(T, 1, k)
           rest == SubSeq(T, k + 1, Len(T))
<1>1. S \in Seq(Messages) /\ T \in Seq(Messages)
  BY DEF Inboxes, Targets
<1>2. k \in Nat /\ k <= Len(T) /\ Len(T) \in Nat /\ Len(S) \in Nat
  <2>1. Len(T) \in Nat /\ Len(S) \in Nat /\ (T # <<>> => Len(T) >= 1)
    BY <1>1
  <2> QED BY <2>1 DEF QueuedTurn
<1>3. front \in Seq(Messages) /\ rest \in Seq(Messages)
  BY <1>1, <1>2
<1>4. Range(front) \cap Range(rest) = {} /\ Range(front) \subseteq Range(T) /\ Range(rest) \subseteq Range(T)
  <2>1. IsInjective(T)
    BY DEF Once, Targets
  <2>2. /\ DOMAIN T = 1..Len(T) /\ DOMAIN front = 1..k /\ DOMAIN rest = 1..(Len(T) - k)
        /\ \A i \in 1..k : front[i] = T[i]
        /\ \A i \in 1..(Len(T) - k) : rest[i] = T[k + i]
    BY <1>1, <1>2
  <2> HIDE DEF front, rest, k, T
  <2>3. \A i \in 1..k : i \in DOMAIN T
    BY <1>2, <2>2
  <2>4. \A i \in 1..(Len(T) - k) : k + i \in DOMAIN T /\ k + i \notin 1..k
    BY <1>2, <2>2
  <2>5. \A i \in 1..k, j \in 1..(Len(T) - k) : front[i] # rest[j]
    <3> SUFFICES ASSUME NEW i \in 1..k, NEW j \in 1..(Len(T) - k), front[i] = rest[j]  PROVE FALSE
      OBVIOUS
    <3>1. T[i] = T[k + j] /\ i \in DOMAIN T /\ k + j \in DOMAIN T /\ k + j # i
      BY <2>2, <2>3, <2>4
    <3> QED BY <2>1, <3>1 DEF IsInjective
  <2> QED BY <2>2, <2>3, <2>4, <2>5 DEF Range
<1>5. SubSeq(S, 1, 0) = <<>> /\ SubSeq(S, 0 + Len(S) + 1, Len(S)) = <<>> /\ SubSeq(T, 1, 0) = <<>>
  BY <1>1
<1>6. AfterClaim(box, target) = [box EXCEPT !["next-step"] = <<>>, !["next-turn"] = rest]
  <2>1. Splice(box, "next-step", 0, Len(S), <<>>) = [box EXCEPT !["next-step"] = (<<>> \o <<>>) \o <<>>]
    BY <1>2, <1>5 DEF Splice
  <2>2. (<<>> \o <<>>) \o <<>> = <<>> /\ (<<>> \o <<>>) \o rest = rest /\ 0 + k + 1 = k + 1
    <3> HIDE DEF rest, k
    <3> QED BY <1>2, <1>3
  <2> DEFINE noSteps == [box EXCEPT !["next-step"] = <<>>]
  <2>3. Splice(box, "next-step", 0, Len(S), <<>>) = noSteps
    BY <2>1, <2>2
  <2>4. noSteps["next-turn"] = T
    OBVIOUS
  <2>5. AfterClaim(box, target) = Splice(noSteps, "next-turn", 0, k, <<>>)
    BY <2>3 DEF AfterClaim
  <2> HIDE DEF k
  <2>6. Splice(noSteps, "next-turn", 0, k, <<>>) =
            [noSteps EXCEPT !["next-turn"] = (<<>> \o <<>>) \o rest]
    <3>1. noSteps["next-turn"] = T /\ SubSeq(T, 1, 0) = <<>> /\ 0 + k + 1 = k + 1
      BY <1>5, <2>2, <2>4
    <3> HIDE DEF noSteps, T
    <3> QED BY <3>1 DEF Splice
  <2>7. AfterClaim(box, target) = [noSteps EXCEPT !["next-turn"] = rest]
    BY <2>2, <2>5, <2>6
  <2> QED BY <2>7
<1>7. Claimed(box, target) = S \o front
  BY DEF Claimed
<1>8. S \o front \in Seq(Messages) /\ Range(S \o front) = Range(S) \cup Range(front)
  <2> HIDE DEF S, front
  <2> QED BY <1>1, <1>3, ConcatFacts
<1>9. AfterClaim(box, target) \in Inboxes
  <2> HIDE DEF rest
  <2>1. <<>> \in Seq(Messages)
    OBVIOUS
  <2> QED BY <1>3, <1>6, <2>1 DEF Inboxes
<1>10. Pending(AfterClaim(box, target)) = Range(rest)
  <2> HIDE DEF rest
  <2>1. /\ AfterClaim(box, target)["next-turn"] = rest /\ AfterClaim(box, target)["next-step"] = <<>>
    BY <1>6 DEF Inboxes, Targets
  <2>2. Range(<<>>) = {}
    BY DEF Range
  <2> QED BY <2>1, <2>2 DEF Pending
<1>11. Range(S) \cap Range(T) = {} /\ Pending(box) = Range(T) \cup Range(S)
  BY DEF Once, Pending
<1> HIDE DEF S, T, front, rest
<1> QED BY <1>2, <1>4, <1>7, <1>8, <1>9, <1>10, <1>11 DEF S, T, front, rest

\* Taking everything leaves nothing.
LEMMA ClearFacts ==
    ASSUME NEW box \in Inboxes
    PROVE  Splice(Splice(box, "next-step", 0, Len(box["next-step"]), <<>>),
                  "next-turn", 0, Len(box["next-turn"]), <<>>) = EmptyInbox
<1> DEFINE S == box["next-step"]
           T == box["next-turn"]
           none == [box EXCEPT !["next-step"] = <<>>]
<1>1. S \in Seq(Messages) /\ T \in Seq(Messages)
  BY DEF Inboxes, Targets
<1>2. /\ SubSeq(S, 1, 0) = <<>> /\ SubSeq(S, 0 + Len(S) + 1, Len(S)) = <<>>
      /\ SubSeq(T, 1, 0) = <<>> /\ SubSeq(T, 0 + Len(T) + 1, Len(T)) = <<>>
      /\ (<<>> \o <<>>) \o <<>> = <<>>
  BY <1>1
<1>3. Splice(box, "next-step", 0, Len(S), <<>>) = none
  BY <1>2 DEF Splice
<1>4. none["next-turn"] = T
  OBVIOUS
<1>5. Splice(none, "next-turn", 0, Len(T), <<>>) = [none EXCEPT !["next-turn"] = <<>>]
  <2> HIDE DEF none, T
  <2> QED BY <1>2, <1>4 DEF Splice
<1>6. [none EXCEPT !["next-turn"] = <<>>] = EmptyInbox
  BY DEF EmptyInbox, Inboxes, Targets
<1> QED BY <1>3, <1>5, <1>6

-----------------------------------------------------------------------------
(***************************************************************************)
(* A batch enters a step.                                                  *)
(***************************************************************************)
Entered(list) == [i \in DOMAIN list |-> UserMessage(list[i])]

\* The claimed messages enter a step in the order they were claimed.
LEMMA BatchTells ==
    ASSUME NEW p, NEW b, Good(p, b), NEW t, NEW s, NEW n, NEW answered, NEW asked, NEW begun,
           At(p, t, s, n, answered, asked, begun),
           NEW list \in Seq(Messages), Range(list) \subseteq KnownIn(p) \ Pending(Replayed(p))
    PROVE  /\ Tells(p, Entered(list), b, Replayed(p), LastTurn(p))
           /\ At(p \o Entered(list), t, s, n, answered, asked, begun)
           /\ \A m \in Range(list) : UserMessage(m) \in Range(Entered(list))
<1> DEFINE evs == Entered(list)
           P(i) == /\ Tells(p, SubSeq(evs, 1, i), b, Replayed(p), LastTurn(p))
                   /\ At(p \o SubSeq(evs, 1, i), t, s, n, answered, asked, begun)
           S == {i \in Nat : i <= Len(evs) => P(i)}
<1>1. /\ Len(list) \in Nat /\ DOMAIN list = 1..Len(list)
      /\ \A i \in 1..Len(list) : list[i] \in Messages /\ list[i] \in Range(list)
  BY DEF Range
<1>2. \A i \in 1..Len(list) : UserMessage(list[i]) \in Events
  BY <1>1, UserMessageFacts
<1>3. evs \in Seq(Events) /\ Len(evs) = Len(list) /\ DOMAIN evs = 1..Len(list)
      /\ \A i \in 1..Len(list) : evs[i] = UserMessage(list[i])
  BY <1>1, <1>2 DEF Entered
<1> HIDE DEF evs
<1>4. SubSeq(evs, 1, 0) = <<>> /\ SubSeq(evs, 1, Len(evs)) = evs
  BY <1>3, WholeFacts
<1>5. 0 \in S
  <2>1. Tells(p, <<>>, b, Replayed(p), LastTurn(p)) /\ p \o <<>> = p
    BY TellsNone
  <2> QED BY <1>4, <2>1
<1>6. p \in Seq(Events)
  BY DEF Good
<1>7. ASSUME NEW i \in Nat, i \in S  PROVE i + 1 \in S
  <2> SUFFICES ASSUME i + 1 <= Len(evs)  PROVE P(i + 1)
    OBVIOUS
  <2> DEFINE f == SubSeq(evs, 1, i)
             q == p \o f
             m == list[i + 1]
  <2>1. i <= Len(evs) /\ i + 1 \in 1..Len(list)
    BY <1>1, <1>3
  <2>2. Tells(p, f, b, Replayed(p), LastTurn(p)) /\ At(q, t, s, n, answered, asked, begun)
    BY <1>7, <2>1
  <2>3. SubSeq(evs, 1, i + 1) = Append(f, UserMessage(m)) /\ f \in Seq(Events)
    <3>1. evs[i + 1] = UserMessage(m)
      BY <1>3, <2>1
    <3> QED BY <1>3, <3>1, FrontFacts
  <2> HIDE DEF f
  <2>4. Good(q, b) /\ Replayed(q) = Replayed(p) /\ LastTurn(q) = LastTurn(p) /\ KnownIn(p) \subseteq KnownIn(q)
    BY <2>2 DEF Tells
  <2>5. m \in Messages /\ m \in KnownIn(q) /\ m \notin Pending(Replayed(q))
    <3>1. m \in Messages /\ m \in Range(list)
      BY <1>1, <2>1
    <3> QED BY <2>4, <3>1
  <2> HIDE DEF q, m
  <2>6. /\ Tells(q, <<UserMessage(m)>>, b, Replayed(p), LastTurn(p))
        /\ At(q \o <<UserMessage(m)>>, t, s, n, answered, asked, begun)
    <3>1. /\ Tells(q, <<UserMessage(m)>>, b, Replayed(q), LastTurn(q))
          /\ At(q \o <<UserMessage(m)>>, t, s, n, answered, asked, begun)
      BY <2>2, <2>4, <2>5, TellsMessage
    <3> QED BY <2>4, <3>1
  <2>7. /\ Tells(p, f \o <<UserMessage(m)>>, b, Replayed(p), LastTurn(p))
        /\ p \o (f \o <<UserMessage(m)>>) = q \o <<UserMessage(m)>>
    <3>1. Tells(p \o f, <<UserMessage(m)>>, b, Replayed(p), LastTurn(p))
      BY <2>6 DEF q
    <3>2. /\ Tells(p, f \o <<UserMessage(m)>>, b, Replayed(p), LastTurn(p))
          /\ p \o (f \o <<UserMessage(m)>>) = (p \o f) \o <<UserMessage(m)>>
      BY <1>6, <2>2, <3>1, TellsMore
    <3> QED BY <3>2 DEF q
  <2>8. f \o <<UserMessage(m)>> = Append(f, UserMessage(m))
    <3>1. UserMessage(m) \in Events
      BY <2>5, UserMessageFacts
    <3> QED BY <2>3, <3>1
  <2> QED BY <2>3, <2>6, <2>7, <2>8
<1>8. P(Len(evs))
  <2>1. Len(evs) \in S
    <3> HIDE DEF S
    <3> QED BY <1>1, <1>3, <1>5, <1>7, SetInduction
  <2>2. Len(evs) <= Len(evs)
    BY <1>1, <1>3
  <2> QED BY <2>1, <2>2
<1>9. \A m \in Range(list) : UserMessage(m) \in Range(evs)
  BY <1>1, <1>3 DEF Range
<1> QED BY <1>4, <1>8, <1>9 DEF evs

-----------------------------------------------------------------------------
(***************************************************************************)
(* Callers: send, replace and cancel.                                      *)
(***************************************************************************)
\* An abort gives every call that did not start a call and a result.
LEMMA SkippedTells ==
    ASSUME NEW p, NEW b, Good(p, b), NEW t, NEW s, NEW n, NEW begun,
           At(p, t, s, n, TRUE, calls, begun), calls \in Seq(Calls)
    PROVE  /\ Tells(p, Skipped, b, Replayed(p), LastTurn(p))
           /\ \E more : At(p \o Skipped, t, s, n, TRUE, <<>>, more)
<1> DEFINE evs == Skipped
           left(i) == SubSeq(calls, i + 1, Len(calls))
           P(i) == /\ Tells(p, SubSeq(evs, 1, 2 * i), b, Replayed(p), LastTurn(p))
                   /\ \E more : At(p \o SubSeq(evs, 1, 2 * i), t, s, n, TRUE, left(i), more)
           S == {i \in Nat : i <= Len(calls) => P(i)}
<1>1. Len(calls) \in Nat /\ DOMAIN calls = 1..Len(calls) /\ \A i \in 1..Len(calls) : calls[i] \in Calls
  OBVIOUS
<1>2. \A c \in Calls : ToolCall(c) \in Events /\ ToolResult(c) \in Events
  BY CallEventFacts
<1>3. \A i \in 1..(2 * Len(calls)) : (i + 1) \div 2 \in 1..Len(calls)
  BY <1>1
<1>4. /\ evs \in Seq(Events) /\ Len(evs) = 2 * Len(calls)
      /\ \A i \in 1..(2 * Len(calls)) :
            evs[i] = IF i % 2 = 1 THEN ToolCall(calls[(i + 1) \div 2]) ELSE ToolResult(calls[(i + 1) \div 2])
  <2> DEFINE len == 2 * Len(calls)
  <2>1. len \in Nat
    BY <1>1
  <2>2. evs = [i \in 1..len |-> IF i % 2 = 1 THEN ToolCall(calls[(i + 1) \div 2])
                                ELSE ToolResult(calls[(i + 1) \div 2])]
    BY DEF Skipped
  <2>3. \A i \in 1..len : (IF i % 2 = 1 THEN ToolCall(calls[(i + 1) \div 2])
                           ELSE ToolResult(calls[(i + 1) \div 2])) \in Events
    BY <1>1, <1>2, <1>3
  <2> HIDE DEF len, evs
  <2>4. evs \in Seq(Events) /\ Len(evs) = len
    BY <2>1, <2>2, <2>3
  <2> QED BY <2>2, <2>4 DEF len
<1> HIDE DEF evs
<1>10. ASSUME NEW a \in Nat, a <= Len(calls)
       PROVE  /\ left(a) \in Seq(Calls) /\ Len(left(a)) = Len(calls) - a
              /\ \A j \in 1..(Len(calls) - a) : left(a)[j] = calls[a + j]
  <2>1. left(a) \in Seq(Calls)
    BY <1>1, <1>10, SMTT(60)
  <2>2. Len(left(a)) = Len(calls) - a
    <3> DEFINE m == a + 1
               l == Len(calls)
    <3>1. m \in Nat /\ 1 <= m /\ m <= l + 1 /\ l - m + 1 = l - a
      BY <1>1, <1>10
    <3> HIDE DEF m
    <3>2. Len(SubSeq(calls, m, l)) = l - m + 1
      BY <1>1, <3>1
    <3> QED BY <3>1, <3>2 DEF m
  <2>3. \A j \in 1..(Len(calls) - a) : left(a)[j] = calls[a + j]
    BY <1>1, <1>10
  <2> QED BY <2>1, <2>2, <2>3
<1>5. 0 \in S
  <2>1. Tells(p, <<>>, b, Replayed(p), LastTurn(p)) /\ p \o <<>> = p
    BY TellsNone
  <2>2. SubSeq(evs, 1, 2 * 0) = <<>> /\ left(0) = calls
    BY <1>1, <1>4, WholeFacts
  <2> QED BY <2>1, <2>2
<1>6. p \in Seq(Events)
  BY DEF Good
<1>7. ASSUME NEW i \in Nat, i \in S  PROVE i + 1 \in S
  <2> HIDE DEF P
  <2> SUFFICES ASSUME i + 1 <= Len(calls)  PROVE P(i + 1)
    OBVIOUS
  <2> USE DEF P
  <2> DEFINE f == SubSeq(evs, 1, 2 * i)
             q == p \o f
             c == calls[i + 1]
             asked == left(i)
  <2>1. /\ i <= Len(calls) /\ i + 1 \in 1..Len(calls) /\ 2 * i \in Nat
        /\ 2 * i + 1 \in 1..(2 * Len(calls)) /\ (2 * i + 1) + 1 \in 1..(2 * Len(calls))
        /\ (2 * i + 1) + 1 = 2 * (i + 1)
        /\ (2 * i + 1) % 2 = 1 /\ ((2 * i + 1) + 1) % 2 = 0
        /\ ((2 * i + 1) + 1) \div 2 = i + 1 /\ (((2 * i + 1) + 1) + 1) \div 2 = i + 1
    BY <1>1
  <2>2. Tells(p, f, b, Replayed(p), LastTurn(p))
    BY <1>7, <2>1
  <2>3. PICK more : At(q, t, s, n, TRUE, asked, more)
    BY <1>7, <2>1
  <2>4. evs[2 * i + 1] = ToolCall(c) /\ evs[(2 * i + 1) + 1] = ToolResult(c) /\ c \in Calls
    <3>1. /\ evs[2 * i + 1] = IF (2 * i + 1) % 2 = 1 THEN ToolCall(calls[((2 * i + 1) + 1) \div 2])
                             ELSE ToolResult(calls[((2 * i + 1) + 1) \div 2])
          /\ evs[(2 * i + 1) + 1] =
                IF ((2 * i + 1) + 1) % 2 = 1 THEN ToolCall(calls[(((2 * i + 1) + 1) + 1) \div 2])
                ELSE ToolResult(calls[(((2 * i + 1) + 1) + 1) \div 2])
      BY <1>4, <2>1
    <3>2. c \in Calls
      BY <1>1, <2>1
    <3>3. ((2 * i + 1) + 1) % 2 # 1
      BY <2>1
    <3> QED BY <2>1, <3>1, <3>2, <3>3
  <2>5. ToolCall(c) \in Events /\ ToolResult(c) \in Events
    BY <1>2, <2>4
  <2>6. /\ f \in Seq(Events) /\ SubSeq(evs, 1, 2 * i + 1) = Append(f, ToolCall(c))
        /\ SubSeq(evs, 1, (2 * i + 1) + 1) = Append(SubSeq(evs, 1, 2 * i + 1), ToolResult(c))
    <3>1. 2 * i + 1 <= Len(evs) /\ (2 * i + 1) + 1 <= Len(evs) /\ 2 * i + 1 \in Nat
      BY <1>1, <1>4, <2>1
    <3>2. f \in Seq(Events) /\ SubSeq(evs, 1, 2 * i + 1) = Append(f, evs[2 * i + 1])
      BY <1>4, <2>1, <3>1, FrontFacts
    <3>3. SubSeq(evs, 1, (2 * i + 1) + 1) = Append(SubSeq(evs, 1, 2 * i + 1), evs[(2 * i + 1) + 1])
      BY <1>4, <3>1, FrontFacts
    <3> QED BY <2>4, <3>2, <3>3
  <2>7. SubSeq(evs, 1, 2 * (i + 1)) = (f \o <<ToolCall(c)>>) \o <<ToolResult(c)>>
    <3> HIDE DEF f
    <3>1. Append(Append(f, ToolCall(c)), ToolResult(c)) = (f \o <<ToolCall(c)>>) \o <<ToolResult(c)>>
      BY <2>5, <2>6
    <3> QED BY <2>1, <2>6, <3>1
  <2>8. asked \in Seq(Calls) /\ asked # <<>> /\ Head(asked) = c /\ c \in Range(asked) /\ Tail(asked) = left(i + 1)
    <3>1. asked \in Seq(Calls) /\ Len(asked) = Len(calls) - i /\ Len(calls) - i >= 1
      BY <1>1, <2>1
    <3>5. \A j \in 1..(Len(calls) - i) : asked[j] = calls[i + j]
      BY <1>10, <2>1
    <3>2. asked[1] = c /\ asked # <<>> /\ Head(asked) = c
      <4> HIDE DEF asked
      <4>1. asked[1] = calls[i + 1]
        BY <1>1, <2>1, <3>1, <3>5
      <4> QED BY <3>1, <4>1
    <3>3. Tail(asked) = left(i + 1)
      <4> DEFINE x == Tail(asked)
                 y == left(i + 1)
                 k == (Len(calls) - i) - 1
      <4>1. \A j \in 1..(Len(calls) - i) : asked[j] = calls[i + j]
        BY <3>5
      <4>2. y \in Seq(Calls) /\ Len(y) = k /\ \A j \in 1..k : y[j] = calls[i + 1 + j]
        <5>1. i + 1 \in Nat /\ i + 1 <= Len(calls) /\ Len(calls) - (i + 1) = k
          BY <1>1, <2>1
        <5> HIDE DEF k, left
        <5>2. /\ left(i + 1) \in Seq(Calls) /\ Len(left(i + 1)) = Len(calls) - (i + 1)
              /\ \A j \in 1..(Len(calls) - (i + 1)) : left(i + 1)[j] = calls[(i + 1) + j]
          BY <1>10, <5>1
        <5> QED BY <5>1, <5>2
      <4> HIDE DEF asked, y
      <4>3. x \in Seq(Calls) /\ Len(x) = k /\ \A j \in 1..k : x[j] = asked[j + 1]
        BY <3>1, <3>2
      <4>4. \A j \in 1..k : x[j] = y[j]
        BY <1>1, <2>1, <4>1, <4>2, <4>3
      <4> HIDE DEF x
      <4>5. Len(x) = Len(y) /\ \A j \in 1..Len(x) : x[j] = y[j]
        BY <4>2, <4>3, <4>4
      <4>6. x = y
        BY ONLY <4>2, <4>3, <4>5
      <4> QED BY <4>6 DEF x, y
    <3>4. c \in Range(asked)
      <4>1. 1 \in DOMAIN asked
        BY <3>1
      <4> HIDE DEF asked
      <4> QED BY <3>2, <4>1 DEF Range
    <3> QED BY <3>1, <3>2, <3>3, <3>4
  <2>9. Good(q, b) /\ Replayed(q) = Replayed(p) /\ LastTurn(q) = LastTurn(p)
    BY <2>2 DEF Tells
  <2>10. PICK g : g = q \o <<ToolCall(c)>>
    OBVIOUS
  <2>11. Tells(q, <<ToolCall(c)>>, b, Replayed(p), LastTurn(p)) /\ At(g, t, s, n, TRUE, asked, more \cup {c})
    <3> HIDE DEF q, c, left
    <3>1. /\ Tells(q, <<ToolCall(c)>>, b, Replayed(q), LastTurn(q))
          /\ At(q \o <<ToolCall(c)>>, t, s, n, TRUE, asked, more \cup {c})
      BY <2>3, <2>8, <2>9, TellsCall
    <3> QED BY <2>9, <2>10, <3>1
  <2>12. Good(g, b) /\ Replayed(g) = Replayed(p) /\ LastTurn(g) = LastTurn(p)
    BY <2>10, <2>11 DEF Tells
  <2>13. /\ Tells(g, <<ToolResult(c)>>, b, Replayed(p), LastTurn(p))
         /\ At(g \o <<ToolResult(c)>>, t, s, n, TRUE, Tail(asked), more \cup {c})
    <3> HIDE DEF q, left, c
    <3>1. Head(asked) \in more \cup {c}
      BY <2>8
    <3>2. /\ Tells(g, <<ToolResult(Head(asked))>>, b, Replayed(g), LastTurn(g))
          /\ At(g \o <<ToolResult(Head(asked))>>, t, s, n, TRUE, Tail(asked), more \cup {c})
      BY <2>8, <2>11, <2>12, <3>1, TellsResult
    <3> QED BY <2>8, <2>12, <3>2
  <2> HIDE DEF f, c, left
  <2>14. Tells(p, f \o <<ToolCall(c)>>, b, Replayed(p), LastTurn(p)) /\ p \o (f \o <<ToolCall(c)>>) = g
    BY <1>6, <2>2, <2>10, <2>11, TellsMore
  <2>15. /\ Tells(p, (f \o <<ToolCall(c)>>) \o <<ToolResult(c)>>, b, Replayed(p), LastTurn(p))
         /\ p \o ((f \o <<ToolCall(c)>>) \o <<ToolResult(c)>>) = g \o <<ToolResult(c)>>
    <3> DEFINE x == f \o <<ToolCall(c)>>
    <3>1. Tells(p, x, b, Replayed(p), LastTurn(p)) /\ p \o x = g
      BY <2>14
    <3> HIDE DEF x
    <3>2. Tells(p \o x, <<ToolResult(c)>>, b, Replayed(p), LastTurn(p))
      BY <2>13, <3>1
    <3>3. /\ Tells(p, x \o <<ToolResult(c)>>, b, Replayed(p), LastTurn(p))
          /\ p \o (x \o <<ToolResult(c)>>) = (p \o x) \o <<ToolResult(c)>>
      <4>1. Tells(p, x, b, Replayed(p), LastTurn(p))
        BY <3>1
      <4> QED BY <1>6, <3>2, <4>1, TellsMore
    <3> QED BY <3>1, <3>3 DEF x
  <2> QED BY <2>7, <2>8, <2>13, <2>15
<1>8. P(Len(calls))
  <2>1. Len(calls) \in S
    <3> HIDE DEF S
    <3> QED BY <1>1, <1>5, <1>7, SetInduction
  <2>2. Len(calls) <= Len(calls)
    BY <1>1
  <2> QED BY <2>1, <2>2
<1>9. left(Len(calls)) = <<>> /\ SubSeq(evs, 1, 2 * Len(calls)) = evs
  BY <1>1, <1>4, WholeFacts
<1> QED BY <1>8, <1>9 DEF evs

-----------------------------------------------------------------------------
\* What the invariant says of a session that is open.
LEMMA LiveFacts ==
    ASSUME IInv, mode = "live"
    PROVE  /\ Good(log, broken) /\ log \in Seq(Events) /\ Whole = log
           /\ inbox = Replayed(log) /\ turn = LastTurn(log)
           /\ inbox \in Inboxes /\ Once(inbox) /\ Pending(inbox) \subseteq KnownIn(log)
           /\ calls \in Seq(Calls) /\ IsInjective(calls)
           /\ turn \in 0..MaxTurns /\ step \in 0..MaxSteps
           /\ batch \in Seq(Messages) /\ aborted \in BOOLEAN /\ settled \subseteq started
           /\ settled \subseteq Calls /\ started \subseteq Calls
<1>1. log \in Seq(Events) /\ torn = <<>> /\ repair = <<>> /\ Good(Whole, broken)
  BY DEF IInv, LogsAreGood, ModesFit
<1>2. Whole = log
  <2>1. (log \o <<>>) \o <<>> = log
    BY <1>1, WholeFacts
  <2> QED BY <1>1, <2>1 DEF Whole
<1>3. inbox = Replayed(log) /\ turn = LastTurn(log) /\ calls \in Seq(Calls)
  BY DEF IInv, DriverFits
<1>4. Fit(log, broken)
  BY <1>1, <1>2, GoodFits
<1>5. inbox \in Inboxes /\ Once(inbox) /\ Pending(inbox) \subseteq KnownIn(log)
  BY <1>3, <1>4 DEF Fit, InboxFits
<1>6. IsInjective(calls)
  <2>1. CASE pc = "tools"
    <3>1. Opened(log).asked = calls
      BY <2>1 DEF IInv, DriverFits, At
    <3> QED BY <1>1, <1>2, <3>1, SomewhereAt
  <2>2. CASE pc # "tools"
    BY <2>2 DEF IInv, DriverFits, IsInjective
  <2> QED BY <2>1, <2>2
<1>7. /\ turn \in 0..MaxTurns /\ step \in 0..MaxSteps
      /\ batch \in Seq(Messages) /\ aborted \in BOOLEAN /\ settled \subseteq started /\ started \subseteq Calls
  BY DEF IInv, TypeOK
<1> QED BY <1>1, <1>2, <1>3, <1>5, <1>6, <1>7

\* What a log tells leaves the log in its place.
LEMMA TellsLog ==
    ASSUME NEW p, NEW evs, NEW b, NEW box, NEW last, Tells(p, evs, b, box, last)
    PROVE  /\ box \in Inboxes /\ last \in 0..MaxTurns /\ evs \in Seq(Told) /\ Good(p \o evs, b)
           /\ Replayed(p \o evs) = box /\ LastTurn(p \o evs) = last
           /\ KnownIn(p) \subseteq KnownIn(p \o evs) /\ Pending(box) \subseteq KnownIn(p \o evs)
<1>1. /\ evs \in Seq(Told) /\ Good(p \o evs, b) /\ Replayed(p \o evs) = box
      /\ LastTurn(p \o evs) = last /\ KnownIn(p) \subseteq KnownIn(p \o evs)
  BY DEF Tells
<1>2. Fit(p \o evs, b)
  BY <1>1, GoodFits
<1>3. box \in Inboxes /\ Pending(box) \subseteq KnownIn(p \o evs)
  BY <1>1, <1>2 DEF Fit, InboxFits
<1>4. last \in 0..MaxTurns
  <2> DEFINE q == p \o evs
  <2>1. /\ Trace(q).openTurn \in 0..MaxTurns /\ Trace(q).nextTurn \in 1..(MaxTurns + 1)
        /\ LastTurn(q) = IF Trace(q).openTurn = 0 THEN Trace(q).nextTurn - 1 ELSE Trace(q).openTurn
    BY <1>1, SomewhereAt
  <2> HIDE DEF q
  <2>2. LastTurn(q) \in 0..MaxTurns
    BY <2>1, RecoveryBounds
  <2> QED BY <1>1, <2>2 DEF q
<1> QED BY <1>1, <1>3, <1>4

-----------------------------------------------------------------------------
(***************************************************************************)
(* The agent's callers.                                                    *)
(***************************************************************************)
LEMMA CallersKeep ==
    ASSUME IInv, mode = "live", NEW evs, Tells(log, evs, broken, inbox', turn), log' = log \o evs,
           At(log \o evs, Trace(log).openTurn, Trace(log).openStep, Trace(log).nextStep, HasAnswer(log),
              Opened(log).asked, Opened(log).begun),
           UNCHANGED <<store, turn, step, pc, batch, mark, tools, history>>, aborted' \in BOOLEAN,
           Pending(inbox') \cap KnownIn(log) \subseteq Pending(inbox)
    PROVE  IInv'
<1>1. /\ Good(log, broken) /\ log \in Seq(Events) /\ inbox = Replayed(log) /\ turn = LastTurn(log)
  BY LiveFacts
<1>2. /\ inbox' \in Inboxes /\ evs \in Seq(Told) /\ Good(log \o evs, broken)
      /\ Replayed(log') = inbox' /\ LastTurn(log') = turn /\ KnownIn(log) \subseteq KnownIn(log')
  BY TellsLog
<1>3. /\ mode' = mode /\ stored' = stored /\ damaged' = damaged /\ torn' = torn /\ repair' = repair
      /\ turn' = turn /\ step' = step /\ pc' = pc /\ batch' = batch /\ mark' = mark /\ calls' = calls
      /\ started' = started /\ settled' = settled /\ prompted' = prompted /\ ran' = ran /\ broken' = broken
      /\ crashes' = crashes
  BY DEF store, tools, history
<1>4. /\ LogsAreGood' /\ EffectsAreStored' /\ ReportsAreRight'
      /\ Len(log) \in Nat /\ stored' \in 0..Len(log') /\ mark \in 0..Len(log')
      /\ \A n \in 0..Len(log) : SubSeq(log', 1, n) = SubSeq(log, 1, n)
  BY <1>2, <1>3, LogGrows
<1>5. TypeOK'
  BY <1>2, <1>3, <1>4 DEF IInv, TypeOK
<1>6. ModesFit'
  BY <1>3 DEF IInv, ModesFit
<1>7. \A t, s, n, answered, asked, begun :
          At(log, t, s, n, answered, asked, begun) => At(log', t, s, n, answered, asked, begun)
  BY DEF At
<1>8. DriverFits'
  <2>1. Trace(log').nextStep = Trace(log).nextStep
    BY DEF At
  <2> QED BY <1>2, <1>3, <1>7, <2>1 DEF IInv, DriverFits
<1>9. BatchFits'
  <2>1. pc = "claimed" => Range(batch) \subseteq KnownIn(log') \ Pending(inbox')
    BY <1>2 DEF IInv, BatchFits
  <2>2. SubSeq(log', 1, mark) = SubSeq(log, 1, mark)
    <3>1. mark \in 0..Len(log)
      BY DEF IInv, TypeOK
    <3> QED BY <1>4, <3>1
  <2> QED BY <1>3, <2>1, <2>2 DEF IInv, BatchFits
<1> QED BY <1>4, <1>5, <1>6, <1>8, <1>9 DEF IInv

\* A caller's send keeps the invariant.
LEMMA SendKeeps ==
    ASSUME IInv, NEW m \in Messages, NEW target \in Targets, Send(m, target)
    PROVE  IInv'
<1>1. /\ mode = "live" /\ m \notin Known /\ inbox' = Add(inbox, target, m)
      /\ log' = log \o <<Spliced(target, Len(inbox[target]), 0, <<m>>, FALSE)>>
      /\ UNCHANGED <<store, turn, step, pc, batch, aborted, mark, tools, history>>
  BY DEF Send, Logs
<1>2. /\ Good(log, broken) /\ log \in Seq(Events) /\ inbox = Replayed(log) /\ turn = LastTurn(log)
      /\ inbox \in Inboxes /\ Once(inbox) /\ aborted \in BOOLEAN /\ Pending(inbox) \subseteq KnownIn(log)
  BY <1>1, LiveFacts
<1>3. m \notin KnownIn(log)
  BY <1>1 DEF Known, KnownIn
<1>4. /\ Len(inbox[target]) \in Nat /\ Len(inbox[target]) + 0 <= Len(inbox[target])
      /\ <<m>> \in Seq(Messages) /\ 0 \in Nat /\ Len(<<m>>) <= 1 /\ Range(<<m>>) = {m}
  <2>1. inbox[target] \in Seq(Messages)
    BY <1>2 DEF Inboxes
  <2>2. Range(<<m>>) = {m}
    BY DEF Range
  <2> QED BY <2>1, <2>2
<1>5. inbox' = Splice(inbox, target, Len(inbox[target]), 0, <<m>>)
  BY <1>1 DEF Add
<1> DEFINE evs == <<Spliced(target, Len(inbox[target]), 0, <<m>>, FALSE)>>
<1>6. /\ Tells(log, evs, broken, inbox', turn)
      /\ At(log \o evs, Trace(log).openTurn, Trace(log).openStep, Trace(log).nextStep, HasAnswer(log),
            Opened(log).asked, Opened(log).begun)
  <2>1. At(log, Trace(log).openTurn, Trace(log).openStep, Trace(log).nextStep, HasAnswer(log),
           Opened(log).asked, Opened(log).begun)
    BY <1>2, SomewhereAt
  <2> QED BY <1>2, <1>3, <1>4, <1>5, <2>1, TellsSplice
<1>7. Pending(inbox') \cap KnownIn(log) \subseteq Pending(inbox)
  <2>1. Pending(inbox') \subseteq Pending(inbox) \cup {m}
    <3>1. Range(<<m>>) \cap Pending(inbox) = {}
      BY <1>2, <1>3, <1>4
    <3>2. Pending(inbox') \subseteq Pending(inbox) \cup Range(<<m>>)
      BY <1>2, <1>4, <1>5, <3>1, SpliceFacts
    <3> QED BY <1>4, <3>2
  <2> QED BY <1>3, <2>1
<1> HIDE DEF evs
<1>8. log' = log \o evs
  BY <1>1 DEF evs
<1> QED BY <1>1, <1>2, <1>6, <1>7, <1>8, CallersKeep

\* A caller's replace keeps the invariant.
LEMMA ReplaceKeeps ==
    ASSUME IInv, NEW m \in Messages, NEW target \in Targets, NEW i \in DOMAIN inbox[target], Replace(target, i, m)
    PROVE  IInv'
<1>1. /\ mode = "live" /\ m \notin Known /\ inbox' = ReplaceAtIndex(inbox, target, i, m)
      /\ log' = log \o <<Spliced(target, i - 1, 1, <<m>>, TRUE)>>
      /\ UNCHANGED <<store, turn, step, pc, batch, aborted, mark, tools, history>>
  BY DEF Replace, Logs
<1>2. /\ Good(log, broken) /\ log \in Seq(Events) /\ inbox = Replayed(log) /\ turn = LastTurn(log)
      /\ inbox \in Inboxes /\ Once(inbox) /\ aborted \in BOOLEAN /\ Pending(inbox) \subseteq KnownIn(log)
  BY <1>1, LiveFacts
<1>3. m \notin KnownIn(log)
  BY <1>1 DEF Known, KnownIn
<1>4. /\ i - 1 \in Nat /\ (i - 1) + 1 <= Len(inbox[target])
      /\ <<m>> \in Seq(Messages) /\ 1 \in Nat /\ Len(<<m>>) <= 1 /\ Range(<<m>>) = {m}
  <2>1. inbox[target] \in Seq(Messages)
    BY <1>2 DEF Inboxes
  <2>2. Range(<<m>>) = {m}
    BY DEF Range
  <2> QED BY <2>1, <2>2
<1>5. inbox' = Splice(inbox, target, i - 1, 1, <<m>>)
  BY <1>1 DEF ReplaceAtIndex
<1> DEFINE evs == <<Spliced(target, i - 1, 1, <<m>>, TRUE)>>
<1>6. /\ Tells(log, evs, broken, inbox', turn)
      /\ At(log \o evs, Trace(log).openTurn, Trace(log).openStep, Trace(log).nextStep, HasAnswer(log),
            Opened(log).asked, Opened(log).begun)
  <2>1. At(log, Trace(log).openTurn, Trace(log).openStep, Trace(log).nextStep, HasAnswer(log),
           Opened(log).asked, Opened(log).begun)
    BY <1>2, SomewhereAt
  <2> QED BY <1>2, <1>3, <1>4, <1>5, <2>1, TellsSplice
<1>7. Pending(inbox') \cap KnownIn(log) \subseteq Pending(inbox)
  <2>1. Pending(inbox') \subseteq Pending(inbox) \cup {m}
    <3>1. Range(<<m>>) \cap Pending(inbox) = {}
      BY <1>2, <1>3, <1>4
    <3>2. Pending(inbox') \subseteq Pending(inbox) \cup Range(<<m>>)
      BY <1>2, <1>4, <1>5, <3>1, SpliceFacts
    <3> QED BY <1>4, <3>2
  <2> QED BY <1>3, <2>1
<1> HIDE DEF evs
<1>8. log' = log \o evs
  BY <1>1 DEF evs
<1> QED BY <1>1, <1>2, <1>6, <1>7, <1>8, CallersKeep

\* A caller's cancel keeps the invariant.
LEMMA CancelKeeps ==
    ASSUME IInv, NEW keepInbox, Cancel(keepInbox)
    PROVE  IInv'
<1>1. /\ mode = "live" /\ aborted' = (pc # "idle")
      /\ UNCHANGED <<store, turn, step, pc, batch, mark, tools, history>>
  BY DEF Cancel
<1>2. /\ Good(log, broken) /\ log \in Seq(Events) /\ inbox = Replayed(log) /\ turn = LastTurn(log)
      /\ inbox \in Inboxes
  BY <1>1, LiveFacts
<1>3. At(log, Trace(log).openTurn, Trace(log).openStep, Trace(log).nextStep, HasAnswer(log),
         Opened(log).asked, Opened(log).begun)
  BY <1>2, SomewhereAt
<1>4. aborted' \in BOOLEAN
  BY <1>1
<1>5. CASE keepInbox
  <2>1. inbox' = inbox /\ log' = log
    BY <1>5 DEF Cancel
  <2>2. Tells(log, <<>>, broken, inbox', turn) /\ log \o <<>> = log
    BY <1>2, <2>1, TellsNone
  <2>3. Pending(inbox') \cap KnownIn(log) \subseteq Pending(inbox)
    BY <2>1
  <2>4. At(log \o <<>>, Trace(log).openTurn, Trace(log).openStep, Trace(log).nextStep, HasAnswer(log),
           Opened(log).asked, Opened(log).begun)
    BY <1>3, <2>2
  <2>5. log' = log \o <<>>
    BY <2>1, <2>2
  <2> QED BY <1>1, <1>4, <2>2, <2>3, <2>4, <2>5, CallersKeep
<1>6. CASE ~keepInbox
  <2> DEFINE evs == Takes("next-step", Len(inbox["next-step"]), TRUE) \o Takes("next-turn", Len(inbox["next-turn"]), TRUE)
  <2>1. inbox' = EmptyInbox /\ log' = log \o evs
    BY <1>6 DEF Cancel, Logs
  <2>2. Len(inbox["next-step"]) \in Nat /\ Len(inbox["next-turn"]) \in Nat
    <3>1. inbox["next-step"] \in Seq(Messages) /\ inbox["next-turn"] \in Seq(Messages)
      BY <1>2 DEF Inboxes, Targets
    <3> QED BY <3>1
  <2>3. /\ Tells(log, evs, broken, inbox', turn)
        /\ At(log \o evs, Trace(log).openTurn, Trace(log).openStep, Trace(log).nextStep, HasAnswer(log),
              Opened(log).asked, Opened(log).begun)
    <3>1. Splice(Splice(inbox, "next-step", 0, Len(inbox["next-step"]), <<>>),
                 "next-turn", 0, Len(inbox["next-turn"]), <<>>) = inbox'
      BY <1>2, <2>1, ClearFacts
    <3>2. Len(inbox["next-step"]) <= Len(inbox["next-step"]) /\ Len(inbox["next-turn"]) <= Len(inbox["next-turn"])
      BY <2>2
    <3> QED BY <1>2, <1>3, <2>2, <3>1, <3>2, BothTell
  <2>4. Pending(inbox') = {}
    BY <2>1 DEF Pending, EmptyInbox, Targets, Range
  <2> HIDE DEF evs
  <2> QED BY <1>1, <1>4, <2>1, <2>3, <2>4, CallersKeep
<1> QED BY <1>5, <1>6

-----------------------------------------------------------------------------
(***************************************************************************)
(* The driver.                                                             *)
(***************************************************************************)
-----------------------------------------------------------------------------
(***************************************************************************)
(* The driver.                                                             *)
(***************************************************************************)
\* The driver's part of DriverFits.
DriverAt ==
    /\ pc = "idle" => At(log, 0, 0, Trace(log).nextStep, FALSE, <<>>, {})
    /\ pc = "claimed" => turn >= 1 /\ At(log, turn, 0, step + 1, FALSE, <<>>, {})
    /\ pc \in {"entered", "streaming"} =>
          turn >= 1 /\ step >= 1 /\ At(log, turn, step, step, FALSE, <<>>, {})
    /\ pc = "tools" => turn >= 1 /\ step >= 1 /\ At(log, turn, step, step, TRUE, calls, started)
    /\ calls \in Seq(Calls) /\ started \subseteq Range(calls) \cup settled
    /\ pc # "tools" => calls = <<>> /\ started = {}

\* While the session is live the driver is where its log has come to.
LEMMA DriverIsAt ==
    ASSUME IInv, mode = "live"
    PROVE  DriverAt
BY DEF IInv, DriverFits, DriverAt

\* A move of the driver.
LEMMA DriverKeeps ==
    ASSUME IInv, mode = "live", NEW evs, Tells(log, evs, broken', inbox', turn'), log' = log \o evs,
           UNCHANGED <<store, ran, prompted, crashes>>, broken \subseteq broken',
           step' \in 0..MaxSteps, pc' \in {"idle", "claimed", "entered", "streaming", "tools"},
           batch' \in Seq(Messages), aborted' \in BOOLEAN, mark' \in {0, mark, Len(log) + Len(evs)},
           started' \subseteq Calls, settled' \subseteq started', DriverAt', BatchFits'
    PROVE  IInv'
<1>1. /\ inbox' \in Inboxes /\ turn' \in 0..MaxTurns /\ evs \in Seq(Told) /\ Good(log \o evs, broken')
      /\ Replayed(log') = inbox' /\ LastTurn(log') = turn'
  BY TellsLog
<1>2. /\ mode' = mode /\ stored' = stored /\ damaged' = damaged /\ torn' = torn /\ repair' = repair
      /\ prompted' = prompted /\ ran' = ran /\ crashes' = crashes
  BY DEF store
<1>3. /\ LogsAreGood' /\ EffectsAreStored' /\ ReportsAreRight'
      /\ Len(log) \in Nat /\ Len(log') \in Nat /\ Len(log') = Len(log) + Len(evs)
      /\ stored' \in 0..Len(log') /\ mark \in 0..Len(log')
  BY <1>1, <1>2, LogGrows
<1>4. mark' \in 0..Len(log')
  BY <1>3
<1>5. Range(calls') \subseteq Calls /\ calls' \in Seq(Calls)
  <2>1. calls' \in Seq(Calls)
    BY DEF DriverAt
  <2> QED BY <2>1, WholeFacts
<1>6. TypeOK'
  BY <1>1, <1>2, <1>3, <1>4, <1>5 DEF IInv, TypeOK
<1>7. ModesFit'
  BY <1>2 DEF IInv, ModesFit
<1>8. DriverFits'
  BY <1>1 DEF DriverFits, DriverAt
<1> QED BY <1>3, <1>6, <1>7, <1>8 DEF IInv

\* A claim, after what is logged before it.
LEMMA ClaimsKeep ==
    ASSUME IInv, mode = "live", NEW events, NEW target, Tells(log, events, broken, inbox, turn'),
           turn' >= 1, At(log \o events, turn', 0, step' + 1, FALSE, <<>>, {}), Claims(events, target),
           UNCHANGED <<store, ran, prompted, broken, crashes>>, step' \in 0..MaxSteps, aborted' \in BOOLEAN
    PROVE  IInv'
<1> DEFINE some == Len(inbox["next-step"])
           more == QueuedTurn(inbox, target)
           one == Takes("next-step", some, FALSE)
           two == Takes("next-turn", more, FALSE)
           taken == (events \o one) \o two
<1>1. /\ log' = log \o taken
      /\ inbox' = AfterClaim(inbox, target) /\ batch' = Claimed(inbox, target)
      /\ mark' = Len(log) + Len(taken) /\ pc' = "claimed"
      /\ calls' = <<>> /\ started' = {} /\ settled' = {}
  BY DEF Claims, Logs
<1>2. /\ log \in Seq(Events) /\ inbox \in Inboxes /\ Once(inbox) /\ Pending(inbox) \subseteq KnownIn(log)
  BY LiveFacts
<1>3. /\ more \in Nat /\ more <= Len(inbox["next-turn"])
      /\ Claimed(inbox, target) \in Seq(Messages)
      /\ Range(Claimed(inbox, target)) \subseteq Pending(inbox) \ Pending(AfterClaim(inbox, target))
  BY <1>2, ClaimFacts
<1>4. some \in Nat /\ some <= Len(inbox["next-step"])
  <2>1. inbox["next-step"] \in Seq(Messages)
    BY <1>2 DEF Inboxes, Targets
  <2> QED BY <2>1
<1>5. AfterClaim(inbox, target) = Splice(Splice(inbox, "next-step", 0, some, <<>>), "next-turn", 0, more, <<>>)
  BY DEF AfterClaim
<1> HIDE DEF some, more
<1>6. PICK q : q = log \o events
  OBVIOUS
<1>7. Good(q, broken) /\ Replayed(q) = inbox /\ LastTurn(q) = turn' /\ events \in Seq(Told)
  BY <1>6 DEF Tells
<1>8. At(q, turn', 0, step' + 1, FALSE, <<>>, {})
  BY <1>6
<1>9. /\ Tells(q, one \o two, broken, inbox', turn')
      /\ At(q \o (one \o two), turn', 0, step' + 1, FALSE, <<>>, {})
  <2>1. /\ Tells(q, one \o two, broken,
                 Splice(Splice(Replayed(q), "next-step", 0, some, <<>>), "next-turn", 0, more, <<>>), LastTurn(q))
        /\ At(q \o (one \o two), turn', 0, step' + 1, FALSE, <<>>, {})
    <3>1. FALSE \in BOOLEAN
      OBVIOUS
    <3>2. turn' # 0
      <4>1. Trace(q).openTurn = turn' /\ Trace(q).openTurn \in 0..MaxTurns
        BY <1>7, <1>8, SomewhereAt DEF At
      <4> QED BY <4>1, RecoveryBounds
    <3>3. PICK k : k = turn'
      OBVIOUS
    <3>4. k # 0 /\ At(q, k, 0, step' + 1, FALSE, <<>>, {})
      BY <1>8, <3>2, <3>3
    <3>5. /\ Tells(q, one \o two, broken,
                   Splice(Splice(Replayed(q), "next-step", 0, some, <<>>), "next-turn", 0, more, <<>>), LastTurn(q))
          /\ At(q \o (one \o two), k, 0, step' + 1, FALSE, <<>>, {})
      BY <1>3, <1>4, <1>7, <3>1, <3>4, BothTell
    <3> QED BY <3>3, <3>5
  <2> QED BY <1>1, <1>5, <1>7, <2>1
<1>10. one \o two \in Seq(Told)
  BY <1>9 DEF Tells
<1>11. taken = events \o (one \o two)
  <2>1. one \in Seq(Told) /\ two \in Seq(Told)
    <3>1. \A k \in Nat, to \in Targets : Takes(to, k, FALSE) \in Seq(Told)
      <4> SUFFICES ASSUME NEW k \in Nat, NEW to \in Targets  PROVE Takes(to, k, FALSE) \in Seq(Told)
        OBVIOUS
      <4>1. <<>> \in Seq(Messages) /\ 0 \in Nat /\ FALSE \in BOOLEAN
        OBVIOUS
      <4>2. /\ Spliced(to, 0, k, <<>>, FALSE) \in Events
            /\ Spliced(to, 0, k, <<>>, FALSE).type # "tool/not-started"
        BY <4>1, SplicedFacts
      <4> QED BY <4>2, ToldFacts DEF Takes
    <3> QED BY <1>3, <1>4, <3>1 DEF Targets
  <2> HIDE DEF one, two
  <2> QED BY <1>7, <2>1
<1> HIDE DEF one, two, taken
<1>12. Tells(log, taken, broken, inbox', turn') /\ log' = q \o (one \o two)
  <2>1. Tells(log \o events, one \o two, broken, inbox', turn')
    BY <1>6, <1>9
  <2>2. /\ Tells(log, events \o (one \o two), broken, inbox', turn')
        /\ log \o (events \o (one \o two)) = (log \o events) \o (one \o two)
    BY <1>2, <2>1, TellsMore
  <2> QED BY <1>1, <1>6, <1>11, <2>2
<1>13. DriverAt'
  <2>1. At(log', turn', 0, step' + 1, FALSE, <<>>, {})
    BY <1>9, <1>12
  <2>2. <<>> \in Seq(Calls)
    OBVIOUS
  <2> QED BY <1>1, <2>1, <2>2 DEF DriverAt
<1>14. BatchFits'
  <2>1. KnownIn(log) \subseteq KnownIn(log')
    BY <1>1, <1>12 DEF Tells
  <2> QED BY <1>1, <1>2, <1>3, <2>1 DEF BatchFits
<1> QED BY <1>1, <1>3, <1>12, <1>13, <1>14, DriverKeeps

\* The end of a turn, after what is logged before it.
LEMMA CloseTurnKeeps ==
    ASSUME IInv, mode = "live", NEW events, NEW why \in Reasons, NEW n, broken \subseteq broken',
           Tells(log, events, broken', inbox, turn), turn >= 1,
           At(log \o events, turn, 0, n, FALSE, <<>>, {}), CloseTurn(events, why)
    PROVE  IInv'
<1> DEFINE evs == events \o <<TurnEnd(turn, why)>>
<1>1. /\ log' = log \o evs
      /\ step' = 0 /\ pc' = "idle" /\ batch' = <<>> /\ aborted' = FALSE /\ mark' = 0
      /\ calls' = <<>> /\ started' = {} /\ settled' = {}
      /\ UNCHANGED <<store, inbox, turn, prompted, ran, crashes>>
  BY DEF CloseTurn, Logs, Rested
<1>2. log \in Seq(Events) /\ turn \in 0..MaxTurns
  BY LiveFacts
<1>3. turn \in 1..MaxTurns
  BY <1>2, RecoveryBounds
<1>4. PICK q : q = log \o events
  OBVIOUS
<1>5. Good(q, broken') /\ Replayed(q) = inbox /\ LastTurn(q) = turn
  BY <1>4 DEF Tells
<1>6. At(q, turn, 0, n, FALSE, <<>>, {})
  BY <1>4
<1>7. /\ Tells(q, <<TurnEnd(turn, why)>>, broken', inbox, turn)
      /\ At(q \o <<TurnEnd(turn, why)>>, 0, 0, n, FALSE, <<>>, {})
  BY <1>3, <1>5, <1>6, TellsTurnEnd
<1>8. Tells(log, evs, broken', inbox, turn) /\ log' = q \o <<TurnEnd(turn, why)>>
  <2>1. Tells(log \o events, <<TurnEnd(turn, why)>>, broken', inbox, turn)
    BY <1>4, <1>7
  <2> QED BY <1>1, <1>2, <1>4, <2>1, TellsMore
<1> HIDE DEF evs
<1>9. DriverAt'
  <2>1. At(log', 0, 0, n, FALSE, <<>>, {})
    BY <1>7, <1>8
  <2>2. Trace(log').nextStep = n
    BY <2>1 DEF At
  <2>3. <<>> \in Seq(Calls)
    OBVIOUS
  <2> QED BY <1>1, <2>1, <2>2, <2>3 DEF DriverAt
<1>10. BatchFits'
  BY <1>1 DEF BatchFits
<1>11. 0 \in 0..MaxSteps /\ <<>> \in Seq(Messages)
  BY RecoveryBounds
<1>12. Tells(log, evs, broken', inbox', turn')
  BY <1>1, <1>8
<1> QED BY <1>1, <1>9, <1>10, <1>11, <1>12, DriverKeeps

\* A claimed turn opens.
LEMMA OpenTurnKeeps ==
    ASSUME IInv, OpenTurn
    PROVE  IInv'
<1>1. /\ mode = "live" /\ pc = "idle" /\ turn < MaxTurns
      /\ turn' = turn + 1 /\ step' = 0 /\ aborted' = FALSE
      /\ Claims(<<TurnStart(turn + 1)>>, "next-turn")
      /\ UNCHANGED <<store, history>>
  BY DEF OpenTurn
<1>2. /\ Good(log, broken) /\ log \in Seq(Events) /\ inbox = Replayed(log) /\ turn = LastTurn(log)
      /\ turn \in 0..MaxTurns
  BY <1>1, LiveFacts
<1>3. At(log, 0, 0, Trace(log).nextStep, FALSE, <<>>, {})
  BY <1>1, DriverIsAt DEF DriverAt
<1>4. /\ Tells(log, <<TurnStart(turn + 1)>>, broken, inbox, turn + 1)
      /\ At(log \o <<TurnStart(turn + 1)>>, turn + 1, 0, 1, FALSE, <<>>, {})
  BY <1>1, <1>2, <1>3, TellsTurnStart
<1>5. turn' >= 1 /\ step' + 1 = 1 /\ step' \in 0..MaxSteps /\ aborted' \in BOOLEAN
  <2>1. turn \in Nat /\ MaxSteps \in Nat
    BY <1>2, RecoveryBounds
  <2>2. turn' >= 1
    BY <1>1, <2>1
  <2>3. step' + 1 = 1 /\ step' \in 0..MaxSteps
    BY <1>1, <2>1
  <2>4. aborted' \in BOOLEAN
    BY <1>1
  <2> QED BY <2>2, <2>3, <2>4
<1>6. UNCHANGED <<store, ran, prompted, broken, crashes>>
  BY <1>1 DEF history
<1>7. /\ Tells(log, <<TurnStart(turn + 1)>>, broken, inbox, turn')
      /\ At(log \o <<TurnStart(turn + 1)>>, turn', 0, step' + 1, FALSE, <<>>, {})
  BY <1>1, <1>4, <1>5
<1> QED BY <1>1, <1>5, <1>6, <1>7, ClaimsKeep

\* A turn ends before its first or its next step.
LEMMA EndBeforeStepKeeps ==
    ASSUME IInv, NEW why \in {"aborted", "error", "completed"}, EndBeforeStep(why)
    PROVE  IInv'
<1>1. mode = "live" /\ pc = "claimed" /\ CloseTurn(<<>>, why) /\ broken' = broken
  BY DEF EndBeforeStep
<1>2. Good(log, broken) /\ inbox = Replayed(log) /\ turn = LastTurn(log)
  BY <1>1, LiveFacts
<1>3. turn >= 1 /\ At(log, turn, 0, step + 1, FALSE, <<>>, {})
  BY <1>1, DriverIsAt DEF DriverAt
<1>4. Tells(log, <<>>, broken, inbox, turn) /\ log \o <<>> = log
  BY <1>2, TellsNone
<1>5. Tells(log, <<>>, broken', inbox, turn) /\ At(log \o <<>>, turn, 0, step + 1, FALSE, <<>>, {})
  BY <1>1, <1>3, <1>4
<1>6. why \in Reasons /\ broken \subseteq broken'
  BY <1>1 DEF Reasons
<1> QED BY <1>1, <1>3, <1>5, <1>6, CloseTurnKeeps

\* The claimed messages enter the step.
LEMMA EnterStepKeeps ==
    ASSUME IInv, EnterStep
    PROVE  IInv'
<1>0. PICK n \in 0..Len(batch) :
         LET kept == SubSeq(batch, 1, n)
             events == <<StepStart(turn, step + 1)>> \o Entered(kept)
         IN  log' = log \o events /\ mark' = Len(log) + Len(events) /\ batch' = kept
  BY DEF EnterStep, Logs, Entered
<1> DEFINE evs == <<StepStart(turn, step + 1)>> \o Entered(batch')
<1>1. /\ mode = "live" /\ pc = "claimed" /\ step < MaxSteps
      /\ log' = log \o evs /\ mark' = Len(log) + Len(evs)
      /\ step' = step + 1 /\ pc' = "entered"
      /\ UNCHANGED <<store, inbox, turn, aborted, tools, history>>
  BY <1>0 DEF EnterStep
<1>2. /\ Good(log, broken) /\ log \in Seq(Events) /\ inbox = Replayed(log) /\ turn = LastTurn(log)
      /\ turn \in 0..MaxTurns /\ step \in 0..MaxSteps /\ aborted \in BOOLEAN
      /\ settled \subseteq started /\ started \subseteq Calls
  BY <1>1, LiveFacts
<1>2a. batch' \in Seq(Messages) /\ Range(batch') \subseteq Range(batch)
  <2>1. batch \in Seq(Messages)
    BY <1>1, LiveFacts
  <2>2. /\ batch' \in Seq(Messages) /\ DOMAIN batch' = 1..n /\ DOMAIN batch = 1..Len(batch)
        /\ \A i \in 1..n : batch'[i] = batch[i] /\ i \in DOMAIN batch
    BY <1>0, <2>1
  <2> QED BY <2>2 DEF Range
<1>3. turn >= 1 /\ At(log, turn, 0, step + 1, FALSE, <<>>, {})
  BY <1>1, DriverIsAt DEF DriverAt
<1>4. turn \in 1..MaxTurns /\ step + 1 \in 1..MaxSteps /\ step + 1 \in 0..MaxSteps
  BY <1>1, <1>2, <1>3, RecoveryBounds
<1>5. /\ Tells(log, <<StepStart(turn, step + 1)>>, broken, inbox, turn)
      /\ At(log \o <<StepStart(turn, step + 1)>>, turn, step + 1, step + 1, FALSE, <<>>, {})
  BY <1>2, <1>3, <1>4, TellsStepStart
<1>6. PICK q : q = log \o <<StepStart(turn, step + 1)>>
  OBVIOUS
<1>7. Good(q, broken) /\ Replayed(q) = inbox /\ LastTurn(q) = turn /\ KnownIn(log) \subseteq KnownIn(q)
  BY <1>5, <1>6 DEF Tells
<1>8. Range(batch') \subseteq KnownIn(q) \ Pending(Replayed(q))
  <2>1. Range(batch) \subseteq KnownIn(log) \ Pending(inbox)
    BY <1>1 DEF IInv, BatchFits
  <2> QED BY <1>2a, <1>7, <2>1
<1>9. /\ Tells(q, Entered(batch'), broken, inbox, turn)
      /\ At(q \o Entered(batch'), turn, step + 1, step + 1, FALSE, <<>>, {})
      /\ \A m \in Range(batch') : UserMessage(m) \in Range(Entered(batch'))
  <2>1. At(q, turn, step + 1, step + 1, FALSE, <<>>, {})
    BY <1>5, <1>6
  <2>2. /\ Tells(q, Entered(batch'), broken, Replayed(q), LastTurn(q))
        /\ At(q \o Entered(batch'), turn, step + 1, step + 1, FALSE, <<>>, {})
        /\ \A m \in Range(batch') : UserMessage(m) \in Range(Entered(batch'))
    BY <1>2a, <1>7, <1>8, <2>1, BatchTells
  <2> QED BY <1>7, <2>2
<1>10. Tells(log, evs, broken, inbox, turn) /\ log' = q \o Entered(batch')
  <2>1. Tells(log \o <<StepStart(turn, step + 1)>>, Entered(batch'), broken, inbox, turn)
    BY <1>6, <1>9
  <2> QED BY <1>1, <1>2, <1>5, <1>6, <2>1, TellsMore
<1>11. /\ inbox' = inbox /\ turn' = turn /\ aborted' = aborted /\ calls' = calls
       /\ started' = started /\ settled' = settled /\ broken' = broken
       /\ UNCHANGED <<store, ran, prompted, crashes>>
  BY <1>1 DEF tools, history
<1>12. DriverAt'
  <2>1. At(log', turn', step', step', FALSE, <<>>, {})
    BY <1>1, <1>9, <1>10, <1>11
  <2>2. turn' >= 1 /\ step' >= 1
    BY <1>1, <1>3, <1>4, <1>11
  <2>3. calls = <<>> /\ started = {} /\ calls \in Seq(Calls)
    BY <1>1, DriverIsAt DEF DriverAt
  <2> QED BY <1>1, <1>11, <2>1, <2>2, <2>3 DEF DriverAt
<1> HIDE DEF evs
<1>13. BatchFits'
  <2>1. evs \in Seq(Events)
    BY <1>10, ToldFacts DEF Tells
  <2>2. /\ SubSeq(log', 1, mark') = log' /\ Range(log') = Range(log) \cup Range(evs)
    <3>1. log' \in Seq(Events) /\ Len(log') = mark' /\ Range(log') = Range(log) \cup Range(evs)
      BY <1>1, <1>2, <2>1, ConcatFacts
    <3> QED BY <3>1, WholeFacts
  <2>3. Range(Entered(batch')) \subseteq Range(evs)
    <3>1. <<StepStart(turn, step + 1)>> \in Seq(Told) /\ Entered(batch') \in Seq(Told)
      BY <1>5, <1>9 DEF Tells
    <3> DEFINE x == <<StepStart(turn, step + 1)>>
               y == Entered(batch')
    <3>2. x \in Seq(Told) /\ y \in Seq(Told)
      BY <3>1
    <3> HIDE DEF x, y
    <3>3. Range(x \o y) = Range(x) \cup Range(y)
      BY <3>2, ConcatFacts
    <3> QED BY <3>3 DEF evs, x, y
  <2>4. \A m \in Range(batch') : UserMessage(m) \in Range(SubSeq(log', 1, mark'))
    BY <1>9, <1>11, <2>2, <2>3
  <2> QED BY <1>1, <2>4 DEF BatchFits
<1>14. Tells(log, evs, broken', inbox', turn') /\ step' \in 0..MaxSteps /\ broken \subseteq broken'
  BY <1>1, <1>4, <1>10, <1>11
<1> QED BY <1>1, <1>2, <1>2a, <1>11, <1>12, <1>13, <1>14, DriverKeeps

\* The model is asked once its prompt is stored.
LEMMA AskModelKeeps ==
    ASSUME IInv, AskModel
    PROVE  IInv'
<1>1. /\ mode = "live" /\ pc = "entered" /\ stored >= mark
      /\ pc' = "streaming" /\ prompted' = prompted \cup Range(batch)
      /\ UNCHANGED <<store, log, inbox, turn, step, batch, aborted, mark, tools, ran, broken, crashes>>
  BY DEF AskModel, Checkpointed
<1>2. /\ mode' = mode /\ stored' = stored /\ damaged' = damaged /\ torn' = torn /\ repair' = repair
      /\ log' = log /\ inbox' = inbox /\ turn' = turn /\ step' = step /\ batch' = batch /\ aborted' = aborted
      /\ mark' = mark /\ calls' = calls /\ started' = started /\ settled' = settled /\ ran' = ran
      /\ broken' = broken /\ crashes' = crashes
  BY <1>1 DEF store, tools
<1>3. /\ Range(batch) \subseteq Messages /\ stored \in 0..Len(log) /\ mark \in 0..Len(log) /\ log \in Seq(Events)
  <2>1. batch \in Seq(Messages) /\ stored \in 0..Len(log) /\ mark \in 0..Len(log) /\ log \in Seq(Events)
    BY DEF IInv, TypeOK, LogsAreGood
  <2> QED BY <2>1, WholeFacts
<1>4. TypeOK'
  BY <1>1, <1>2, <1>3 DEF IInv, TypeOK
<1>5. LogsAreGood' /\ ModesFit' /\ ReportsAreRight'
  <2>1. Whole' = Whole
    BY <1>2 DEF Whole
  <2> QED BY <1>1, <1>2, <2>1 DEF IInv, LogsAreGood, ModesFit, ReportsAreRight
<1>6. DriverFits'
  BY <1>1, <1>2 DEF IInv, DriverFits
<1>7. BatchFits'
  BY <1>1 DEF BatchFits
<1>8. EffectsAreStored'
  <2>1. Range(SubSeq(log, 1, mark)) \subseteq Range(SubSeq(log, 1, stored))
    <3>1. Len(log) \in Nat
      BY <1>3
    <3>2. /\ DOMAIN SubSeq(log, 1, mark) = 1..mark /\ DOMAIN SubSeq(log, 1, stored) = 1..stored
          /\ \A i \in 1..mark : SubSeq(log, 1, mark)[i] = log[i]
          /\ \A i \in 1..stored : SubSeq(log, 1, stored)[i] = log[i]
      BY <1>3, <3>1
    <3>3. \A i \in 1..mark : i \in 1..stored
      BY <1>1, <1>3, <3>1
    <3> QED BY <3>2, <3>3 DEF Range
  <2>2. \A m \in Range(batch) : UserMessage(m) \in Range(SubSeq(log, 1, stored))
    BY <1>1, <2>1 DEF IInv, BatchFits
  <2> QED BY <1>1, <1>2, <2>2 DEF IInv, EffectsAreStored
<1> QED BY <1>4, <1>5, <1>6, <1>7, <1>8 DEF IInv

\* A step fails without an answer.
LEMMA FailStepKeeps ==
    ASSUME IInv, FailStep
    PROVE  IInv'
<1>1. PICK why \in Reasons : /\ mode = "live" /\ pc \in {"entered", "streaming"}
                             /\ CloseTurn(<<StepEnd(turn, step)>>, why) /\ broken' = broken
  <2>1. "aborted" \in Reasons /\ "error" \in Reasons
    BY DEF Reasons
  <2> QED BY <2>1 DEF FailStep
<1>2. /\ Good(log, broken) /\ inbox = Replayed(log) /\ turn = LastTurn(log)
      /\ turn \in 0..MaxTurns /\ step \in 0..MaxSteps
  BY <1>1, LiveFacts
<1>3. turn >= 1 /\ step >= 1 /\ At(log, turn, step, step, FALSE, <<>>, {})
  BY <1>1, DriverIsAt DEF DriverAt
<1>4. turn \in 1..MaxTurns /\ step \in 1..MaxSteps
  BY <1>2, <1>3, RecoveryBounds
<1>5. /\ Tells(log, <<StepEnd(turn, step)>>, broken, inbox, turn)
      /\ At(log \o <<StepEnd(turn, step)>>, turn, 0, step + 1, FALSE, <<>>, {})
  BY <1>2, <1>3, <1>4, TellsStepEnd
<1>6. Tells(log, <<StepEnd(turn, step)>>, broken', inbox, turn) /\ broken \subseteq broken'
  BY <1>1, <1>5
<1> QED BY <1>1, <1>3, <1>5, <1>6, CloseTurnKeeps

\* The end of a step whose calls all have results.
LEMMA AfterStepKeeps ==
    ASSUME IInv, mode = "live", NEW events, NEW concluded, NEW answered, NEW begun,
           Tells(log, events, broken, inbox, turn), turn >= 1, step >= 1,
           At(log \o events, turn, step, step, answered, <<>>, begun),
           AfterStep(events, concluded), broken' = broken
    PROVE  IInv'
<1>1. log \in Seq(Events) /\ turn \in 0..MaxTurns /\ step \in 0..MaxSteps /\ aborted \in BOOLEAN
  BY LiveFacts
<1>2. turn \in 1..MaxTurns /\ step \in 1..MaxSteps
  BY <1>1, RecoveryBounds
<1>3. PICK q : q = log \o events
  OBVIOUS
<1>4. Good(q, broken) /\ Replayed(q) = inbox /\ LastTurn(q) = turn /\ At(q, turn, step, step, answered, <<>>, begun)
  BY <1>3 DEF Tells
<1>5. /\ Tells(q, <<StepEnd(turn, step)>>, broken, inbox, turn)
      /\ At(q \o <<StepEnd(turn, step)>>, turn, 0, step + 1, FALSE, <<>>, {})
  <2>1. /\ Tells(q, <<StepEnd(turn, step)>>, broken, Replayed(q), LastTurn(q))
        /\ At(q \o <<StepEnd(turn, step)>>, turn, 0, step + 1, FALSE, <<>>, {})
    BY <1>2, <1>4, TellsStepEnd
  <2> QED BY <1>4, <2>1
<1> DEFINE evs == events \o <<StepEnd(turn, step)>>
<1>6. Tells(log, evs, broken, inbox, turn) /\ log \o evs = q \o <<StepEnd(turn, step)>>
  <2>1. Tells(log \o events, <<StepEnd(turn, step)>>, broken, inbox, turn)
    BY <1>3, <1>5
  <2> QED BY <1>1, <1>3, <2>1, TellsMore
<1>7. At(log \o evs, turn, 0, step + 1, FALSE, <<>>, {})
  BY <1>5, <1>6
<1>8. CASE concluded
  <2>1. CloseTurn(evs, "completed")
    BY <1>8 DEF AfterStep
  <2> HIDE DEF evs
  <2>2. Tells(log, evs, broken', inbox, turn) /\ broken \subseteq broken' /\ "completed" \in Reasons
    BY <1>6 DEF Reasons
  <2> QED BY <1>7, <2>1, <2>2, CloseTurnKeeps
<1>9. CASE ~concluded
  <2>1. Claims(evs, "next-step") /\ UNCHANGED <<store, turn, step, aborted, prompted, ran, crashes>>
    BY <1>9 DEF AfterStep
  <2> HIDE DEF evs
  <2>2. /\ Tells(log, evs, broken, inbox, turn') /\ turn' >= 1
        /\ At(log \o evs, turn', 0, step' + 1, FALSE, <<>>, {})
        /\ step' \in 0..MaxSteps /\ aborted' \in BOOLEAN
        /\ UNCHANGED <<store, ran, prompted, broken, crashes>>
    BY <1>1, <1>6, <1>7, <2>1
  <2> QED BY <2>1, <2>2, ClaimsKeep
<1> QED BY <1>8, <1>9

\* A step is answered without calls.
LEMMA FinishKeeps ==
    ASSUME IInv, Finish
    PROVE  IInv'
<1>1. /\ mode = "live" /\ pc = "streaming" /\ broken' = broken
      /\ AfterStep(<<Answer(turn, step, <<>>)>>, inbox["next-step"] = <<>>)
  BY DEF Finish
<1>2. /\ Good(log, broken) /\ inbox = Replayed(log) /\ turn = LastTurn(log)
      /\ turn \in 0..MaxTurns /\ step \in 0..MaxSteps
  BY <1>1, LiveFacts
<1>3. turn >= 1 /\ step >= 1 /\ At(log, turn, step, step, FALSE, <<>>, {})
  BY <1>1, DriverIsAt DEF DriverAt
<1>4. turn \in 1..MaxTurns /\ step \in 1..MaxSteps
  BY <1>2, <1>3, RecoveryBounds
<1>5. <<>> \in Seq(Calls) /\ IsInjective(<<>>) /\ Range(<<>>) = {}
  BY DEF IsInjective, Range
<1>6. /\ Tells(log, <<Answer(turn, step, <<>>)>>, broken, inbox, turn)
      /\ At(log \o <<Answer(turn, step, <<>>)>>, turn, step, step, TRUE, <<>>, {})
  BY <1>2, <1>3, <1>4, <1>5, TellsAnswer
<1> QED BY <1>1, <1>3, <1>6, AfterStepKeeps

\* A step is answered with calls.
LEMMA AskToolsKeeps ==
    ASSUME IInv, AskTools
    PROVE  IInv'
<1> DEFINE asks == CallsOf(turn, step)
<1>1. /\ mode = "live" /\ pc = "streaming"
      /\ log' = log \o <<Answer(turn, step, asks)>>
      /\ pc' = "tools" /\ calls' = asks
      /\ UNCHANGED <<store, inbox, turn, step, batch, aborted, mark, started, settled, history>>
  BY DEF AskTools, Logs
<1>2. /\ Good(log, broken) /\ inbox = Replayed(log) /\ turn = LastTurn(log)
      /\ turn \in 0..MaxTurns /\ step \in 0..MaxSteps /\ batch \in Seq(Messages) /\ aborted \in BOOLEAN
      /\ settled \subseteq started /\ started \subseteq Calls
  BY <1>1, LiveFacts
<1>3. turn >= 1 /\ step >= 1 /\ At(log, turn, step, step, FALSE, <<>>, {}) /\ started = {}
  BY <1>1, DriverIsAt DEF DriverAt
<1>4. turn \in 1..MaxTurns /\ step \in 1..MaxSteps
  BY <1>2, <1>3, RecoveryBounds
<1>5. asks \in Seq(Calls) /\ IsInjective(asks) /\ \A c \in Range(asks) : c[1] = turn /\ c[2] = step
  <2> DEFINE x == <<turn, step, 1>>
             y == <<turn, step, 2>>
  <2>1. x \in Calls /\ y \in Calls
    BY <1>4 DEF Calls
  <2>2. x # y /\ x[1] = turn /\ x[2] = step /\ y[1] = turn /\ y[2] = step
    OBVIOUS
  <2>3. asks = <<x, y>>
    BY DEF CallsOf
  <2> HIDE DEF x, y, asks
  <2>4. asks \in Seq(Calls) /\ DOMAIN asks = {1, 2} /\ asks[1] = x /\ asks[2] = y
    BY <2>1, <2>3
  <2> HIDE DEF asks
  <2> QED BY <2>2, <2>4 DEF IsInjective, Range
<1> HIDE DEF asks
<1>6. /\ Tells(log, <<Answer(turn, step, asks)>>, broken, inbox, turn)
      /\ At(log \o <<Answer(turn, step, asks)>>, turn, step, step, TRUE, asks, {})
  BY <1>2, <1>3, <1>4, <1>5, TellsAnswer
<1>7. /\ inbox' = inbox /\ turn' = turn /\ step' = step /\ batch' = batch /\ aborted' = aborted /\ mark' = mark
      /\ started' = started /\ settled' = settled /\ broken' = broken
      /\ UNCHANGED <<store, ran, prompted, crashes>>
  BY <1>1 DEF history
<1>8. DriverAt'
  <2>1. At(log', turn', step', step', TRUE, calls', started')
    BY <1>1, <1>3, <1>6, <1>7
  <2> QED BY <1>1, <1>3, <1>5, <1>7, <2>1 DEF DriverAt
<1>9. BatchFits'
  BY <1>1 DEF BatchFits
<1>10. Tells(log, <<Answer(turn, step, asks)>>, broken', inbox', turn') /\ broken \subseteq broken'
  BY <1>6, <1>7
<1> QED BY <1>1, <1>2, <1>7, <1>8, <1>9, <1>10, DriverKeeps

-----------------------------------------------------------------------------
(***************************************************************************)
(* The tool calls of a step.                                               *)
(***************************************************************************)
-----------------------------------------------------------------------------
(***************************************************************************)
(* The open step's tools.                                                  *)
(***************************************************************************)
\* What the invariant says while tools run.
LEMMA ToolFacts ==
    ASSUME IInv, InTools
    PROVE  /\ mode = "live" /\ pc = "tools" /\ Good(log, broken) /\ log \in Seq(Events)
           /\ inbox = Replayed(log) /\ turn = LastTurn(log)
           /\ turn \in 1..MaxTurns /\ step \in 1..MaxSteps /\ turn >= 1 /\ step >= 1
           /\ At(log, turn, step, step, TRUE, calls, started)
           /\ calls \in Seq(Calls) /\ IsInjective(calls) /\ started \subseteq Range(calls) \cup settled
           /\ settled \subseteq started /\ started \subseteq Calls
           /\ batch \in Seq(Messages) /\ aborted \in BOOLEAN
           /\ \A c \in Range(calls) : c[1] = turn /\ c[2] = step
<1>1. mode = "live" /\ pc = "tools"
  BY DEF InTools
<1>2. /\ Good(log, broken) /\ log \in Seq(Events) /\ inbox = Replayed(log) /\ turn = LastTurn(log)
      /\ turn \in 0..MaxTurns /\ step \in 0..MaxSteps /\ IsInjective(calls)
      /\ settled \subseteq started /\ started \subseteq Calls /\ batch \in Seq(Messages) /\ aborted \in BOOLEAN
  BY <1>1, LiveFacts
<1>3. /\ turn >= 1 /\ step >= 1 /\ At(log, turn, step, step, TRUE, calls, started)
      /\ calls \in Seq(Calls) /\ started \subseteq Range(calls) \cup settled
  BY <1>1, DriverIsAt DEF DriverAt
<1>4. turn \in 1..MaxTurns /\ step \in 1..MaxSteps
  BY <1>2, <1>3, RecoveryBounds
<1>5. \A c \in Range(calls) : c[1] = turn /\ c[2] = step
  <2>1. Opened(log).asked = calls /\ Trace(log).openTurn = turn /\ Trace(log).openStep = step
    BY <1>3 DEF At
  <2> QED BY <1>2, <2>1, SomewhereAt
<1> QED BY <1>1, <1>2, <1>3, <1>4, <1>5

\* A call is started.
LEMMA StartCallKeeps ==
    ASSUME IInv, StartCall
    PROVE  IInv'
<1> DEFINE c == Head(Unstarted)
<1>1. /\ InTools /\ Unstarted # <<>>
      /\ log' = log \o <<ToolCall(c)>> /\ started' = started \cup {c}
      /\ UNCHANGED <<store, inbox, turn, step, pc, batch, aborted, mark, calls, settled, history>>
  BY DEF StartCall, Logs
<1>2. /\ mode = "live" /\ pc = "tools" /\ Good(log, broken)
      /\ inbox = Replayed(log) /\ turn = LastTurn(log)
      /\ turn \in 1..MaxTurns /\ step \in 1..MaxSteps
      /\ At(log, turn, step, step, TRUE, calls, started)
      /\ calls \in Seq(Calls) /\ started \subseteq Range(calls) \cup settled
      /\ settled \subseteq started /\ started \subseteq Calls
      /\ batch \in Seq(Messages) /\ aborted \in BOOLEAN
  BY <1>1, ToolFacts
<1>3. c \in Range(calls)
  <2>1. Unstarted \in Seq(Calls) /\ Range(Unstarted) = Range(calls) \ started
    BY <1>2, WithoutFacts DEF Unstarted
  <2>2. c \in Range(Unstarted)
    <3> DEFINE u == Unstarted
    <3>1. u \in Seq(Calls) /\ u # <<>>
      BY <1>1, <2>1
    <3> HIDE DEF u
    <3>2. 1 \in DOMAIN u /\ Head(u) = u[1]
      BY <3>1
    <3>3. Head(u) \in Range(u)
      BY <3>2 DEF Range
    <3> QED BY <3>3 DEF u
  <2> QED BY <2>1, <2>2
<1> HIDE DEF c
<1>4. /\ Tells(log, <<ToolCall(c)>>, broken, inbox, turn)
      /\ At(log \o <<ToolCall(c)>>, turn, step, step, TRUE, calls, started \cup {c})
      /\ c \in Calls
  BY <1>2, <1>3, TellsCall
<1>5. /\ inbox' = inbox /\ turn' = turn /\ step' = step /\ pc' = pc /\ batch' = batch /\ aborted' = aborted
      /\ mark' = mark /\ calls' = calls /\ settled' = settled /\ broken' = broken
      /\ UNCHANGED <<store, ran, prompted, crashes>>
  BY <1>1 DEF history
<1>6. DriverAt'
  <2>1. At(log', turn', step', step', TRUE, calls', started')
    BY <1>1, <1>4, <1>5
  <2>2. turn' >= 1 /\ step' >= 1
    BY <1>2, <1>5
  <2>3. calls' \in Seq(Calls) /\ started' \subseteq Range(calls') \cup settled'
    BY <1>1, <1>2, <1>3, <1>5
  <2> QED BY <1>2, <1>5, <2>1, <2>2, <2>3 DEF DriverAt
<1>7. BatchFits'
  BY <1>2, <1>5 DEF BatchFits
<1>8. Tells(log, <<ToolCall(c)>>, broken', inbox', turn') /\ broken \subseteq broken'
  BY <1>4, <1>5
<1>9. started' \subseteq Calls /\ settled' \subseteq started' /\ step' \in 0..MaxSteps
  BY <1>1, <1>2, <1>4, <1>5
<1> QED BY <1>1, <1>2, <1>5, <1>6, <1>7, <1>8, <1>9, DriverKeeps

\* A call's result is committed in the model's order.
LEMMA CommitKeeps ==
    ASSUME IInv, Commit
    PROVE  IInv'
<1> DEFINE c == Head(calls)
<1>1. /\ InTools /\ calls # <<>> /\ c \in settled
      /\ log' = log \o <<ToolResult(c)>> /\ calls' = Tail(calls)
      /\ UNCHANGED <<store, inbox, turn, step, pc, batch, aborted, mark, started, settled, history>>
  BY DEF Commit, Logs
<1>2. /\ mode = "live" /\ pc = "tools" /\ Good(log, broken)
      /\ inbox = Replayed(log) /\ turn = LastTurn(log)
      /\ turn \in 1..MaxTurns /\ step \in 1..MaxSteps
      /\ At(log, turn, step, step, TRUE, calls, started)
      /\ calls \in Seq(Calls) /\ started \subseteq Range(calls) \cup settled
      /\ settled \subseteq started /\ started \subseteq Calls
      /\ batch \in Seq(Messages) /\ aborted \in BOOLEAN
  BY <1>1, ToolFacts
<1>3. /\ Tells(log, <<ToolResult(c)>>, broken, inbox, turn)
      /\ At(log \o <<ToolResult(c)>>, turn, step, step, TRUE, Tail(calls), started)
  BY <1>1, <1>2, TellsResult
<1>4. Tail(calls) \in Seq(Calls) /\ Range(calls) \subseteq Range(Tail(calls)) \cup {c}
  <2>1. /\ Tail(calls) \in Seq(Calls) /\ DOMAIN calls = 1..Len(calls) /\ Len(calls) \in Nat /\ Len(calls) >= 1
        /\ DOMAIN Tail(calls) = 1..(Len(calls) - 1)
        /\ \A i \in 1..(Len(calls) - 1) : Tail(calls)[i] = calls[i + 1]
        /\ calls[1] = c
    BY <1>1, <1>2
  <2>2. ASSUME NEW i \in DOMAIN calls  PROVE calls[i] \in Range(Tail(calls)) \cup {c}
    <3>1. CASE i = 1
      BY <2>1, <3>1
    <3>2. CASE i # 1
      <4>1. i - 1 \in 1..(Len(calls) - 1) /\ (i - 1) + 1 = i
        BY <2>1, <3>2
      <4>2. Tail(calls)[i - 1] = calls[i] /\ i - 1 \in DOMAIN Tail(calls)
        BY <2>1, <4>1
      <4> QED BY <4>2 DEF Range
    <3> QED BY <3>1, <3>2
  <2> QED BY <2>1, <2>2 DEF Range
<1> HIDE DEF c
<1>5. /\ inbox' = inbox /\ turn' = turn /\ step' = step /\ pc' = pc /\ batch' = batch /\ aborted' = aborted
      /\ mark' = mark /\ started' = started /\ settled' = settled /\ broken' = broken
      /\ UNCHANGED <<store, ran, prompted, crashes>>
  BY <1>1 DEF history
<1>6. DriverAt'
  <2>1. At(log', turn', step', step', TRUE, calls', started')
    BY <1>1, <1>3, <1>5
  <2>2. turn' >= 1 /\ step' >= 1
    BY <1>2, <1>5
  <2>3. calls' \in Seq(Calls) /\ started' \subseteq Range(calls') \cup settled'
    BY <1>1, <1>2, <1>4, <1>5
  <2> QED BY <1>2, <1>5, <2>1, <2>2, <2>3 DEF DriverAt
<1>7. BatchFits'
  BY <1>2, <1>5 DEF BatchFits
<1>8. Tells(log, <<ToolResult(c)>>, broken', inbox', turn') /\ broken \subseteq broken'
  BY <1>3, <1>5
<1>9. started' \subseteq Calls /\ settled' \subseteq started' /\ step' \in 0..MaxSteps
  BY <1>2, <1>5
<1> QED BY <1>1, <1>2, <1>5, <1>6, <1>7, <1>8, <1>9, DriverKeeps

\* A body that settles: nothing is logged.
LEMMA SettleKeeps ==
    ASSUME IInv, InTools, NEW c \in started \ settled,
           settled' = settled \cup {c}, ran' = ran \/ (ran' = ran \cup {c} /\ MayRun(c)),
           UNCHANGED <<store, log, inbox, turn, step, pc, batch, aborted, mark, calls, started, prompted,
                       broken, crashes>>
    PROVE  IInv'
<1>1. /\ mode = "live" /\ pc = "tools" /\ Good(log, broken) /\ log \in Seq(Events)
      /\ At(log, turn, step, step, TRUE, calls, started)
      /\ started \subseteq Range(calls) \cup settled
      /\ settled \subseteq started /\ started \subseteq Calls
      /\ \A x \in Range(calls) : x[1] = turn /\ x[2] = step
  BY ToolFacts
<1>2. /\ mode' = mode /\ stored' = stored /\ damaged' = damaged /\ torn' = torn /\ repair' = repair
      /\ log' = log /\ inbox' = inbox /\ turn' = turn /\ step' = step /\ pc' = pc /\ batch' = batch
      /\ aborted' = aborted /\ mark' = mark /\ calls' = calls /\ started' = started /\ prompted' = prompted
      /\ broken' = broken /\ crashes' = crashes
  BY DEF store
<1>3. c \in Calls /\ c[1] = turn /\ c[2] = step /\ ran' \subseteq ran \cup {c}
  BY <1>1
<1>4. Whole' = Whole
  BY <1>2 DEF Whole
<1>5. TypeOK'
  <2>1. settled' \subseteq started' /\ ran' \subseteq Calls
    BY <1>1, <1>2, <1>3 DEF IInv, TypeOK
  <2> QED BY <1>2, <2>1 DEF IInv, TypeOK
<1>6. LogsAreGood' /\ ModesFit' /\ BatchFits'
  BY <1>1, <1>2, <1>4 DEF IInv, LogsAreGood, ModesFit, BatchFits
<1>7. DriverFits'
  BY <1>2 DEF IInv, DriverFits
<1>8. EffectsAreStored'
  <2>1. MayRun(c) => ToolCall(c) \in Range(SubSeq(log, 1, stored))
    BY DEF MayRun
  <2> QED BY <1>2, <2>1 DEF IInv, EffectsAreStored
<1>9. ReportsAreRight'
  <2>1. ASSUME NEW e \in Range(Whole), e.type = "tool/not-started"
        PROVE  \E x \in Calls \ ran' : e = ToolNotStarted(x)
    <3>1. PICK x \in Calls \ ran : e = ToolNotStarted(x)
      BY <2>1 DEF IInv, ReportsAreRight
    <3>2. x # c
      <4> SUFFICES ASSUME x = c  PROVE FALSE
        OBVIOUS
      <4>1. e \in Range(log)
        BY <1>1, LiveFacts
      <4>2. ~IsOpen(Trace(log), e.turn, e.step)
        BY <1>1, <2>1, <4>1 DEF IInv, ReportsAreRight
      <4>3. e.turn = c[1] /\ e.step = c[2]
        BY <3>1, <1>3, CallEventFacts
      <4>4. IsOpen(Trace(log), e.turn, e.step)
        BY <1>1, <1>3, <4>3 DEF At, IsOpen
      <4> QED BY <4>2, <4>4
    <3>3. x \in Calls \ ran'
      BY <1>3, <3>2
    <3> QED BY <3>1, <3>3
  <2> QED BY <1>2, <1>4, <2>1 DEF IInv, ReportsAreRight
<1> QED BY <1>5, <1>6, <1>7, <1>8, <1>9 DEF IInv

\* A body runs once its call is stored.
LEMMA RunBodyKeeps ==
    ASSUME IInv, NEW c, RunBody(c)
    PROVE  IInv'
BY SettleKeeps DEF RunBody

\* A body is refused.
LEMMA RefuseBodyKeeps ==
    ASSUME IInv, NEW c, RefuseBody(c)
    PROVE  IInv'
BY SettleKeeps DEF RefuseBody, history

\* The calls of a step are done.
LEMMA FinishToolsKeeps ==
    ASSUME IInv, NEW concluded, FinishTools(concluded)
    PROVE  IInv'
<1>1. InTools /\ broken' = broken
  BY DEF FinishTools
<1>2. /\ mode = "live" /\ pc = "tools" /\ Good(log, broken) /\ log \in Seq(Events)
      /\ inbox = Replayed(log) /\ turn = LastTurn(log)
      /\ turn \in 1..MaxTurns /\ step \in 1..MaxSteps /\ turn >= 1 /\ step >= 1
      /\ At(log, turn, step, step, TRUE, calls, started) /\ calls \in Seq(Calls)
  BY <1>1, ToolFacts
<1>3. CASE calls = <<>> /\ AfterStep(<<>>, concluded /\ inbox["next-step"] = <<>>)
  <2>1. Tells(log, <<>>, broken, inbox, turn) /\ log \o <<>> = log
    BY <1>2, TellsNone
  <2>2. At(log \o <<>>, turn, step, step, TRUE, <<>>, started)
    BY <1>2, <1>3, <2>1
  <2> QED BY <1>1, <1>2, <1>3, <2>1, <2>2, AfterStepKeeps
<1>4. CASE CloseTurn(Skipped \o <<StepEnd(turn, step)>>, "aborted")
  <2> DEFINE evs == Skipped \o <<StepEnd(turn, step)>>
  <2>1. /\ Tells(log, Skipped, broken, inbox, turn)
        /\ \E more : At(log \o Skipped, turn, step, step, TRUE, <<>>, more)
    BY <1>2, SkippedTells
  <2>2. PICK more : At(log \o Skipped, turn, step, step, TRUE, <<>>, more)
    BY <2>1
  <2>3. PICK q : q = log \o Skipped
    OBVIOUS
  <2>4. Good(q, broken) /\ Replayed(q) = inbox /\ LastTurn(q) = turn
    BY <2>1, <2>3 DEF Tells
  <2>5. At(q, turn, step, step, TRUE, <<>>, more)
    BY <2>2, <2>3
  <2>6. /\ Tells(q, <<StepEnd(turn, step)>>, broken, Replayed(q), LastTurn(q))
        /\ At(q \o <<StepEnd(turn, step)>>, turn, 0, step + 1, FALSE, <<>>, {})
    BY <1>2, <2>4, <2>5, TellsStepEnd
  <2>7. Tells(log \o Skipped, <<StepEnd(turn, step)>>, broken, inbox, turn)
    BY <2>3, <2>4, <2>6
  <2>8. Tells(log, evs, broken, inbox, turn) /\ log \o evs = q \o <<StepEnd(turn, step)>>
    BY <1>2, <2>1, <2>3, <2>7, TellsMore
  <2>9. CloseTurn(evs, "aborted") /\ "aborted" \in Reasons /\ broken \subseteq broken'
    BY <1>1, <1>4 DEF Reasons
  <2> HIDE DEF evs
  <2>10. Tells(log, evs, broken', inbox, turn) /\ At(log \o evs, turn, 0, step + 1, FALSE, <<>>, {})
    BY <1>1, <2>6, <2>8
  <2> QED BY <1>2, <2>9, <2>10, CloseTurnKeeps
<1> QED BY <1>3, <1>4 DEF FinishTools

\* The scheduler fails with calls open, and leaves a broken step.
LEMMA SchedulerFailsKeeps ==
    ASSUME IInv, SchedulerFails
    PROVE  IInv'
<1>1. PICK why \in Reasons : /\ InTools /\ broken' = broken \cup {<<turn, step>>}
                             /\ CloseTurn(<<StepEnd(turn, step)>>, why)
  <2>1. "aborted" \in Reasons /\ "error" \in Reasons
    BY DEF Reasons
  <2> QED BY <2>1 DEF SchedulerFails
<1>2. /\ mode = "live" /\ Good(log, broken)
      /\ inbox = Replayed(log) /\ turn = LastTurn(log)
      /\ turn \in 1..MaxTurns /\ step \in 1..MaxSteps /\ turn >= 1
      /\ At(log, turn, step, step, TRUE, calls, started)
  BY <1>1, ToolFacts
<1>3. broken \subseteq broken' /\ <<turn, step>> \in broken'
  BY <1>1
<1>4. Good(log, broken')
  BY <1>2, <1>3, GoodOfMore
<1>5. /\ Tells(log, <<StepEnd(turn, step)>>, broken', inbox, turn)
      /\ At(log \o <<StepEnd(turn, step)>>, turn, 0, step + 1, FALSE, <<>>, {})
  BY <1>2, <1>3, <1>4, TellsStepEnd
<1> QED BY <1>1, <1>2, <1>3, <1>5, CloseTurnKeeps

-----------------------------------------------------------------------------
(***************************************************************************)
(* Storing, crashing, and the next load.                                   *)
(***************************************************************************)
-----------------------------------------------------------------------------
(***************************************************************************)
(* The store, a crash and the next opening.                                *)
(***************************************************************************)
LEMMA WholeLog ==
    ASSUME LogsAreGood
    PROVE  /\ log \in Seq(Events) /\ torn \in Seq(Events) /\ repair \in Seq(Events)
           /\ Good(Whole, broken) /\ Whole \in Seq(Events)
           /\ Range(Whole) = Range(log) \cup Range(torn) \cup Range(repair)
           /\ torn = <<>> => Whole = log \o repair
           /\ repair = <<>> => Whole = log \o torn
           /\ Len(log) \in Nat /\ SubSeq(log, 1, Len(log)) = log
<1>1. log \in Seq(Events) /\ torn \in Seq(Events) /\ repair \in Seq(Events) /\ Good(Whole, broken)
  BY DEF LogsAreGood
<1>2. log \o torn \in Seq(Events) /\ Range(log \o torn) = Range(log) \cup Range(torn)
  BY <1>1, ConcatFacts
<1> DEFINE x == log \o torn
<1>3. x \in Seq(Events)
  BY <1>2
<1> HIDE DEF x
<1>4. x \o repair \in Seq(Events) /\ Range(x \o repair) = Range(x) \cup Range(repair) /\ x \o <<>> = x
  BY <1>1, <1>3, ConcatFacts, WholeFacts
<1>5. Whole = x \o repair
  BY DEF Whole, x
<1>6. /\ log \o <<>> = log /\ Len(log) \in Nat /\ SubSeq(log, 1, Len(log)) = log
  BY <1>1, WholeFacts
<1>7. torn = <<>> => x = log
  BY <1>6 DEF x
<1>8. Range(x) = Range(log) \cup Range(torn)
  BY <1>2 DEF x
<1>9. repair = <<>> => Whole = log \o torn
  BY <1>4, <1>5 DEF x
<1> QED BY <1>1, <1>4, <1>5, <1>6, <1>7, <1>8, <1>9

\* The front of a sequence.
LEMMA FrontIsIn ==
    ASSUME NEW s \in Seq(Events), NEW n \in 0..Len(s)
    PROVE  Range(SubSeq(s, 1, n)) \subseteq Range(s) /\ SubSeq(s, 1, n) \in Seq(Events)
           /\ Len(SubSeq(s, 1, n)) = n
<1>1. /\ SubSeq(s, 1, n) \in Seq(Events) /\ Len(SubSeq(s, 1, n)) = n /\ Len(s) \in Nat
      /\ DOMAIN SubSeq(s, 1, n) = 1..n /\ DOMAIN s = 1..Len(s)
      /\ \A i \in 1..n : SubSeq(s, 1, n)[i] = s[i]
  OBVIOUS
<1>2. \A i \in 1..n : i \in 1..Len(s)
  BY <1>1
<1> QED BY <1>1, <1>2 DEF Range

\* A sequence is its front and the rest.
LEMMA FrontAndRest ==
    ASSUME NEW s \in Seq(Events), NEW n \in 0..Len(s)
    PROVE  SubSeq(s, 1, n) \o SubSeq(s, n + 1, Len(s)) = s
<1> DEFINE l == Len(s)
           x == SubSeq(s, 1, n)
           y == SubSeq(s, n + 1, l)
           u == x \o y
<1>1. l \in Nat /\ n \in Nat /\ n <= l
  OBVIOUS
<1>2. x \in Seq(Events) /\ Len(x) = n /\ \A i \in 1..n : x[i] = s[i]
  OBVIOUS
<1>3. y \in Seq(Events) /\ Len(y) = l - n /\ \A i \in 1..(l - n) : y[i] = s[n + i]
  <2>1. y \in Seq(Events)
    BY <1>1
  <2>2. Len(y) = l - n
    <3> DEFINE m == n + 1
    <3>1. m \in Nat /\ 1 <= m /\ m <= l + 1 /\ l - m + 1 = l - n
      BY <1>1
    <3> HIDE DEF m
    <3>2. Len(SubSeq(s, m, l)) = l - m + 1
      BY <1>1, <3>1
    <3> QED BY <3>1, <3>2 DEF m
  <2>3. \A i \in 1..(l - n) : y[i] = s[n + i]
    BY <1>1
  <2> QED BY <2>1, <2>2, <2>3, SMTT(60)
<1> HIDE DEF x, y
<1>4. u \in Seq(Events) /\ Len(u) = l /\ \A i \in 1..l : u[i] = s[i]
  <2>1. u \in Seq(Events) /\ Len(u) = n + (l - n) /\ n + (l - n) = l
    BY <1>1, <1>2, <1>3
  <2>2. ASSUME NEW i \in 1..l  PROVE u[i] = s[i]
    <3>1. CASE i <= n
      BY <1>1, <1>2, <1>3, <3>1
    <3>2. CASE i > n
      <4>1. i - n \in 1..(l - n) /\ n + (i - n) = i
        BY <1>1, <3>2
      <4>2. u[i] = y[i - n]
        BY <1>1, <1>2, <1>3, <3>2
      <4>3. y[i - n] = s[n + (i - n)]
        BY <1>3, <4>1
      <4>4. s[n + (i - n)] = s[i]
        BY <4>1
      <4> QED BY <4>2, <4>3, <4>4
    <3>3. i <= n \/ i > n
      BY <1>1
    <3> QED BY <3>1, <3>2, <3>3
  <2> QED BY <2>1, <2>2
<1>5. u = s
  <2> HIDE DEF u
  <2>1. Len(u) = Len(s) /\ \A i \in 1..Len(u) : u[i] = s[i]
    BY <1>4
  <2>2. u \in Seq(Events) /\ s \in Seq(Events)
    BY <1>4
  <2> QED BY ONLY <2>1, <2>2
<1> QED BY <1>5 DEF x, y

\* At first the log is empty.
LEMMA InitHolds == Init => IInv
<1> SUFFICES ASSUME Init  PROVE IInv
  OBVIOUS
<1>1. <<>> \in Seq(Events) /\ <<>> \in Seq(Calls) /\ <<>> \in Seq(Messages) /\ Range(<<>>) = {} /\ Len(<<>>) = 0
  BY DEF Range
<1>2. Whole = <<>>
  BY DEF Whole, Init
<1>3. LogsAreGood
  BY <1>1, <1>2, GoodOfNone DEF Init, LogsAreGood
<1>4. /\ Trace(<<>>) = Grammar!FreshTrace /\ Opened(<<>>) = NothingOpen /\ LastTurn(<<>>) = 0
      /\ Replayed(<<>>) = EmptyInbox
  BY TraceOfNone, OpenedOfNone, LastTurnOfNone, ReplayedOfNone
<1>5. ~HasAnswer(<<>>)
  BY <1>1 DEF HasAnswer
<1>6. At(<<>>, 0, 0, Trace(<<>>).nextStep, FALSE, <<>>, {})
  BY <1>4, <1>5 DEF At, NothingOpen, Grammar!FreshTrace, Grammar!Closed
<1>7. EmptyInbox \in Inboxes
  BY <1>1 DEF EmptyInbox, Inboxes
<1>8. TypeOK
  <2>1. mode = "live" /\ stored \in 0..Len(log) /\ damaged = FALSE /\ torn = <<>> /\ mark \in 0..Len(log)
    <3>1. log = <<>> /\ stored = 0 /\ mark = 0 /\ mode = "live" /\ damaged = FALSE /\ torn = <<>>
      BY DEF Init
    <3> QED BY <1>1, <3>1
  <2>2. inbox \in Inboxes /\ batch \in Seq(Messages) /\ Range(calls) = {}
    BY <1>1, <1>7 DEF Init
  <2>3. turn \in 0..MaxTurns /\ step \in 0..MaxSteps /\ crashes \in 0..MaxCrashes
    BY RecoveryBounds DEF Init
  <2>4. pc = "idle" /\ aborted = FALSE /\ started = {} /\ settled = {} /\ prompted = {} /\ ran = {}
    BY DEF Init
  <2> QED BY <2>1, <2>2, <2>3, <2>4 DEF TypeOK
<1>9. ModesFit
  BY DEF Init, ModesFit
<1>10. DriverFits
  BY <1>1, <1>4, <1>6 DEF Init, DriverFits
<1>11. BatchFits /\ EffectsAreStored
  BY DEF Init, BatchFits, EffectsAreStored
<1>12. ReportsAreRight
  BY <1>1, <1>2 DEF Init, ReportsAreRight
<1> QED BY <1>3, <1>8, <1>9, <1>10, <1>11, <1>12 DEF IInv

\* More of the log becomes durable.
LEMMA PersistKeeps ==
    ASSUME IInv, Persist
    PROVE  IInv'
<1>1. mode = "live" /\ stored' = Len(log) /\ UNCHANGED <<mode, log, damaged, torn, repair, agent, history>>
  BY DEF Persist
<1>2. /\ mode' = mode /\ damaged' = damaged /\ torn' = torn /\ repair' = repair
      /\ log' = log /\ inbox' = inbox /\ turn' = turn /\ step' = step /\ pc' = pc /\ batch' = batch
      /\ aborted' = aborted /\ mark' = mark /\ calls' = calls /\ started' = started /\ settled' = settled
      /\ prompted' = prompted /\ ran' = ran /\ broken' = broken /\ crashes' = crashes
  BY <1>1 DEF agent, tools, history
<1>3. /\ log \in Seq(Events) /\ Len(log) \in Nat /\ SubSeq(log, 1, Len(log)) = log
  BY WholeLog DEF IInv
<1>4. TypeOK'
  BY <1>1, <1>2, <1>3 DEF IInv, TypeOK
<1>5. LogsAreGood' /\ ModesFit' /\ BatchFits' /\ ReportsAreRight'
  <2>1. Whole' = Whole
    BY <1>2 DEF Whole
  <2> QED BY <1>2, <2>1 DEF IInv, LogsAreGood, ModesFit, BatchFits, ReportsAreRight
<1>6. DriverFits'
  BY <1>2 DEF IInv, DriverFits
<1>7. EffectsAreStored'
  <2>1. stored \in 0..Len(log)
    BY DEF IInv, TypeOK
  <2>2. Range(SubSeq(log, 1, stored)) \subseteq Range(log)
    BY <1>3, <2>1, FrontIsIn
  <2> QED BY <1>1, <1>2, <1>3, <2>2 DEF IInv, EffectsAreStored
<1> QED BY <1>4, <1>5, <1>6, <1>7 DEF IInv

\* What a death leaves of a log is the front of what it would have been.
LEMMA DiesKeeps ==
    ASSUME IInv, NEW kept \in Seq(Events), NEW bytes \in Seq(Events), Whole = kept \o bytes,
           Range(SubSeq(log, 1, stored)) \subseteq Range(kept), crashes < MaxCrashes, Dies(kept, bytes)
    PROVE  IInv'
<1>1. PICK n \in 0..Len(bytes) :
         \/ log' = kept \o SubSeq(bytes, 1, n) /\ torn' = <<>> /\ damaged' \in BOOLEAN
         \/ log' = kept /\ torn' = SubSeq(bytes, 1, n) /\ damaged' = TRUE
  BY DEF Dies
<1>2. /\ mode' = "closed" /\ stored' = Len(log') /\ repair' = <<>>
      /\ inbox' = EmptyInbox /\ turn' = 0
      /\ step' = 0 /\ pc' = "idle" /\ batch' = <<>> /\ aborted' = FALSE /\ mark' = 0
      /\ calls' = <<>> /\ started' = {} /\ settled' = {}
      /\ crashes' = crashes + 1 /\ prompted' = prompted /\ ran' = ran /\ broken' = broken
  BY DEF Dies, Rested
<1> DEFINE part == SubSeq(bytes, 1, n)
<1>3. part \in Seq(Events) /\ Range(part) \subseteq Range(bytes)
  BY FrontIsIn
<1>14. kept \o part \in Seq(Events) /\ Range(kept \o part) = Range(kept) \cup Range(part)
  <2> HIDE DEF part
  <2> QED BY <1>3, ConcatFacts
<1>4. /\ log' \in Seq(Events) /\ torn' \in Seq(Events) /\ repair' \in Seq(Events)
      /\ Whole' = kept \o part /\ Range(kept) \subseteq Range(log')
  <2>1. /\ kept \o part \in Seq(Events) /\ <<>> \in Seq(Events)
        /\ Range(kept \o part) = Range(kept) \cup Range(part)
    BY <1>14
  <2> DEFINE x == kept \o part
  <2>2. x \in Seq(Events)
    BY <2>1
  <2>3. log' \in Seq(Events) /\ torn' \in Seq(Events) /\ Range(kept) \subseteq Range(log') /\ log' \o torn' = x
    <3>1. x \o <<>> = x
      <4> HIDE DEF x
      <4> QED BY <2>2, WholeFacts
    <3>2. CASE log' = x /\ torn' = <<>>
      BY <2>1, <2>2, <3>1, <3>2
    <3>3. CASE log' = kept /\ torn' = part
      BY <1>3, <3>3
    <3> QED BY <1>1, <3>2, <3>3
  <2>4. x \o <<>> = x
    <3> HIDE DEF x
    <3> QED BY <2>2, WholeFacts
  <2>5. Whole' = (log' \o torn') \o repair'
    BY DEF Whole
  <2> QED BY <1>2, <2>1, <2>3, <2>4, <2>5
<1>5. Good(kept \o part, broken) /\ Range(kept \o part) \subseteq Range(Whole)
  <2>1. Good(kept \o bytes, broken)
    BY DEF IInv, LogsAreGood
  <2>2. Good(kept \o part, broken)
    BY <2>1, GoodBefore
  <2>3. Range(kept \o part) = Range(kept) \cup Range(part) /\ Range(kept \o bytes) = Range(kept) \cup Range(bytes)
    BY <1>14, ConcatFacts
  <2> QED BY <1>3, <2>2, <2>3
<1> HIDE DEF part
<1>6. LogsAreGood'
  BY <1>2, <1>4, <1>5 DEF LogsAreGood
<1>7. /\ Len(log') \in Nat /\ SubSeq(log', 1, Len(log')) = log'
  BY <1>4, WholeFacts
<1>8. TypeOK'
  <2>1. damaged' \in BOOLEAN /\ (torn' # <<>> => damaged')
    BY <1>1
  <2>2. /\ EmptyInbox \in Inboxes /\ <<>> \in Seq(Messages) /\ Range(<<>>) = {}
    <3>1. <<>> \in Seq(Messages)
      OBVIOUS
    <3> QED BY <3>1 DEF EmptyInbox, Inboxes, Range
  <2>3. crashes' \in 0..MaxCrashes
    BY <1>2, RecoveryBounds DEF IInv, TypeOK
  <2>4. stored' \in 0..Len(log') /\ mark' \in 0..Len(log') /\ turn' \in 0..MaxTurns /\ step' \in 0..MaxSteps
    BY <1>2, <1>7, RecoveryBounds
  <2>5. prompted' \subseteq Messages /\ ran' \subseteq Calls
    BY <1>2 DEF IInv, TypeOK
  <2> QED BY <1>2, <2>1, <2>2, <2>3, <2>4, <2>5 DEF TypeOK
<1>9. ModesFit'
  BY <1>2 DEF ModesFit
<1>10. DriverFits' /\ BatchFits'
  <2>1. <<>> \in Seq(Calls)
    OBVIOUS
  <2> QED BY <1>2, <2>1 DEF DriverFits, BatchFits
<1>11. EffectsAreStored'
  <2>1. SubSeq(log', 1, stored') = log'
    BY <1>2, <1>7
  <2> QED BY <1>2, <1>4, <2>1 DEF IInv, EffectsAreStored
<1>12. ReportsAreRight'
  BY <1>2, <1>4, <1>5 DEF IInv, ReportsAreRight
<1> QED BY <1>6, <1>8, <1>9, <1>10, <1>11, <1>12 DEF IInv

\* A crash cuts the log at the durable part or behind it, even in the middle of a line.
LEMMA CrashKeeps ==
    ASSUME IInv, Crash
    PROVE  IInv'
<1>1. crashes < MaxCrashes /\ stored \in 0..Len(log)
  BY DEF IInv, TypeOK, Crash
<1>2. /\ log \in Seq(Events) /\ repair \in Seq(Events) /\ Len(log) \in Nat
      /\ torn = <<>> => Whole = log \o repair
  BY WholeLog DEF IInv
<1>3. CASE mode = "live" /\ Dies(SubSeq(log, 1, stored), SubSeq(log, stored + 1, Len(log)))
  <2> DEFINE kept == SubSeq(log, 1, stored)
             bytes == SubSeq(log, stored + 1, Len(log))
  <2>1. kept \in Seq(Events) /\ bytes \in Seq(Events)
    BY <1>1, <1>2
  <2>2. kept \o bytes = log
    BY <1>1, <1>2, FrontAndRest
  <2>3. Whole = log
    BY <1>3, LiveFacts
  <2> HIDE DEF bytes
  <2> QED BY <1>1, <1>3, <2>1, <2>2, <2>3, DiesKeeps DEF bytes
<1>4. CASE mode = "repairing" /\ Dies(log, repair)
  <2>1. Whole = log \o repair
    BY <1>2, <1>4 DEF IInv, ModesFit
  <2>2. Range(SubSeq(log, 1, stored)) \subseteq Range(log)
    BY <1>1, <1>2, FrontIsIn
  <2> QED BY <1>1, <1>2, <1>4, <2>1, <2>2, DiesKeeps
<1> QED BY <1>3, <1>4 DEF Crash

\* The next load takes over a log that needs no repair, or drafts one.
LEMMA ResumeKeeps ==
    ASSUME IInv, Resume
    PROVE  IInv'
<1>1. /\ mode = "closed" /\ ~damaged /\ Closers(log) = <<>> /\ mode' = "live"
      /\ inbox' = Replayed(log) /\ turn' = LastTurn(log)
      /\ log' = log /\ stored' = stored /\ damaged' = damaged /\ torn' = torn /\ repair' = repair
      /\ step' = step /\ pc' = pc /\ batch' = batch /\ aborted' = aborted /\ mark' = mark
      /\ calls' = calls /\ started' = started /\ settled' = settled
      /\ prompted' = prompted /\ ran' = ran /\ broken' = broken /\ crashes' = crashes
  BY DEF Resume, tools, history
<1>2. torn = <<>> /\ repair = <<>> /\ pc = "idle"
  BY <1>1 DEF IInv, TypeOK, ModesFit
<1>3. /\ log \in Seq(Events) /\ Good(log, broken) /\ Whole = log
  <2>1. log \in Seq(Events) /\ Whole = log \o repair /\ Good(Whole, broken)
    BY <1>2, WholeLog DEF IInv
  <2>2. log \o <<>> = log
    BY <2>1, WholeFacts
  <2> QED BY <1>2, <2>1, <2>2
<1>4. Fit(log, broken) /\ Trace(log).openTurn = 0
  BY <1>1, <1>3, GoodFits, ClosersClose
<1>5. At(log, 0, 0, Trace(log).nextStep, FALSE, <<>>, {})
  <2>1. /\ At(log, Trace(log).openTurn, Trace(log).openStep, Trace(log).nextStep, HasAnswer(log),
              Opened(log).asked, Opened(log).begun)
        /\ Trace(log).openStep = 0 /\ Opened(log).asked = <<>> /\ Opened(log).begun = {} /\ ~HasAnswer(log)
    BY <1>3, <1>4, SomewhereAt
  <2> QED BY <1>4, <2>1 DEF At
<1>6. Tells(log, <<>>, broken, inbox', turn') /\ log \o <<>> = log
  BY <1>1, <1>3, TellsNone
<1>7. inbox' \in Inboxes /\ turn' \in 0..MaxTurns
  BY <1>6, TellsLog
<1>8. TypeOK'
  BY <1>1, <1>7 DEF IInv, TypeOK
<1>9. LogsAreGood' /\ ModesFit' /\ BatchFits' /\ EffectsAreStored'
  <2>1. Whole' = Whole
    BY <1>1 DEF Whole
  <2> QED BY <1>1, <1>2, <2>1 DEF IInv, LogsAreGood, ModesFit, BatchFits, EffectsAreStored
<1>10. DriverFits'
  <2>1. /\ calls \in Seq(Calls) /\ started \subseteq Range(calls) \cup settled
        /\ calls = <<>> /\ started = {}
    BY <1>2 DEF IInv, DriverFits
  <2> QED BY <1>1, <1>2, <1>5, <2>1 DEF DriverFits
<1>11. ReportsAreRight'
  <2>1. Whole' = Whole
    BY <1>1 DEF Whole
  <2>2. ASSUME NEW e \in Range(log), e.type = "tool/not-started"
        PROVE  ~IsOpen(Trace(log), e.turn, e.step)
    <3>1. e.type \in Within
      BY <2>2 DEF Within
    <3>2. e.turn >= 1 /\ e \in Events
      <4>1. e.turn >= 1
        BY <1>4, <3>1 DEF Fit, EventsArePlaced
      <4> QED BY <1>3, <4>1, WholeFacts
    <3>3. e.turn \in 0..MaxTurns
      BY <3>2 DEF Events
    <3>4. e.turn # 0
      BY <3>2, <3>3
    <3> QED BY <1>4, <3>4 DEF IsOpen
  <2> QED BY <1>1, <2>1, <2>2 DEF IInv, ReportsAreRight
<1> QED BY <1>8, <1>9, <1>10, <1>11 DEF IInv

\* The repair cuts the torn tail first.
LEMMA TruncateKeeps ==
    ASSUME IInv, Truncate
    PROVE  IInv'
<1>1. /\ mode = "closed" /\ mode' = "repairing" /\ repair' = torn \o Closers(log \o torn)
      /\ damaged' = FALSE /\ torn' = <<>>
      /\ log' = log /\ stored' = stored /\ inbox' = inbox /\ turn' = turn
      /\ step' = step /\ pc' = pc /\ batch' = batch /\ aborted' = aborted /\ mark' = mark
      /\ calls' = calls /\ started' = started /\ settled' = settled
      /\ prompted' = prompted /\ ran' = ran /\ broken' = broken /\ crashes' = crashes
  BY DEF Truncate, RepairEvents, TruncatedTail, agent, tools, history
<1>2. repair = <<>> /\ pc = "idle"
  BY <1>1 DEF IInv, ModesFit
<1>3. log \in Seq(Events) /\ torn \in Seq(Events) /\ Whole = log \o torn /\ Good(Whole, broken)
  BY <1>2, WholeLog DEF IInv
<1> DEFINE c == Closers(Whole)
<1>4. /\ c \in Seq(Events) /\ Good(Whole \o c, broken) /\ Closers(Whole \o c) = <<>>
  BY <1>3, ClosersClose
<1>5. repair' = torn \o c /\ c = Closers(log \o torn)
  BY <1>1, <1>3
<1>6. \A e \in Range(c) : e.type = "tool/not-started" =>
          \E x \in Calls : e = ToolNotStarted(x) /\ ToolCall(x) \notin Range(Whole)
  BY <1>3, ClosersAreRight
<1> HIDE DEF c
<1>7. /\ repair' \in Seq(Events) /\ log \o repair' = Whole \o c
      /\ Range(Whole \o c) = Range(Whole) \cup Range(c)
  <2>1. torn \o c \in Seq(Events) /\ log \o (torn \o c) = (log \o torn) \o c
    BY <1>3, <1>4
  <2>2. Whole \in Seq(Events)
    BY WholeLog DEF IInv
  <2>3. Range(Whole \o c) = Range(Whole) \cup Range(c)
    BY <1>4, <2>2, ConcatFacts
  <2> QED BY <1>3, <1>5, <2>1, <2>3
<1>8. Whole' = Whole \o c
  <2>1. log \o <<>> = log
    BY <1>3, WholeFacts
  <2>2. Whole' = (log' \o torn') \o repair'
    BY DEF Whole
  <2> QED BY <1>1, <1>7, <2>1, <2>2
<1>9. LogsAreGood'
  <2>1. <<>> \in Seq(Events)
    OBVIOUS
  <2> QED BY <1>1, <1>3, <1>4, <1>7, <1>8, <2>1 DEF LogsAreGood
<1>10. ModesFit'
  <2>1. Closers(log' \o repair') = <<>>
    BY <1>1, <1>4, <1>7
  <2> QED BY <1>1, <1>2, <2>1 DEF ModesFit
<1>11. TypeOK'
  BY <1>1 DEF IInv, TypeOK
<1>12. DriverFits' /\ BatchFits' /\ EffectsAreStored'
  BY <1>1, <1>2 DEF IInv, DriverFits, BatchFits, EffectsAreStored
<1>13. ReportsAreRight'
  <2>1. ASSUME NEW e \in Range(c), e.type = "tool/not-started"
        PROVE  \E x \in Calls \ ran : e = ToolNotStarted(x)
    <3>1. PICK x \in Calls : e = ToolNotStarted(x) /\ ToolCall(x) \notin Range(Whole)
      BY <1>6, <2>1
    <3>2. x \notin ran
      <4>1. Range(SubSeq(log, 1, stored)) \subseteq Range(log)
        <5>1. stored \in 0..Len(log)
          BY DEF IInv, TypeOK
        <5> QED BY <1>3, <5>1, FrontIsIn
      <4>2. Range(log) \subseteq Range(Whole)
        BY WholeLog DEF IInv
      <4> QED BY <3>1, <4>1, <4>2 DEF IInv, EffectsAreStored
    <3> QED BY <3>1, <3>2
  <2> QED BY <1>1, <1>7, <1>8, <2>1 DEF IInv, ReportsAreRight
<1> QED BY <1>9, <1>10, <1>11, <1>12, <1>13 DEF IInv

\* The repair then stores its closers, and the session goes on.
LEMMA AppendRepairKeeps ==
    ASSUME IInv, AppendRepair
    PROVE  IInv'
<1>1. /\ mode = "repairing" /\ log' = log \o repair /\ stored' = Len(log') /\ repair' = <<>> /\ mode' = "closed"
      /\ damaged' = damaged /\ torn' = torn /\ inbox' = inbox /\ turn' = turn
      /\ step' = step /\ pc' = pc /\ batch' = batch /\ aborted' = aborted /\ mark' = mark
      /\ calls' = calls /\ started' = started /\ settled' = settled
      /\ prompted' = prompted /\ ran' = ran /\ broken' = broken /\ crashes' = crashes
  BY DEF AppendRepair, agent, tools, history
<1>2. torn = <<>> /\ pc = "idle" /\ ~damaged
  BY <1>1 DEF IInv, ModesFit
<1>3. log \in Seq(Events) /\ repair \in Seq(Events) /\ Whole = log \o repair /\ Whole \in Seq(Events)
  BY <1>2, WholeLog DEF IInv
<1>4. /\ Len(log) \in Nat /\ Len(repair) \in Nat /\ Len(log') = Len(log) + Len(repair)
      /\ Range(log) \subseteq Range(log')
  <2>1. Len(log \o repair) = Len(log) + Len(repair) /\ Range(log \o repair) = Range(log) \cup Range(repair)
    BY <1>3, ConcatFacts
  <2> QED BY <1>1, <1>3, <2>1
<1>5. Whole' = Whole /\ log' = Whole
  <2>1. Whole \o <<>> = Whole
    BY <1>3, WholeFacts
  <2>2. Whole' = (log' \o torn') \o repair'
    BY DEF Whole
  <2> QED BY <1>1, <1>2, <1>3, <2>1, <2>2
<1>6. LogsAreGood'
  <2>1. <<>> \in Seq(Events)
    OBVIOUS
  <2> QED BY <1>1, <1>2, <1>3, <1>5, <2>1 DEF IInv, LogsAreGood
<1>7. ModesFit'
  BY <1>1, <1>2 DEF ModesFit
<1>8. TypeOK'
  <2>1. stored' \in 0..Len(log') /\ mark' \in 0..Len(log')
    <3>1. mark \in 0..Len(log)
      BY DEF IInv, TypeOK
    <3> QED BY <1>1, <1>4, <3>1
  <2> QED BY <1>1, <2>1 DEF IInv, TypeOK
<1>9. DriverFits' /\ BatchFits'
  BY <1>1, <1>2 DEF IInv, DriverFits, BatchFits
<1>10. EffectsAreStored'
  <2>1. SubSeq(log', 1, stored') = log'
    BY <1>1, <1>3, <1>5, WholeFacts
  <2>2. Range(SubSeq(log, 1, stored)) \subseteq Range(log')
    <3>1. stored \in 0..Len(log)
      BY DEF IInv, TypeOK
    <3> QED BY <1>3, <1>4, <3>1, FrontIsIn
  <2> QED BY <1>1, <2>1, <2>2 DEF IInv, EffectsAreStored
<1>11. ReportsAreRight'
  BY <1>1, <1>5 DEF IInv, ReportsAreRight
<1> QED BY <1>6, <1>7, <1>8, <1>9, <1>10, <1>11 DEF IInv

-----------------------------------------------------------------------------
(***************************************************************************)
(* Every step keeps the invariant, and what follows from it.               *)
(***************************************************************************)
-----------------------------------------------------------------------------
\* Every step keeps the inductive invariant.
LEMMA NextKeeps ==
    ASSUME IInv, [Next]_vars
    PROVE  IInv'
<1>1. CASE UNCHANGED vars
  <2>1. /\ mode' = mode /\ stored' = stored /\ damaged' = damaged /\ torn' = torn /\ repair' = repair
        /\ log' = log /\ inbox' = inbox /\ turn' = turn /\ step' = step /\ pc' = pc /\ batch' = batch
        /\ aborted' = aborted /\ mark' = mark /\ calls' = calls /\ started' = started /\ settled' = settled
        /\ prompted' = prompted /\ ran' = ran /\ broken' = broken /\ crashes' = crashes
    BY <1>1 DEF vars, store, agent, tools, history
  <2>2. Whole' = Whole
    BY <2>1 DEF Whole
  <2>3. TypeOK' /\ LogsAreGood' /\ ModesFit' /\ BatchFits'
    BY <2>1, <2>2 DEF IInv, TypeOK, LogsAreGood, ModesFit, BatchFits
  <2>4. DriverFits' /\ EffectsAreStored' /\ ReportsAreRight'
    BY <2>1, <2>2 DEF IInv, DriverFits, EffectsAreStored, ReportsAreRight
  <2> QED BY <2>3, <2>4 DEF IInv
<1>2. CASE Callers
  <2>1. ASSUME NEW m \in Messages, NEW target \in Targets, Send(m, target)  PROVE IInv'
    BY <2>1, SendKeeps
  <2>2. ASSUME NEW m \in Messages, NEW target \in Targets, NEW i \in DOMAIN inbox[target],
               Replace(target, i, m)
        PROVE IInv'
    BY <2>2, ReplaceKeeps
  <2>3. ASSUME NEW keepInbox \in BOOLEAN, Cancel(keepInbox)  PROVE IInv'
    BY <2>3, CancelKeeps
  <2> QED BY <1>2, <2>1, <2>2, <2>3 DEF Callers
<1>3. CASE Driver
  <2>1. CASE OpenTurn
    BY <2>1, OpenTurnKeeps
  <2>2. CASE EnterStep
    BY <2>2, EnterStepKeeps
  <2>3. CASE AskModel
    BY <2>3, AskModelKeeps
  <2>4. CASE FailStep
    BY <2>4, FailStepKeeps
  <2>5. CASE Finish
    BY <2>5, FinishKeeps
  <2>6. CASE AskTools
    BY <2>6, AskToolsKeeps
  <2>7. ASSUME NEW why \in {"aborted", "error", "completed"}, EndBeforeStep(why)  PROVE IInv'
    BY <2>7, EndBeforeStepKeeps
  <2>8. CASE StartCall
    BY <2>8, StartCallKeeps
  <2>9. CASE Commit
    BY <2>9, CommitKeeps
  <2>10. CASE SchedulerFails
    BY <2>10, SchedulerFailsKeeps
  <2>11. ASSUME NEW c \in Calls, RunBody(c)  PROVE IInv'
    BY <2>11, RunBodyKeeps
  <2>12. ASSUME NEW c \in Calls, RefuseBody(c)  PROVE IInv'
    BY <2>12, RefuseBodyKeeps
  <2>13. ASSUME NEW concluded \in BOOLEAN, FinishTools(concluded)  PROVE IInv'
    BY <2>13, FinishToolsKeeps
  <2> QED
    BY <1>3, <2>1, <2>2, <2>3, <2>4, <2>5, <2>6, <2>7, <2>8, <2>9, <2>10, <2>11, <2>12, <2>13 DEF Driver
<1>4. CASE Opening
  <2>1. CASE Resume
    BY <2>1, ResumeKeeps
  <2>2. CASE Truncate
    BY <2>2, TruncateKeeps
  <2>3. CASE AppendRepair
    BY <2>3, AppendRepairKeeps
  <2> QED BY <1>4, <2>1, <2>2, <2>3 DEF Opening
<1>5. CASE Persist
  BY <1>5, PersistKeeps
<1>6. CASE Crash
  BY <1>6, CrashKeeps
<1> QED BY <1>1, <1>2, <1>3, <1>4, <1>5, <1>6 DEF Next

\* The inductive invariant holds throughout.
LEMMA IInvHolds == Spec => []IInv
<1>1. Init => IInv
  BY InitHolds
<1>2. IInv /\ [Next]_vars => IInv'
  BY NextKeeps
<1> QED BY <1>1, <1>2, PTL DEF Spec

-----------------------------------------------------------------------------
(***************************************************************************)
(* What the invariant implies.                                             *)
(***************************************************************************)
\* What is so of the log itself.
LEMMA LogIsGood ==
    ASSUME IInv
    PROVE  Good(log, broken) /\ Fit(log, broken) /\ log \in Seq(Events)
<1>1. /\ log \in Seq(Events) /\ torn \in Seq(Events) /\ repair \in Seq(Events)
      /\ Good((log \o torn) \o repair, broken)
  BY DEF IInv, LogsAreGood, Whole
<1>2. log \o torn \in Seq(Events)
  BY <1>1
<1>3. Good(log \o torn, broken)
  <2> DEFINE x == log \o torn
  <2>1. x \in Seq(Events) /\ Good(x \o repair, broken)
    BY <1>1, <1>2
  <2> HIDE DEF x
  <2>2. Good(x, broken)
    BY <1>1, <2>1, GoodBefore
  <2> QED BY <2>2 DEF x
<1>4. Good(log, broken)
  BY <1>1, <1>3, GoodBefore
<1> QED BY <1>1, <1>4, GoodFits

\* RepairedLogIsLegal from the inductive invariant.
LEMMA LogIsLegal ==
    ASSUME IInv
    PROVE  RepairedLogIsLegal
<1>1. Accepted(log)
  BY LogIsGood, GoodIsAccepted
<1>2. ASSUME mode = "live", pc = "idle"
      PROVE  Trace(log).openTurn = 0 /\ Trace(log).nextTurn = turn + 1
  <2>1. Trace(log).openTurn = 0 /\ turn = LastTurn(log)
    BY <1>2 DEF IInv, DriverFits, At
  <2>2. /\ LastTurn(log) = Trace(log).nextTurn - 1 /\ Trace(log).nextTurn \in 1..(MaxTurns + 1)
    BY <2>1, LogIsGood, SomewhereAt
  <2>3. Trace(log).nextTurn = turn + 1
    BY <2>1, <2>2, RecoveryBounds
  <2> QED BY <2>1, <2>3
<1> QED BY <1>1, <1>2 DEF RepairedLogIsLegal, Grammar!Closed

\* A step that has ended is over.
LEMMA EndedIsOver ==
    ASSUME NEW p \in Seq(Events), FoldsAgree(p), EventsArePlaced(p),
           NEW t \in 1..MaxTurns, NEW s \in 1..MaxSteps, StepEnd(t, s) \in Range(p)
    PROVE  ~IsOpen(Trace(p), t, s)
<1> DEFINE at == Trace(p)
           d == StepEnd(t, s)
<1>1. d.type = "step/end" /\ d.turn = t /\ d.step = s
  BY DEF StepEnd, Plain, Grammar!StepEnd, Grammar!Event
<1>2. d.type \in Within
  BY <1>1 DEF Within
<1>3. Over(at, t, s)
  <2> HIDE DEF d
  <2>1. Over(at, d.turn, d.step)
    BY <1>1, <1>2 DEF EventsArePlaced, d
  <2> QED BY <1>1, <2>1
<1>4. /\ at \in Grammar!Traces
      /\ at.openTurn # 0 => at.openTurn = at.nextTurn
      /\ at.openStep # 0 => at.openStep = at.nextStep
  BY DEF FoldsAgree
<1>5. at.openTurn \in Nat /\ at.openStep \in Nat /\ at.nextTurn \in Nat /\ at.nextStep \in Nat
  BY <1>4 DEF Grammar!Traces
<1> HIDE DEF at, d
<1>6. SUFFICES ASSUME IsOpen(at, t, s)  PROVE FALSE
  BY DEF at
<1>7. t = at.openTurn /\ s = at.openStep /\ t # 0 /\ s # 0 /\ t \in Nat /\ s \in Nat
  BY <1>6, RecoveryBounds DEF IsOpen
<1>8. t = at.nextTurn /\ s = at.nextStep
  BY <1>4, <1>7
<1>9. ~(t < at.nextTurn) /\ ~(s < at.nextStep)
  BY <1>7, <1>8
<1> QED BY <1>3, <1>9 DEF Over

\* EveryAskedCallAnswered from the inductive invariant.
LEMMA AskedIsAnswered ==
    ASSUME IInv
    PROVE  EveryAskedCallAnswered
<1> SUFFICES ASSUME NEW e \in Range(log), e.type = "assistant/message", StepEnd(e.turn, e.step) \in Range(log),
                    <<e.turn, e.step>> \notin broken
             PROVE  ResultsOf(log, e.turn, e.step) = [i \in DOMAIN e.asks |-> {e.asks[i]}]
  BY DEF EveryAskedCallAnswered
<1>1. log \in Seq(Events) /\ FoldsAgree(log) /\ EventsArePlaced(log) /\ ResultsFit(log, broken)
  BY LogIsGood DEF Fit
<1>2. e \in Events
  BY <1>1, WholeFacts
<1>3. e.turn \in 1..MaxTurns /\ e.step \in 1..MaxSteps
  <2>1. e.turn >= 1 /\ e.step >= 1
    <3>1. e.type \in Within
      BY DEF Within
    <3> QED BY <1>1, <3>1 DEF EventsArePlaced
  <2>2. e.turn \in 0..MaxTurns /\ e.step \in 0..MaxSteps
    BY <1>2 DEF Events
  <2> QED BY <2>1, <2>2, RecoveryBounds
<1>4. ~IsOpen(Trace(log), e.turn, e.step)
  BY <1>1, <1>3, EndedIsOver
<1>5. ResultsOf(log, e.turn, e.step) = Singles(e.asks)
  BY <1>1, <1>4 DEF ResultsFit
<1> QED BY <1>5 DEF Singles

\* EffectsStay from the inductive invariant.
LEMMA StoredIsLogged ==
    ASSUME IInv
    PROVE  EffectsStay
<1>1. log \in Seq(Events) /\ stored \in 0..Len(log)
  BY DEF IInv, LogsAreGood, TypeOK
<1>2. Range(SubSeq(log, 1, stored)) \subseteq Range(log)
  BY <1>1, FrontIsIn
<1> QED BY <1>2 DEF IInv, EffectsAreStored, EffectsStay

\* EffectsAreRemembered from the inductive invariant.
LEMMA ReportsAgree ==
    ASSUME IInv
    PROVE  EffectsAreRemembered
<1>1. ASSUME NEW e \in Range(log), e.type = "tool/not-started"
      PROVE  e.calls \cap ran = {}
  <2>1. e \in Range(Whole)
    BY WholeLog DEF IInv
  <2>2. PICK c \in Calls \ ran : e = ToolNotStarted(c)
    BY <1>1, <2>1 DEF IInv, ReportsAreRight
  <2>3. e.calls = {c}
    BY <2>2, CallEventFacts
  <2> QED BY <2>2, <2>3
<1>2. ASSUME mode = "live", NEW m \in prompted
      PROVE  m \notin Pending(inbox)
  <2>1. m \in Messages /\ UserMessage(m) \in Range(log)
    BY StoredIsLogged DEF EffectsStay, IInv, TypeOK
  <2>2. inbox = Replayed(log) /\ InboxFits(log)
    BY <1>2, LogIsGood DEF IInv, DriverFits, Fit
  <2>3. UserMessage(m).type = "user/message" /\ UserMessage(m).inserted = <<m>>
    BY <2>1, UserMessageFacts
  <2>4. Range(UserMessage(m).inserted) \cap Pending(inbox) = {}
    BY <2>1, <2>2, <2>3 DEF InboxFits
  <2>5. m \in Range(<<m>>)
    BY DEF Range
  <2> QED BY <2>3, <2>4, <2>5
<1> QED BY <1>1, <1>2 DEF EffectsAreRemembered

-----------------------------------------------------------------------------
\* Wherever a crash falls, what the next load stores is a log the session's
\* grammar accepts; every call of a closed step has its one result in the model's
\* order, and a stored repair leaves nothing to repair.
THEOREM RecoveryIsSafe == Spec => []RecoveryInv
<1>1. IInv => RecoveryInv
  <2> SUFFICES ASSUME IInv  PROVE RecoveryInv
    OBVIOUS
  <2>1. TypeOK /\ RepairIsFinal
    BY DEF IInv, ModesFit, RepairIsFinal
  <2> QED BY <2>1, LogIsLegal, AskedIsAnswered DEF RecoveryInv
<1> QED BY <1>1, IInvHolds, PTL

\* The call of a body that has run and a prompt the model has been shown are in the
\* log after any number of crashes: the checkpoints made them durable first.
THEOREM EffectsSurvive == Spec => []EffectsStay
<1>1. IInv => EffectsStay
  BY StoredIsLogged
<1> QED BY <1>1, IInvHolds, PTL

\* A call that the repair reports as not started has not run, and a prompt the
\* model has been shown does not wait for a turn again.
THEOREM EffectsAreKnown == Spec => []EffectsAreRemembered
<1>1. IInv => EffectsAreRemembered
  BY ReportsAgree
<1> QED BY <1>1, IInvHolds, PTL

-----------------------------------------------------------------------------
(***************************************************************************)
(* foldConsumedWork.                                                       *)
(***************************************************************************)
\* The account of consumed work.
ConsumedWorkRun(s) ==
    CHOOSE g : g = [i \in 0..Len(s) |-> IF i = 0 THEN Unaccounted ELSE Account(g[i - 1], s[i])]

\* The value of the fold is the last of its run: the account of consumed work.
LEMMA ConsumedWorkIsRun == \A s : ConsumedWork(s) = ConsumedWorkRun(s)[Len(s)]
BY DEF ConsumedWork, Fold, Runs, ConsumedWorkRun

\* The run exists: every finite sequence has one.
LEMMA ConsumedWorkRuns ==
    ASSUME NEW s, Len(s) \in Nat
    PROVE  ConsumedWorkRun(s) = [i \in 0..Len(s) |-> IF i = 0 THEN Unaccounted ELSE Account(ConsumedWorkRun(s)[i - 1], s[i])]
<1> DEFINE Walks(n, g) == g = [i \in 0..n |-> IF i = 0 THEN Unaccounted ELSE Account(g[i - 1], s[i])]
           S == {n \in Nat : \E g : Walks(n, g)}
<1>1. 0 \in S
  <2>1. Walks(0, [i \in 0..0 |-> Unaccounted])
    OBVIOUS
  <2> QED BY <2>1
<1>2. ASSUME NEW n \in Nat, n \in S  PROVE n + 1 \in S
  <2>1. PICK g : Walks(n, g)
    BY <1>2
  <2> DEFINE last == Account(g[n], s[n + 1])
             h == [i \in 0..(n + 1) |-> IF i = n + 1 THEN last ELSE g[i]]
  <2>2. \A i \in 0..n : g[i] = IF i = 0 THEN Unaccounted ELSE Account(g[i - 1], s[i])
    BY <2>1
  <2>3. h[n + 1] = last /\ \A i \in 0..n : h[i] = g[i]
    OBVIOUS
  <2>4. h = [i \in 0..(n + 1) |-> h[i]]
    OBVIOUS
  <2> HIDE DEF h
  <2>5. \A i \in 0..(n + 1) : h[i] = IF i = 0 THEN Unaccounted ELSE Account(h[i - 1], s[i])
    <3> TAKE i \in 0..(n + 1)
    <3>1. CASE i = n + 1
      <4>1. i # 0 /\ i - 1 = n /\ h[i - 1] = g[n]
        BY <2>3, <3>1
      <4> QED BY <2>3, <3>1, <4>1
    <3>2. CASE i \in 0..n /\ i # 0
      <4>1. i - 1 \in 0..n
        BY <3>2
      <4>2. h[i] = g[i] /\ h[i - 1] = g[i - 1]
        BY <2>3, <3>2, <4>1
      <4> QED BY <2>2, <3>2, <4>2
    <3>3. CASE i = 0
      BY <2>2, <2>3, <3>3
    <3> QED BY <3>1, <3>2, <3>3
  <2> HIDE DEF last
  <2>6. [i \in 0..(n + 1) |-> h[i]] = [i \in 0..(n + 1) |-> IF i = 0 THEN Unaccounted ELSE Account(h[i - 1], s[i])]
    BY <2>5
  <2>7. h = [i \in 0..(n + 1) |-> IF i = 0 THEN Unaccounted ELSE Account(h[i - 1], s[i])]
    BY <2>4, <2>6, Zenon
  <2>8. Walks(n + 1, h)
    BY <2>7
  <2>9. \E g2 : Walks(n + 1, g2)
    BY <2>8, Zenon
  <2> HIDE DEF Walks
  <2> QED BY <2>9
<1>3. Len(s) \in S
  <2> HIDE DEF S
  <2> QED BY <1>1, <1>2, SetInduction
<1>4. PICK g : Walks(Len(s), g)
  BY <1>3
<1> QED BY <1>4 DEF ConsumedWorkRun

\* Over the empty sequence the fold is its base.
LEMMA ConsumedWorkOfNone == ConsumedWork(<<>>) = Unaccounted
<1>1. Len(<<>>) = 0 /\ 0 \in Nat /\ 0 \in 0..0
  OBVIOUS
<1> DEFINE s == <<>>
           f == ConsumedWorkRun(s)
<1>a. Len(s) = 0
  BY <1>1
<1> HIDE DEF s
<1>b. f = [i \in 0..Len(s) |-> IF i = 0 THEN Unaccounted ELSE Account(f[i - 1], s[i])]
  BY <1>1, <1>a, ConsumedWorkRuns
<1> HIDE DEF f
<1>c. f[0] = Unaccounted
  BY <1>1, <1>a, <1>b
<1>2. ConsumedWorkRun(<<>>)[0] = Unaccounted
  BY <1>c DEF f, s
<1> QED BY <1>1, <1>2, ConsumedWorkIsRun

\* One more element is one more step of the fold.
LEMMA ConsumedWorkUnfolds ==
    ASSUME NEW E, NEW s \in Seq(E), NEW e \in E
    PROVE  ConsumedWork(Append(s, e)) = Account(ConsumedWork(s), e)
<1> DEFINE t == Append(s, e)
           n == Len(s)
           f == ConsumedWorkRun(s)
           g == ConsumedWorkRun(t)
           S == {i \in Nat : i <= n => f[i] = g[i]}
<1>1. n \in Nat /\ Len(t) = n + 1 /\ t[n + 1] = e /\ \A i \in 1..n : t[i] = s[i]
  OBVIOUS
<1> HIDE DEF t
<1>2. f = [i \in 0..n |-> IF i = 0 THEN Unaccounted ELSE Account(f[i - 1], s[i])]
  BY <1>1, ConsumedWorkRuns
<1>3. g = [i \in 0..(n + 1) |-> IF i = 0 THEN Unaccounted ELSE Account(g[i - 1], t[i])]
  BY <1>1, ConsumedWorkRuns
<1> HIDE DEF f, g, n
<1>4. 0 \in S
  BY <1>1, <1>2, <1>3
<1>5. ASSUME NEW i \in Nat, i \in S  PROVE i + 1 \in S
  <2>1. SUFFICES ASSUME i + 1 <= n  PROVE f[i + 1] = g[i + 1]
    OBVIOUS
  <2>2. /\ i \in 0..n /\ i + 1 \in 0..n /\ i + 1 \in 0..(n + 1) /\ i + 1 \in 1..n
        /\ i + 1 # 0 /\ (i + 1) - 1 = i
    BY <1>1, <2>1
  <2>3. f[i] = g[i] /\ t[i + 1] = s[i + 1]
    BY <1>1, <1>5, <2>2
  <2>4. f[i + 1] = Account(f[i], s[i + 1])
    BY <1>2, <2>2
  <2>5. g[i + 1] = Account(g[i], t[i + 1])
    BY <1>3, <2>2
  <2> QED BY <2>3, <2>4, <2>5
<1>6. f[n] = g[n]
  <2>1. n \in S
    <3> HIDE DEF S
    <3> QED BY <1>1, <1>4, <1>5, SetInduction
  <2> QED BY <1>1, <2>1
<1>7. g[n + 1] = Account(g[n], e)
  <2>1. n + 1 \in 0..(n + 1) /\ n + 1 # 0 /\ (n + 1) - 1 = n
    BY <1>1
  <2>2. g[n + 1] = Account(g[n], t[n + 1])
    BY <1>3, <2>1
  <2> QED BY <1>1, <2>2
<1>8. ConsumedWork(s) = f[n] /\ ConsumedWork(t) = g[n + 1]
  BY <1>1, ConsumedWorkIsRun DEF f, g, n
<1>9. ConsumedWork(t) = Account(ConsumedWork(s), e)
  BY <1>6, <1>7, <1>8
<1> QED BY <1>9 DEF t

\* What the account may hold.
Works == [at : Nat, end : Nat, open : Nat, stepped : SUBSET Nat, claimed : SUBSET Nat, dropped : BOOLEAN]

\* What one event does to the account.
LEMMA AccountFacts ==
    ASSUME NEW acc \in Works, NEW e \in Events, NEW new, new = Account(acc, e)
    PROVE  /\ new \in Works /\ new.at = acc.at + 1
           /\ new.open = (IF e.type = "turn/start" THEN e.turn ELSE IF e.type = "turn/end" THEN 0 ELSE acc.open)
           /\ new.end = acc.end \/ new.end = acc.at + 1
           /\ (acc.dropped => new.dropped) \/ new.end = acc.at + 1
           /\ acc.claimed \subseteq new.claimed
           /\ IsSplice(e) /\ e.removed > 0 /\ e.canceled /\ e.inserted = <<>> => new.dropped
           /\ IsSplice(e) /\ e.removed > 0 /\ ~e.canceled /\ acc.open # 0 => acc.open \in new.claimed
           /\ e.type = "turn/end" /\ e.turn \in acc.claimed /\ e.reason # "completed" => new.end = acc.at + 1
<1> DEFINE here == [acc EXCEPT !.at = @ + 1]
<1>1. /\ e.turn \in Nat /\ e.canceled \in BOOLEAN /\ e.removed \in Nat
  BY RecoveryBounds DEF Events
<1>2. /\ here \in Works /\ here.at = acc.at + 1 /\ here.end = acc.end /\ here.open = acc.open
      /\ here.stepped = acc.stepped /\ here.claimed = acc.claimed /\ here.dropped = acc.dropped
  BY DEF Works
<1>3. acc.open \in Nat /\ acc.claimed \in SUBSET Nat /\ acc.dropped \in BOOLEAN /\ acc.at + 1 \in Nat
  BY DEF Works
<1>4. CASE e.type = "turn/start"
  <2>1. new = [here EXCEPT !.open = e.turn]
    BY <1>4 DEF Account, IsSplice
  <2> HIDE DEF here
  <2> QED BY <1>1, <1>2, <1>3, <1>4, <2>1 DEF Works, IsSplice
<1>5. CASE e.type = "step/start"
  <2>1. new = [here EXCEPT !.stepped = @ \cup {e.turn}]
    BY <1>5 DEF Account, IsSplice
  <2> HIDE DEF here
  <2> QED BY <1>1, <1>2, <1>3, <1>5, <2>1 DEF Works, IsSplice
<1>6. CASE IsSplice(e)
  <2>1. e.type = "agent/inbox/spliced"
    BY <1>6 DEF IsSplice
  <2>2. CASE e.removed > 0 /\ e.canceled
    <3>1. new = [here EXCEPT !.dropped = @ \/ e.inserted = <<>>]
      BY <1>6, <2>1, <2>2 DEF Account
    <3> HIDE DEF here
    <3>2. new.dropped = (here.dropped \/ e.inserted = <<>>)
      BY <1>2, <3>1 DEF Works
    <3>3. (acc.dropped => new.dropped) /\ (e.inserted = <<>> => new.dropped)
      BY <1>2, <3>2
    <3>4. (here.dropped \/ e.inserted = <<>>) \in BOOLEAN
      OBVIOUS
    <3>5. /\ new.at = acc.at + 1 /\ new.end = acc.end /\ new.open = acc.open
          /\ new.stepped = acc.stepped /\ new.claimed = acc.claimed
      BY <1>2, <3>1 DEF Works
    <3>6. new \in Works
      BY <1>2, <3>1, <3>4 DEF Works
    <3> QED BY <2>1, <2>2, <3>3, <3>5, <3>6
  <2>3. CASE e.removed > 0 /\ ~e.canceled /\ acc.open # 0
    <3>1. new = [here EXCEPT !.claimed = @ \cup {acc.open}]
      BY <1>6, <2>1, <2>3 DEF Account
    <3> HIDE DEF here
    <3> QED BY <1>1, <1>2, <1>3, <2>1, <2>3, <3>1 DEF Works
  <2>4. CASE ~(e.removed > 0 /\ e.canceled) /\ ~(e.removed > 0 /\ ~e.canceled /\ acc.open # 0)
    <3>1. new = here
      BY <1>6, <2>1, <2>4 DEF Account
    <3> HIDE DEF here
    <3> QED BY <1>1, <1>2, <1>3, <2>1, <2>4, <3>1
  <2> QED BY <2>2, <2>3, <2>4
<1>7. CASE e.type = "turn/end"
  <2> DEFINE counts == \/ e.turn \in acc.stepped
                       \/ e.turn \in acc.claimed /\ AccountsForClaim(e.reason)
  <2>1. new = IF counts THEN [here EXCEPT !.open = 0, !.end = here.at, !.dropped = FALSE]
              ELSE [here EXCEPT !.open = 0]
    BY <1>7 DEF Account, IsSplice
  <2>2. e.turn \in acc.claimed /\ e.reason # "completed" => counts
    BY DEF AccountsForClaim
  <2> HIDE DEF here, counts
  <2>3. CASE counts
    <3>1. new = [here EXCEPT !.open = 0, !.end = here.at, !.dropped = FALSE]
      BY <2>1, <2>3
    <3>2. /\ new.open = 0 /\ new.end = acc.at + 1 /\ new.at = acc.at + 1
          /\ new.claimed = acc.claimed /\ new.stepped = acc.stepped /\ new.dropped = FALSE
      BY <1>2, <3>1 DEF Works
    <3>3. new \in Works
      <4> DEFINE k == [here EXCEPT !.open = 0, !.end = here.at]
      <4>1. k \in Works
        BY <1>2 DEF Works
      <4>2. new = [k EXCEPT !.dropped = FALSE]
        BY <1>2, <3>1 DEF Works
      <4> HIDE DEF k
      <4> QED BY <4>1, <4>2 DEF Works
    <3> QED BY <1>7, <3>2, <3>3 DEF IsSplice
  <2>4. CASE ~counts
    <3>1. new = [here EXCEPT !.open = 0]
      BY <2>1, <2>4
    <3> QED BY <1>2, <1>3, <1>7, <2>2, <2>4, <3>1 DEF Works, IsSplice
  <2> QED BY <2>3, <2>4
<1>8. CASE e.type \notin {"turn/start", "step/start", "agent/inbox/spliced", "turn/end"}
  <2>1. new = here
    BY <1>8 DEF Account, IsSplice
  <2> HIDE DEF here
  <2> QED BY <1>2, <1>8, <2>1 DEF IsSplice
<1> QED BY <1>4, <1>5, <1>6, <1>7, <1>8 DEF IsSplice

-----------------------------------------------------------------------------
\* A message waits before a place of the log and no longer after it.
LeavesAt(p, m, i) ==
    m \in Pending(Replayed(SubSeq(p, 1, i - 1))) \ Pending(Replayed(SubSeq(p, 1, i)))

\* What left the inbox at a place is accounted for, or claimed by the turn that is
\* open still.
AccountedAt(p, i) ==
    LET work == ConsumedWork(p)
        t == LastTurn(SubSeq(p, 1, i))
    IN  \/ work.end > i
        \/ p[i].canceled /\ (work.dropped \/ p[i].inserted # <<>>)
        \/ TurnEnd(t, "completed") \in Range(p)
        \/ work.open # 0 /\ work.open = t /\ t \in work.claimed

\* What is so of the account of a good log.
AccountsFit(p) ==
    /\ ConsumedWork(p) \in Works /\ ConsumedWork(p).at = Len(p)
    /\ ConsumedWork(p).open = Trace(p).openTurn
    /\ \A m \in KnownIn(p) \ Pending(Replayed(p)) : \E i \in DOMAIN p : LeavesAt(p, m, i)
    /\ \A i \in DOMAIN p : \A m : LeavesAt(p, m, i) => AccountedAt(p, i)

\* A splice that removes nothing takes nothing out of the inbox, and what a splice
\* brings in waits.
LEMMA SpliceBrings ==
    ASSUME NEW box \in Inboxes, NEW target \in Targets, NEW a \in Nat, NEW r \in Nat,
           a + r <= Len(box[target]), NEW ins \in Seq(Messages)
    PROVE  /\ Range(ins) \subseteq Pending(Splice(box, target, a, r, ins))
           /\ r = 0 => Pending(box) \subseteq Pending(Splice(box, target, a, r, ins))
<1> DEFINE new == Splice(box, target, a, r, ins)
           list == box[target]
           f == SubSeq(list, 1, a)
           g == SubSeq(list, a + r + 1, Len(list))
           other == IF target = "next-turn" THEN "next-step" ELSE "next-turn"
<1>1. /\ DOMAIN box = Targets /\ list \in Seq(Messages)
      /\ other \in Targets /\ other # target /\ Targets = {target, other}
  BY DEF Inboxes, Targets
<1>2. new = [box EXCEPT ![target] = f \o ins \o g]
  BY DEF Splice
<1>3. new[target] = f \o ins \o g /\ new[other] = box[other]
  BY <1>1, <1>2
<1>4. /\ Pending(new) = Range(new[target]) \cup Range(new[other])
      /\ Pending(box) = Range(box[target]) \cup Range(box[other])
  BY <1>1 DEF Pending, Targets
<1> HIDE DEF new
<1>5. f \in Seq(Messages) /\ g \in Seq(Messages) /\ Len(list) \in Nat
  BY <1>1
<1>6. r = 0 => Range(list) \subseteq Range(f) \cup Range(g)
  <2> SUFFICES ASSUME r = 0, NEW i \in 1..Len(list)  PROVE list[i] \in Range(f) \cup Range(g)
    <3>1. DOMAIN list = 1..Len(list)
      <4> HIDE DEF list
      <4> QED BY <1>1, WholeFacts
    <3> HIDE DEF list, f, g
    <3> QED BY <3>1 DEF Range
  <2>1. a + r + 1 = a + 1 /\ a <= Len(list)
    BY <1>5
  <2>2. /\ DOMAIN f = 1..a /\ \A k \in 1..a : f[k] = list[k]
        /\ DOMAIN g = 1..(Len(list) - a) /\ \A k \in 1..(Len(list) - a) : g[k] = list[a + k]
    <3> DEFINE h == SubSeq(list, a + 1, Len(list))
    <3>1. DOMAIN h = 1..(Len(list) - a) /\ \A k \in 1..(Len(list) - a) : h[k] = list[a + k]
      <4> HIDE DEF list
      <4> QED BY <1>1, <1>5, <2>1
    <3>2. g = h
      BY <2>1
    <3>3. DOMAIN f = 1..a /\ \A k \in 1..a : f[k] = list[k]
      <4> HIDE DEF list
      <4> QED BY <1>1, <1>5, <2>1
    <3> HIDE DEF f, g, h
    <3> QED BY <3>1, <3>2, <3>3
  <2> HIDE DEF f, g, list
  <2>3. CASE i <= a
    <3>1. i \in 1..a
      BY <2>3
    <3> QED BY <2>2, <3>1 DEF Range
  <2>4. CASE ~(i <= a)
    <3>1. i - a \in 1..(Len(list) - a) /\ a + (i - a) = i
      BY <1>5, <2>4
    <3> QED BY <2>2, <3>1 DEF Range
  <2> QED BY <2>3, <2>4
<1> HIDE DEF f, g, list
<1>7. Range(f \o ins \o g) = (Range(f) \cup Range(ins)) \cup Range(g)
  <2>1. f \o ins \in Seq(Messages) /\ Range(f \o ins) = Range(f) \cup Range(ins)
    BY <1>5, ConcatFacts
  <2> DEFINE x == f \o ins
  <2> HIDE DEF x
  <2>2. x \in Seq(Messages) /\ Range(x) = Range(f) \cup Range(ins)
    BY <2>1 DEF x
  <2>3. Range(x \o g) = Range(x) \cup Range(g)
    BY <1>5, <2>2, ConcatFacts
  <2> QED BY <2>2, <2>3 DEF x
<1>8. Range(ins) \subseteq Pending(new)
  BY <1>3, <1>4, <1>7
<1>9. r = 0 => Pending(box) \subseteq Pending(new)
  BY <1>3, <1>4, <1>6, <1>7 DEF list
<1> QED BY <1>8, <1>9 DEF new

\* The places of a log and of one with an event more.
LEMMA PlacesStay ==
    ASSUME NEW p \in Seq(Events), NEW e \in Events, NEW q, q = Append(p, e)
    PROVE  /\ DOMAIN q = DOMAIN p \cup {Len(p) + 1} /\ Len(p) \in Nat /\ q[Len(p) + 1] = e
           /\ DOMAIN p = 1..Len(p)
           /\ SubSeq(q, 1, (Len(p) + 1) - 1) = p /\ SubSeq(q, 1, Len(p) + 1) = q
           /\ \A i \in DOMAIN p : /\ q[i] = p[i] /\ SubSeq(q, 1, i) = SubSeq(p, 1, i)
                                  /\ SubSeq(q, 1, i - 1) = SubSeq(p, 1, i - 1)
<1>1. /\ q \in Seq(Events) /\ Len(q) = Len(p) + 1 /\ Len(p) \in Nat /\ q[Len(p) + 1] = e
      /\ \A i \in 1..Len(p) : q[i] = p[i]
      /\ \A n \in 0..Len(p) : SubSeq(q, 1, n) = SubSeq(p, 1, n)
  BY AppendFacts
<1>2. DOMAIN p = 1..Len(p) /\ SubSeq(p, 1, Len(p)) = p
  BY WholeFacts
<1>3. DOMAIN q = 1..(Len(p) + 1) /\ SubSeq(q, 1, Len(p) + 1) = q
  BY <1>1, WholeFacts
<1>4. (Len(p) + 1) - 1 = Len(p) /\ Len(p) \in 0..Len(p)
  BY <1>1
<1>5. DOMAIN q = DOMAIN p \cup {Len(p) + 1}
  BY <1>1, <1>2, <1>3
<1>6. \A i \in DOMAIN p : i \in 0..Len(p) /\ i - 1 \in 0..Len(p)
  BY <1>1, <1>2
<1> QED BY <1>1, <1>2, <1>3, <1>4, <1>5, <1>6

\* What was accounted for stays so; a turn that ends accounts for what it claimed,
\* or ends as completed.
LEMMA AccountsStay ==
    ASSUME NEW p \in Seq(Events), NEW e, NEW b, FoldsAgree(p), MayFollow(p, e, b),
           ConsumedWork(p) \in Works, ConsumedWork(p).at = Len(p), ConsumedWork(p).open = Trace(p).openTurn,
           NEW i \in DOMAIN p, AccountedAt(p, i)
    PROVE  AccountedAt(Append(p, e), i)
<1> DEFINE q == Append(p, e)
           work == ConsumedWork(p)
           new == ConsumedWork(q)
           t == LastTurn(SubSeq(p, 1, i))
<1>1. e \in Events /\ Grammar!Legal(Trace(p), e) /\ (e.type = "turn/end" => e = TurnEnd(e.turn, e.reason))
  BY DEF MayFollow
<1>2. new = Account(work, e)
  BY <1>1, ConsumedWorkUnfolds
<1>3. /\ new \in Works
      /\ new.open = (IF e.type = "turn/start" THEN e.turn ELSE IF e.type = "turn/end" THEN 0 ELSE work.open)
      /\ new.end = work.end \/ new.end = Len(p) + 1
      /\ (work.dropped => new.dropped) \/ new.end = Len(p) + 1
      /\ work.claimed \subseteq new.claimed
      /\ e.type = "turn/end" /\ e.turn \in work.claimed /\ e.reason # "completed" => new.end = Len(p) + 1
  <2>1. work \in Works /\ work.at = Len(p)
    OBVIOUS
  <2> HIDE DEF work, new
  <2>2. /\ new \in Works
        /\ new.open = (IF e.type = "turn/start" THEN e.turn ELSE IF e.type = "turn/end" THEN 0 ELSE work.open)
        /\ new.end = work.end \/ new.end = work.at + 1
        /\ (work.dropped => new.dropped) \/ new.end = work.at + 1
        /\ work.claimed \subseteq new.claimed
        /\ e.type = "turn/end" /\ e.turn \in work.claimed /\ e.reason # "completed" => new.end = work.at + 1
    BY <1>1, <1>2, <2>1, AccountFacts
  <2> QED BY <2>1, <2>2
<1>4. /\ q[i] = p[i] /\ LastTurn(SubSeq(q, 1, i)) = t /\ Len(p) + 1 > i
      /\ Range(q) = Range(p) \cup {e}
  <2>1. q[i] = p[i] /\ SubSeq(q, 1, i) = SubSeq(p, 1, i) /\ Len(p) \in Nat /\ i \in 1..Len(p)
    BY <1>1, PlacesStay
  <2>2. Range(q) = Range(p) \cup {e}
    BY <1>1, AppendFacts
  <2>3. Len(p) + 1 > i
    BY <2>1
  <2> QED BY <2>1, <2>2, <2>3
<1>5. \/ work.end > i
      \/ p[i].canceled /\ (work.dropped \/ p[i].inserted # <<>>)
      \/ TurnEnd(t, "completed") \in Range(p)
      \/ work.open # 0 /\ work.open = t /\ t \in work.claimed
  BY DEF AccountedAt
<1> SUFFICES \/ new.end > i
             \/ q[i].canceled /\ (new.dropped \/ q[i].inserted # <<>>)
             \/ TurnEnd(t, "completed") \in Range(q)
             \/ new.open # 0 /\ new.open = t /\ t \in new.claimed
  BY <1>4 DEF AccountedAt
<1> HIDE DEF work, new, t, q
<1>6. CASE work.end > i
  BY <1>3, <1>4, <1>6
<1>7. CASE p[i].canceled /\ (work.dropped \/ p[i].inserted # <<>>)
  BY <1>3, <1>4, <1>7
<1>8. CASE TurnEnd(t, "completed") \in Range(p)
  BY <1>4, <1>8
<1>9. CASE work.open # 0 /\ work.open = t /\ t \in work.claimed
  <2>1. Trace(p).openTurn = t /\ t # 0
    BY <1>9 DEF work
  <2>2. CASE e.type = "turn/start"
    BY <1>1, <2>1, <2>2 DEF Grammar!Legal, Grammar!Closed
  <2>3. CASE e.type = "turn/end"
    <3>1. e.turn = t
      BY <1>1, <2>1, <2>3 DEF Grammar!Legal
    <3>2. CASE e.reason = "completed"
      BY <1>1, <1>4, <2>3, <3>1, <3>2
    <3>3. CASE e.reason # "completed"
      BY <1>3, <1>4, <1>9, <2>3, <3>1, <3>3
    <3> QED BY <3>2, <3>3
  <2>4. CASE e.type \notin {"turn/start", "turn/end"}
    BY <1>3, <1>9, <2>4
  <2> QED BY <2>2, <2>3, <2>4
<1> QED BY <1>5, <1>6, <1>7, <1>8, <1>9

\* What leaves the inbox with the last event is accounted for: a caller has taken
\* it, or the open turn has claimed it.
LEMMA LeavingIsAccounted ==
    ASSUME NEW p \in Seq(Events), NEW e, NEW b, FoldsAgree(p), InboxFits(p), MayFollow(p, e, b),
           ConsumedWork(p) \in Works, ConsumedWork(p).open = Trace(p).openTurn,
           NEW m, m \in Pending(Replayed(p)), m \notin Pending(Replayed(Append(p, e)))
    PROVE  AccountedAt(Append(p, e), Len(p) + 1)
<1> DEFINE q == Append(p, e)
           work == ConsumedWork(p)
           new == ConsumedWork(q)
           t == Trace(p).openTurn
<1>1. e \in Events
  BY DEF MayFollow
<1>2. Replayed(q) = IF IsSplice(e) THEN Splice(Replayed(p), e.target, e.start, e.removed, e.inserted)
                    ELSE Replayed(p)
  BY <1>1, FoldsUnfold
<1>3. IsSplice(e)
  BY <1>2
<1>4. /\ e.target \in Targets /\ e.start + e.removed <= Len(Replayed(p)[e.target])
      /\ e.removed = 0 \/ e.canceled \/ t # 0
  BY <1>3 DEF MayFollow
<1>5. /\ e.start \in Nat /\ e.removed \in Nat /\ e.inserted \in Seq(Messages) /\ e.canceled \in BOOLEAN
      /\ e.type = "agent/inbox/spliced"
  BY <1>1, <1>3 DEF Events, IsSplice
<1>6. e.removed > 0 /\ (e.canceled \/ t # 0)
  <2>1. Replayed(p) \in Inboxes
    BY DEF InboxFits
  <2>2. e.removed # 0
    BY <1>2, <1>3, <1>4, <1>5, <2>1, SpliceBrings
  <2> QED BY <1>4, <1>5, <2>2
<1>7. new = Account(work, e)
  BY <1>1, ConsumedWorkUnfolds
<1>8. /\ new.open = work.open
      /\ e.canceled /\ e.inserted = <<>> => new.dropped
      /\ ~e.canceled /\ work.open # 0 => work.open \in new.claimed
  BY <1>1, <1>3, <1>5, <1>6, <1>7, AccountFacts, ZenonT(60)
<1>9. q[Len(p) + 1] = e /\ SubSeq(q, 1, Len(p) + 1) = q
  BY <1>1, PlacesStay
<1>10. LastTurn(q) = t \/ t = 0
  <2>1. LastTurn(q) = LastTurn(p)
    BY <1>1, <1>5, FoldsUnfold
  <2> QED BY <2>1 DEF FoldsAgree
<1>11. work.open = t
  OBVIOUS
<1> SUFFICES \/ e.canceled /\ (new.dropped \/ e.inserted # <<>>)
             \/ new.open # 0 /\ new.open = LastTurn(q) /\ LastTurn(q) \in new.claimed
  BY <1>9 DEF AccountedAt
<1> HIDE DEF q, work, new, t
<1> QED BY <1>6, <1>8, <1>10, <1>11

\* An event that may follow keeps the account fitting.
LEMMA AccountsStayFit ==
    ASSUME NEW p, NEW e, NEW b, Good(p, b), MayFollow(p, e, b), AccountsFit(p)
    PROVE  AccountsFit(Append(p, e))
<1> DEFINE q == Append(p, e)
           n == Len(p) + 1
<1>1. p \in Seq(Events) /\ e \in Events /\ FoldsAgree(p) /\ InboxFits(p)
  BY GoodFits DEF Good, Fit, MayFollow
<1>2. /\ DOMAIN q = DOMAIN p \cup {n} /\ Len(p) \in Nat /\ q[n] = e
      /\ SubSeq(q, 1, n - 1) = p /\ SubSeq(q, 1, n) = q
      /\ \A i \in DOMAIN p : /\ q[i] = p[i] /\ SubSeq(q, 1, i) = SubSeq(p, 1, i)
                             /\ SubSeq(q, 1, i - 1) = SubSeq(p, 1, i - 1)
  BY <1>1, PlacesStay
<1>3. /\ ConsumedWork(p) \in Works /\ ConsumedWork(p).at = Len(p)
      /\ ConsumedWork(p).open = Trace(p).openTurn
      /\ \A m \in KnownIn(p) \ Pending(Replayed(p)) : \E i \in DOMAIN p : LeavesAt(p, m, i)
      /\ \A i \in DOMAIN p : \A m : LeavesAt(p, m, i) => AccountedAt(p, i)
  BY DEF AccountsFit
<1>4. /\ ConsumedWork(q) \in Works /\ ConsumedWork(q).at = Len(q)
      /\ ConsumedWork(q).open = Trace(q).openTurn
  <2>1. ConsumedWork(q) = Account(ConsumedWork(p), e)
    BY <1>1, ConsumedWorkUnfolds
  <2>2. Len(q) = Len(p) + 1
    BY <1>1
  <2>3. Trace(q).openTurn = (IF e.type = "turn/start" THEN e.turn
                             ELSE IF e.type = "turn/end" THEN 0 ELSE Trace(p).openTurn)
    BY AtMoves DEF Moved
  <2> HIDE DEF q
  <2> QED BY <1>1, <1>3, <2>1, <2>2, <2>3, AccountFacts
<1> HIDE DEF q, n
<1>5. \A i \in DOMAIN p : \A m : LeavesAt(q, m, i) <=> LeavesAt(p, m, i)
  BY <1>2 DEF LeavesAt
<1>6. \A m : LeavesAt(q, m, n) <=> m \in Pending(Replayed(p)) \ Pending(Replayed(q))
  BY <1>2 DEF LeavesAt
<1>7. ASSUME NEW m \in KnownIn(q) \ Pending(Replayed(q))
      PROVE  \E i \in DOMAIN q : LeavesAt(q, m, i)
  <2>1. CASE m \in KnownIn(p)
    <3>1. CASE m \in Pending(Replayed(p))
      BY <1>2, <1>6, <1>7, <3>1
    <3>2. CASE m \notin Pending(Replayed(p))
      BY <1>2, <1>3, <1>5, <2>1, <3>2
    <3> QED BY <3>1, <3>2
  <2>2. CASE m \notin KnownIn(p)
    <3>1. m \in Range(e.inserted)
      BY <1>1, <1>7, <2>2, KnownMoves DEF q
    <3>2. /\ \A k : Range(<<k>>) = {k}
          /\ Range(<<>>) = {}
      BY DEF Range
    <3>3. CASE IsSplice(e)
      <4>1. /\ e.target \in Targets /\ e.start + e.removed <= Len(Replayed(p)[e.target])
            /\ e.start \in Nat /\ e.removed \in Nat /\ e.inserted \in Seq(Messages)
        BY <1>1, <3>3 DEF MayFollow, Events
      <4>2. Replayed(q) = Splice(Replayed(p), e.target, e.start, e.removed, e.inserted)
        BY <1>1, <3>3, FoldsUnfold DEF q
      <4>3. Replayed(p) \in Inboxes
        BY <1>1 DEF InboxFits
      <4>4. Range(e.inserted) \subseteq Pending(Replayed(q))
        BY <4>1, <4>2, <4>3, SpliceBrings
      <4> QED BY <1>7, <3>1, <4>4
    <3>4. CASE e.type = "user/message"
      <4>1. PICK k \in KnownIn(p) \ Pending(Replayed(p)) : e.inserted = <<k>>
        BY <3>4 DEF MayFollow
      <4> QED BY <2>2, <3>1, <3>2, <4>1
    <3>5. CASE ~IsSplice(e) /\ e.type # "user/message"
      <4>1. e.inserted = <<>>
        BY <3>5 DEF MayFollow
      <4> QED BY <3>1, <3>2, <4>1
    <3> QED BY <3>3, <3>4, <3>5
  <2> QED BY <2>1, <2>2
<1>8. ASSUME NEW i \in DOMAIN q, NEW m, LeavesAt(q, m, i)
      PROVE  AccountedAt(q, i)
  <2>1. CASE i \in DOMAIN p
    <3>1. AccountedAt(p, i)
      BY <1>3, <1>5, <1>8, <2>1
    <3> QED BY <1>1, <1>3, <2>1, <3>1, AccountsStay DEF q
  <2>2. CASE i = n
    <3>1. m \in Pending(Replayed(p)) /\ m \notin Pending(Replayed(q))
      BY <1>6, <1>8, <2>2
    <3>2. AccountedAt(q, n)
      BY <1>1, <1>3, <3>1, LeavingIsAccounted DEF q, n
    <3> QED BY <2>2, <3>2
  <2> QED BY <1>2, <2>1, <2>2
<1>9. AccountsFit(q)
  BY <1>4, <1>7, <1>8 DEF AccountsFit
<1> QED BY <1>9 DEF q

\* By induction over the log.
LEMMA GoodAccounts ==
    ASSUME NEW s, NEW b, Good(s, b)
    PROVE  AccountsFit(s)
<1> DEFINE S == {n \in Nat : n <= Len(s) => AccountsFit(SubSeq(s, 1, n))}
<1>1. s \in Seq(Events) /\ Len(s) \in Nat /\ SubSeq(s, 1, Len(s)) = s /\ SubSeq(s, 1, 0) = <<>> /\ DOMAIN s = 1..Len(s)
  BY WholeFacts DEF Good
<1>2. 0 \in S
  <2>1. AccountsFit(<<>>)
    <3>1. /\ Trace(<<>>) = Grammar!FreshTrace /\ ConsumedWork(<<>>) = Unaccounted
      BY TraceOfNone, ConsumedWorkOfNone
    <3>2. KnownIn(<<>>) = {} /\ DOMAIN <<>> = {} /\ Len(<<>>) = 0
      BY DEF KnownIn, Range
    <3>3. Unaccounted \in Works /\ Unaccounted.at = 0 /\ Unaccounted.open = 0
      BY DEF Unaccounted, Works
    <3>4. Grammar!FreshTrace.openTurn = 0
      BY DEF Grammar!FreshTrace, Grammar!Closed
    <3> QED BY <3>1, <3>2, <3>3, <3>4 DEF AccountsFit
  <2> QED BY <1>1, <2>1
<1>3. ASSUME NEW n \in Nat, n \in S  PROVE n + 1 \in S
  <2> SUFFICES ASSUME n + 1 <= Len(s)  PROVE AccountsFit(SubSeq(s, 1, n + 1))
    OBVIOUS
  <2>1. n + 1 \in DOMAIN s /\ (n + 1) - 1 = n /\ n <= Len(s) /\ n \in 0..Len(s)
    BY <1>1
  <2>2. MayFollow(SubSeq(s, 1, (n + 1) - 1), s[n + 1], b)
    BY <2>1 DEF Good
  <2>3. SubSeq(s, 1, n + 1) = Append(SubSeq(s, 1, n), s[n + 1])
    BY <1>1, FrontFacts
  <2>4. Good(SubSeq(s, 1, n), b)
    BY <2>1, GoodPrefix
  <2>5. AccountsFit(SubSeq(s, 1, n)) /\ MayFollow(SubSeq(s, 1, n), s[n + 1], b)
    BY <1>3, <2>1, <2>2
  <2> QED BY <2>3, <2>4, <2>5, AccountsStayFit
<1>4. Len(s) \in S
  <2> HIDE DEF S
  <2> QED BY <1>1, <1>2, <1>3, SetInduction
<1>5. AccountsFit(SubSeq(s, 1, Len(s)))
  BY <1>1, <1>4
<1> QED BY <1>1, <1>5

-----------------------------------------------------------------------------
\* No accepted message vanishes: an agent at rest still has it pending, or its log
\* says what became of it, wherever the crashes fell.
THEOREM MessagesAreAccounted == Spec => []NothingVanishes
<1>1. ASSUME IInv  PROVE NothingVanishes
  <2> SUFFICES ASSUME mode = "live", pc = "idle", NEW m \in Known, m \notin Pending(inbox)
               PROVE  Explained(m)
    BY DEF NothingVanishes, Explained
  <2>1. /\ Good(log, broken) /\ inbox = Replayed(log)
        /\ Trace(log).openTurn = 0
    <3>1. Good(log, broken) /\ inbox = Replayed(log)
      BY <1>1, LiveFacts
    <3>2. Trace(log).openTurn = 0
      BY <1>1 DEF IInv, DriverFits, At
    <3> QED BY <3>1, <3>2
  <2>2. AccountsFit(log)
    BY <2>1, GoodAccounts
  <2>3. m \in KnownIn(log) \ Pending(Replayed(log))
    BY <2>1 DEF Known, KnownIn
  <2> DEFINE places == {i \in DOMAIN log : m \in Pending(InboxAt(i - 1)) \ Pending(InboxAt(i))}
  <2>4. \A i : i \in places <=> i \in DOMAIN log /\ LeavesAt(log, m, i)
    BY DEF LeavesAt, InboxAt
  <2>5. places # {}
    BY <2>2, <2>3, <2>4 DEF AccountsFit
  <2>6. LeftAt(m) \in places
    <3>1. LeftAt(m) = CHOOSE i \in places : TRUE
      BY <2>5 DEF LeftAt
    <3> HIDE DEF places
    <3> QED BY <2>5, <3>1
  <2> HIDE DEF places
  <2>7. AccountedAt(log, LeftAt(m))
    BY <2>2, <2>4, <2>6 DEF AccountsFit
  <2>8. ConsumedWork(log).open = 0
    BY <2>1, <2>2 DEF AccountsFit
  <2> QED BY <2>7, <2>8 DEF AccountedAt, Explained, TurnAt
<1> QED BY <1>1, IInvHolds, PTL
==============================================================================
