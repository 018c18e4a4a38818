--------------------------- MODULE WriteBehindProofs ---------------------------
(***************************************************************************)
(* For a log of any length: the store holds a prefix of the session's log, *)
(* nothing queued is stranded, and the write path implements DurableLog.   *)
(* The invariant follows the events that are between the log and the store. *)
(***************************************************************************)
EXTENDS WriteBehind, FiniteSetTheorems, WellFoundedInduction, TLAPS

-----------------------------------------------------------------------------
(***************************************************************************)
(* Consecutive numbers.                                                    *)
(***************************************************************************)
LEMMA NumbersRange ==
    ASSUME NEW a \in Nat, NEW b \in Nat
    PROVE  /\ Numbers(a, b) \in Seq(Nat)
           /\ b < a => Numbers(a, b) = <<>>
           /\ a <= b + 1 => Len(Numbers(a, b)) = b + 1 - a
           /\ Len(Numbers(a, b)) \in Nat
           /\ DOMAIN Numbers(a, b) = 1..(b + 1 - a)
           /\ \A i \in 1..(b + 1 - a) : Numbers(a, b)[i] = a + i - 1
<1>1. CASE b < a
  <2>1. 1..(b + 1 - a) = {}
    BY <1>1
  <2>2. Numbers(a, b) = <<>>
    BY <2>1 DEF Numbers
  <2> QED BY <1>1, <2>1, <2>2
<1>2. CASE a <= b
  <2>1. b + 1 - a \in Nat
    BY <1>2
  <2> QED BY <1>2, <2>1 DEF Numbers
<1> QED BY <1>1, <1>2

LEMMA ConcatFacts ==
    ASSUME NEW s \in Seq(Nat), NEW t \in Seq(Nat)
    PROVE  /\ s \o t \in Seq(Nat) /\ Len(s \o t) = Len(s) + Len(t)
           /\ \A i \in 1..Len(s) : (s \o t)[i] = s[i]
           /\ \A i \in 1..Len(t) : (s \o t)[Len(s) + i] = t[i]
<1>1. s \o t \in Seq(Nat) /\ Len(s \o t) = Len(s) + Len(t)
  OBVIOUS
<1>2. \A i \in 1..Len(s) : (s \o t)[i] = s[i]
  OBVIOUS
<1>3. \A i \in 1..Len(t) : (s \o t)[Len(s) + i] = t[i]
  OBVIOUS
<1> QED BY <1>1, <1>2, <1>3

LEMMA IsNumbers ==
    ASSUME NEW s \in Seq(Nat), NEW a \in Nat, NEW b \in Nat, a <= b + 1,
           Len(s) = b + 1 - a, \A i \in 1..Len(s) : s[i] = a + i - 1
    PROVE  s = Numbers(a, b)
<1>1. s = [i \in 1..Len(s) |-> a + i - 1]
  OBVIOUS
<1> QED BY <1>1 DEF Numbers

LEMMA NumbersAppend ==
    ASSUME NEW a \in Nat, NEW b \in Nat, a <= b + 1
    PROVE  Append(Numbers(a, b), b + 1) = Numbers(a, b + 1)
<1> DEFINE s == Append(Numbers(a, b), b + 1)
<1>1. /\ Numbers(a, b) \in Seq(Nat) /\ Len(Numbers(a, b)) = b + 1 - a
      /\ \A i \in 1..(b + 1 - a) : Numbers(a, b)[i] = a + i - 1
  BY NumbersRange
<1>2. /\ s \in Seq(Nat) /\ Len(s) = b + 2 - a /\ \A i \in 1..Len(s) : s[i] = a + i - 1
  BY <1>1
<1>3. b + 1 \in Nat /\ a <= b + 1 + 1 /\ b + 1 + 1 - a = b + 2 - a
  OBVIOUS
<1> HIDE DEF s
<1>4. s = Numbers(a, b + 1)
  BY <1>2, <1>3, IsNumbers
<1> QED BY <1>4 DEF s

LEMMA NumbersConcat ==
    ASSUME NEW a \in Nat, NEW b \in Nat, NEW c \in Nat, a <= b + 1, b <= c
    PROVE  Numbers(a, b) \o Numbers(b + 1, c) = Numbers(a, c)
<1> DEFINE x == Numbers(a, b)  y == Numbers(b + 1, c)  s == x \o y
<1>1. /\ x \in Seq(Nat) /\ Len(x) = b + 1 - a
      /\ \A i \in 1..(b + 1 - a) : x[i] = a + i - 1
  BY NumbersRange
<1>2. /\ y \in Seq(Nat) /\ Len(y) = c - b
      /\ \A i \in 1..(c - b) : y[i] = b + i
  <2>1. b + 1 \in Nat /\ b + 1 <= c + 1 /\ c + 1 - (b + 1) = c - b
    OBVIOUS
  <2>2. /\ Numbers(b + 1, c) \in Seq(Nat)
        /\ Len(Numbers(b + 1, c)) = c + 1 - (b + 1)
        /\ \A i \in 1..(c + 1 - (b + 1)) : Numbers(b + 1, c)[i] = b + 1 + i - 1
    BY <2>1, NumbersRange
  <2> QED BY <2>1, <2>2
<1> HIDE DEF x, y
<1>3. /\ s \in Seq(Nat) /\ Len(s) = c + 1 - a
      /\ \A i \in 1..Len(x) : s[i] = x[i]
      /\ \A i \in 1..Len(y) : s[Len(x) + i] = y[i]
  <2>1. Len(x) + Len(y) = c + 1 - a
    BY <1>1, <1>2
  <2> QED BY <1>1, <1>2, <2>1, ConcatFacts
<1>4. \A i \in 1..Len(s) : s[i] = a + i - 1
  <2> SUFFICES ASSUME NEW i \in 1..Len(s)  PROVE s[i] = a + i - 1
    OBVIOUS
  <2> HIDE DEF s
  <2>1. CASE i <= Len(x)
    BY <2>1, <1>1, <1>3
  <2>2. CASE i > Len(x)
    <3>1. i - Len(x) \in 1..Len(y) /\ i = Len(x) + (i - Len(x))
      BY <2>2, <1>1, <1>2, <1>3
    <3>2. s[i] = y[i - Len(x)] /\ y[i - Len(x)] = b + (i - Len(x))
      BY <3>1, <1>2, <1>3
    <3> QED BY <3>2, <1>1, <1>3
  <2> QED BY <2>1, <2>2, <1>1, <1>3
<1>5. s = Numbers(a, c)
  <2>1. a <= c + 1
    OBVIOUS
  <2> HIDE DEF s
  <2> QED BY <2>1, <1>3, <1>4, IsNumbers
<1> QED BY <1>5 DEF x, y

LEMMA NumbersPrefix ==
    ASSUME NEW a \in Nat, NEW b \in Nat, NEW n \in 0..Len(Numbers(a + 1, b))
    PROVE  /\ SubSeq(Numbers(a + 1, b), 1, n) = Numbers(a + 1, a + n)
           /\ a + n \in Nat /\ (n > 0 => a + n <= b)
<1>1. /\ Numbers(a + 1, b) \in Seq(Nat)
      /\ DOMAIN Numbers(a + 1, b) = 1..(b - a)
      /\ \A i \in 1..(b - a) : Numbers(a + 1, b)[i] = a + i
  <2>1. a + 1 \in Nat /\ b + 1 - (a + 1) = b - a
    OBVIOUS
  <2>2. /\ Numbers(a + 1, b) \in Seq(Nat)
        /\ DOMAIN Numbers(a + 1, b) = 1..(b + 1 - (a + 1))
        /\ \A i \in 1..(b + 1 - (a + 1)) : Numbers(a + 1, b)[i] = a + 1 + i - 1
    BY <2>1, NumbersRange
  <2> QED BY <2>1, <2>2
<1>2. n \in Nat /\ (n > 0 => a + n <= b)
  BY <1>1
<1>3. SubSeq(Numbers(a + 1, b), 1, n) = [i \in 1..n |-> a + i]
  BY <1>1, <1>2
<1>4. Numbers(a + 1, a + n) = [i \in 1..n |-> a + i]
  <2>1. a + n + 1 - (a + 1) = n
    BY <1>2
  <2>2. Numbers(a + 1, a + n) = [i \in 1..n |-> a + 1 + i - 1]
    BY <2>1 DEF Numbers
  <2> QED BY <2>2, <1>2
<1> QED BY <1>2, <1>3, <1>4

LEMMA NumbersTyped ==
    ASSUME NEW a \in Nat, NEW b \in Nat, 1 <= a, b <= MaxEvents
    PROVE  Numbers(a, b) \in Seq(1..MaxEvents)
<1>1. CASE b < a
  <2>1. Numbers(a, b) = <<>>
    BY <1>1, NumbersRange
  <2> QED BY <2>1
<1>2. CASE a <= b
  <2>1. b + 1 - a \in Nat /\ \A i \in 1..(b + 1 - a) : a + i - 1 \in 1..MaxEvents
    BY <1>2, MaxEventsAssumption
  <2> QED BY <2>1 DEF Numbers
<1> QED BY <1>1, <1>2

-----------------------------------------------------------------------------
(***************************************************************************)
(* What the invariant says of the pieces.                                  *)
(***************************************************************************)
LEMMA SeqWidens ==
    ASSUME NEW S, NEW T, S \subseteq T, NEW s \in Seq(S)
    PROVE  s \in Seq(T)
<1>1. Len(s) \in Nat /\ \A i \in 1..Len(s) : s[i] \in S
  OBVIOUS
<1>2. s = [i \in 1..Len(s) |-> s[i]]
  OBVIOUS
<1>3. \A i \in 1..Len(s) : s[i] \in T
  BY <1>1
<1> QED BY <1>1, <1>2, <1>3

IInv == TypeOK /\ QueueInOrder /\ OneWrite

LEMMA TypeFacts ==
    ASSUME TypeOK
    PROVE  /\ file \in Seq(Nat) /\ batch \in Seq(Nat) /\ pending \in Seq(Nat)
           /\ appended \in Nat /\ seed \in Nat /\ asked \in Nat /\ acked \in Nat
           /\ Covered \in Nat /\ Len(file) \in Nat
<1>1. 1..MaxEvents \subseteq Nat /\ 0..MaxEvents \subseteq Nat
  BY MaxEventsAssumption
<1>2. /\ file \in Seq(1..MaxEvents) /\ batch \in Seq(1..MaxEvents)
      /\ pending \in Seq(1..MaxEvents)
  BY DEF TypeOK
<1>3. ASSUME NEW s \in Seq(1..MaxEvents)  PROVE s \in Seq(Nat)
  BY <1>1, SeqWidens
<1>4. appended \in Nat /\ seed \in Nat /\ asked \in Nat /\ acked \in Nat
  BY <1>1 DEF TypeOK
<1> QED BY <1>2, <1>3, <1>4 DEF Covered

\* What a batch has beyond the store is the stretch that follows the store.
LEMMA FreshFollows ==
    ASSUME NEW n \in Nat, NEW e \in Nat, 1 <= n, n <= Len(file) + 1, n <= e + 1,
           file \in Seq(Nat), batch = Numbers(n, e)
    PROVE  /\ Fresh = Numbers(Len(file) + 1, e)
           /\ Stored = {i \in 1..(e + 1 - n) : n + i - 1 <= Len(file)}
<1> DEFINE m == IF Len(file) <= e THEN Len(file) ELSE e
<1>1. m \in Nat /\ n <= m + 1 /\ m <= e
  OBVIOUS
<1>2. /\ batch \in Seq(Nat) /\ Len(batch) = e + 1 - n /\ DOMAIN batch = 1..(e + 1 - n)
      /\ \A i \in 1..(e + 1 - n) : batch[i] = n + i - 1
  BY NumbersRange
<1>3. Stored = {i \in 1..(e + 1 - n) : n + i - 1 <= Len(file)}
  BY <1>2 DEF Stored
<1>4. Stored = 1..(m + 1 - n)
  BY <1>1, <1>3
<1>5. Cardinality(Stored) = m + 1 - n
  <2>1. 1 \in Int /\ m + 1 - n \in Nat /\ m + 1 - n \in Int
    BY <1>1
  <2>2. Cardinality(1..(m + 1 - n)) = IF 1 > m + 1 - n THEN 0 ELSE (m + 1 - n) - 1 + 1
    BY <2>1, FS_Interval
  <2> HIDE DEF m
  <2> QED BY <1>4, <2>1, <2>2
<1>6. Fresh = SubSeq(batch, m + 2 - n, e + 1 - n)
  BY <1>1, <1>2, <1>5 DEF Fresh
<1>7. SubSeq(batch, m + 2 - n, e + 1 - n) = [i \in 1..(e - m) |-> m + i]
  <2> HIDE DEF m
  <2>1. /\ SubSeq(batch, m + 2 - n, e + 1 - n) \in Seq(Nat)
        /\ Len(SubSeq(batch, m + 2 - n, e + 1 - n)) = e - m
        /\ \A i \in 1..(e - m) : SubSeq(batch, m + 2 - n, e + 1 - n)[i] = batch[m + 1 - n + i]
    BY <1>1, <1>2
  <2>2. \A i \in 1..(e - m) : batch[m + 1 - n + i] = m + i
    BY <1>1, <1>2
  <2> DEFINE s == SubSeq(batch, m + 2 - n, e + 1 - n)
  <2>3. s \in Seq(Nat) /\ Len(s) = e - m /\ \A i \in 1..(e - m) : s[i] = m + i
    BY <2>1, <2>2
  <2> HIDE DEF s
  <2>4. s = [i \in 1..Len(s) |-> s[i]]
    BY <2>3
  <2>5. s = [i \in 1..(e - m) |-> m + i]
    BY <2>3, <2>4
  <2> QED BY <2>5 DEF s
<1>8. Numbers(Len(file) + 1, e) = [i \in 1..(e - m) |-> m + i]
  <2>1. CASE Len(file) <= e
    <3>1. e + 1 - (Len(file) + 1) = e - m /\ \A i \in 1..(e - m) : Len(file) + 1 + i - 1 = m + i
      BY <2>1
    <3>2. Numbers(Len(file) + 1, e) = [i \in 1..(e - m) |-> Len(file) + 1 + i - 1]
      BY <3>1 DEF Numbers
    <3> HIDE DEF m
    <3> QED BY <3>1, <3>2
  <2>2. CASE e < Len(file)
    <3>1. Numbers(Len(file) + 1, e) = <<>>
      <4>1. Len(file) + 1 \in Nat /\ e < Len(file) + 1
        BY <2>2
      <4> QED BY <4>1, NumbersRange
    <3>2. 1..(e - m) = {}
      BY <2>2
    <3> HIDE DEF m
    <3>3. [i \in 1..(e - m) |-> m + i] = <<>>
      BY <3>2
    <3> QED BY <3>1, <3>3
  <2> QED BY <2>1, <2>2
<1> QED BY <1>3, <1>6, <1>7, <1>8
\* What comes from a write or a crash leaves the store a prefix of the log.
LEMMA StoreGrows ==
    ASSUME file = Numbers(1, Len(file)), file \in Seq(Nat), NEW b \in Nat
    PROVE  /\ Len(file) <= b => file \o Numbers(Len(file) + 1, b) = Numbers(1, b)
           /\ b <= Len(file) => file \o Numbers(Len(file) + 1, b) = file
<1>1. CASE Len(file) <= b
  <2> DEFINE l == Len(file)
  <2>a. 1 \in Nat /\ l \in Nat /\ 1 <= l + 1 /\ l <= b
    BY <1>1
  <2> HIDE DEF l
  <2>b. Numbers(1, l) \o Numbers(l + 1, b) = Numbers(1, b)
    BY <2>a, NumbersConcat
  <2>1. Numbers(1, Len(file)) \o Numbers(Len(file) + 1, b) = Numbers(1, b)
    BY <2>b DEF l
  <2>2. file \o Numbers(Len(file) + 1, b) = Numbers(1, b)
    BY <2>1
  <2>3. b <= Len(file) => b = Len(file)
    BY <1>1
  <2> QED BY <2>2, <2>3
<1>2. CASE b < Len(file)
  <2>1. Len(file) + 1 \in Nat /\ b < Len(file) + 1
    BY <1>2
  <2>2. Numbers(Len(file) + 1, b) = <<>>
    BY <2>1, NumbersRange
  <2> QED BY <1>2, <2>2
<1> QED BY <1>1, <1>2

\* With no write in progress everything that is queued is pending.
LEMMA Batchless ==
    ASSUME IInv, attached # "absent", active = "none"
    PROVE  \E e \in 0..appended, k \in 0..appended :
              /\ e <= Covered /\ e <= k /\ k \in asked..appended
              /\ pending = Numbers(e + 1, k)
              /\ attached = "open" => k = appended
<1>1. /\ appended \in Nat /\ asked \in Nat /\ Covered \in Nat /\ batch = <<>>
  BY TypeFacts DEF IInv, OneWrite
<1>2. PICK n \in 1..(Covered + 1), e \in 0..appended, k \in 0..appended : InOrder(n, e, k)
  BY DEF IInv, QueueInOrder
<1>3. e = n - 1
  <2>1. CASE failed
    BY <1>2, <2>1 DEF InOrder
  <2>2. CASE ~failed
    <3>1. Numbers(n, e) = <<>> /\ n \in Nat /\ e \in Nat /\ n <= e + 1
      BY <1>1, <1>2, <2>2 DEF InOrder
    <3>2. Len(Numbers(n, e)) = e + 1 - n
      BY <3>1, NumbersRange
    <3> QED BY <3>1, <3>2
  <2> QED BY <2>1, <2>2
<1>4. /\ e <= Covered /\ e <= k /\ k \in asked..appended /\ pending = Numbers(e + 1, k)
      /\ attached = "open" => k = appended
  BY <1>1, <1>2, <1>3 DEF InOrder
<1> QED BY <1>4

\* The pieces the writers are made of.
LEMMA StartKeepsOrder ==
    ASSUME IInv, attached # "absent", active = "none", NEW automatic \in BOOLEAN,
           StartWrite(automatic), UNCHANGED <<appended, file, attached, init, seed, asked>>
    PROVE  \E n \in 1..(Covered' + 1), e \in 0..appended', k \in 0..appended' : InOrder(n, e, k)'
<1>1. PICK e \in 0..appended, k \in 0..appended :
         /\ e <= Covered /\ e <= k /\ k \in asked..appended
         /\ pending = Numbers(e + 1, k)
         /\ attached = "open" => k = appended
  BY Batchless
<1>2. Covered' = Covered /\ Covered \in Nat /\ appended \in Nat /\ asked \in Nat
  BY TypeFacts DEF IInv, Covered
<1>3. Numbers(k + 1, k) = <<>>
  <2>1. k + 1 \in Nat /\ k \in Nat /\ k < k + 1
    BY <1>2
  <2> QED BY <2>1, NumbersRange
<1>4. InOrder(e + 1, k, k)'
  BY <1>1, <1>2, <1>3 DEF InOrder, StartWrite
<1>5. e + 1 \in 1..(Covered' + 1)
  BY <1>1, <1>2
<1> QED BY <1>1, <1>2, <1>4, <1>5


-----------------------------------------------------------------------------
(***************************************************************************)
(* The steps of the abstract log.                                          *)
(***************************************************************************)
LEMMA NumbersPrefixes ==
    ASSUME NEW m \in Nat, NEW n \in Nat, m <= n
    PROVE  Numbers(1, m) \in Abstract!Prefixes(Numbers(1, n))
<1>1. Len(Numbers(1, n)) = n
  <2>1. 1 \in Nat /\ 1 <= n + 1 /\ n + 1 - 1 = n
    OBVIOUS
  <2> QED BY <2>1, NumbersRange
<1>2. SubSeq(Numbers(1, n), 1, m) = Numbers(1, m)
  <2>1. 0 \in Nat /\ m \in 0..Len(Numbers(0 + 1, n)) /\ 0 + 1 = 1 /\ 0 + m = m
    BY <1>1
  <2>2. SubSeq(Numbers(0 + 1, n), 1, m) = Numbers(0 + 1, 0 + m)
    BY <2>1, NumbersPrefix
  <2> QED BY <2>1, <2>2
<1> QED BY <1>1, <1>2 DEF Abstract!Prefixes

\* The store grows within the log, or stays.
LEMMA PersistStep ==
    ASSUME IInv, NEW m \in Nat, file' = Numbers(1, m), Len(file) <= m, m <= appended,
           UNCHANGED <<appended, asked, acked>>
    PROVE  [Abstract!Next]_<<Numbers(1, appended), file, asked, acked>>
<1>1. file = Numbers(1, Len(file)) /\ Len(file) \in Nat /\ appended \in Nat
  BY TypeFacts DEF IInv, QueueInOrder
<1>2. CASE m = Len(file)
  BY <1>1, <1>2
<1>3. CASE m > Len(file)
  <2>1. Len(file') = m
    <3>1. 1 \in Nat /\ 1 <= m + 1 /\ m + 1 - 1 = m
      OBVIOUS
    <3> QED BY <3>1, NumbersRange
  <2>2. file' \in Abstract!Prefixes(Numbers(1, appended))
    BY <1>1, NumbersPrefixes
  <2> QED BY <1>3, <2>1, <2>2 DEF Abstract!Next, Abstract!Persist
<1> QED BY <1>1, <1>2, <1>3


-----------------------------------------------------------------------------
(***************************************************************************)
(* Every action keeps the invariant and maps to a step of DurableLog.      *)
(***************************************************************************)
Mapped == [Abstract!Next]_<<Numbers(1, appended), file, asked, acked>>

LEMMA AttachStep ==
    ASSUME IInv, Attach  PROVE IInv' /\ Mapped
<1>1. /\ appended \in Nat /\ asked \in Nat /\ Len(file) \in Nat /\ Len(file) <= appended
      /\ asked <= appended /\ batch = <<>> /\ pending = <<>> /\ active = "none"
  BY TypeFacts DEF IInv, QueueInOrder, OneWrite, Attach
<1>2. TypeOK'
  BY DEF IInv, TypeOK, Attach, controller, schedule, write, history
<1>3. OneWrite'
  BY <1>1 DEF IInv, OneWrite, Stored, Attach, controller, schedule, write, history
<1>4. Covered' = appended
  BY DEF Attach, Covered
<1>5. Numbers(appended + 1, appended) = <<>>
  <2>1. appended + 1 \in Nat /\ appended < appended + 1
    BY <1>1
  <2> QED BY <1>1, <2>1, NumbersRange
<1>6. InOrder(appended + 1, appended, appended)'
  BY <1>1, <1>4, <1>5 DEF InOrder, Attach, controller, schedule, write, history
<1>7. QueueInOrder'
  <2>1. appended' = appended /\ appended + 1 \in 1..(Covered' + 1) /\ appended \in 0..appended
    BY <1>1, <1>4 DEF Attach
  <2>2. \E n \in 1..(Covered' + 1), e \in 0..appended', k \in 0..appended' : InOrder(n, e, k)'
    BY <1>6, <2>1
  <2> QED BY <1>1, <2>2 DEF IInv, QueueInOrder, Attach, history
<1>8. Mapped
  BY DEF Mapped, Attach, history
<1> QED BY <1>2, <1>3, <1>7, <1>8 DEF IInv

LEMMA LogEventStep ==
    ASSUME IInv, LogEvent  PROVE IInv' /\ Mapped
<1>1. /\ appended \in Nat /\ asked \in Nat /\ acked \in Nat /\ Len(file) \in Nat
      /\ seed \in Nat /\ Covered \in Nat /\ Len(file) <= appended
      /\ asked <= appended /\ acked <= Len(file) /\ file = Numbers(1, Len(file))
      /\ seed <= appended /\ pending \in Seq(1..MaxEvents)
  BY TypeFacts DEF IInv, QueueInOrder, OneWrite, TypeOK
<1>2. /\ appended' = appended + 1 /\ appended + 1 <= MaxEvents
      /\ UNCHANGED <<file, asked, acked>>
  BY <1>1, MaxEventsAssumption DEF LogEvent, history
<1>3. Append(pending, appended + 1) \in Seq(1..MaxEvents)
  <2>1. appended + 1 \in 1..MaxEvents
    BY <1>1, <1>2, MaxEventsAssumption
  <2> QED BY <1>1, <2>1
<1>9. ASSUME Enqueue(appended + 1)
      PROVE  timer' \in BOOLEAN /\ deadlineExpired' \in BOOLEAN /\ automaticPaused' \in BOOLEAN
  <2>1. CASE barrier = "none" /\ Arms
    BY <1>9, <2>1, Zenon DEF Enqueue
  <2>2. CASE ~(barrier = "none" /\ Arms)
    BY <1>9, <2>2, Zenon DEF Enqueue, schedule, IInv, TypeOK
  <2> QED BY <2>1, <2>2
<1>4. ASSUME attached = "open", Enqueue(appended + 1), UNCHANGED session
      PROVE  IInv'
  <2>1. PICK n \in 1..(Covered + 1), e \in 0..appended, k \in 0..appended : InOrder(n, e, k)
    BY <1>4 DEF IInv, QueueInOrder
  <2>2. k = appended /\ pending = Numbers(e + 1, k) /\ e \in Nat /\ n \in Nat /\ e <= k
    BY <1>1, <1>4, <2>1 DEF InOrder
  <2>3. pending' = Numbers(e + 1, k + 1)
    <3>1. e + 1 \in Nat /\ k \in Nat /\ e + 1 <= k + 1
      BY <1>1, <2>2
    <3>2. Append(Numbers(e + 1, k), k + 1) = Numbers(e + 1, k + 1)
      BY <3>1, NumbersAppend
    <3> QED BY <1>4, <2>2, <3>2 DEF Enqueue
  <2>4. Covered' = Covered
    BY <1>2, <1>4 DEF Covered, session
  <2>5. InOrder(n, e, k + 1)'
    BY <1>1, <1>2, <1>4, <2>1, <2>2, <2>3, <2>4 DEF InOrder, session, write, Enqueue
  <2>6. e \in 0..appended' /\ k + 1 \in 0..appended' /\ n \in 1..(Covered' + 1)
    BY <1>1, <1>2, <2>1, <2>2, <2>4
  <2>7. \E i \in 1..(Covered' + 1), j \in 0..appended', l \in 0..appended' : InOrder(i, j, l)'
    BY <2>5, <2>6
  <2>8. QueueInOrder'
    BY <1>1, <1>2, <2>7 DEF QueueInOrder
  <2>9. TypeOK'
    <3>1. /\ appended' \in 0..MaxEvents /\ pending' = Append(pending, appended + 1)
      BY <1>1, <1>2, <1>4, MaxEventsAssumption DEF Enqueue
    <3>2. UNCHANGED <<file, session, write, resume, barrier, asked, acked>>
      BY <1>2, <1>4 DEF Enqueue
    <3> QED BY <1>3, <1>4, <1>9, <3>1, <3>2 DEF IInv, TypeOK, session, write
  <2>10. OneWrite'
    BY <1>1, <1>2, <1>4 DEF IInv, OneWrite, Stored, Enqueue, session, schedule, write
  <2> QED BY <2>8, <2>9, <2>10 DEF IInv
<1>5. ASSUME attached = "absent", attached' = "open", init' = "pending", seed' = appended + 1,
             Enqueue(appended + 1), UNCHANGED flushing
      PROVE  IInv'
  <2>1. pending = <<>> /\ active = "none" /\ batch = <<>>
    BY <1>5 DEF IInv, OneWrite
  <2>2. Covered' = appended + 1
    BY <1>5 DEF Covered
  <2> DEFINE a == appended
  <2>a. a \in Nat /\ a + 1 \in Nat /\ a < a + 1 /\ a + 1 <= a + 1
    BY <1>1
  <2>3. Numbers(a + 1, a) = <<>> /\ Append(Numbers(a + 1, a), a + 1) = Numbers(a + 1, a + 1)
    <3> HIDE DEF a
    <3> QED BY <2>a, NumbersRange, NumbersAppend
  <2>4. PICK c \in Nat : c = appended
    BY <1>1
  <2>5. InOrder(c + 1, c, c + 1)'
    <3>1. /\ pending' = Numbers(c + 1, c + 1) /\ batch' = Numbers(c + 1, c)
          /\ Covered' = c + 1 /\ appended' = c + 1 /\ asked' \in 0..c /\ failed' = failed
      BY <1>1, <1>2, <1>5, <2>1, <2>2, <2>3, <2>4 DEF Enqueue, write
    <3>2. c + 1 \in 1..(c + 1 + 1) /\ c \in (c + 1 - 1)..(c + 1) /\ c = c + 1 - 1
      OBVIOUS
    <3>3. c + 1 \in asked'..(c + 1)
      BY <3>1
    <3> QED BY <3>1, <3>2, <3>3 DEF InOrder
  <2>6. /\ c \in 0..appended' /\ c + 1 \in 0..appended' /\ c + 1 \in 1..(Covered' + 1)
    BY <1>1, <1>2, <2>2, <2>4
  <2>7. \E i \in 1..(Covered' + 1), j \in 0..appended', l \in 0..appended' : InOrder(i, j, l)'
    BY <2>5, <2>6
  <2>8. QueueInOrder'
    BY <1>1, <1>2, <2>7 DEF QueueInOrder
  <2>9. TypeOK'
    <3>1. /\ appended' \in 0..MaxEvents /\ seed' \in 0..MaxEvents
          /\ pending' = Append(pending, appended + 1)
      BY <1>1, <1>2, <1>5, MaxEventsAssumption DEF Enqueue
    <3>2. UNCHANGED <<file, flushing, write, resume, barrier, asked, acked>>
      BY <1>2, <1>5 DEF Enqueue
    <3> QED BY <1>3, <1>5, <1>9, <3>1, <3>2 DEF IInv, TypeOK, write
  <2>10. OneWrite'
    BY <1>1, <1>2, <1>5, <2>1 DEF IInv, OneWrite, Stored, Enqueue, schedule, write
  <2> QED BY <2>8, <2>9, <2>10 DEF IInv
<1>6. ASSUME attached # "open", UNCHANGED <<session, controller>>
      PROVE  IInv'
  <2>1. ASSUME attached # "absent"
        PROVE  \E i \in 1..(Covered' + 1), j \in 0..appended', l \in 0..appended' :
                  InOrder(i, j, l)'
    <3>1. PICK n \in 1..(Covered + 1), e \in 0..appended, k \in 0..appended : InOrder(n, e, k)
      BY <2>1 DEF IInv, QueueInOrder
    <3>2. Covered' = Covered
      BY <1>2, <1>6 DEF Covered, session
    <3>3. InOrder(n, e, k)'
      BY <1>1, <1>2, <1>6, <3>1, <3>2 DEF InOrder, session, controller, write
    <3>4. e \in 0..appended' /\ k \in 0..appended' /\ n \in 1..(Covered' + 1)
      BY <1>1, <1>2, <3>1, <3>2
    <3> QED BY <3>3, <3>4
  <2>2. QueueInOrder'
    BY <1>1, <1>2, <1>6, <2>1 DEF QueueInOrder, session
  <2>3. TypeOK'
    BY <1>1, <1>2, <1>6 DEF IInv, TypeOK, session, controller, schedule, write
  <2>4. OneWrite'
    BY <1>1, <1>2, <1>6 DEF IInv, OneWrite, Stored, session, controller, schedule, write
  <2> QED BY <2>2, <2>3, <2>4 DEF IInv
<1>7. IInv'
  BY <1>4, <1>5, <1>6 DEF LogEvent
<1>8. Mapped
  <2>1. Len(Numbers(1, appended)) = appended /\ Len(Numbers(1, appended + 1)) = appended + 1
    <3>1. /\ 1 \in Nat /\ appended + 1 \in Nat /\ 1 <= appended + 1 /\ appended + 1 - 1 = appended
          /\ 1 <= appended + 1 + 1 /\ appended + 1 + 1 - 1 = appended + 1
      BY <1>1
    <3> QED BY <1>1, <3>1, NumbersRange
  <2>2. Numbers(1, appended) \in Abstract!Prefixes(Numbers(1, appended + 1))
    <3>1. appended + 1 \in Nat /\ appended <= appended + 1
      BY <1>1
    <3> QED BY <1>1, <3>1, NumbersPrefixes
  <2>3. Abstract!LogEvent
    BY <1>2, <2>1, <2>2 DEF Abstract!LogEvent
  <2> QED BY <2>3 DEF Mapped, Abstract!Next
<1> QED BY <1>7, <1>8


\* A step that leaves the queue alone keeps its order.
LEMMA SameQueue ==
    ASSUME IInv, UNCHANGED <<appended, asked, pending, batch, failed>>,
           attached' = attached \/ (attached = "open" /\ attached' = "closing"),
           NEW c \in Nat, NEW d \in Nat, c <= d, Covered = c, Covered' = d
    PROVE  attached' # "absent" =>
              \E n \in 1..(Covered' + 1), e \in 0..appended', k \in 0..appended' : InOrder(n, e, k)'
<1> SUFFICES ASSUME attached' # "absent"
             PROVE  \E n \in 1..(d + 1), e \in 0..appended', k \in 0..appended' : InOrder(n, e, k)'
  OBVIOUS
<1>1. appended \in Nat /\ asked \in Nat
  BY TypeFacts DEF IInv
<1>2. attached # "absent"
  OBVIOUS
<1>3. PICK n \in 1..(c + 1), e \in 0..appended, k \in 0..appended : InOrder(n, e, k)
  BY <1>2 DEF IInv, QueueInOrder
<1>4. n \in 1..(d + 1)
  OBVIOUS
<1>5. InOrder(n, e, k)'
  BY <1>1, <1>3, <1>4 DEF InOrder
<1> QED BY <1>4, <1>5

LEMMA InitDoneStep ==
    ASSUME IInv, InitDone  PROVE IInv' /\ Mapped
<1>1. /\ appended \in Nat /\ asked \in Nat /\ acked \in Nat /\ Len(file) \in Nat
      /\ seed \in Nat /\ Covered = seed /\ Len(file) <= appended /\ seed <= appended
      /\ asked <= appended /\ acked <= Len(file) /\ file = Numbers(1, Len(file))
      /\ file \in Seq(Nat) /\ Len(file) <= seed /\ appended <= MaxEvents
  BY TypeFacts, MaxEventsAssumption DEF IInv, QueueInOrder, OneWrite, TypeOK, InitDone, Covered
<1>2. /\ UNCHANGED <<appended, attached, seed, flushing, asked, acked, pending, batch, failed>>
      /\ UNCHANGED <<active, barrier, resume, timer, deadlineExpired, automaticPaused, background>>
      /\ attached # "absent" /\ init = "pending" /\ init' \in {"ready", "failed"}
  BY DEF InitDone, controller, schedule, write, history
<1>3. CASE init' = "ready" /\ file' = file \o SeedSuffix
  <2>1. file' = Numbers(1, seed)
    BY <1>1, <1>3, StoreGrows DEF SeedSuffix
  <2>2. Len(file') = seed /\ file' \in Seq(1..MaxEvents)
    <3>1. 1 \in Nat /\ 1 <= 1 /\ 1 <= seed + 1 /\ seed + 1 - 1 = seed /\ seed <= MaxEvents
      BY <1>1, MaxEventsAssumption
    <3>2. Len(Numbers(1, seed)) = seed
      BY <1>1, <3>1, NumbersRange
    <3>3. Numbers(1, seed) \in Seq(1..MaxEvents)
      BY <1>1, <3>1, NumbersTyped
    <3> QED BY <2>1, <3>2, <3>3
  <2>3. Covered' = seed
    BY <1>3, <2>2 DEF Covered
  <2>4. QueueInOrder'
    BY <1>1, <1>2, <2>1, <2>2, <2>3, SameQueue DEF QueueInOrder
  <2>5. TypeOK'
    BY <1>2, <1>3, <2>2 DEF IInv, TypeOK
  <2>6. OneWrite'
    BY <1>1, <1>2, <1>3, <2>2 DEF IInv, OneWrite
  <2>7. Mapped
    BY <1>1, <1>2, <2>1, PersistStep DEF Mapped
  <2> QED BY <2>4, <2>5, <2>6, <2>7 DEF IInv
<1>4. CASE init' = "failed" /\ UNCHANGED file
  <2>1. Covered' = seed
    BY <1>2, <1>4 DEF Covered
  <2>2. QueueInOrder'
    BY <1>1, <1>2, <1>4, <2>1, SameQueue DEF QueueInOrder
  <2>3. TypeOK'
    BY <1>2, <1>4 DEF IInv, TypeOK
  <2>4. OneWrite'
    BY <1>2, <1>4 DEF IInv, OneWrite, Stored
  <2>5. Mapped
    BY <1>2, <1>4 DEF Mapped
  <2> QED BY <2>2, <2>3, <2>4, <2>5 DEF IInv
<1> QED BY <1>3, <1>4 DEF InitDone

\* Flush, and the disposal that begins with one: everything logged is asked for.
LEMMA AskStep ==
    ASSUME IInv, Flush \/ Dispose  PROVE IInv' /\ Mapped
<1>1. /\ appended \in Nat /\ asked \in Nat /\ acked \in Nat /\ Covered \in Nat
      /\ Len(file) <= appended /\ asked <= appended /\ acked <= Len(file)
      /\ file = Numbers(1, Len(file)) /\ Len(file) \in Nat
  BY TypeFacts DEF IInv, QueueInOrder
<1>2. /\ attached = "open" /\ attached' \in {"open", "closing"}
      /\ flushing' = TRUE /\ asked' = appended /\ timer' = FALSE /\ deadlineExpired' = FALSE
      /\ UNCHANGED <<appended, file, init, seed, pending, automaticPaused, write, resume,
                     barrier, acked>>
  BY DEF Flush, Dispose, CancelTimer
<1>3. PICK n \in 1..(Covered + 1), e \in 0..appended, k \in 0..appended : InOrder(n, e, k)
  BY <1>2 DEF IInv, QueueInOrder
<1>4. Covered' = Covered
  BY <1>2 DEF Covered
<1>5. InOrder(n, e, k)'
  BY <1>1, <1>2, <1>3, <1>4 DEF InOrder, write
<1>6. \E i \in 1..(Covered' + 1), j \in 0..appended', l \in 0..appended' : InOrder(i, j, l)'
  BY <1>2, <1>3, <1>4, <1>5
<1>7. QueueInOrder'
  BY <1>1, <1>2, <1>6 DEF QueueInOrder
<1>8. TypeOK'
  <2>1. UNCHANGED <<active, batch, background, failed>>
    BY <1>2 DEF write
  <2> QED BY ZenonT(90), <1>2, <2>1 DEF IInv, TypeOK
<1>9. OneWrite'
  BY <1>2 DEF IInv, OneWrite, Stored, write
<1>10. Abstract!AskFlush
  <2>1. Len(Numbers(1, appended)) = appended
    <3>1. 1 \in Nat /\ 1 <= appended + 1 /\ appended + 1 - 1 = appended
      BY <1>1
    <3> QED BY <1>1, <3>1, NumbersRange
  <2> QED BY <1>2, <2>1 DEF Abstract!AskFlush
<1> QED BY <1>7, <1>8, <1>9, <1>10 DEF IInv, Mapped, Abstract!Next

\* The controller goes.
LEMMA DisposedStep ==
    ASSUME IInv, Disposed  PROVE IInv' /\ Mapped
<1>1. /\ UNCHANGED <<appended, file, flushing, asked, acked>>
      /\ attached' = "absent" /\ init' = "pending" /\ seed' = 0 /\ ~flushing
      /\ pending' = <<>> /\ timer' = FALSE /\ deadlineExpired' = FALSE
      /\ automaticPaused' = FALSE /\ active' = "none" /\ batch' = <<>>
      /\ background' = FALSE /\ failed' = FALSE /\ resume' = FALSE /\ barrier' = "none"
  BY DEF Disposed, FreshController, history
<1>2. QueueInOrder'
  BY <1>1 DEF IInv, QueueInOrder
<1>3. TypeOK'
  <2>1. <<>> \in Seq(1..MaxEvents) /\ 0 \in 0..MaxEvents
    BY MaxEventsAssumption
  <2> QED BY <1>1, <2>1 DEF IInv, TypeOK
<1>4. OneWrite'
  BY <1>1, TypeFacts DEF IInv, OneWrite, Stored
<1>5. Mapped
  BY <1>1 DEF Mapped
<1> QED BY <1>2, <1>3, <1>4, <1>5 DEF IInv


\* The loop of a barrier: it starts a write, or everything asked for is stored.
LEMMA DrainStep ==
    ASSUME IInv, attached # "absent", active = "none", init = "ready", Drain,
           UNCHANGED <<appended, file, attached, init, seed, resume, asked>>,
           automaticPaused' \in BOOLEAN, flushing' \in BOOLEAN
    PROVE  IInv' /\ Mapped
<1>1. /\ appended \in Nat /\ asked \in Nat /\ acked \in Nat /\ Covered = Len(file)
      /\ Len(file) \in Nat /\ Len(file) <= appended /\ asked <= appended /\ acked <= Len(file)
      /\ file = Numbers(1, Len(file)) /\ pending \in Seq(1..MaxEvents) /\ batch = <<>>
  BY TypeFacts DEF IInv, QueueInOrder, OneWrite, TypeOK, Covered
<1>2. CASE pending # <<>>
  <2>1. /\ StartWrite(FALSE) /\ barrier' = "write" /\ acked' = acked
    BY <1>2 DEF Drain
  <2>2. \E i \in 1..(Covered' + 1), j \in 0..appended', l \in 0..appended' : InOrder(i, j, l)'
    BY <2>1, StartKeepsOrder
  <2>3. QueueInOrder'
    BY <1>1, <2>1, <2>2 DEF QueueInOrder
  <2>4. TypeOK'
    <3>1. <<>> \in Seq(1..MaxEvents)
      OBVIOUS
    <3> QED BY <1>1, <2>1, <3>1 DEF IInv, TypeOK, StartWrite
  <2>5. OneWrite'
    BY <2>1 DEF IInv, OneWrite, StartWrite
  <2>6. Mapped
    BY <2>1 DEF Mapped
  <2> QED BY <2>3, <2>4, <2>5, <2>6 DEF IInv
<1>3. CASE pending = <<>>
  <2>1. /\ timer' = FALSE /\ deadlineExpired' = FALSE /\ barrier' = "none" /\ acked' = asked
        /\ UNCHANGED <<pending, write>>
    BY <1>3 DEF Drain, CancelTimer
  <2>2. asked <= Len(file)
    <3>1. PICK e \in 0..appended, k \in 0..appended :
             e <= Covered /\ e <= k /\ k \in asked..appended /\ pending = Numbers(e + 1, k)
      BY Batchless
    <3>2. k <= e
      <4>1. e + 1 \in Nat /\ k \in Nat /\ e + 1 <= k + 1
        BY <1>1, <3>1
      <4>2. Len(Numbers(e + 1, k)) = k + 1 - (e + 1)
        BY <4>1, NumbersRange
      <4>3. Len(Numbers(e + 1, k)) = 0
        BY <1>3, <3>1
      <4> QED BY <4>1, <4>2, <4>3
    <3> QED BY <1>1, <3>1, <3>2
  <2>3. Covered' = Covered
    BY DEF Covered
  <2>4. QueueInOrder'
    <3>1. UNCHANGED <<appended, asked, pending, batch, failed>>
      BY <2>1 DEF write
    <3>2. Covered' = Len(file) /\ Len(file) <= Len(file)
      BY <1>1, <2>3
    <3>3. attached' # "absent" =>
             \E n \in 1..(Covered' + 1), e \in 0..appended', k \in 0..appended' : InOrder(n, e, k)'
      BY <1>1, <3>1, <3>2, SameQueue
    <3> QED BY <1>1, <2>1, <2>2, <3>3 DEF QueueInOrder
  <2>5. TypeOK'
    BY <2>1 DEF IInv, TypeOK, write
  <2>6. OneWrite'
    BY <2>1 DEF IInv, OneWrite, Stored, write
  <2>7. Mapped
    BY <2>1, <2>2 DEF Mapped, Abstract!Next, Abstract!Acknowledge
  <2> QED BY <2>4, <2>5, <2>6, <2>7 DEF IInv
<1> QED BY <1>2, <1>3

\* A step of the timer, the flags or the barrier alone.
LEMMA FlagStep ==
    ASSUME IInv, UNCHANGED <<appended, file, attached, init, seed, pending, write, history>>,
           TypeOK', OneWrite'
    PROVE  IInv' /\ Mapped
<1>1. Covered' = Covered
  BY DEF Covered
<1>2. PICK c \in Nat : Covered = c
  BY TypeFacts DEF IInv
<1>3. UNCHANGED <<appended, asked, pending, batch, failed, acked, file, attached>>
  BY DEF write, history
<1>4. QueueInOrder'
  <2>1. c <= c /\ Covered' = c
    BY <1>1, <1>2
  <2>2. attached' # "absent" =>
           \E n \in 1..(Covered' + 1), e \in 0..appended', k \in 0..appended' : InOrder(n, e, k)'
    BY <1>2, <1>3, <2>1, SameQueue
  <2> QED BY <1>3, <2>2 DEF IInv, QueueInOrder
<1>5. Mapped
  BY <1>3 DEF Mapped
<1> QED BY <1>4, <1>5 DEF IInv

LEMMA BeginBarrierStep ==
    ASSUME IInv, BeginBarrier  PROVE IInv' /\ Mapped
<1>1. /\ flushing' = FALSE /\ attached # "absent"
      /\ UNCHANGED <<appended, file, attached, init, seed, asked>>
  BY DEF BeginBarrier, IInv, OneWrite
<1>2. ASSUME CancelTimer, UNCHANGED <<pending, automaticPaused, write, resume, barrier, acked>>
      PROVE  IInv' /\ Mapped
  <2>0. UNCHANGED <<active, batch, background, failed>>
    BY <1>2 DEF write
  <2>1. TypeOK'
    BY <1>1, <1>2, <2>0 DEF IInv, TypeOK, CancelTimer
  <2>2. OneWrite'
    BY <1>1, <1>2 DEF IInv, OneWrite, Stored, CancelTimer, write
  <2> QED BY <1>1, <1>2, <2>1, <2>2, FlagStep DEF history
<1>3. ASSUME UNCHANGED <<controller, acked>>
      PROVE  IInv' /\ Mapped
  <2>0. UNCHANGED <<pending, timer, deadlineExpired, automaticPaused, active, batch, background,
                    failed, resume, barrier>>
    BY <1>3 DEF controller, schedule, write
  <2>1. TypeOK'
    BY ZenonT(90), <1>1, <1>3, <2>0 DEF IInv, TypeOK
  <2>2. OneWrite'
    BY <1>1, <1>3 DEF IInv, OneWrite, Stored, controller, schedule, write
  <2> QED BY <1>1, <1>3, <2>1, <2>2, FlagStep DEF history, controller
<1>4. ASSUME init = "ready", Overlaps, barrier' = "overlap", automaticPaused' = FALSE,
             CancelTimer, barrier = "none", UNCHANGED <<pending, write, resume, acked>>
      PROVE  IInv' /\ Mapped
  <2>1. TypeOK'
    BY <1>1, <1>4 DEF IInv, TypeOK, CancelTimer, write
  <2>2. OneWrite'
    BY <1>1, <1>4 DEF IInv, OneWrite, Stored, CancelTimer, write
  <2> QED BY <1>1, <1>4, <2>1, <2>2, FlagStep DEF history
<1>5. ASSUME init = "ready", ~Overlaps, Drain, automaticPaused' = FALSE, UNCHANGED resume
      PROVE  IInv' /\ Mapped
  <2>1. active = "none" /\ automaticPaused' \in BOOLEAN /\ flushing' \in BOOLEAN
    BY <1>1, <1>5 DEF Overlaps
  <2> QED BY <1>1, <1>5, <2>1, DrainStep
<1> QED BY <1>2, <1>3, <1>4, <1>5 DEF BeginBarrier


\* A write the controller starts by itself.
LEMMA AutomaticStep ==
    ASSUME IInv, attached # "absent", active = "none", StartWrite(TRUE), resume' = FALSE,
           UNCHANGED <<appended, file, session, automaticPaused, barrier, history>>,
           barrier # "overlapped", barrier # "written"
    PROVE  IInv' /\ Mapped
<1>1. UNCHANGED <<appended, file, attached, init, seed, flushing, asked, acked>>
  BY DEF session, history
<1>2. \E i \in 1..(Covered' + 1), j \in 0..appended', l \in 0..appended' : InOrder(i, j, l)'
  BY <1>1, StartKeepsOrder
<1>3. QueueInOrder'
  BY <1>1, <1>2 DEF IInv, QueueInOrder
<1>4. TypeOK'
  <2>1. <<>> \in Seq(1..MaxEvents)
    OBVIOUS
  <2> QED BY <1>1, <2>1 DEF IInv, TypeOK, StartWrite
<1>5. OneWrite'
  BY <1>1 DEF IInv, OneWrite, StartWrite
<1>6. Mapped
  BY <1>1 DEF Mapped
<1> QED BY <1>3, <1>4, <1>5, <1>6 DEF IInv

LEMMA DeadlineStep ==
    ASSUME IInv, Deadline  PROVE IInv' /\ Mapped
<1>1. /\ timer /\ ~resume /\ barrier \notin {"overlapped", "written"}
      /\ UNCHANGED <<appended, file, session, automaticPaused, resume, barrier, history>>
      /\ attached # "absent" /\ resume \in BOOLEAN
  BY DEF Deadline, Quiet, IInv, OneWrite, TypeOK
<1>2. CASE active = "none" /\ StartWrite(TRUE)
  <2>1. resume' = FALSE
    BY <1>1
  <2> QED BY <1>1, <1>2, <2>1, AutomaticStep
<1>3. CASE /\ active # "none" /\ timer' = FALSE /\ deadlineExpired' = NoteDeadline
           /\ UNCHANGED <<pending, write>>
  <2>1. TypeOK'
    BY <1>1, <1>3 DEF IInv, TypeOK, session, write, history, NoteDeadline
  <2>2. OneWrite'
    BY <1>1, <1>3 DEF IInv, OneWrite, Stored, session, write
  <2> QED BY <1>1, <1>3, <2>1, <2>2, FlagStep DEF session
<1> QED BY <1>2, <1>3 DEF Deadline

LEMMA ContinueStep ==
    ASSUME IInv, Continue  PROVE IInv' /\ Mapped
<1>1. /\ resume /\ resume' = FALSE
      /\ UNCHANGED <<appended, file, session, automaticPaused, barrier, history>>
      /\ attached # "absent"
  BY DEF Continue, IInv, OneWrite
<1>2. CASE barrier = "none" /\ pending # <<>> /\ deadlineExpired
  <2>1. active = "none" /\ StartWrite(TRUE)
    BY <1>1, <1>2 DEF Continue, IInv, OneWrite
  <2> QED BY <1>1, <1>2, <2>1, AutomaticStep
<1>3. CASE ~(barrier = "none" /\ pending # <<>> /\ deadlineExpired)
  <2>0. UNCHANGED <<pending, timer, deadlineExpired, write>>
    BY <1>3 DEF Continue
  <2>1. UNCHANGED <<appended, file, attached, init, seed, flushing, pending, timer, deadlineExpired,
                    automaticPaused, active, batch, background, failed, barrier, asked, acked>>
    BY <1>1, <2>0 DEF session, write, history
  <2>2. TypeOK'
    BY ZenonT(90), <1>1, <2>1 DEF IInv, TypeOK
  <2>3. OneWrite'
    BY <1>1, <2>1 DEF IInv, OneWrite, Stored
  <2> QED BY <1>1, <2>0, <2>2, <2>3, FlagStep DEF session
<1> QED BY <1>2, <1>3

LEMMA ContinueBarrierStep ==
    ASSUME IInv, ContinueBarrier  PROVE IInv' /\ Mapped
<1>1. /\ UNCHANGED <<appended, file, attached, init, seed, flushing, resume, asked>>
      /\ barrier \in {"overlapped", "written"} /\ init = "ready" /\ active = "none"
      /\ attached # "absent" /\ flushing' \in BOOLEAN /\ automaticPaused \in BOOLEAN
  BY DEF ContinueBarrier, session, IInv, OneWrite, TypeOK
<1>2. CASE Drain /\ (automaticPaused' = FALSE \/ UNCHANGED automaticPaused)
  <2>1. automaticPaused' \in BOOLEAN
    BY <1>1, <1>2
  <2> QED BY <1>1, <1>2, <2>1, DrainStep
<1>3. CASE barrier' = "none" /\ UNCHANGED <<pending, schedule, write, acked>>
  <2>1. TypeOK'
    BY <1>1, <1>3 DEF IInv, TypeOK, schedule, write
  <2>2. OneWrite'
    BY <1>1, <1>3 DEF IInv, OneWrite, Stored, schedule, write
  <2> QED BY <1>1, <1>3, <2>1, <2>2, FlagStep DEF history
<1> QED BY <1>2, <1>3 DEF ContinueBarrier

\* An append that ends leaves the store in order, or its batch in the queue.
LEMMA WriteEndsStep ==
    ASSUME IInv, WriteEnds  PROVE IInv' /\ Mapped
<1>1. /\ appended \in Nat /\ asked \in Nat /\ acked \in Nat /\ Covered \in Nat
      /\ Len(file) \in Nat /\ file \in Seq(Nat) /\ file = Numbers(1, Len(file))
      /\ Len(file) <= appended /\ asked <= appended /\ acked <= Len(file)
      /\ appended <= MaxEvents /\ batch \in Seq(Nat)
  BY TypeFacts, MaxEventsAssumption DEF IInv, QueueInOrder, TypeOK
<1>2. /\ active = "writing" /\ active' = "settled" /\ ~failed /\ ~resume /\ attached # "absent"
      /\ init # "pending" /\ barrier \notin {"overlapped", "written"}
      /\ UNCHANGED <<appended, attached, init, seed, flushing, batch, background, resume,
                     barrier, asked, acked>>
  BY DEF WriteEnds, Quiet, session, history, IInv, OneWrite
<1>3. PICK n \in 1..(Covered + 1), e \in 0..appended, k \in 0..appended : InOrder(n, e, k)
  BY <1>2 DEF IInv, QueueInOrder
<1>4. /\ n \in Nat /\ e \in Nat /\ k \in Nat /\ 1 <= n /\ n <= e + 1 /\ e <= k /\ k <= appended
      /\ asked <= k /\ n <= Covered + 1
      /\ batch = Numbers(n, e) /\ pending = Numbers(e + 1, k)
      /\ attached = "open" => k = appended
  BY <1>1, <1>2, <1>3 DEF InOrder
<1>5. ASSUME init = "ready", file' = file \o Fresh, failed' = FALSE,
             UNCHANGED <<pending, schedule>>
      PROVE  IInv' /\ Mapped
  <2>1. Covered = Len(file)
    BY <1>5 DEF Covered
  <2>2. /\ Fresh = Numbers(Len(file) + 1, e)
        /\ Stored = {i \in 1..(e + 1 - n) : n + i - 1 <= Len(file)}
    BY <1>1, <1>4, <2>1, FreshFollows
  <2> DEFINE m == IF Len(file) <= e THEN e ELSE Len(file)
  <2>3. m \in Nat /\ Len(file) <= m /\ e <= m /\ m <= appended /\ m <= MaxEvents
    BY <1>1, <1>4, MaxEventsAssumption
  <2>4. file' = Numbers(1, m)
    <3>1. CASE Len(file) <= e
      BY <1>1, <1>4, <1>5, <2>2, <3>1, StoreGrows
    <3>2. CASE e < Len(file)
      <4>1. e <= Len(file) /\ m = Len(file)
        BY <1>1, <1>4, <3>2
      <4> HIDE DEF m
      <4>2. file \o Numbers(Len(file) + 1, e) = file
        BY <1>1, <1>4, <4>1, StoreGrows
      <4>3. file' = file
        BY <1>5, <2>2, <4>2
      <4> QED BY <1>1, <4>1, <4>3
    <3> QED BY <1>1, <1>4, <3>1, <3>2
  <2> HIDE DEF m
  <2>5. Len(file') = m /\ file' \in Seq(1..MaxEvents)
    <3>1. 1 \in Nat /\ 1 <= 1 /\ 1 <= m + 1 /\ m + 1 - 1 = m
      BY <2>3
    <3>2. Len(Numbers(1, m)) = m
      BY <2>3, <3>1, NumbersRange
    <3>3. Numbers(1, m) \in Seq(1..MaxEvents)
      BY <2>3, <3>1, NumbersTyped
    <3> QED BY <2>4, <3>2, <3>3
  <2>6. Covered' = m
    BY <1>2, <1>5, <2>5 DEF Covered
  <2>7. QueueInOrder'
    <3>1. UNCHANGED <<appended, asked, pending, batch, failed>> /\ Covered = Len(file)
      BY <1>2, <1>5, <2>1 DEF IInv, TypeOK
    <3>2. attached' # "absent" =>
             \E i \in 1..(Covered' + 1), j \in 0..appended', l \in 0..appended' : InOrder(i, j, l)'
      BY <1>1, <1>2, <2>3, <2>6, <3>1, SameQueue
    <3> QED BY <1>1, <1>2, <2>3, <2>4, <2>5, <3>2 DEF QueueInOrder
  <2>8. TypeOK'
    BY <1>2, <1>5, <2>5 DEF IInv, TypeOK, schedule
  <2>9. Stored' = DOMAIN batch'
    <3>1. /\ DOMAIN Numbers(n, e) = 1..(e + 1 - n)
          /\ \A i \in 1..(e + 1 - n) : Numbers(n, e)[i] = n + i - 1
      BY <1>4, NumbersRange
    <3>2. \A i \in DOMAIN batch' : batch'[i] <= Len(file')
      BY <1>2, <1>4, <2>3, <2>5, <3>1
    <3> QED BY <3>2 DEF Stored
  <2>10. OneWrite'
    BY <1>2, <1>5, <2>9 DEF IInv, OneWrite, schedule
  <2>11. Mapped
    BY <1>2, <2>3, <2>4, PersistStep DEF Mapped
  <2> QED BY <2>7, <2>8, <2>10, <2>11 DEF IInv
<1>6. ASSUME pending' = Requeued, failed' = TRUE, CancelTimer, automaticPaused' = TRUE,
             UNCHANGED file
      PROVE  IInv' /\ Mapped
  <2>1. pending' = Numbers(n, k)
    <3>1. Numbers(n, e) \o Numbers(e + 1, k) = Numbers(n, k)
      BY <1>4, NumbersConcat
    <3> QED BY <1>4, <1>6, <3>1 DEF Requeued
  <2>2. pending' \in Seq(1..MaxEvents)
    <3>1. k <= MaxEvents
      BY <1>1, <1>4, MaxEventsAssumption
    <3> QED BY <1>4, <2>1, <3>1, NumbersTyped
  <2>3. Covered' = Covered
    BY <1>2, <1>6 DEF Covered
  <2>4. PICK d \in Nat : d = n - 1
    BY <1>4
  <2>5. InOrder(n, d, k)'
    <3>1. d = n - 1 /\ d + 1 = n /\ d \in (n - 1)..k /\ k \in asked'..appended' /\ n \in 1..(Covered' + 1)
      BY <1>1, <1>2, <1>4, <2>3, <2>4
    <3> QED BY <1>2, <1>4, <1>6, <2>1, <3>1 DEF InOrder
  <2>6. \E i \in 1..(Covered' + 1), j \in 0..appended', l \in 0..appended' : InOrder(i, j, l)'
    <3>1. d \in 0..appended' /\ k \in 0..appended' /\ n \in 1..(Covered' + 1)
      BY <1>1, <1>2, <1>4, <2>3, <2>4
    <3> QED BY <2>5, <3>1
  <2>7. QueueInOrder'
    BY <1>1, <1>2, <1>6, <2>6 DEF QueueInOrder
  <2>8. TypeOK'
    BY <1>2, <1>6, <2>2 DEF IInv, TypeOK, CancelTimer
  <2>9. OneWrite'
    BY <1>2, <1>6 DEF IInv, OneWrite, CancelTimer
  <2>10. Mapped
    BY <1>2, <1>6 DEF Mapped
  <2> QED BY <2>7, <2>8, <2>9, <2>10 DEF IInv
<1> QED BY <1>5, <1>6 DEF WriteEnds


\* The write's finally drops the batch: stored, or back in the queue.
LEMMA FinallyStep ==
    ASSUME IInv, Finally  PROVE IInv' /\ Mapped
<1>1. /\ appended \in Nat /\ asked \in Nat /\ Covered \in Nat /\ Len(file) \in Nat
      /\ Len(file) <= appended /\ asked <= appended /\ acked <= Len(file)
      /\ file = Numbers(1, Len(file))
  BY TypeFacts DEF IInv, QueueInOrder
<1>2. /\ active = "settled" /\ active' = "none" /\ batch' = <<>> /\ attached # "absent"
      /\ resume' = (background /\ ~failed) /\ barrier # "overlapped" /\ barrier # "written"
      /\ barrier' = CASE barrier = "overlap" -> "overlapped"
                      [] barrier = "write" -> "written"
                      [] OTHER -> barrier
      /\ UNCHANGED <<appended, file, attached, init, seed, flushing, pending, timer,
                     deadlineExpired, automaticPaused, background, failed, asked, acked>>
  BY DEF Finally, session, schedule, history, IInv, OneWrite
<1>3. PICK n \in 1..(Covered + 1), e \in 0..appended, k \in 0..appended : InOrder(n, e, k)
  BY <1>2 DEF IInv, QueueInOrder
<1>4. /\ n \in Nat /\ e \in Nat /\ k \in Nat /\ 1 <= n /\ n <= e + 1 /\ e <= k /\ k <= appended
      /\ asked <= k /\ n <= Covered + 1 /\ k \in asked..appended
      /\ IF failed THEN e = n - 1 ELSE batch = Numbers(n, e)
      /\ pending = Numbers(e + 1, k)
      /\ attached = "open" => k = appended
  BY <1>1, <1>3 DEF InOrder
<1>5. Covered' = Covered
  BY <1>2 DEF Covered
<1>6. e <= Covered
  <2>1. CASE failed
    BY <1>1, <1>4, <2>1
  <2>2. CASE ~failed
    <3>1. /\ DOMAIN Numbers(n, e) = 1..(e + 1 - n)
          /\ \A i \in 1..(e + 1 - n) : Numbers(n, e)[i] = n + i - 1
      BY <1>4, NumbersRange
    <3>2. Covered = Len(file) /\ Stored = DOMAIN batch /\ batch = Numbers(n, e)
      BY <1>2, <1>4, <2>2 DEF IInv, OneWrite, Covered
    <3>3. CASE n <= e
      <4>1. e + 1 - n \in 1..(e + 1 - n) /\ n + (e + 1 - n) - 1 = e
        BY <1>4, <3>3
      <4>2. batch[e + 1 - n] = e
        BY <3>1, <3>2, <4>1
      <4>3. e + 1 - n \in Stored
        BY <3>1, <3>2, <4>1
      <4>4. batch[e + 1 - n] <= Len(file)
        BY <4>3 DEF Stored
      <4> QED BY <3>2, <4>2, <4>4
    <3>4. CASE e < n
      BY <1>1, <1>4, <3>4
    <3> QED BY <1>4, <3>3, <3>4
  <2> QED BY <2>1, <2>2
<1>7. PICK c \in Nat : c = e + 1
  BY <1>4
<1>8. Numbers(c, e) = <<>>
  <2>1. e < c
    BY <1>4, <1>7
  <2> QED BY <1>4, <2>1, NumbersRange
<1>9. InOrder(c, e, k)'
  <2>1. /\ c \in 1..(Covered' + 1) /\ e \in (c - 1)..k /\ e = c - 1 /\ e + 1 = c
        /\ k \in asked'..appended'
    BY <1>1, <1>2, <1>4, <1>5, <1>6, <1>7
  <2> QED BY <1>2, <1>4, <1>8, <2>1 DEF InOrder
<1>10. \E i \in 1..(Covered' + 1), j \in 0..appended', l \in 0..appended' : InOrder(i, j, l)'
  <2>1. c \in 1..(Covered' + 1) /\ e \in 0..appended' /\ k \in 0..appended'
    BY <1>1, <1>2, <1>4, <1>5, <1>6, <1>7
  <2> QED BY <1>9, <2>1
<1>11. QueueInOrder'
  BY <1>1, <1>2, <1>10 DEF QueueInOrder
<1>12. TypeOK'
  <2>1. <<>> \in Seq(1..MaxEvents)
    OBVIOUS
  <2>2. resume' \in BOOLEAN
    BY <1>2, Zenon DEF IInv, TypeOK
  <2>3. barrier' \in {"none", "overlap", "overlapped", "write", "written"}
    BY <1>2 DEF IInv, TypeOK
  <2>4. active' \in {"none", "writing", "settled"}
    BY <1>2
  <2> QED BY <1>2, <2>1, <2>2, <2>3, <2>4 DEF IInv, TypeOK
<1>13. OneWrite'
  <2>1. /\ attached' # "absent" /\ active' = "none" /\ batch' = <<>> /\ init' = init
        /\ barrier' # "none" => barrier # "none"
    BY <1>2
  <2> QED BY <1>2, <2>1 DEF IInv, OneWrite
<1>14. Mapped
  BY <1>2 DEF Mapped
<1> QED BY <1>11, <1>12, <1>13, <1>14 DEF IInv

\* A crash keeps what was stored and some of what was on its way.
LEMMA CrashStep ==
    ASSUME IInv, Crash  PROVE IInv' /\ Mapped
<1>1. /\ appended \in Nat /\ acked \in Nat /\ Covered \in Nat /\ seed \in Nat
      /\ Len(file) \in Nat /\ file \in Seq(Nat) /\ Len(file) <= appended /\ acked <= Len(file)
      /\ file = Numbers(1, Len(file)) /\ appended <= MaxEvents /\ seed <= appended
  BY TypeFacts, MaxEventsAssumption DEF IInv, QueueInOrder, TypeOK, OneWrite
<1>2. \E b \in 0..appended : InFlight = Numbers(Len(file) + 1, b)
  <2>1. Numbers(Len(file) + 1, 0) = <<>>
    <3>1. Len(file) + 1 \in Nat /\ 0 \in Nat /\ 0 < Len(file) + 1
      BY <1>1
    <3> QED BY <3>1, NumbersRange
  <2>2. CASE InFlight = <<>>
    BY <1>1, <2>1, <2>2
  <2>3. CASE InFlight = SeedSuffix
    BY <1>1, <2>3 DEF SeedSuffix
  <2>4. CASE attached # "absent" /\ init = "ready" /\ active = "writing" /\ InFlight = Fresh
    <3>1. PICK n \in 1..(Covered + 1), e \in 0..appended, k \in 0..appended : InOrder(n, e, k)
      BY <2>4 DEF IInv, QueueInOrder
    <3>2. /\ n \in Nat /\ e \in Nat /\ 1 <= n /\ n <= Len(file) + 1 /\ n <= e + 1
          /\ batch = Numbers(n, e)
      BY <1>1, <2>4, <3>1 DEF InOrder, Covered, IInv, OneWrite
    <3>3. Fresh = Numbers(Len(file) + 1, e)
      BY <1>1, <3>2, FreshFollows
    <3> QED BY <2>4, <3>3
  <2> QED BY <2>2, <2>3, <2>4 DEF InFlight
<1>3. PICK b \in 0..appended : InFlight = Numbers(Len(file) + 1, b)
  BY <1>2
<1>4. PICK n \in 0..Len(InFlight) : file' = file \o SubSeq(InFlight, 1, n)
  BY DEF Crash
<1>5. PICK l \in Nat : l = Len(file)
  BY <1>1
<1>6. /\ SubSeq(InFlight, 1, n) = Numbers(l + 1, l + n)
      /\ l + n \in Nat /\ l + n <= appended /\ l <= l + n
  <2>1. b \in Nat /\ n \in 0..Len(Numbers(l + 1, b))
    BY <1>1, <1>3, <1>4, <1>5
  <2>2. /\ SubSeq(Numbers(l + 1, b), 1, n) = Numbers(l + 1, l + n)
        /\ l + n \in Nat /\ (n > 0 => l + n <= b)
    BY <2>1, NumbersPrefix
  <2>3. n \in Nat
    <3>1. Len(Numbers(l + 1, b)) \in Nat
      <4>1. l + 1 \in Nat
        OBVIOUS
      <4> QED BY <2>1, <4>1, NumbersRange
    <3> QED BY <2>1, <3>1
  <2> QED BY <1>1, <1>3, <1>5, <2>2, <2>3
<1>7. PICK m \in Nat : m = l + n
  BY <1>6
<1>8. file' = Numbers(1, m)
  BY <1>1, <1>4, <1>5, <1>6, <1>7, StoreGrows
<1>9. Len(file') = m /\ file' \in Seq(1..MaxEvents) /\ m <= MaxEvents
  <2>1. 1 \in Nat /\ 1 <= 1 /\ 1 <= m + 1 /\ m + 1 - 1 = m /\ m <= MaxEvents
    BY <1>1, <1>6, <1>7, MaxEventsAssumption
  <2>2. Len(Numbers(1, m)) = m
    BY <2>1, NumbersRange
  <2>3. Numbers(1, m) \in Seq(1..MaxEvents)
    BY <2>1, NumbersTyped
  <2> QED BY <1>8, <2>1, <2>2, <2>3
<1>10. /\ appended' = m /\ asked' = acked /\ acked' = acked
       /\ attached' = "absent" /\ init' = "pending" /\ seed' = 0 /\ flushing' = FALSE
       /\ pending' = <<>> /\ timer' = FALSE /\ deadlineExpired' = FALSE
       /\ automaticPaused' = FALSE /\ active' = "none" /\ batch' = <<>>
       /\ background' = FALSE /\ failed' = FALSE /\ resume' = FALSE /\ barrier' = "none"
  BY <1>9 DEF Crash, FreshController
<1>11. QueueInOrder'
  BY <1>1, <1>5, <1>6, <1>7, <1>8, <1>9, <1>10 DEF QueueInOrder
<1>12. TypeOK'
  <2>1. <<>> \in Seq(1..MaxEvents) /\ 0 \in 0..MaxEvents /\ m \in 0..MaxEvents
    BY <1>9, MaxEventsAssumption
  <2> QED BY <1>9, <1>10, <2>1 DEF IInv, TypeOK
<1>13. OneWrite'
  BY <1>10 DEF OneWrite
<1>14. Abstract!Crash
  <2>1. file' \in Abstract!Prefixes(Numbers(1, appended))
    BY <1>1, <1>6, <1>7, <1>8, NumbersPrefixes
  <2>2. Numbers(1, appended') = file' /\ Len(file') >= Len(file)
    BY <1>1, <1>5, <1>6, <1>7, <1>8, <1>9, <1>10
  <2> QED BY <1>10, <2>1, <2>2 DEF Abstract!Crash
<1> QED BY <1>11, <1>12, <1>13, <1>14 DEF IInv, Mapped, Abstract!Next

-----------------------------------------------------------------------------
LEMMA InitHolds == Init => IInv /\ Abstract!Init
<1> SUFFICES ASSUME Init  PROVE IInv /\ Abstract!Init
  OBVIOUS
<1>1. /\ appended \in {0, 1} /\ appended <= MaxEvents /\ appended \in Nat
  BY DEF Init
<1>2. Numbers(1, 0) = <<>> /\ Numbers(1, appended) \in Seq(Nat)
  <2>1. 1 \in Nat /\ 0 \in Nat /\ 0 < 1
    OBVIOUS
  <2> QED BY <1>1, <2>1, NumbersRange
<1>3. TypeOK
  <2>1. <<>> \in Seq(1..MaxEvents) /\ 0 \in 0..MaxEvents /\ appended \in 0..MaxEvents
    BY <1>1, MaxEventsAssumption
  <2> QED BY <2>1 DEF Init, TypeOK
<1>4. QueueInOrder
  BY <1>1, <1>2 DEF Init, QueueInOrder
<1>5. OneWrite
  BY <1>1 DEF Init, OneWrite
<1>6. Abstract!Init
  BY <1>2 DEF Init, Abstract!Init
<1> QED BY <1>3, <1>4, <1>5, <1>6 DEF IInv

LEMMA StepHolds == IInv /\ [Next]_vars => IInv' /\ Mapped
<1> SUFFICES ASSUME IInv, [Next]_vars  PROVE IInv' /\ Mapped
  OBVIOUS
<1>1. CASE Attach      BY <1>1, AttachStep
<1>2. CASE LogEvent    BY <1>2, LogEventStep
<1>3. CASE Flush       BY <1>3, AskStep
<1>4. CASE Dispose     BY <1>4, AskStep
<1>5. CASE InitDone    BY <1>5, InitDoneStep
<1>6. CASE BeginBarrier     BY <1>6, BeginBarrierStep
<1>7. CASE Disposed    BY <1>7, DisposedStep
<1>8. CASE Deadline    BY <1>8, DeadlineStep
<1>9. CASE WriteEnds   BY <1>9, WriteEndsStep
<1>10. CASE Finally    BY <1>10, FinallyStep
<1>11. CASE Continue   BY <1>11, ContinueStep
<1>12. CASE ContinueBarrier  BY <1>12, ContinueBarrierStep
<1>13. CASE Crash      BY <1>13, CrashStep
<1>14. CASE UNCHANGED vars
  <2>1. TypeOK' /\ OneWrite'
    BY <1>14 DEF vars, session, controller, schedule, write, history, IInv, TypeOK, OneWrite, Stored
  <2>2. UNCHANGED <<appended, file, attached, init, seed, pending, write, history>>
    BY <1>14 DEF vars, session, controller
  <2> QED BY <2>1, <2>2, FlagStep
<1> QED BY <1>1, <1>2, <1>3, <1>4, <1>5, <1>6, <1>7, <1>8, <1>9, <1>10, <1>11, <1>12, <1>13,
           <1>14 DEF Next, Tasks

\* For a log of any length: whatever fails, overlaps or crashes, the store and the
\* queue hold the session's events in order, without gap or repetition.
THEOREM WritesInOrder == Spec => [](TypeOK /\ QueueInOrder /\ OneWrite)
<1>1. Init => IInv
  BY InitHolds
<1>2. IInv /\ [Next]_vars => IInv'
  BY StepHolds
<1> QED BY <1>1, <1>2, PTL DEF Spec, IInv

\* The write path implements DurableLog: the store is a prefix of the log, and a
\* crash takes nothing that a flush has acknowledged.
THEOREM WritesImplementDurableLog == Spec => ImplementsDurableLog
<1>1. Init => IInv
  BY InitHolds
<1>2. Init => Abstract!Init
  BY InitHolds
<1>3. IInv /\ [Next]_vars => IInv' /\ [Abstract!Next]_Abstract!vars
  BY StepHolds DEF Mapped, Abstract!vars
<1> QED BY <1>1, <1>2, <1>3, PTL DEF Spec, ImplementsDurableLog, Abstract!Spec

-----------------------------------------------------------------------------
(***************************************************************************)
(* Induction over the naturals, for a set: the library's theorem on minimal *)
(* elements, which has no operator parameter, gives it.                     *)
(***************************************************************************)
\* Every nonempty set of naturals has a least element.
LEMMA LeastElement ==
    ASSUME NEW T, T \subseteq Nat, T # {}
    PROVE  \E x \in T : \A y \in T : x <= y
<1> DEFINE R == OpToRel(<, Nat)
<1>1. IsWellFoundedOn(R, Nat)
  BY NatLessThanWellFounded
<1>2. \A x, y \in Nat : y < x => <<y, x>> \in R
  BY DEF OpToRel
<1> HIDE DEF R
<1>3. PICK x \in T : \A y \in T : ~ (<<y, x>> \in R)
  BY <1>1, WFMin
<1>4. \A y \in T : ~ (y < x)
  BY <1>2, <1>3
<1> QED BY <1>3, <1>4

\* What holds of 0 and passes from each number to the next holds of all.
LEMMA SetInduction ==
    ASSUME NEW S, 0 \in S, \A n \in Nat : n \in S => n + 1 \in S
    PROVE  Nat \subseteq S
<1> SUFFICES ASSUME Nat \ S # {}  PROVE FALSE
  OBVIOUS
<1> DEFINE T == Nat \ S
<1>1. T \subseteq Nat /\ T # {}
  OBVIOUS
<1> HIDE DEF T
<1>2. PICK x \in T : \A y \in T : x <= y
  BY <1>1, LeastElement
<1>3. x \in Nat /\ x # 0 /\ x \notin S
  BY <1>2 DEF T
<1>4. x - 1 \in Nat /\ x - 1 + 1 = x /\ ~ (x <= x - 1)
  BY <1>3
<1>5. x - 1 \in S
  BY <1>2, <1>4 DEF T
<1> QED BY <1>3, <1>4, <1>5

-----------------------------------------------------------------------------
\* A batch is a stretch of consecutive events.
Ascending == \A i \in DOMAIN batch : batch[i] = batch[1] + i - 1

\* The filter keeps the batch's end: it is the suffix the model takes.
LEMMA FilterKeepsTheEnd ==
    ASSUME TypeOK, Ascending  PROVE FilterIsSuffix
<1> DEFINE N == Len(batch)
           L == Len(file)
           c == Cardinality(Stored)
           F(f) == [i \in 0..N |-> IF i = 0 THEN <<>>
                                   ELSE IF batch[i] > L THEN Append(f[i - 1], batch[i])
                                   ELSE f[i - 1]]
           g == [i \in 0..N |-> SubSeq(batch, c + 1, i)]
           kept == CHOOSE f : f = F(f)
<1>1. /\ batch \in Seq(Nat) /\ N \in Nat /\ L \in Nat /\ DOMAIN batch = 1..N
      /\ \A i \in 1..N : batch[i] \in Nat
  BY TypeFacts
<1>2. c \in 0..N /\ \A i \in 1..N : batch[i] <= L <=> i <= c
  <2>1. CASE N = 0
    <3>1. Stored = {}
      BY <1>1, <2>1 DEF Stored
    <3> QED BY <1>1, <2>1, <3>1, FS_EmptySet
  <2>2. CASE N > 0
    <3>1. \A i \in 1..N : batch[i] = batch[1] + i - 1
      BY <1>1 DEF Ascending
    <3>2. 1 \in 1..N /\ batch[1] \in Nat
      BY <1>1, <2>2
    <3> DEFINE m == IF L < batch[1] THEN 0 ELSE IF L + 1 - batch[1] <= N THEN L + 1 - batch[1] ELSE N
    <3>3. m \in 0..N /\ \A i \in 1..N : batch[i] <= L <=> i <= m
      BY <1>1, <3>1, <3>2
    <3> HIDE DEF m
    <3>4. Stored = 1..m
      BY <1>1, <3>3 DEF Stored
    <3>5. c = m
      <4>1. 1 \in Int /\ m \in Int /\ m \in Nat
        BY <1>1, <3>3
      <4>2. Cardinality(1..m) = IF 1 > m THEN 0 ELSE m - 1 + 1
        BY <4>1, FS_Interval
      <4> QED BY <3>4, <4>1, <4>2
    <3> QED BY <3>3, <3>5
  <2> QED BY <1>1, <2>1, <2>2
<1> HIDE DEF N, L, c
<1>a. \A i \in 0..N : g[i] = SubSeq(batch, c + 1, i)
  OBVIOUS
<1>b. \A f : F(f) = [i \in 0..N |-> IF i = 0 THEN <<>>
                                   ELSE IF batch[i] > L THEN Append(f[i - 1], batch[i])
                                   ELSE f[i - 1]]
  OBVIOUS
<1>c. g = [i \in 0..N |-> g[i]]
  OBVIOUS
<1>d. \A i \in 1..N : i \in 0..N /\ i - 1 \in 0..N /\ i # 0
  BY <1>1
<1> HIDE DEF g
<1>3. \A i \in 1..N : g[i] = IF batch[i] > L THEN Append(g[i - 1], batch[i]) ELSE g[i - 1]
  <2> SUFFICES ASSUME NEW i \in 1..N
               PROVE  g[i] = IF batch[i] > L THEN Append(g[i - 1], batch[i]) ELSE g[i - 1]
    OBVIOUS
  <2>1. g[i] = SubSeq(batch, c + 1, i) /\ g[i - 1] = SubSeq(batch, c + 1, i - 1)
    BY <1>a, <1>d
  <2>2. CASE i <= c
    <3>1. SubSeq(batch, c + 1, i) = <<>> /\ SubSeq(batch, c + 1, i - 1) = <<>>
      BY <1>1, <1>2, <2>2
    <3>2. ~ (batch[i] > L)
      BY <1>1, <1>2, <2>2
    <3> QED BY <2>1, <3>1, <3>2
  <2>3. CASE i > c
    <3>1. SubSeq(batch, c + 1, i) = Append(SubSeq(batch, c + 1, i - 1), batch[i])
      BY <1>1, <1>2, <2>3 DEF N
    <3>2. batch[i] > L
      BY <1>1, <1>2, <2>3
    <3> QED BY <2>1, <3>1, <3>2
  <2> QED BY <1>1, <1>2, <2>2, <2>3
<1>4. g[0] = <<>>
  BY <1>1, <1>2, <1>a
<1>5. g = F(g)
  <2>1. \A i \in 0..N : g[i] = IF i = 0 THEN <<>>
                                ELSE IF batch[i] > L THEN Append(g[i - 1], batch[i])
                                ELSE g[i - 1]
    BY <1>1, <1>3, <1>4
  <2>2. g = [i \in 0..N |-> IF i = 0 THEN <<>>
                            ELSE IF batch[i] > L THEN Append(g[i - 1], batch[i])
                            ELSE g[i - 1]]
    BY <1>c, <2>1
  <2> QED BY <2>2, <1>b
<1> HIDE DEF F
<1>6. kept = F(kept)
  BY <1>5
<1> HIDE DEF kept
<1>7. kept[0] = <<>> /\ \A i \in 1..N : kept[i] = IF batch[i] > L THEN Append(kept[i - 1], batch[i])
                                                  ELSE kept[i - 1]
  <2>1. kept = [i \in 0..N |-> IF i = 0 THEN <<>>
                               ELSE IF batch[i] > L THEN Append(kept[i - 1], batch[i])
                               ELSE kept[i - 1]]
    BY <1>6, <1>b
  <2>2. \A i \in 0..N : kept[i] = IF i = 0 THEN <<>>
                                   ELSE IF batch[i] > L THEN Append(kept[i - 1], batch[i])
                                   ELSE kept[i - 1]
    BY <2>1
  <2>3. 0 \in 0..N
    BY <1>1
  <2> QED BY <1>d, <2>2, <2>3
<1> DEFINE S == {n \in Nat : n <= N => kept[n] = g[n]}
<1>8. 0 \in S
  BY <1>4, <1>7
<1>9. ASSUME NEW n \in Nat, n \in S  PROVE n + 1 \in S
  <2> SUFFICES ASSUME n + 1 <= N  PROVE kept[n + 1] = g[n + 1]
    OBVIOUS
  <2>1. kept[n] = g[n] /\ n + 1 \in 1..N /\ n + 1 - 1 = n
    BY <1>1, <1>9
  <2> QED BY <1>3, <1>7, <2>1
<1>10. kept[N] = g[N]
  <2> HIDE DEF S
  <2>1. Nat \subseteq S
    BY <1>8, <1>9, SetInduction
  <2> QED BY <1>1, <2>1 DEF S
<1>11. Filtered = kept[N]
  BY DEF Filtered, kept, F, N, L
<1>12. Fresh = g[N]
  <2>1. N \in 0..N
    BY <1>1
  <2>2. g[N] = SubSeq(batch, c + 1, N)
    BY <1>a, <2>1
  <2> QED BY <2>2 DEF Fresh, N, c
<1> QED BY <1>10, <1>11, <1>12 DEF FilterIsSuffix

-----------------------------------------------------------------------------
(***************************************************************************)
(* Nothing is stranded.  What is queued behind a write is left to whoever  *)
(* started it, and what a failure leaves is paused.                        *)
(***************************************************************************)
\* A write that no timer started is a barrier's own.
WriterIsKnown == active # "none" /\ ~background => barrier = "write"

\* A failure takes the deadline along, and pauses until the barrier has heard of it.
FailurePauses ==
    /\ active = "settled" /\ failed => ~deadlineExpired
    /\ barrier \in {"write", "written"} /\ failed => automaticPaused

Attended == WriterIsKnown /\ FailurePauses /\ NothingStranded

\* What a write starts with is consecutive.
LEMMA StartIsAscending ==
    ASSUME IInv, attached # "absent", active = "none", batch' = pending
    PROVE  Ascending'
<1>1. PICK e \in 0..appended, k \in 0..appended : pending = Numbers(e + 1, k)
  BY Batchless
<1>2. e + 1 \in Nat /\ k \in Nat /\ appended \in Nat
  BY TypeFacts DEF IInv
<1>3. /\ DOMAIN pending = 1..(k + 1 - (e + 1))
      /\ \A i \in 1..(k + 1 - (e + 1)) : pending[i] = e + 1 + i - 1
  BY <1>1, <1>2, NumbersRange
<1>4. \A i \in DOMAIN pending : pending[i] = pending[1] + i - 1
  BY <1>2, <1>3
<1> QED BY <1>4 DEF Ascending

\* Every step keeps the batch consecutive.
LEMMA BatchStaysAscending ==
    ASSUME IInv, Ascending, [Next]_vars  PROVE Ascending'
<1>1. CASE batch' = batch
  BY <1>1 DEF Ascending
<1>2. CASE batch' = <<>>
  BY <1>2 DEF Ascending
<1>3. CASE batch' = pending /\ active = "none" /\ attached # "absent"
  BY <1>3, StartIsAscending
<1>4. batch' = batch \/ batch' = <<>> \/ (batch' = pending /\ active = "none" /\ attached # "absent")
  <2>1. CASE Attach  BY <2>1 DEF Attach, controller, write
  <2>2. CASE LogEvent  BY <2>2 DEF LogEvent, Enqueue, controller, write
  <2>3. CASE Flush \/ Dispose  BY <2>3 DEF Flush, Dispose, write
  <2>4. CASE InitDone  BY <2>4 DEF InitDone, controller, write
  <2>5. CASE BeginBarrier
    BY <2>5 DEF BeginBarrier, Drain, Overlaps, StartWrite, controller, write, IInv, OneWrite
  <2>6. CASE Disposed  BY <2>6 DEF Disposed, FreshController
  <2>7. CASE Deadline  BY <2>7 DEF Deadline, StartWrite, write, IInv, OneWrite
  <2>8. CASE WriteEnds  BY <2>8 DEF WriteEnds
  <2>9. CASE Finally  BY <2>9 DEF Finally
  <2>10. CASE Continue
    BY <2>10 DEF Continue, StartWrite, write, IInv, OneWrite
  <2>11. CASE ContinueBarrier
    BY <2>11 DEF ContinueBarrier, Drain, StartWrite, write, IInv, OneWrite
  <2>12. CASE Crash  BY <2>12 DEF Crash, FreshController
  <2>13. CASE UNCHANGED vars  BY <2>13 DEF vars, controller, write
  <2> QED BY <2>1, <2>2, <2>3, <2>4, <2>5, <2>6, <2>7, <2>8, <2>9, <2>10, <2>11, <2>12, <2>13
          DEF Next, Tasks
<1> QED BY <1>1, <1>2, <1>3, <1>4

\* Every step keeps what is queued attended to.
LEMMA QueueStaysAttended ==
    ASSUME IInv, Attended, [Next]_vars  PROVE Attended'
<1> USE DEF Attended, WriterIsKnown, FailurePauses, NothingStranded
<1>t. /\ background \in BOOLEAN /\ failed \in BOOLEAN /\ timer \in BOOLEAN
      /\ deadlineExpired \in BOOLEAN /\ automaticPaused \in BOOLEAN /\ flushing \in BOOLEAN
      /\ resume \in BOOLEAN
  BY DEF IInv, TypeOK
<1>o. OneWrite
  BY DEF IInv
<1>1. CASE Attach  BY <1>1, <1>t, <1>o DEF Attach, controller, schedule, write, OneWrite
<1>2. CASE LogEvent
  BY <1>2, <1>t, <1>o DEF LogEvent, Enqueue, Arms, controller, schedule, session, write, OneWrite
<1>3. CASE Flush \/ Dispose  BY <1>3, <1>t DEF Flush, Dispose, CancelTimer, write
<1>4. CASE InitDone  BY <1>4, <1>t DEF InitDone, controller, schedule, write
<1>5. CASE BeginBarrier
  BY <1>5, <1>t, <1>o
     DEF BeginBarrier, Drain, Overlaps, CancelTimer, StartWrite, controller, schedule, write, OneWrite
<1>6. CASE Disposed  BY <1>6 DEF Disposed, FreshController
<1>7. CASE Deadline
  BY <1>7, <1>t, <1>o DEF Deadline, NoteDeadline, Quiet, StartWrite, session, write, OneWrite
<1>8. CASE WriteEnds
  BY <1>8, <1>t, <1>o DEF WriteEnds, CancelTimer, Quiet, session, schedule, OneWrite
<1>9. CASE Finally  BY <1>9, <1>t, <1>o DEF Finally, session, schedule, OneWrite
<1>10. CASE Continue  BY <1>10, <1>t, <1>o DEF Continue, StartWrite, session, write, OneWrite
<1>11. CASE ContinueBarrier
  BY <1>11, <1>t, <1>o DEF ContinueBarrier, Drain, CancelTimer, StartWrite, session, schedule, write, OneWrite
<1>12. CASE Crash  BY <1>12 DEF Crash, FreshController
<1>13. CASE UNCHANGED vars
  BY <1>13, <1>t DEF vars, session, controller, schedule, write
<1> QED BY <1>1, <1>2, <1>3, <1>4, <1>5, <1>6, <1>7, <1>8, <1>9, <1>10, <1>11, <1>12, <1>13
        DEF Next, Tasks

\* For a log of any length: all that is asked of the write path.
THEOREM WritesAreSafe == Spec => []WriteInv
<1> DEFINE Inv == IInv /\ Ascending /\ Attended
<1>1. Init => Inv
  <2> SUFFICES ASSUME Init  PROVE Inv
    OBVIOUS
  <2>1. IInv
    BY InitHolds
  <2>2. Ascending /\ Attended
    BY DEF Init, Ascending, Attended, WriterIsKnown, FailurePauses, NothingStranded
  <2> QED BY <2>1, <2>2
<1>2. Inv /\ [Next]_vars => Inv'
  BY StepHolds, BatchStaysAscending, QueueStaysAttended
<1>3. Inv => WriteInv
  BY FilterKeepsTheEnd DEF IInv, Attended, WriteInv
<1> HIDE DEF Inv
<1> QED BY <1>1, <1>2, <1>3, PTL DEF Spec

================================================================================
