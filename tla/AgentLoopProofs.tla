--------------------------- MODULE AgentLoopProofs ---------------------------
(***************************************************************************)
(* Theorems about AgentLoop, for every set of messages.                    *)
(***************************************************************************)
EXTENDS AgentLoop, FiniteSetTheorems, SequenceTheorems, TLAPS

-----------------------------------------------------------------------------
(***************************************************************************)
(* The box operations, for every set of messages.                        *)
(***************************************************************************)
\* A splice inside the bounds that validate checks leaves two message lists.
LEMMA SpliceType ==
    ASSUME NEW box \in Inboxes, NEW target \in Targets,
           NEW start \in Nat, NEW count \in Nat, NEW inserted \in Seq(Messages),
           start + count <= Len(box[target])
    PROVE  Splice(box, target, start, count, inserted) \in Inboxes
<1> DEFINE s == box[target]
<1>1. s \in Seq(Messages)
  BY DEF Inboxes
<1>2. SubSeq(s, 1, start) \in Seq(Messages)
  BY <1>1
<1>3. SubSeq(s, start + count + 1, Len(s)) \in Seq(Messages)
  BY <1>1
<1>4. SubSeq(s, 1, start) \o inserted \o SubSeq(s, start + count + 1, Len(s)) \in Seq(Messages)
  BY <1>2, <1>3
<1> QED
  BY <1>4 DEF Splice, Inboxes

\* append and prepend leave lists of messages.
LEMMA AddType ==
    ASSUME NEW box \in Inboxes, NEW target \in Targets, NEW m \in Messages
    PROVE  Add(box, target, m) \in Inboxes /\ Prepend(box, target, m) \in Inboxes
<1>1. box[target] \in Seq(Messages) /\ <<m>> \in Seq(Messages)
  BY DEF Inboxes
<1>2. /\ Len(box[target]) \in Nat /\ 0 \in Nat
      /\ Len(box[target]) + 0 <= Len(box[target])
      /\ 0 + 0 <= Len(box[target])
  BY <1>1
<1>3. Splice(box, target, Len(box[target]), 0, <<m>>) \in Inboxes
  BY <1>1, <1>2, SpliceType
<1>4. Splice(box, target, 0, 0, <<m>>) \in Inboxes
  BY <1>1, <1>2, SpliceType
<1> QED
  BY <1>3, <1>4 DEF Add, Prepend

\* remove and replace leave lists of messages.
LEMMA EditType ==
    ASSUME NEW box \in Inboxes, NEW target \in Targets,
           NEW i \in DOMAIN box[target], NEW m \in Messages
    PROVE  /\ RemoveAtIndex(box, target, i) \in Inboxes
           /\ ReplaceAtIndex(box, target, i, m) \in Inboxes
<1>1. box[target] \in Seq(Messages) /\ <<m>> \in Seq(Messages) /\ <<>> \in Seq(Messages)
  BY DEF Inboxes
<1>2. i - 1 \in Nat /\ i - 1 + 1 <= Len(box[target])
  BY <1>1
<1> QED
  BY <1>1, <1>2, SpliceType DEF RemoveAtIndex, ReplaceAtIndex

\* A splice of one list leaves the other alone.
LEMMA SpliceOther ==
    ASSUME NEW box \in Inboxes, NEW target \in Targets, NEW other \in Targets,
           other # target, NEW start, NEW count, NEW inserted
    PROVE  Splice(box, target, start, count, inserted)[other] = box[other]
BY DEF Splice, Inboxes

\* Splices that delete a prefix.
LEMMA PrefixType ==
    ASSUME NEW box \in Inboxes, NEW target \in Targets,
           NEW n \in Nat, n <= Len(box[target])
    PROVE  Splice(box, target, 0, n, <<>>) \in Inboxes
<1>1. box[target] \in Seq(Messages) /\ <<>> \in Seq(Messages)
  BY DEF Inboxes
<1>2. 0 \in Nat /\ 0 + n <= Len(box[target])
  BY <1>1
<1> QED
  BY <1>1, <1>2, SpliceType

\* Emptying one list leaves lists of messages.
LEMMA DrainType ==
    ASSUME NEW box \in Inboxes, NEW target \in Targets
    PROVE  Splice(box, target, 0, Len(box[target]), <<>>) \in Inboxes
<1>1. box[target] \in Seq(Messages)
  BY DEF Inboxes
<1>2. Len(box[target]) \in Nat /\ Len(box[target]) <= Len(box[target])
  BY <1>1
<1> QED
  BY <1>2, PrefixType

\* A boundary claims at most one queued turn, and none between steps.
LEMMA QueuedTurnRange ==
    ASSUME NEW box \in Inboxes, NEW target \in Targets
    PROVE  /\ QueuedTurn(box, target) \in {0, 1}
           /\ QueuedTurn(box, target) <= Len(box["next-turn"])
           /\ target = "next-step" => QueuedTurn(box, target) = 0
<1>1. box["next-turn"] \in Seq(Messages)
  BY DEF Inboxes, Targets
<1>2. box["next-turn"] # <<>> => Len(box["next-turn"]) >= 1
  BY <1>1
<1> QED
  BY <1>1, <1>2 DEF QueuedTurn

\* claim leaves lists of messages.
LEMMA ClaimType ==
    ASSUME NEW box \in Inboxes, NEW target \in Targets
    PROVE  /\ AfterClaim(box, target) \in Inboxes
           /\ Claimed(box, target) \in Seq(Messages)
           /\ Range(Claimed(box, target)) \subseteq Messages
<1> DEFINE noSteps == Splice(box, "next-step", 0, Len(box["next-step"]), <<>>)
           n == QueuedTurn(box, target)
<1>1. /\ box["next-step"] \in Seq(Messages) /\ box["next-turn"] \in Seq(Messages)
      /\ <<>> \in Seq(Messages)
  BY DEF Inboxes, Targets
<1>2. n \in Nat /\ n <= Len(box["next-turn"])
  BY QueuedTurnRange
<1>3. noSteps \in Inboxes
  BY DrainType DEF Targets
<1>4. noSteps["next-turn"] = box["next-turn"]
  BY SpliceOther DEF Targets
<1>5. Splice(noSteps, "next-turn", 0, n, <<>>) \in Inboxes
  BY <1>2, <1>3, <1>4, PrefixType DEF Targets
<1>6. AfterClaim(box, target) \in Inboxes
  BY <1>5 DEF AfterClaim
<1>7. SubSeq(box["next-turn"], 1, n) \in Seq(Messages)
  BY <1>1, <1>2
<1>8. Claimed(box, target) \in Seq(Messages)
  BY <1>1, <1>7 DEF Claimed
<1>9. \A s \in Seq(Messages) : Range(s) \subseteq Messages
  BY DEF Range
<1> QED
  BY <1>6, <1>8, <1>9

-----------------------------------------------------------------------------
(***************************************************************************)
(* No message is in the box twice.                                       *)
(***************************************************************************)
Once(box) ==
    /\ \A target \in Targets : IsInjective(box[target])
    /\ Range(box["next-turn"]) \cap Range(box["next-step"]) = {}

\* One list, spliced.
Spliced(s, start, count, inserted) ==
    SubSeq(s, 1, start) \o inserted \o SubSeq(s, start + count + 1, Len(s))

\* What the splice takes out.
Cut(s, start, count) == {s[k] : k \in start + 1 .. start + count}

\* A spliced list, element by element.
LEMMA SplicedElements ==
    ASSUME NEW S, NEW s \in Seq(S), NEW start \in Nat, NEW count \in Nat, NEW inserted \in Seq(S),
           start + count <= Len(s)
    PROVE  LET r == Spliced(s, start, count, inserted)
               n == Len(inserted)
           IN  /\ r \in Seq(S) /\ Len(r) = Len(s) - count + n
               /\ \A k \in 1 .. Len(r) :
                     r[k] = IF k <= start THEN s[k]
                            ELSE IF k <= start + n THEN inserted[k - start]
                            ELSE s[k - n + count]
<1> DEFINE head == SubSeq(s, 1, start)
           tail == SubSeq(s, start + count + 1, Len(s))
           n == Len(inserted)
           r == Spliced(s, start, count, inserted)
<1>1. Len(s) \in Nat /\ n \in Nat
  BY LenProperties
<1>2. /\ head \in Seq(S) /\ Len(head) = start
      /\ \A k \in 1 .. start : head[k] = s[k]
  BY <1>1
<1>3. /\ tail \in Seq(S) /\ Len(tail) = Len(s) - (start + count)
      /\ \A k \in 1 .. Len(s) - (start + count) : tail[k] = s[start + count + k]
  BY <1>1
<1>4. /\ head \o inserted \in Seq(S) /\ Len(head \o inserted) = start + n
      /\ \A k \in 1 .. start + n :
            (head \o inserted)[k] = IF k <= start THEN s[k] ELSE inserted[k - start]
  BY <1>1, <1>2, ConcatProperties
<1>5. r = (head \o inserted) \o tail
  BY DEF Spliced
<1> HIDE DEF head, tail, r
<1>6. r \in Seq(S) /\ Len(r) = Len(s) - count + n
  <2>1. r \in Seq(S) /\ Len(r) = Len(head \o inserted) + Len(tail)
    BY <1>3, <1>4, <1>5, ConcatProperties
  <2> QED BY <1>1, <1>3, <1>4, <2>1
<1>7. ASSUME NEW k \in 1 .. Len(r)
      PROVE  r[k] = IF k <= start THEN s[k]
                    ELSE IF k <= start + n THEN inserted[k - start]
                    ELSE s[k - n + count]
  <2>1. r[k] = IF k <= start + n THEN (head \o inserted)[k] ELSE tail[k - (start + n)]
    BY <1>1, <1>3, <1>4, <1>5, ConcatProperties
  <2>2. CASE k <= start + n
    BY <1>1, <1>4, <1>6, <2>1, <2>2
  <2>3. CASE ~(k <= start + n)
    <3>1. k - (start + n) \in 1 .. Len(s) - (start + count)
      BY <1>1, <1>6, <2>3
    <3>2. start + count + (k - (start + n)) = k - n + count
      BY <1>1, <1>6
    <3>3. tail[k - (start + n)] = s[k - n + count]
      BY <1>3, <3>1, <3>2
    <3>4. ~(k <= start)
      BY <1>1, <1>6, <2>3
    <3> QED BY <2>1, <2>3, <3>3, <3>4
  <2> QED BY <2>2, <2>3
<1> QED BY <1>6, <1>7 DEF r

\* Its elements, when nothing is there twice.
LEMMA SplicedOnce ==
    ASSUME NEW S, NEW s \in Seq(S), NEW start \in Nat, NEW count \in Nat, NEW inserted \in Seq(S),
           start + count <= Len(s), IsInjective(s), IsInjective(inserted),
           Range(inserted) \cap (Range(s) \ Cut(s, start, count)) = {}
    PROVE  /\ IsInjective(Spliced(s, start, count, inserted))
           /\ Range(Spliced(s, start, count, inserted))
                 = (Range(s) \ Cut(s, start, count)) \cup Range(inserted)
<1> DEFINE r == Spliced(s, start, count, inserted)
           n == Len(inserted)
           Kept == Range(s) \ Cut(s, start, count)
<1>1. /\ r \in Seq(S) /\ Len(r) = Len(s) - count + n
      /\ \A k \in 1 .. Len(r) : r[k] = IF k <= start THEN s[k]
                                       ELSE IF k <= start + n THEN inserted[k - start]
                                       ELSE s[k - n + count]
  BY SplicedElements
<1>2. /\ Len(s) \in Nat /\ n \in Nat
      /\ DOMAIN s = 1 .. Len(s) /\ DOMAIN inserted = 1 .. n /\ DOMAIN r = 1 .. Len(r)
  BY <1>1, LenProperties
<1> HIDE DEF r
<1>3. \A i, j \in 1 .. Len(s) : s[i] = s[j] => i = j
  BY <1>2 DEF IsInjective
<1>4. \A k \in 1 .. Len(s) : s[k] \in Kept <=> ~(start < k /\ k <= start + count)
  BY <1>2, <1>3 DEF Range, Cut
<1>5. ASSUME NEW k \in 1 .. Len(r)
      PROVE  /\ k <= start => k \in 1 .. Len(s) /\ r[k] = s[k] /\ s[k] \in Kept
             /\ start < k /\ k <= start + n =>
                   k - start \in 1 .. n /\ r[k] = inserted[k - start] /\ r[k] \in Range(inserted)
             /\ start + n < k =>
                   /\ k - n + count \in 1 .. Len(s) /\ r[k] = s[k - n + count]
                   /\ s[k - n + count] \in Kept
  <2>1. CASE k <= start
    BY <1>1, <1>2, <1>4, <2>1
  <2>2. CASE start < k /\ k <= start + n
    <3>1. k - start \in 1 .. n /\ ~(k <= start) /\ ~(start + n < k)
      BY <1>1, <1>2, <2>2
    <3>2. r[k] = inserted[k - start]
      BY <1>1, <2>2, <3>1
    <3>3. inserted[k - start] \in Range(inserted)
      BY <1>2, <3>1 DEF Range
    <3> QED BY <3>1, <3>2, <3>3
  <2>3. CASE start + n < k
    <3>1. k - n + count \in 1 .. Len(s) /\ start + count < k - n + count
      BY <1>1, <1>2, <2>3
    <3>2. r[k] = s[k - n + count]
      BY <1>1, <1>2, <2>3
    <3> QED BY <1>2, <1>4, <2>3, <3>1, <3>2
  <2> QED BY <1>1, <1>2, <2>1, <2>2, <2>3
<1>6. IsInjective(r)
  <2> SUFFICES ASSUME NEW i \in 1 .. Len(r), NEW j \in 1 .. Len(r), r[i] = r[j]  PROVE i = j
    BY <1>2 DEF IsInjective
  <2>1. \A x, y \in 1 .. n : inserted[x] = inserted[y] => x = y
    BY <1>2 DEF IsInjective
  <2>2. ~(r[i] \in Kept /\ r[i] \in Range(inserted))
    OBVIOUS
  <2>3. CASE start < i /\ i <= start + n
    <3>1. start < j /\ j <= start + n
      BY <1>1, <1>2, <1>5, <2>2, <2>3
    <3>2. i - start = j - start
      BY <1>5, <2>1, <2>3, <3>1
    <3> QED BY <1>1, <1>2, <3>2
  <2>4. CASE ~(start < i /\ i <= start + n)
    <3>1. ~(start < j /\ j <= start + n)
      BY <1>1, <1>2, <1>5, <2>2, <2>4
    <3> DEFINE At(k) == IF k <= start THEN k ELSE k - n + count
    <3>2. /\ r[i] = s[At(i)] /\ At(i) \in 1 .. Len(s)
          /\ r[j] = s[At(j)] /\ At(j) \in 1 .. Len(s)
      BY <1>1, <1>2, <1>5, <2>4, <3>1
    <3>3. At(i) = At(j)
      BY <1>3, <3>2
    <3> QED BY <1>1, <1>2, <2>4, <3>1, <3>3
  <2> QED BY <2>3, <2>4
<1>7. Range(r) \subseteq Kept \cup Range(inserted)
  <2> SUFFICES ASSUME NEW k \in 1 .. Len(r)  PROVE r[k] \in Kept \cup Range(inserted)
    BY <1>2 DEF Range
  <2> QED BY <1>1, <1>2, <1>5
<1>8. Range(inserted) \subseteq Range(r)
  <2> SUFFICES ASSUME NEW k \in 1 .. n  PROVE inserted[k] \in Range(r)
    BY <1>2 DEF Range
  <2>1. start + k \in 1 .. Len(r) /\ ~(start + k <= start) /\ start + k <= start + n
    BY <1>1, <1>2
  <2>2. r[start + k] = inserted[start + k - start] /\ start + k - start = k
    BY <1>1, <2>1
  <2> QED BY <1>2, <2>1, <2>2 DEF Range
<1>9. Kept \subseteq Range(r)
  <2> SUFFICES ASSUME NEW k \in 1 .. Len(s), ~(start < k /\ k <= start + count)
               PROVE  s[k] \in Range(r)
    BY <1>2, <1>4 DEF Range
  <2>1. CASE k <= start
    <3>1. k \in 1 .. Len(r) /\ r[k] = s[k]
      BY <1>1, <1>2, <2>1
    <3> QED BY <1>2, <3>1 DEF Range
  <2>2. CASE start + count < k
    <3> DEFINE j == k - count + n
    <3>1. j \in 1 .. Len(r) /\ ~(j <= start) /\ ~(j <= start + n) /\ j - n + count = k
      BY <1>1, <1>2, <2>2
    <3>2. r[j] = s[k]
      BY <1>1, <3>1
    <3> QED BY <1>2, <3>1, <3>2 DEF Range
  <2> QED BY <1>2, <2>1, <2>2
<1> QED BY <1>6, <1>7, <1>8, <1>9 DEF r

\* What a splice does to the inbox as a whole.
LEMMA SpliceOnce ==
    ASSUME NEW box \in Inboxes, NEW target \in Targets, Once(box),
           NEW start \in Nat, NEW count \in Nat, NEW inserted \in Seq(Messages),
           start + count <= Len(box[target]), IsInjective(inserted),
           Range(inserted) \cap (Pending(box) \ Cut(box[target], start, count)) = {}
    PROVE  /\ Once(Splice(box, target, start, count, inserted))
           /\ Pending(Splice(box, target, start, count, inserted))
                 = (Pending(box) \ Cut(box[target], start, count)) \cup Range(inserted)
<1> DEFINE s == box[target]
           cut == Cut(s, start, count)
           after == Splice(box, target, start, count, inserted)
<1>1. s \in Seq(Messages) /\ IsInjective(s)
  BY DEF Inboxes, Once
<1>2. after[target] = Spliced(s, start, count, inserted)
  BY DEF Splice, Spliced, Inboxes
<1>3. \A other \in Targets \ {target} : after[other] = box[other]
  BY DEF Splice, Inboxes
<1>4. Range(s) \subseteq Pending(box)
  BY DEF Pending, Targets
<1>5. /\ IsInjective(after[target])
      /\ Range(after[target]) = (Range(s) \ cut) \cup Range(inserted)
  BY <1>1, <1>2, <1>4, SplicedOnce
<1>6. cut \subseteq Range(s)
  <2> SUFFICES ASSUME NEW k \in start + 1 .. start + count  PROVE s[k] \in Range(s)
    BY DEF Cut
  <2>1. k \in 1 .. Len(s) /\ DOMAIN s = 1 .. Len(s)
    BY <1>1, LenProperties
  <2> QED BY <2>1 DEF Range
<1> HIDE DEF s, cut, after
<1>7. CASE target = "next-turn"
  <2>1. after["next-step"] = box["next-step"] /\ s = box["next-turn"]
    BY <1>3, <1>7 DEF Targets, s
  <2> QED BY <1>5, <1>6, <1>7, <2>1 DEF Once, Pending, Targets, s, cut, after
<1>8. CASE target = "next-step"
  <2>1. after["next-turn"] = box["next-turn"] /\ s = box["next-step"]
    BY <1>3, <1>8 DEF Targets, s
  <2> QED BY <1>5, <1>6, <1>8, <2>1 DEF Once, Pending, Targets, s, cut, after
<1> QED BY <1>7, <1>8 DEF Targets

\* Lists of none and of one.
LEMMA ShortLists ==
    /\ <<>> \in Seq(Messages) /\ IsInjective(<<>>) /\ Range(<<>>) = {}
    /\ \A m \in Messages : <<m>> \in Seq(Messages) /\ IsInjective(<<m>>) /\ Range(<<m>>) = {m}
    /\ \A s \in Seq(Messages) : Cut(s, 0, Len(s)) = Range(s)
    /\ \A s \in Seq(Messages) : \A i \in Nat : Cut(s, i, 0) = {}
    /\ \A s \in Seq(Messages) : \A i \in DOMAIN s : Cut(s, i - 1, 1) = {s[i]}
<1>1. <<>> \in Seq(Messages) /\ IsInjective(<<>>) /\ Range(<<>>) = {}
  BY DEF IsInjective, Range
<1>2. \A m \in Messages : <<m>> \in Seq(Messages) /\ IsInjective(<<m>>) /\ Range(<<m>>) = {m}
  <2> TAKE m \in Messages
  <2>1. DOMAIN <<m>> = {1} /\ <<m>>[1] = m /\ <<m>> \in Seq(Messages)
    OBVIOUS
  <2> QED BY <2>1 DEF IsInjective, Range
<1>3. \A s \in Seq(Messages) : Cut(s, 0, Len(s)) = Range(s)
  <2> TAKE s \in Seq(Messages)
  <2>1. DOMAIN s = 1 .. Len(s) /\ Len(s) \in Nat
    BY LenProperties
  <2>2. 0 + 1 .. 0 + Len(s) = 1 .. Len(s)
    BY <2>1
  <2> QED BY <2>1, <2>2 DEF Cut, Range
<1>4. \A s \in Seq(Messages) : \A i \in Nat : Cut(s, i, 0) = {}
  <2> TAKE s \in Seq(Messages)
  <2> TAKE i \in Nat
  <2>1. i + 1 .. i + 0 = {}
    OBVIOUS
  <2> QED BY <2>1 DEF Cut
<1>5. \A s \in Seq(Messages) : \A i \in DOMAIN s : Cut(s, i - 1, 1) = {s[i]}
  <2> TAKE s \in Seq(Messages)
  <2> TAKE i \in DOMAIN s
  <2>1. i \in Nat
    BY LenProperties
  <2>2. (i - 1) + 1 .. (i - 1) + 1 = {i}
    BY <2>1
  <2> QED BY <2>2 DEF Cut
<1> QED BY <1>1, <1>2, <1>3, <1>4, <1>5

\* append and prepend: one more.
LEMMA AddOnce ==
    ASSUME NEW box \in Inboxes, NEW target \in Targets, Once(box),
           NEW m \in Messages, m \notin Pending(box)
    PROVE  /\ Once(Add(box, target, m)) /\ Pending(Add(box, target, m)) = Pending(box) \cup {m}
           /\ Once(Prepend(box, target, m))
           /\ Pending(Prepend(box, target, m)) = Pending(box) \cup {m}
<1>1. box[target] \in Seq(Messages) /\ Len(box[target]) \in Nat
  BY LenProperties DEF Inboxes
<1>2. /\ <<m>> \in Seq(Messages) /\ IsInjective(<<m>>) /\ Range(<<m>>) = {m}
      /\ \A i \in Nat : Cut(box[target], i, 0) = {}
  BY <1>1, ShortLists
<1>3. ASSUME NEW i \in Nat, i <= Len(box[target])
      PROVE  /\ Once(Splice(box, target, i, 0, <<m>>))
             /\ Pending(Splice(box, target, i, 0, <<m>>)) = Pending(box) \cup {m}
  <2>1. i + 0 <= Len(box[target]) /\ 0 \in Nat
    BY <1>1, <1>3
  <2>2. Range(<<m>>) \cap (Pending(box) \ Cut(box[target], i, 0)) = {}
    BY <1>2
  <2>3. /\ Once(Splice(box, target, i, 0, <<m>>))
        /\ Pending(Splice(box, target, i, 0, <<m>>))
              = (Pending(box) \ Cut(box[target], i, 0)) \cup Range(<<m>>)
    <3> DEFINE one == <<m>>
    <3> HIDE DEF one
    <3> SUFFICES /\ Once(Splice(box, target, i, 0, one))
                 /\ Pending(Splice(box, target, i, 0, one))
                       = (Pending(box) \ Cut(box[target], i, 0)) \cup Range(one)
      BY DEF one
    <3>1. one \in Seq(Messages) /\ IsInjective(one)
          /\ Range(one) \cap (Pending(box) \ Cut(box[target], i, 0)) = {}
      BY <1>2, <2>2 DEF one
    <3> QED BY <2>1, <3>1, SpliceOnce
  <2> QED BY <1>2, <2>3
<1>4. Len(box[target]) <= Len(box[target]) /\ 0 \in Nat /\ 0 <= Len(box[target])
  BY <1>1
<1> QED BY <1>1, <1>3, <1>4 DEF Add, Prepend

\* remove: one less; replace: another.
LEMMA EditOnce ==
    ASSUME NEW box \in Inboxes, NEW target \in Targets, Once(box),
           NEW i \in DOMAIN box[target]
    PROVE  /\ Once(RemoveAtIndex(box, target, i))
           /\ Pending(RemoveAtIndex(box, target, i)) = Pending(box) \ {box[target][i]}
           /\ box[target][i] \in Pending(box)
           /\ \A m \in Messages \ Pending(box) :
                 /\ Once(ReplaceAtIndex(box, target, i, m))
                 /\ Pending(ReplaceAtIndex(box, target, i, m))
                       = (Pending(box) \ {box[target][i]}) \cup {m}
<1>1. box[target] \in Seq(Messages)
  BY DEF Inboxes
<1>2. i - 1 \in Nat /\ 1 \in Nat /\ (i - 1) + 1 <= Len(box[target])
  BY <1>1, LenProperties
<1>3. Cut(box[target], i - 1, 1) = {box[target][i]}
  BY <1>1, ShortLists
<1>4. box[target][i] \in Pending(box)
  BY DEF Pending, Range, Targets
<1>5. /\ Once(Splice(box, target, i - 1, 1, <<>>))
      /\ Pending(Splice(box, target, i - 1, 1, <<>>)) = Pending(box) \ {box[target][i]}
  <2> DEFINE none == <<>>
  <2>1. none \in Seq(Messages) /\ IsInjective(none) /\ Range(none) = {}
    BY ShortLists
  <2> HIDE DEF none
  <2>2. Range(none) \cap (Pending(box) \ Cut(box[target], i - 1, 1)) = {}
    BY <2>1
  <2>3. /\ Once(Splice(box, target, i - 1, 1, none))
        /\ Pending(Splice(box, target, i - 1, 1, none))
              = (Pending(box) \ Cut(box[target], i - 1, 1)) \cup Range(none)
    BY <1>2, <2>1, <2>2, SpliceOnce
  <2> QED BY <1>3, <2>1, <2>3 DEF none
<1>6. ASSUME NEW m \in Messages \ Pending(box)
      PROVE  /\ Once(Splice(box, target, i - 1, 1, <<m>>))
             /\ Pending(Splice(box, target, i - 1, 1, <<m>>))
                   = (Pending(box) \ {box[target][i]}) \cup {m}
  <2> DEFINE one == <<m>>
  <2>1. one \in Seq(Messages) /\ IsInjective(one) /\ Range(one) = {m}
    BY <1>6, ShortLists
  <2> HIDE DEF one
  <2>2. Range(one) \cap (Pending(box) \ Cut(box[target], i - 1, 1)) = {}
    BY <1>6, <2>1
  <2>3. /\ Once(Splice(box, target, i - 1, 1, one))
        /\ Pending(Splice(box, target, i - 1, 1, one))
              = (Pending(box) \ Cut(box[target], i - 1, 1)) \cup Range(one)
    BY <1>2, <2>1, <2>2, SpliceOnce
  <2> QED BY <1>3, <2>1, <2>3 DEF one
<1> QED BY <1>4, <1>5, <1>6 DEF RemoveAtIndex, ReplaceAtIndex

\* Emptying a prefix of a list.
LEMMA PrefixOnce ==
    ASSUME NEW box \in Inboxes, NEW target \in Targets, Once(box),
           NEW n \in Nat, n <= Len(box[target])
    PROVE  /\ Splice(box, target, 0, n, <<>>) \in Inboxes
           /\ Once(Splice(box, target, 0, n, <<>>))
           /\ Pending(Splice(box, target, 0, n, <<>>)) = Pending(box) \ Cut(box[target], 0, n)
<1>1. 0 \in Nat /\ 0 + n <= Len(box[target])
  BY LenProperties DEF Inboxes
<1> DEFINE none == <<>>
<1>2. none \in Seq(Messages) /\ IsInjective(none) /\ Range(none) = {}
  BY ShortLists
<1>3. Splice(box, target, 0, n, none) \in Inboxes
  BY PrefixType
<1> HIDE DEF none
<1>4. Range(none) \cap (Pending(box) \ Cut(box[target], 0, n)) = {}
  BY <1>2
<1>5. /\ Once(Splice(box, target, 0, n, none))
      /\ Pending(Splice(box, target, 0, n, none))
            = (Pending(box) \ Cut(box[target], 0, n)) \cup Range(none)
  BY <1>1, <1>2, <1>4, SpliceOnce
<1> QED BY <1>2, <1>3, <1>5 DEF none

\* One splice of clear: what the list held is gone, and nothing else.
LEMMA EmptiedOnce ==
    ASSUME NEW box \in Inboxes, NEW target \in Targets, Once(box)
    PROVE  /\ Emptied(box, target) \in Inboxes /\ Once(Emptied(box, target))
           /\ Pending(Emptied(box, target)) = Pending(box) \ Range(box[target])
           /\ Range(Emptied(box, target)[target]) = {}
           /\ Range(box[target]) \subseteq Pending(box)
<1>1. /\ box[target] \in Seq(Messages) /\ Len(box[target]) \in Nat
      /\ Len(box[target]) <= Len(box[target])
  BY LenProperties DEF Inboxes
<1>2. /\ Emptied(box, target) \in Inboxes /\ Once(Emptied(box, target))
      /\ Pending(Emptied(box, target)) = Pending(box) \ Range(box[target])
  BY <1>1, PrefixOnce, ShortLists DEF Emptied
<1>3. Range(box[target]) \subseteq Pending(box)
  BY DEF Pending, Targets
<1>4. Range(Emptied(box, target)[target]) \subseteq Pending(Emptied(box, target))
  BY DEF Pending, Targets
<1>5. Range(Emptied(box, target)[target]) \subseteq Range(box[target])
  <2>1. DOMAIN box[target] = 1 .. Len(box[target])
    BY <1>1, LenProperties
  <2>2. Emptied(box, target)[target] = SubSeq(box[target], 1, 0) \o <<>> \o
                                       SubSeq(box[target], Len(box[target]) + 1, Len(box[target]))
    BY <1>1 DEF Emptied, Splice, Inboxes
  <2>3. Emptied(box, target)[target] = <<>>
    BY <1>1, <2>2
  <2> QED BY <2>3, ShortLists
<1> QED BY <1>2, <1>3, <1>4, <1>5

\* claim: what it takes is no longer pending, and nothing else goes.
LEMMA ClaimOnce ==
    ASSUME NEW box \in Inboxes, NEW target \in Targets, Once(box)
    PROVE  /\ Once(AfterClaim(box, target))
           /\ Pending(AfterClaim(box, target)) = Pending(box) \ Range(Claimed(box, target))
           /\ Range(Claimed(box, target)) \subseteq Pending(box)
<1> DEFINE noSteps == Splice(box, "next-step", 0, Len(box["next-step"]), <<>>)
           n == QueuedTurn(box, target)
           turns == box["next-turn"]
           steps == box["next-step"]
<1>1. /\ steps \in Seq(Messages) /\ turns \in Seq(Messages)
      /\ "next-step" \in Targets /\ "next-turn" \in Targets
  BY DEF Inboxes, Targets
<1>2. /\ Len(steps) \in Nat /\ Len(turns) \in Nat /\ Len(steps) <= Len(steps)
      /\ n \in Nat /\ n <= Len(turns) /\ DOMAIN steps = 1 .. Len(steps) /\ DOMAIN turns = 1 .. Len(turns)
  BY <1>1, LenProperties, QueuedTurnRange
<1>3. /\ noSteps \in Inboxes /\ Once(noSteps) /\ Pending(noSteps) = Pending(box) \ Range(steps)
  BY <1>1, <1>2, PrefixOnce, ShortLists
<1>4. noSteps["next-turn"] = turns
  BY <1>1, SpliceOther
<1>5. /\ Once(Splice(noSteps, "next-turn", 0, n, <<>>))
      /\ Pending(Splice(noSteps, "next-turn", 0, n, <<>>)) = Pending(noSteps) \ Cut(turns, 0, n)
  <2> HIDE DEF noSteps, n, turns
  <2> QED BY <1>1, <1>2, <1>3, <1>4, PrefixOnce
<1>6. Range(Claimed(box, target)) = Range(steps) \cup Cut(turns, 0, n)
  <2> DEFINE head == SubSeq(turns, 1, n)
  <2>1. head \in Seq(Messages) /\ Len(head) = n /\ \A k \in 1 .. n : head[k] = turns[k]
    BY <1>1, <1>2
  <2>2. Claimed(box, target) = steps \o head
    BY DEF Claimed
  <2> HIDE DEF n, turns, steps, head
  <2>3. Range(head) = Cut(turns, 0, n)
    <3>1. DOMAIN head = 1 .. n /\ 0 + 1 .. 0 + n = 1 .. n
      BY <1>2, <2>1, LenProperties
    <3> QED BY <2>1, <3>1 DEF Range, Cut
  <2>4. Range(steps \o head) = Range(steps) \cup Range(head)
    BY <1>1, <2>1, RangeConcatenation
  <2> QED BY <2>2, <2>3, <2>4
<1>7. Cut(turns, 0, n) \subseteq Range(turns)
  <2> SUFFICES ASSUME NEW k \in 0 + 1 .. 0 + n  PROVE turns[k] \in Range(turns)
    BY DEF Cut
  <2>1. k \in DOMAIN turns
    BY <1>2
  <2> QED BY <2>1 DEF Range
<1>8. AfterClaim(box, target) = Splice(noSteps, "next-turn", 0, n, <<>>)
  BY DEF AfterClaim
<1> HIDE DEF noSteps, n, turns, steps
<1>9. Range(steps) \subseteq Pending(box) /\ Range(turns) \subseteq Pending(box)
  BY DEF Pending, turns, steps
<1> QED BY <1>3, <1>5, <1>6, <1>7, <1>8, <1>9

\* Something is pending when a list is not empty.
LEMMA PendingMeans ==
    ASSUME NEW box \in Inboxes
    PROVE  HasPending(box) <=> Pending(box) # {}
<1>1. ASSUME NEW s \in Seq(Messages)  PROVE s # <<>> <=> Range(s) # {}
  <2>1. DOMAIN s = 1 .. Len(s) /\ Len(s) \in Nat /\ (s = <<>> <=> Len(s) = 0)
    BY LenProperties, EmptySeq
  <2> QED BY <2>1 DEF Range
<1>2. box["next-turn"] \in Seq(Messages) /\ box["next-step"] \in Seq(Messages)
  BY DEF Inboxes, Targets
<1> QED BY <1>1, <1>2 DEF HasPending, Pending

\* Nothing there twice: as many messages as places.
LEMMA OnceCounts ==
    ASSUME NEW box \in Inboxes, Once(box)
    PROVE  Cardinality(Pending(box)) = Len(box["next-turn"]) + Len(box["next-step"])
<1>1. ASSUME NEW s \in Seq(Messages), IsInjective(s)
      PROVE  IsFiniteSet(Range(s)) /\ Cardinality(Range(s)) = Len(s)
  <2>1. DOMAIN s = 1 .. Len(s) /\ Len(s) \in Nat
    BY LenProperties
  <2>2. s \in Bijection(1 .. Len(s), Range(s))
    BY <1>1, <2>1 DEF Bijection, Injection, Surjection, Range
  <2>3. ExistsBijection(1 .. Len(s), Range(s))
    BY <2>2 DEF ExistsBijection
  <2>4. IsFiniteSet(1 .. Len(s))
    BY <2>1, FS_Interval
  <2> QED BY <2>1, <2>3, <2>4, FS_CountingElements, FS_Bijection
<1>2. /\ box["next-turn"] \in Seq(Messages) /\ box["next-step"] \in Seq(Messages)
      /\ IsInjective(box["next-turn"]) /\ IsInjective(box["next-step"])
      /\ Range(box["next-turn"]) \cap Range(box["next-step"]) = {}
  BY DEF Inboxes, Targets, Once
<1>3. /\ Cardinality(Pending(box))
            = Cardinality(Range(box["next-turn"])) + Cardinality(Range(box["next-step"])) - 0
  BY <1>1, <1>2, FS_Union, FS_EmptySet DEF Pending
<1>4. Len(box["next-turn"]) \in Nat /\ Len(box["next-step"]) \in Nat
  BY <1>2, LenProperties
<1> DEFINE turns == box["next-turn"]
           steps == box["next-step"]
<1>5. /\ Cardinality(Range(turns)) = Len(turns) /\ Cardinality(Range(steps)) = Len(steps)
  BY <1>1, <1>2
<1> QED BY <1>3, <1>4, <1>5

-----------------------------------------------------------------------------
(***************************************************************************)
(* The calls that wait for their listeners.                                *)
(***************************************************************************)
WakingIn(s) == UNION {s[i].waking : i \in DOMAIN s}
WaitsIn(s, call) == \E i \in DOMAIN s : s[i].call = call

\* A call that begins to wait waits above the others.
LEMMA PushFacts ==
    ASSUME NEW s \in Seq(Frames), NEW f \in Frames
    PROVE  /\ Append(s, f) \in Seq(Frames)
           /\ WakingIn(Append(s, f)) = WakingIn(s) \cup f.waking
           /\ \A call : WaitsIn(Append(s, f), call) <=> WaitsIn(s, call) \/ f.call = call
<1> DEFINE t == Append(s, f)
<1>1. /\ t \in Seq(Frames) /\ Len(s) \in Nat
      /\ DOMAIN s = 1 .. Len(s) /\ DOMAIN t = 1 .. Len(s) + 1
      /\ \A i \in 1 .. Len(s) : t[i] = s[i]
      /\ t[Len(s) + 1] = f
  BY AppendProperties, LenProperties
<1> HIDE DEF t
<1>2. 1 .. Len(s) + 1 = (1 .. Len(s)) \cup {Len(s) + 1}
  BY <1>1
<1>3. WakingIn(t) = WakingIn(s) \cup f.waking
  BY <1>1, <1>2 DEF WakingIn
<1>4. ASSUME NEW call
      PROVE  WaitsIn(t, call) <=> WaitsIn(s, call) \/ f.call = call
  BY <1>1, <1>2 DEF WaitsIn
<1> QED BY <1>1, <1>3, <1>4 DEF t

\* The innermost call returns to the ones below it.
LEMMA PopFacts ==
    ASSUME NEW s \in Seq(Frames), s # <<>>
    PROVE  /\ Front(s) \in Seq(Frames) /\ Last(s) \in Frames
           /\ WakingIn(s) = WakingIn(Front(s)) \cup Last(s).waking
           /\ \A call : WaitsIn(s, call) <=> WaitsIn(Front(s), call) \/ Last(s).call = call
<1>1. /\ Len(s) \in Nat /\ Len(s) # 0 /\ DOMAIN s = 1 .. Len(s)
      /\ \A i \in 1 .. Len(s) : s[i] \in Frames
  BY LenProperties, EmptySeq, ElementOfSeq
<1>2. Front(s) = SubSeq(s, 1, Len(s) - 1) /\ Last(s) = s[Len(s)]
  BY DEF Front, Last
<1>3. Len(s) \in 1 .. Len(s)
  BY <1>1
<1>4. /\ SubSeq(s, 1, Len(s) - 1) \in Seq(Frames)
      /\ Len(SubSeq(s, 1, Len(s) - 1)) = Len(s) - 1
      /\ \A i \in 1 .. Len(s) - 1 : SubSeq(s, 1, Len(s) - 1)[i] = s[i]
  BY <1>1
<1> DEFINE t == SubSeq(s, 1, Len(s) - 1)
<1>5. DOMAIN t = 1 .. Len(s) - 1 /\ t \in Seq(Frames)
  BY <1>4, LenProperties
<1>6. \A i \in 1 .. Len(s) - 1 : t[i] = s[i]
  BY <1>4
<1> HIDE DEF t
<1>7. 1 .. Len(s) = (1 .. Len(s) - 1) \cup {Len(s)}
  BY <1>1
<1>8. WakingIn(s) = WakingIn(t) \cup s[Len(s)].waking
  BY <1>1, <1>5, <1>6, <1>7 DEF WakingIn
<1>9. ASSUME NEW call
      PROVE  WaitsIn(s, call) <=> WaitsIn(t, call) \/ s[Len(s)].call = call
  BY <1>1, <1>5, <1>6, <1>7 DEF WaitsIn
<1> QED BY <1>1, <1>2, <1>3, <1>5, <1>8, <1>9 DEF t

\* With no call waiting, nothing is.
LEMMA EmptyFacts ==
    <<>> \in Seq(Frames) /\ WakingIn(<<>>) = {} /\ \A call : ~WaitsIn(<<>>, call)
BY DEF WakingIn, WaitsIn

\* One call waits.
LEMMA SingleFacts ==
    ASSUME NEW f \in Frames
    PROVE  /\ <<f>> \in Seq(Frames) /\ WakingIn(<<f>>) = f.waking
           /\ \A call : WaitsIn(<<f>>, call) <=> f.call = call
<1>1. <<f>> = Append(<<>>, f)
  OBVIOUS
<1>2. /\ Append(<<>>, f) \in Seq(Frames)
      /\ WakingIn(Append(<<>>, f)) = WakingIn(<<>>) \cup f.waking
      /\ \A call : WaitsIn(Append(<<>>, f), call) <=> WaitsIn(<<>>, call) \/ f.call = call
  BY EmptyFacts, PushFacts
<1> QED BY <1>1, <1>2, EmptyFacts

\* The frames the agent's calls leave behind.
LEMMA FrameTypes ==
    /\ \A m \in Messages, b \in BOOLEAN :
          LET f == [Plain("send") EXCEPT !.waking = {m}, !.afterAbort = b]
          IN  f \in Frames /\ f.waking = {m} /\ f.call = "send"
    /\ \A call \in {"clearing", "cleared"}, cause \in Causes :
          LET f == [Plain(call) EXCEPT !.cause = cause]
          IN  f \in Frames /\ f.waking = {} /\ f.call = call
    /\ \A call \in {"kick", "replay"} :
          Plain(call) \in Frames /\ Plain(call).waking = {} /\ Plain(call).call = call
BY DEF Plain, Frames, Sends, Cancels, Kicks

\* What the innermost call carries, by its kind.
LEMMA FrameKinds ==
    ASSUME NEW f \in Frames
    PROVE  /\ f.waking \subseteq Messages /\ f.afterAbort \in BOOLEAN
           /\ f.call # "send" => f.waking = {}
           /\ f.call \in {"clearing", "cleared"} =>
                 /\ f.cause \in Causes
                 /\ [f EXCEPT !.call = "cleared"] \in Frames
                 /\ [f EXCEPT !.call = "cleared"].waking = {}
                 /\ [f EXCEPT !.call = "cleared"].call = "cleared"
BY DEF Frames, Sends, Cancels, Kicks

-----------------------------------------------------------------------------
(***************************************************************************)
(* The log's fold stays a trace whatever is appended.                      *)
(***************************************************************************)
EventTypes == {"turn/start", "turn/end", "step/start", "step/end", "assistant/message",
               "request/header"}
Events == [type : EventTypes, turn : Nat, step : Nat, calls : SUBSET {}]

\* The fold of a log stays a fold.
LEMMA ApplyType ==
    ASSUME NEW t \in Log!Traces, NEW e \in Events
    PROVE  Log!Apply(t, e) \in Log!Traces
<1>1. /\ t.nextTurn + 1 \in Nat \ {0} /\ t.nextStep + 1 \in Nat \ {0} /\ 1 \in Nat \ {0}
      /\ e.turn \in Nat /\ e.step \in Nat /\ e.calls \subseteq {}
  BY DEF Log!Traces, Events
<1>2. CASE e.type = "turn/start"
  BY <1>1, <1>2 DEF Log!Apply, Log!Traces
<1>3. CASE e.type = "turn/end"
  BY <1>1, <1>3 DEF Log!Apply, Log!Traces, Log!Closed
<1>4. CASE e.type = "step/start"
  BY <1>1, <1>4 DEF Log!Apply, Log!Traces
<1>5. CASE e.type = "step/end"
  BY <1>1, <1>5 DEF Log!Apply, Log!Traces, Log!Closed
<1>6. CASE e.type = "tool/call"
  BY <1>1, <1>6 DEF Log!Apply, Log!Traces
<1>7. CASE e.type \in {"tool/result", "tool/not-started"}
  BY <1>1, <1>7 DEF Log!Apply, Log!Traces
<1>8. CASE e.type \notin {"turn/start", "turn/end", "step/start", "step/end", "tool/call",
                          "tool/result", "tool/not-started"}
  BY <1>8 DEF Log!Apply
<1> QED
  BY <1>2, <1>3, <1>4, <1>5, <1>6, <1>7, <1>8

\* Each event the driver appends is one the log knows.
LEMMA EventType ==
    ASSUME NEW t \in Nat, NEW s \in Nat
    PROVE  /\ Log!TurnStart(t) \in Events /\ Log!TurnEnd(t) \in Events
           /\ Log!StepStart(t, s) \in Events /\ Log!StepEnd(t, s) \in Events
           /\ Log!AssistantMessage(t, s) \in Events /\ Log!RequestHeader \in Events
<1>1. \A type \in EventTypes, n, k \in Nat : Log!Event(type, n, k, {}) \in Events
  BY DEF Events, Log!Event
<1> QED
  BY <1>1 DEF EventTypes, Log!TurnStart, Log!TurnEnd, Log!StepStart, Log!StepEnd,
       Log!AssistantMessage, Log!RequestHeader

\* Whether an event is legal is a Boolean.
LEMMA LegalType ==
    ASSUME NEW t \in Log!Traces, NEW e \in Events
    PROVE  Log!Legal(t, e) \in BOOLEAN
BY DEF Log!Legal, Log!NamesOpenStep, Log!Traces, Events

\* Appending one event keeps the log's type.
LEMMA Append1Type ==
    ASSUME TypeOK, NEW e \in Events, Append1(e)
    PROVE  trace' \in Log!Traces /\ rejected' \in BOOLEAN
BY ApplyType DEF TypeOK, Append1

\* Appending two events keeps the log's type.
LEMMA Append2Type ==
    ASSUME TypeOK, NEW e \in Events, NEW f \in Events, Append2(e, f)
    PROVE  trace' \in Log!Traces /\ rejected' \in BOOLEAN
BY ApplyType DEF TypeOK, Append2

\* Settling the fates of some messages keeps the type of fate.
LEMMA FateType ==
    ASSUME TypeOK, NEW S, NEW f \in Fates
    PROVE  FateOf(S, f) \in [Messages -> Fates]
BY DEF TypeOK, FateOf

-----------------------------------------------------------------------------
(***************************************************************************)
(* Type correctness.  First the pieces that several actions share.         *)
(***************************************************************************)
LEMMA CloseTurnType ==
    ASSUME TypeOK, pc # "none", NEW ending \in Endings, CloseTurn(ending)
    PROVE  TypeOK'
<1>1. Log!TurnEnd(turn) \in Events
  BY EventType DEF TypeOK
<1>2. trace' \in Log!Traces /\ rejected' \in BOOLEAN
  BY <1>1, Append1Type DEF CloseTurn
<1>3. fate' \in [Messages -> Fates]
  BY FateType DEF CloseTurn, Fates
<1> QED
  BY <1>2, <1>3 DEF TypeOK, CloseTurn, phase, PCs, Publishing

\* A claim keeps the types of the batch and of the inbox.
LEMMA ClaimKeepsType ==
    ASSUME TypeOK, pc # "none", NEW target \in Targets, Claim(target)
    PROVE  TypeOK'
<1> DEFINE claimed == Range(Claimed(inbox, target))
<1>1. inbox' \in Inboxes /\ claimed \subseteq Messages
  BY ClaimType DEF TypeOK, Claim
<1>2. fate' \in [Messages -> Fates]
  BY FateType DEF Claim, Fates
<1>3. ordinary' \in Nat
  BY QueuedTurnRange DEF TypeOK, Claim
<1> QED
  BY <1>1, <1>2, <1>3 DEF TypeOK, Claim, phase, log, PCs, Awaiting

\* A throw keeps the phase's type.
LEMMA RaiseType ==
    ASSUME TypeOK, pc # "none", Raise, trace' \in Log!Traces, rejected' \in BOOLEAN
    PROVE  TypeOK'
<1>1. fate' \in [Messages -> Fates]
  BY FateType DEF Raise, Fates
<1> QED
  BY <1>1 DEF TypeOK, Raise, phase, PCs, Publishing

\* Moving between the driver's awaits stays within the running phase.
LEMMA GotoType ==
    ASSUME TypeOK, pc # "none", NEW place \in PCs \ {"none"}, Goto(place),
           trace' \in Log!Traces, rejected' \in BOOLEAN
    PROVE  TypeOK'
BY DEF TypeOK, Goto, phase, history

\* Closing a step keeps turn, step and ending typed.
LEMMA EndStepType ==
    ASSUME TypeOK, pc # "none", NEW result \in Endings, EndStep(result),
           trace' \in Log!Traces, rejected' \in BOOLEAN
    PROVE  TypeOK'
BY DEF TypeOK, EndStep, StickyResult, phase, PCs, Publishing

\* A wake starts a driver, latches, or does nothing.
LEMMA StartDriverType ==
    ASSUME TypeOK, NEW below \in Seq(Frames), StartDriver(below)
    PROVE  /\ kind' = "running" /\ pc' = "starting" /\ step' = 0
           /\ turn' \in Nat /\ abort' = NoAbort /\ wakeRequested' = FALSE
           /\ pc' \in PCs /\ pc' # "none" /\ batch' \in SUBSET Messages /\ turnEnds' \in Endings
           /\ stack' \in Seq(Frames)
<1>1. stack' \in Seq(Frames)
  BY PushFacts, FrameTypes DEF StartDriver
<1> QED BY <1>1 DEF TypeOK, StartDriver, PCs, Listening

LEMMA WakeDriverType ==
    ASSUME TypeOK, NEW after \in BOOLEAN, NEW below \in Seq(Frames), WakeDriver(after, below)
    PROVE  /\ kind' \in {"idle", "maintenance", "running"}
           /\ kind' = "running" <=> pc' # "none"
           /\ kind' # "running" => step' = 0
           /\ kind' = "idle" => abort' = NoAbort /\ wakeRequested' = FALSE
           /\ turn' \in Nat /\ step' \in Nat
           /\ abort' \in {NoAbort} \cup Causes
           /\ wakeRequested' \in BOOLEAN
           /\ pc' \in PCs /\ batch' \in SUBSET Messages /\ turnEnds' \in Endings
           /\ stack' \in Seq(Frames)
<1>1. CASE kind = "idle" /\ StartDriver(below)
  BY <1>1, StartDriverType, 0 \in Nat
<1>2. CASE kind # "idle" /\ wakeRequested' = (wakeRequested \/ Latches(after)) /\ stack' = below
           /\ UNCHANGED <<kind, turn, step, abort, driver>>
  <2>1. wakeRequested' \in BOOLEAN
    BY <1>2
  <2> QED
    BY <1>2, <2>1 DEF TypeOK, driver
<1> QED
  BY <1>1, <1>2 DEF WakeDriver

\* The end of cancel keeps the phase typed.
LEMMA InterruptType ==
    ASSUME TypeOK, NEW cause \in Causes, NEW keepInbox \in BOOLEAN, Interrupt(cause, keepInbox),
           stack' \in Seq(Frames)
    PROVE  TypeOK'
BY DEF TypeOK, Interrupt, Signal, driver, log

\* So does one splice of clear.
LEMMA EmptyListType ==
    ASSUME TypeOK, NEW target \in Targets, EmptyList(target), stack' \in Seq(Frames)
    PROVE  TypeOK'
<1>1. inbox' \in Inboxes
  BY DrainType DEF TypeOK, EmptyList, Emptied
<1>2. fate' \in [Messages -> Fates]
  BY FateType DEF TypeOK, EmptyList, Fates
<1> QED BY <1>1, <1>2 DEF TypeOK, EmptyList, phase, driver, log

\* What leaves the log alone keeps its type.
LEMMA SameLogType ==
    ASSUME TypeOK, UNCHANGED log
    PROVE  trace' \in Log!Traces /\ rejected' \in BOOLEAN
BY DEF TypeOK, log

\* send leaves a frame behind when it has to wake.
LEMMA SendStack ==
    ASSUME TypeOK, NEW m \in Messages, NEW how \in Kinds, Send(m, how)
    PROVE  \/ how = "inject" /\ stack' = stack /\ wakes' = wakes
           \/ /\ wakes' = wakes \cup {m}
              /\ stack' \in Seq(Frames)
              /\ WakingIn(stack') = WakingIn(stack) \cup {m}
              /\ \A call : call # "send" => (WaitsIn(stack', call) <=> WaitsIn(stack, call))
<1>1. CASE how = "inject"
  BY <1>1 DEF Send
<1>2. CASE how # "inject"
  <2> DEFINE b == kind # "idle" /\ Aborted
             f == [Plain("send") EXCEPT !.waking = {m}, !.afterAbort = b]
  <2>1. wakes' = wakes \cup {m} /\ stack' = Append(stack, f)
    BY <1>2 DEF Send
  <2>2. f \in Frames /\ f.waking = {m} /\ f.call = "send"
    BY FrameTypes
  <2> HIDE DEF f
  <2>3. /\ stack' \in Seq(Frames) /\ WakingIn(stack') = WakingIn(stack) \cup {m}
        /\ \A call : WaitsIn(stack', call) <=> WaitsIn(stack, call) \/ f.call = call
    BY <2>1, <2>2, PushFacts DEF TypeOK
  <2> QED BY <2>1, <2>2, <2>3
<1> QED BY <1>1, <1>2

\* Types under the agent's callers: send, cancel, inbox edits, maintenance.
LEMMA CallersType ==
    ASSUME TypeOK, Callers
    PROVE  TypeOK'
<1>1. ASSUME NEW m \in Messages, NEW how \in Kinds, Send(m, how)
      PROVE  TypeOK'
  <2>1. inbox' \in Inboxes
    BY <1>1, AddType DEF TypeOK, Send, Targets
  <2>2. fate' \in [Messages -> Fates]
    BY <1>1 DEF TypeOK, Send, Fates
  <2>3. stack' \in Seq(Frames)
    BY <1>1, SendStack DEF TypeOK
  <2> QED
    BY <1>1, <2>1, <2>2, <2>3 DEF TypeOK, Send, phase, driver, log
<1>2. ASSUME NEW cause \in Causes, NEW keepInbox \in BOOLEAN, Cancel(cause, keepInbox)
      PROVE  TypeOK'
  <2>1. stack' \in Seq(Frames)
    BY <1>2 DEF Cancel, TypeOK
  <2> QED
    BY <1>2, <2>1, InterruptType DEF Cancel
<1>7. ASSUME NEW cause \in Causes, CancelClearing(cause)
      PROVE  TypeOK'
  <2>1. stack' \in Seq(Frames)
    BY <1>7, PushFacts, FrameTypes DEF CancelClearing, TypeOK
  <2> QED
    BY <1>7, <2>1, EmptyListType DEF CancelClearing, Targets
<1>3. ASSUME NEW target \in Targets, NEW i \in DOMAIN inbox[target], RemoveMessage(target, i)
      PROVE  TypeOK'
  <2>1. inbox[target] \in Seq(Messages)
    BY DEF TypeOK, Inboxes
  <2>2. inbox[target][i] \in Messages
    BY <2>1
  <2>3. inbox' \in Inboxes
    BY <1>3, <2>2, EditType DEF TypeOK, RemoveMessage
  <2>4. fate' \in [Messages -> Fates]
    BY <1>3, <2>2 DEF TypeOK, RemoveMessage, Fates
  <2> QED
    BY <1>3, <2>3, <2>4 DEF TypeOK, RemoveMessage, phase, driver, log
<1>4. ASSUME NEW target \in Targets, NEW i \in DOMAIN inbox[target], NEW m \in Messages,
             Replace(target, i, m)
      PROVE  TypeOK'
  <2>1. inbox' \in Inboxes
    BY <1>4, EditType DEF TypeOK, Replace
  <2>2. fate' \in [Messages -> Fates]
    BY <1>4 DEF TypeOK, Replace, Fates
  <2> QED
    BY <1>4, <2>1, <2>2 DEF TypeOK, Replace, phase, driver, log
<1>5. ASSUME NEW m \in Messages, PrependContext(m)
      PROVE  TypeOK'
  <2>1. inbox' \in Inboxes
    BY <1>5, AddType DEF TypeOK, PrependContext, Targets
  <2>2. fate' \in [Messages -> Fates]
    BY <1>5 DEF TypeOK, PrependContext, Fates
  <2> QED
    BY <1>5, <2>1, <2>2 DEF TypeOK, PrependContext, phase, driver, log
<1>6. CASE RunMaintenance
  BY <1>6 DEF TypeOK, RunMaintenance, driver, log, history
<1> QED
  BY <1>1, <1>2, <1>3, <1>4, <1>5, <1>6, <1>7 DEF Callers, Causes

\* Types when the calls go on.
LEMMA CallersGoOnType ==
    ASSUME TypeOK, CallersGoOn
    PROVE  TypeOK'
<1>0. /\ stack # <<>> /\ Front(stack) \in Seq(Frames) /\ Last(stack) \in Frames
  <2>1. stack # <<>>
    BY DEF CallersGoOn, FinishSend, ClearTurns, FinishCancel, Resumes, Returns
  <2> QED BY <2>1, PopFacts DEF TypeOK
<1>1. CASE FinishSend
  <2>1. Last(stack).waking \subseteq Messages /\ Last(stack).afterAbort \in BOOLEAN
    BY <1>0, FrameKinds
  <2> QED
    BY <1>0, <1>1, <2>1, WakeDriverType DEF TypeOK, FinishSend, log
<1>2. CASE ClearTurns
  <2>1. [Last(stack) EXCEPT !.call = "cleared"] \in Frames
    BY <1>0, <1>2, FrameKinds DEF ClearTurns, Resumes, Returns
  <2>2. stack' \in Seq(Frames)
    BY <1>0, <1>2, <2>1, PushFacts DEF ClearTurns
  <2> QED
    BY <1>2, <2>2, EmptyListType DEF ClearTurns, Targets
<1>3. CASE FinishCancel
  <2>1. Last(stack).cause \in Causes
    BY <1>0, <1>3, FrameKinds DEF FinishCancel, Resumes, Returns
  <2> QED
    BY <1>0, <1>3, <2>1, InterruptType, FALSE \in BOOLEAN DEF FinishCancel
<1> QED BY <1>1, <1>2, <1>3 DEF CallersGoOn

\* kick's first turn leaves its frame.
LEMMA TurnIsDueType ==
    ASSUME TypeOK, TurnIsDue
    PROVE  stack' \in Seq(Frames)
BY PopFacts DEF TypeOK, TurnIsDue, Returns

\* Types under turn() and kick().
LEMMA TurnsType ==
    ASSUME TypeOK, Turns
    PROVE  TypeOK'
<1> USE DEF PCs, Awaiting, Listening, Publishing
<1>1. CASE RefuseTurn
  <2>1. stack' \in Seq(Frames) /\ pc # "none"
    BY <1>1, TurnIsDueType DEF RefuseTurn, TurnIsDue
  <2> QED
    BY <1>1, <2>1 DEF TypeOK, RefuseTurn, LeaveAs, LeaveLoop, phase, log, Exits
<1>2. CASE OpenTurn
  <2>1. turn + 1 \in Nat
    BY DEF TypeOK
  <2>2. trace' \in Log!Traces /\ rejected' \in BOOLEAN
    BY <1>2, <2>1, EventType, Append1Type, 0 \in Nat DEF OpenTurn
  <2>3. stack' \in Seq(Frames) /\ pc # "none"
    BY <1>2, TurnIsDueType DEF OpenTurn, TurnIsDue
  <2> QED
    BY <1>2, <2>1, <2>2, <2>3 DEF TypeOK, OpenTurn, Endings
<1>3. CASE FirstStep
  BY <1>3, CloseTurnType, ClaimKeepsType DEF FirstStep, Endings, Targets
<1>4. CASE FailPreStep
  BY <1>4, RaiseType, SameLogType DEF FailPreStep
<1>5. CASE RejectStep
  BY <1>5, CloseTurnType DEF RejectStep, Endings
<1>6. CASE EnterNothing
  BY <1>6, CloseTurnType DEF EnterNothing, Endings, TypeOK
<1>7. CASE EnterStep
  <2>1. step + 1 \in Nat /\ turn \in Nat
    BY DEF TypeOK
  <2>2. trace' \in Log!Traces /\ rejected' \in BOOLEAN
    BY <1>7, <2>1, EventType, Append1Type DEF EnterStep
  <2>3. fate' \in [Messages -> Fates]
    BY <1>7, FateType DEF EnterStep, Fates
  <2> QED
    BY <1>7, <2>1, <2>2, <2>3 DEF TypeOK, EnterStep
<1>8. CASE AfterStep
  BY <1>8, CloseTurnType, ClaimKeepsType, GotoType, SameLogType DEF AfterStep, Endings, Targets
<1>9. CASE AfterStopping
  BY <1>9, CloseTurnType, ClaimKeepsType DEF AfterStopping, Targets, TypeOK
<1>10. CASE FailStopping
  BY <1>10, RaiseType, SameLogType DEF FailStopping
<1>11. CASE Catch
  BY <1>11, CloseTurnType, GotoType, SameLogType DEF Catch, Endings
<1>12. CASE Report
  BY <1>12, CloseTurnType DEF Report, Endings
<1>13. CASE AfterTurn
  <2>1. ASSUME NEW reason \in Exits, LeaveAs(reason)
        PROVE  TypeOK'
    BY <1>13, <2>1 DEF AfterTurn, TypeOK, LeaveAs, LeaveLoop, phase, log
  <2>2. CASE turnEnds \in {"noop", "blocked", "aborted", "error"} /\ LeaveAs(turnEnds)
    BY <2>1, <2>2 DEF Exits
  <2>3. CASE LeaveAs("drained")
    BY <2>1, <2>3 DEF Exits
  <2>4. CASE /\ RenewTurn /\ pc' = "again"
             /\ UNCHANGED <<kind, turn, batch, turnEnds, inbox, stack, log, history>>
    BY <1>13, <2>4 DEF AfterTurn, RenewTurn, TypeOK, log, history
  <2> QED
    BY <1>13, <2>2, <2>3, <2>4 DEF AfterTurn
<1>14. CASE Exit
  <2>1. stack' \in Seq(Frames)
    <3>1. <<Plain("replay")>> \in Seq(Frames)
      BY FrameTypes, SingleFacts
    <3> QED BY <1>14, <3>1, EmptyFacts DEF Exit
  <2> QED
    BY <1>14, <2>1 DEF TypeOK, Exit, log, history
<1>15. CASE Replay
  <2>1. Front(stack) \in Seq(Frames)
    BY <1>15, PopFacts DEF TypeOK, Replay, Resumes, Returns
  <2>2. CASE HasPending(inbox)
    BY <1>15, <2>1, <2>2, WakeDriverType, FALSE \in BOOLEAN DEF TypeOK, Replay, log, history
  <2>3. CASE ~HasPending(inbox)
    BY <1>15, <2>1, <2>3 DEF TypeOK, Replay, phase, driver, log, history
  <2> QED
    BY <2>2, <2>3
<1> QED
  BY <1>1, <1>2, <1>3, <1>4, <1>5, <1>6, <1>7, <1>8, <1>9, <1>10, <1>11, <1>12, <1>13,
     <1>14, <1>15 DEF Turns

\* Types under step().
LEMMA StepsType ==
    ASSUME TypeOK, Steps
    PROVE  TypeOK'
<1> USE DEF PCs, Awaiting, InStep
<1>1. /\ Log!RequestHeader \in Events
      /\ Log!AssistantMessage(turn, step) \in Events
      /\ Log!StepEnd(turn, step) \in Events
  BY EventType DEF TypeOK
<1>2. CASE DispatchRequest
  BY <1>1, <1>2, Append1Type, GotoType DEF DispatchRequest
<1>3. CASE FailRequest
  BY <1>3, SameLogType, GotoType DEF FailRequest
<1>4. CASE RetryRequest
  BY <1>4, SameLogType, GotoType DEF RetryRequest
<1>5. CASE FailStep
  <2>1. trace' \in Log!Traces /\ rejected' \in BOOLEAN
    BY <1>1, <1>5, Append1Type, Append2Type DEF FailStep
  <2> QED
    BY <1>5, <2>1, RaiseType DEF FailStep
<1>6. CASE AskTools
  BY <1>1, <1>6, Append1Type, GotoType DEF AskTools
<1>7. ASSUME NEW result \in {"completed", "max-tokens"}, FinishStream(result)
      PROVE  TypeOK'
  BY <1>1, <1>7, Append2Type, EndStepType DEF FinishStream, Endings
<1>8. ASSUME NEW concluded \in BOOLEAN, FinishTools(concluded)
      PROVE  TypeOK'
  BY <1>1, <1>8, Append1Type, EndStepType DEF FinishTools, Endings
<1> QED
  BY <1>2, <1>3, <1>4, <1>5, <1>6, <1>7, <1>8 DEF Steps

\* Every variable keeps its type, whatever the agent's callers do.
THEOREM TypeCorrect == Spec => []TypeOK
<1>1. Init => TypeOK
  <2> SUFFICES ASSUME Init
               PROVE  TypeOK
    OBVIOUS
  <2>1. inbox \in Inboxes
    BY DEF Init, EmptyInbox, Inboxes
  <2>2. trace \in Log!Traces
    BY DEF Init, Log!FreshTrace, Log!Traces, Log!Closed
  <2>3. fate \in [Messages -> Fates]
    BY DEF Init, Fates
  <2> QED
    BY <2>1, <2>2, <2>3, EmptyFacts DEF Init, TypeOK, PCs, Endings, Exits
<1>2. TypeOK /\ [Next]_vars => TypeOK'
  <2> SUFFICES ASSUME TypeOK, [Next]_vars
               PROVE  TypeOK'
    OBVIOUS
  <2>2. CASE FinishMaintenance
    <3>1. CASE StartDriver(stack)
      <4>1. stack \in Seq(Frames)
        BY DEF TypeOK
      <4> QED BY <2>2, <3>1, <4>1, StartDriverType, 0 \in Nat DEF TypeOK, FinishMaintenance, log, Exits
    <3>2. CASE ~StartDriver(stack)
      BY <2>2, <3>2 DEF TypeOK, FinishMaintenance, driver, log, Exits
    <3> QED
      BY <3>1, <3>2
  <2>3. CASE UNCHANGED vars
    BY <2>3 DEF TypeOK, vars, phase, driver, log, history
  <2> QED
    BY <2>2, <2>3, CallersType, CallersGoOnType, TurnsType, StepsType DEF Next
<1> QED
  BY <1>1, <1>2, PTL DEF Spec

-----------------------------------------------------------------------------
(***************************************************************************)
(* The log's grammar.  An append is legal because the driver knows where   *)
(* the log stands, so the invariant pairs the two.                         *)
(***************************************************************************)
LogInv == TypeOK /\ PositionMatchesLog /\ LogGrammar

\* What each event needs of the fold, and does to it.
LEMMA OnTurnStart ==
    ASSUME NEW t \in Log!Traces, NEW n \in Nat
    PROVE  /\ Log!Legal(t, Log!TurnStart(n)) <=> t.openTurn = 0 /\ n = t.nextTurn
           /\ Log!Apply(t, Log!TurnStart(n)).openTurn = n
           /\ Log!Apply(t, Log!TurnStart(n)).openStep = t.openStep
           /\ Log!Apply(t, Log!TurnStart(n)).nextTurn = t.nextTurn
           /\ Log!Apply(t, Log!TurnStart(n)).nextStep = 1
BY DEF Log!Legal, Log!Apply, Log!TurnStart, Log!Event, Log!Traces, Log!Closed

\* turn/end is legal in its own open turn with no step open, and closes it.
LEMMA OnTurnEnd ==
    ASSUME NEW t \in Log!Traces, NEW n \in Nat
    PROVE  /\ Log!Legal(t, Log!TurnEnd(n)) <=> t.openTurn = n /\ t.openStep = 0
           /\ Log!Apply(t, Log!TurnEnd(n)).openTurn = 0
           /\ Log!Apply(t, Log!TurnEnd(n)).openStep = t.openStep
           /\ Log!Apply(t, Log!TurnEnd(n)).nextTurn = t.nextTurn + 1
           /\ Log!Apply(t, Log!TurnEnd(n)).nextStep = t.nextStep
BY DEF Log!Legal, Log!Apply, Log!TurnEnd, Log!Event, Log!Traces, Log!Closed

\* step/start is legal in its open turn when it has the next number.
LEMMA OnStepStart ==
    ASSUME NEW t \in Log!Traces, NEW n \in Nat, NEW k \in Nat
    PROVE  /\ Log!Legal(t, Log!StepStart(n, k))
                 <=> t.openTurn = n /\ t.openStep = 0 /\ k = t.nextStep
           /\ Log!Apply(t, Log!StepStart(n, k)).openTurn = t.openTurn
           /\ Log!Apply(t, Log!StepStart(n, k)).openStep = k
           /\ Log!Apply(t, Log!StepStart(n, k)).nextTurn = t.nextTurn
           /\ Log!Apply(t, Log!StepStart(n, k)).nextStep = t.nextStep
BY DEF Log!Legal, Log!Apply, Log!StepStart, Log!Event, Log!Traces, Log!Closed

\* step/end is legal for the open step, and closes it.
LEMMA OnStepEnd ==
    ASSUME NEW t \in Log!Traces, NEW n \in Nat, NEW k \in Nat
    PROVE  /\ Log!Legal(t, Log!StepEnd(n, k)) <=> t.openTurn = n /\ t.openStep = k
           /\ Log!Apply(t, Log!StepEnd(n, k)).openTurn = t.openTurn
           /\ Log!Apply(t, Log!StepEnd(n, k)).openStep = 0
           /\ Log!Apply(t, Log!StepEnd(n, k)).nextTurn = t.nextTurn
           /\ Log!Apply(t, Log!StepEnd(n, k)).nextStep = t.nextStep + 1
BY DEF Log!Legal, Log!Apply, Log!StepEnd, Log!Event, Log!Traces, Log!Closed,
       Log!NamesOpenStep

\* request/header is legal within its open step, and moves nothing.
LEMMA OnRequestHeader ==
    ASSUME NEW t \in Log!Traces
    PROVE  /\ Log!Legal(t, Log!RequestHeader) <=> t.openTurn # 0
           /\ Log!Apply(t, Log!RequestHeader) = t
BY DEF Log!Legal, Log!Apply, Log!RequestHeader, Log!Event, Log!Closed

\* assistant/message is legal within its open step, and moves nothing.
LEMMA OnAssistantMessage ==
    ASSUME NEW t \in Log!Traces, NEW n \in Nat, NEW k \in Nat
    PROVE  /\ Log!Legal(t, Log!AssistantMessage(n, k)) <=> t.openTurn = n /\ t.openStep = k
           /\ Log!Apply(t, Log!AssistantMessage(n, k)) = t
BY DEF Log!Legal, Log!Apply, Log!AssistantMessage, Log!Event, Log!NamesOpenStep

\* The states in which a model step is open in the log.
LEMMA OpenSteps ==
    ASSUME TypeOK
    PROVE  /\ pc \in {"request", "stream", "recover", "tools"}
                 <=> pc \notin BetweenTurns \cup BetweenSteps
           /\ BetweenTurns \cap BetweenSteps = {}
BY DEF TypeOK, PCs, Awaiting, Listening, Publishing, BetweenTurns, BetweenSteps

-----------------------------------------------------------------------------
\* Closing the turn leaves the position and the log between turns.
LEMMA CloseTurnLog ==
    ASSUME LogInv, pc \in BetweenSteps, NEW ending, CloseTurn(ending)
    PROVE  PositionMatchesLog' /\ LogGrammar'
<1>1. turn \in Nat /\ trace \in Log!Traces
  BY DEF LogInv, TypeOK
<1>2. trace.openTurn = turn /\ trace.openStep = 0 /\ trace.nextTurn = turn
  BY DEF LogInv, PositionMatchesLog, BetweenSteps, BetweenTurns, Log!Closed
<1>3. /\ trace'.openTurn = 0 /\ trace'.openStep = 0 /\ trace'.nextTurn = turn + 1
      /\ LogGrammar'
  BY <1>1, <1>2, OnTurnEnd DEF CloseTurn, Append1, LogInv, LogGrammar
<1> QED
  BY <1>2, <1>3 DEF CloseTurn, phase, PositionMatchesLog, BetweenSteps, BetweenTurns, Log!Closed

\* Places between two steps of a turn share one position.
LEMMA BetweenStepsLog ==
    ASSUME LogInv, pc \in BetweenSteps, pc' \in BetweenSteps \ {"opened"},
           UNCHANGED <<phase, log>>
    PROVE  PositionMatchesLog' /\ LogGrammar'
BY DEF LogInv, PositionMatchesLog, LogGrammar, phase, log, BetweenSteps, BetweenTurns

\* So do places within a step.
LEMMA WithinStepLog ==
    ASSUME LogInv, pc \notin BetweenTurns \cup BetweenSteps,
           pc' \in {"request", "stream", "recover", "tools"}, UNCHANGED <<phase, trace>>,
           rejected' = FALSE
    PROVE  PositionMatchesLog' /\ LogGrammar'
BY DEF LogInv, PositionMatchesLog, LogGrammar, phase, BetweenSteps, BetweenTurns

\* A step that ends leaves the driver between steps.
LEMMA StepEndLog ==
    ASSUME LogInv, pc \notin BetweenTurns \cup BetweenSteps, pc' \in {"stepped", "raised"},
           UNCHANGED phase,
           \/ Append1(Log!StepEnd(turn, step))
           \/ Append2(Log!AssistantMessage(turn, step), Log!StepEnd(turn, step))
    PROVE  PositionMatchesLog' /\ LogGrammar'
<1>1. turn \in Nat /\ step \in Nat /\ trace \in Log!Traces
  BY DEF LogInv, TypeOK
<1>2. /\ trace.openTurn = turn /\ trace.openStep = step
      /\ trace.nextTurn = turn /\ trace.nextStep = step
  BY DEF LogInv, PositionMatchesLog, BetweenSteps, BetweenTurns
<1>3. /\ trace'.openTurn = turn /\ trace'.openStep = 0
      /\ trace'.nextTurn = turn /\ trace'.nextStep = step + 1
      /\ LogGrammar'
  <2>1. /\ Log!Legal(trace, Log!StepEnd(turn, step))
        /\ Log!Legal(trace, Log!AssistantMessage(turn, step))
        /\ Log!Apply(trace, Log!AssistantMessage(turn, step)) = trace
    BY <1>1, <1>2, OnStepEnd, OnAssistantMessage
  <2>2. trace' = Log!Apply(trace, Log!StepEnd(turn, step)) /\ LogGrammar'
    BY <2>1 DEF Append1, Append2, LogInv, LogGrammar
  <2> QED
    BY <1>1, <1>2, <2>2, OnStepEnd
<1> QED
  BY <1>2, <1>3 DEF phase, PositionMatchesLog, BetweenSteps, BetweenTurns, Log!Closed

\* A driver that starts finds every turn closed.
LEMMA StartDriverLog ==
    ASSUME LogInv, kind # "running", NEW below, StartDriver(below), UNCHANGED log
    PROVE  PositionMatchesLog' /\ LogGrammar'
BY DEF LogInv, TypeOK, StartDriver, PositionMatchesLog, LogGrammar, log, BetweenSteps, BetweenTurns

\* A wake appends nothing and starts only from rest.
LEMMA WakeDriverLog ==
    ASSUME LogInv, NEW after, NEW below, WakeDriver(after, below), UNCHANGED log
    PROVE  PositionMatchesLog' /\ LogGrammar'
<1>1. CASE kind = "idle" /\ StartDriver(below)
  BY <1>1, StartDriverLog
<1>2. CASE UNCHANGED <<kind, turn, step, driver>>
  BY <1>2 DEF LogInv, PositionMatchesLog, LogGrammar, log, driver
<1> QED
  BY <1>1, <1>2 DEF WakeDriver

\* Callers never touch the driver's position or the log's turns.
LEMMA CallersLog ==
    ASSUME LogInv, Callers
    PROVE  PositionMatchesLog' /\ LogGrammar'
<1>1. CASE UNCHANGED <<turn, step, pc, trace, rejected>>
  BY <1>1 DEF LogInv, PositionMatchesLog, LogGrammar
<1>2. CASE RunMaintenance
  BY <1>1, <1>2 DEF RunMaintenance, driver, log
<1>3. CASE ~RunMaintenance
  <2>1. UNCHANGED <<turn, step, pc, trace, rejected>>
    BY <1>3 DEF Callers, Send, Cancel, CancelClearing, Interrupt, EmptyList, RemoveMessage, Replace,
                    PrependContext, phase, driver, log
  <2> QED
    BY <1>1, <2>1
<1> QED
  BY <1>2, <1>3

\* The log under turn() and kick(): each boundary is the next or the open one.
LEMMA TurnsLog ==
    ASSUME LogInv, Turns
    PROVE  PositionMatchesLog' /\ LogGrammar'
<1>0. turn \in Nat /\ step \in Nat /\ trace \in Log!Traces
  BY DEF LogInv, TypeOK
<1>1. CASE RefuseTurn
  BY <1>1 DEF RefuseTurn, LeaveAs, LeaveLoop, TurnIsDue, phase, log, LogInv, PositionMatchesLog, LogGrammar,
              BetweenSteps, BetweenTurns
<1>2. CASE OpenTurn
  <2>1. /\ trace.openTurn = 0 /\ trace.openStep = 0 /\ trace.nextTurn = turn + 1
        /\ step = 0
    BY <1>2 DEF OpenTurn, TurnIsDue, LogInv, PositionMatchesLog, BetweenTurns, Log!Closed
  <2>2. turn + 1 \in Nat
    BY <1>0
  <2>3. /\ trace'.openTurn = turn + 1 /\ trace'.openStep = 0
        /\ trace'.nextTurn = turn + 1 /\ trace'.nextStep = 1
        /\ LogGrammar'
    BY <1>0, <1>2, <2>1, <2>2, OnTurnStart DEF OpenTurn, Append1, LogInv, LogGrammar
  <2> QED
    BY <1>2, <2>1, <2>3 DEF OpenTurn, PositionMatchesLog, BetweenSteps, BetweenTurns, Log!Closed
<1>3. ASSUME pc \in BetweenSteps, NEW target, Claim(target)
      PROVE  PositionMatchesLog' /\ LogGrammar'
  BY <1>3, BetweenStepsLog DEF Claim, BetweenSteps
<1>4. ASSUME pc \in BetweenSteps, Raise, UNCHANGED log
      PROVE  PositionMatchesLog' /\ LogGrammar'
  BY <1>4, BetweenStepsLog DEF Raise, BetweenSteps
<1>5. CASE FirstStep
  BY <1>3, <1>5, CloseTurnLog DEF FirstStep, BetweenSteps
<1>6. CASE FailPreStep
  BY <1>4, <1>6 DEF FailPreStep, BetweenSteps
<1>7. CASE RejectStep
  BY <1>7, CloseTurnLog DEF RejectStep, BetweenSteps
<1>8. CASE EnterNothing
  BY <1>8, CloseTurnLog DEF EnterNothing, BetweenSteps
<1>9. CASE EnterStep
  <2>1. /\ trace.openTurn = turn /\ trace.openStep = 0
        /\ trace.nextTurn = turn /\ trace.nextStep = step + 1
    BY <1>9 DEF EnterStep, LogInv, PositionMatchesLog, BetweenSteps, BetweenTurns, Log!Closed
  <2>2. step + 1 \in Nat
    BY <1>0
  <2>3. /\ trace'.openTurn = turn /\ trace'.openStep = step + 1
        /\ trace'.nextTurn = turn /\ trace'.nextStep = step + 1
        /\ LogGrammar'
    <3>1. Log!Legal(trace, Log!StepStart(turn, step + 1))
      BY <1>0, <2>1, <2>2, OnStepStart
    <3>2. trace' = Log!Apply(trace, Log!StepStart(turn, step + 1)) /\ LogGrammar'
      BY <1>9, <3>1 DEF EnterStep, Append1, LogInv, LogGrammar
    <3> QED
      BY <1>0, <2>1, <2>2, <3>2, OnStepStart
  <2> QED
    BY <1>9, <2>1, <2>3 DEF EnterStep, PositionMatchesLog, BetweenSteps, BetweenTurns
<1>10. CASE AfterStep
  <2>1. ASSUME Goto("stopping"), UNCHANGED log, pc = "stepped"
        PROVE  PositionMatchesLog' /\ LogGrammar'
    BY <2>1, BetweenStepsLog DEF Goto, BetweenSteps
  <2> QED
    BY <1>3, <1>10, <2>1, CloseTurnLog DEF AfterStep, BetweenSteps
<1>11. CASE AfterStopping
  BY <1>3, <1>11, CloseTurnLog DEF AfterStopping, BetweenSteps
<1>12. CASE FailStopping
  BY <1>4, <1>12 DEF FailStopping, BetweenSteps
<1>13. CASE Catch
  <2>1. ASSUME Goto("reporting"), UNCHANGED log, pc = "raised"
        PROVE  PositionMatchesLog' /\ LogGrammar'
    BY <2>1, BetweenStepsLog DEF Goto, BetweenSteps
  <2> QED
    BY <1>13, <2>1, CloseTurnLog DEF Catch, BetweenSteps
<1>14. CASE Report
  BY <1>14, CloseTurnLog DEF Report, BetweenSteps
<1>15. CASE AfterTurn
  BY <1>15 DEF AfterTurn, RenewTurn, LeaveAs, LeaveLoop, phase, log, LogInv, PositionMatchesLog, LogGrammar,
               BetweenSteps, BetweenTurns
<1>16. CASE Exit
  BY <1>16 DEF Exit, Latched, log, LogInv, PositionMatchesLog, LogGrammar, BetweenSteps, BetweenTurns
<1>17. CASE Replay
  <2>1. CASE HasPending(inbox)
    BY <1>17, <2>1, WakeDriverLog DEF Replay
  <2>2. CASE ~HasPending(inbox)
    BY <1>17, <2>2 DEF Replay, phase, driver, log, LogInv, PositionMatchesLog, LogGrammar
  <2> QED
    BY <2>1, <2>2
<1> QED
  BY <1>1, <1>2, <1>5, <1>6, <1>7, <1>8, <1>9, <1>10, <1>11, <1>12, <1>13, <1>14, <1>15,
     <1>16, <1>17 DEF Turns

\* The log under step(): what it appends names the open step.
LEMMA StepsLog ==
    ASSUME LogInv, Steps
    PROVE  PositionMatchesLog' /\ LogGrammar'
<1>1. /\ turn \in Nat /\ step \in Nat /\ trace \in Log!Traces
      /\ pc \in {"request", "stream", "recover", "tools"}
      /\ pc \notin BetweenTurns \cup BetweenSteps
  BY OpenSteps DEF LogInv, TypeOK, Steps, InStep, DispatchRequest, FailRequest, RetryRequest,
                   FailStep, AskTools, FinishStream, FinishTools
<1>2. trace.openTurn = turn /\ trace.openStep = step /\ trace.nextTurn = turn /\ turn # 0
  BY <1>1 DEF LogInv, PositionMatchesLog, Log!Traces, TypeOK
<1>3. CASE DispatchRequest
  <2>1. trace' = trace /\ rejected' = FALSE
    BY <1>1, <1>2, <1>3, OnRequestHeader DEF DispatchRequest, Append1, LogInv, LogGrammar, TypeOK
  <2> QED
    BY <1>1, <1>3, <2>1, WithinStepLog DEF DispatchRequest, Goto
<1>4. CASE FailRequest \/ RetryRequest
  <2>1. trace' = trace /\ rejected' = FALSE
    BY <1>4 DEF FailRequest, RetryRequest, log, LogInv, LogGrammar, TypeOK
  <2> QED
    BY <1>1, <1>4, <2>1, WithinStepLog DEF FailRequest, RetryRequest, Goto
<1>5. CASE FailStep
  BY <1>1, <1>5, StepEndLog DEF FailStep, Raise
<1>6. CASE AskTools
  <2>1. trace' = trace /\ rejected' = FALSE
    BY <1>1, <1>2, <1>6, OnAssistantMessage DEF AskTools, Append1, LogInv, LogGrammar, TypeOK
  <2> QED
    BY <1>1, <1>6, <2>1, WithinStepLog DEF AskTools, Goto
<1>7. ASSUME NEW result, FinishStream(result)
      PROVE  PositionMatchesLog' /\ LogGrammar'
  BY <1>1, <1>7, StepEndLog DEF FinishStream, EndStep
<1>8. ASSUME NEW concluded, FinishTools(concluded)
      PROVE  PositionMatchesLog' /\ LogGrammar'
  BY <1>1, <1>8, StepEndLog DEF FinishTools, EndStep
<1> QED
  BY <1>3, <1>4, <1>5, <1>6, <1>7, <1>8 DEF Steps

\* One step of the agent keeps position and log together.
LEMMA LogStep == LogInv /\ [Next]_vars => PositionMatchesLog' /\ LogGrammar'
<1> SUFFICES ASSUME LogInv, [Next]_vars
             PROVE  PositionMatchesLog' /\ LogGrammar'
  OBVIOUS
<1>1. CASE CallersGoOn
  <2>1. CASE FinishSend
    BY <2>1, WakeDriverLog DEF FinishSend
  <2>2. CASE ClearTurns \/ FinishCancel
    BY <2>2 DEF ClearTurns, FinishCancel, EmptyList, Interrupt, phase, driver, log, LogInv,
                PositionMatchesLog, LogGrammar
  <2> QED BY <1>1, <2>1, <2>2 DEF CallersGoOn
<1>2. CASE FinishMaintenance
  <2>1. CASE StartDriver(stack)
    BY <1>2, <2>1, StartDriverLog DEF FinishMaintenance
  <2>2. CASE UNCHANGED <<turn, step, driver>>
    BY <1>2, <2>2 DEF FinishMaintenance, driver, log, LogInv, PositionMatchesLog, LogGrammar
  <2> QED
    BY <1>2, <2>1, <2>2 DEF FinishMaintenance
<1>3. CASE UNCHANGED vars
  BY <1>3 DEF vars, phase, driver, log, LogInv, PositionMatchesLog, LogGrammar
<1> QED
  BY <1>1, <1>2, <1>3, CallersLog, TurnsLog, StepsLog DEF Next

\* However turns are cancelled, rejected or fail, the driver's position is the
\* log's, and the session's invariant accepts every event the driver appends.
THEOREM LogIsWellFormed == Spec => [](PositionMatchesLog /\ LogGrammar)
<1>1. Init => PositionMatchesLog /\ LogGrammar
  BY DEF Init, PositionMatchesLog, LogGrammar, BetweenTurns, BetweenSteps,
         Log!FreshTrace, Log!Closed
<1>2. TypeOK /\ PositionMatchesLog /\ LogGrammar /\ [Next]_vars
         => PositionMatchesLog' /\ LogGrammar'
  BY LogStep DEF LogInv
<1> QED
  BY <1>1, <1>2, TypeCorrect, PTL DEF Spec

-----------------------------------------------------------------------------
(***************************************************************************)
(* Custody of the messages.                                                *)
(***************************************************************************)
InFate(f) == {m \in Messages : fate[m] = f}

\* Every message the inbox holds is pending, once; every message of the
\* proposed step is claimed, and only a step being assembled has one.
HoldsOnce ==
    /\ Once(inbox)
    /\ Pending(inbox) = InFate("pending")
    /\ batch = InFate("claimed")
    /\ pc # "assemble" => batch = {}

\* What new fates do to the sets of messages of each fate.
LEMMA Refate ==
    ASSUME NEW S \in SUBSET Messages, NEW f, fate' = FateOf(S, f)
    PROVE  \A g : InFate(g)' = IF g = f THEN InFate(g) \cup S ELSE InFate(g) \ S
BY DEF InFate, FateOf

\* One splice of clear discards what its list held.
LEMMA EmptyListCustody ==
    ASSUME TypeOK, HoldsOnce, NEW target \in Targets, EmptyList(target)
    PROVE  /\ HoldsOnce'
           /\ Pending(inbox') = Pending(inbox) \ Range(inbox[target])
           /\ Range(inbox'[target]) = {}
           /\ InFate("new")' \subseteq InFate("new")
<1> DEFINE gone == Range(inbox[target])
<1>1. /\ Once(inbox') /\ Pending(inbox') = Pending(inbox) \ gone
      /\ Range(inbox'[target]) = {} /\ gone \subseteq Pending(inbox)
  BY EmptiedOnce DEF TypeOK, HoldsOnce, EmptyList
<1>2. fate' = FateOf(gone, "discarded") /\ UNCHANGED driver
  BY DEF EmptyList
<1> HIDE DEF gone
<1>3. gone \subseteq InFate("pending") /\ gone \in SUBSET Messages
  BY <1>1 DEF HoldsOnce, InFate
<1>4. \A g : InFate(g)' = IF g = "discarded" THEN InFate(g) \cup gone ELSE InFate(g) \ gone
  BY <1>2, <1>3, Refate
<1>5. InFate("claimed") \cap gone = {}
  BY <1>3 DEF InFate
<1> QED BY <1>1, <1>2, <1>4, <1>5 DEF HoldsOnce, driver, gone

\* The callers of the agent add what is new and take out what they settle.
LEMMA CallersCustody ==
    ASSUME TypeOK, HoldsOnce, Callers
    PROVE  /\ HoldsOnce'
           /\ Pending(inbox') \subseteq Pending(inbox) \cup InFate("new")
           /\ InFate("new")' \subseteq InFate("new")
<1>0. inbox \in Inboxes /\ fate \in [Messages -> Fates] /\ Pending(inbox) \subseteq Messages
  BY DEF TypeOK, HoldsOnce, InFate
<1>1. ASSUME NEW m \in Messages, NEW target \in Targets, fate[m] = "new",
             \/ inbox' = Add(inbox, target, m)
             \/ inbox' = Prepend(inbox, target, m),
             fate' = [fate EXCEPT ![m] = "pending"], UNCHANGED driver
      PROVE  /\ HoldsOnce'
             /\ Pending(inbox') \subseteq Pending(inbox) \cup InFate("new")
             /\ InFate("new")' \subseteq InFate("new")
  <2>1. m \notin Pending(inbox) /\ Once(inbox) /\ m \in InFate("new")
    BY <1>1 DEF HoldsOnce, InFate
  <2>2. Once(inbox') /\ Pending(inbox') = Pending(inbox) \cup {m}
    BY <1>0, <1>1, <2>1, AddOnce
  <2>3. /\ InFate("pending")' = InFate("pending") \cup {m}
        /\ InFate("claimed")' = InFate("claimed")
        /\ InFate("new")' \subseteq InFate("new")
    BY <1>0, <1>1 DEF InFate
  <2> QED BY <1>1, <2>1, <2>2, <2>3 DEF HoldsOnce, driver
<1>2. ASSUME NEW m \in Messages, NEW how \in Kinds, Send(m, how)
      PROVE  \E target \in Targets : inbox' = Add(inbox, target, m)
  BY <1>2 DEF Send, Targets
<1>3. ASSUME NEW m \in Messages, NEW how \in Kinds, Send(m, how)
      PROVE  fate[m] = "new" /\ fate' = [fate EXCEPT ![m] = "pending"] /\ UNCHANGED driver
  BY <1>3 DEF Send
<1>4. ASSUME NEW m \in Messages, PrependContext(m)
      PROVE  /\ inbox' = Prepend(inbox, "next-step", m) /\ "next-step" \in Targets
             /\ fate[m] = "new" /\ fate' = [fate EXCEPT ![m] = "pending"] /\ UNCHANGED driver
  BY <1>4 DEF PrependContext, Targets
<1>5. ASSUME NEW cause \in Causes, NEW keepInbox \in BOOLEAN, Cancel(cause, keepInbox)
      PROVE  /\ HoldsOnce'
             /\ Pending(inbox') \subseteq Pending(inbox)
             /\ InFate("new")' \subseteq InFate("new")
  BY <1>5 DEF Cancel, Interrupt, HoldsOnce, InFate, driver
<1>9. ASSUME NEW cause \in Causes, CancelClearing(cause)
      PROVE  /\ HoldsOnce'
             /\ Pending(inbox') \subseteq Pending(inbox)
             /\ InFate("new")' \subseteq InFate("new")
  BY <1>9, EmptyListCustody DEF CancelClearing, Targets
<1>6. ASSUME NEW target \in Targets, NEW i \in DOMAIN inbox[target], RemoveMessage(target, i)
      PROVE  /\ HoldsOnce'
             /\ Pending(inbox') \subseteq Pending(inbox)
             /\ InFate("new")' \subseteq InFate("new")
  <2> DEFINE gone == inbox[target][i]
  <2>1. /\ Once(inbox') /\ Pending(inbox') = Pending(inbox) \ {gone} /\ gone \in Pending(inbox)
    BY <1>0, <1>6, EditOnce DEF RemoveMessage, HoldsOnce
  <2>2. fate' = [fate EXCEPT ![gone] = "discarded"] /\ UNCHANGED driver
    BY <1>6 DEF RemoveMessage
  <2> HIDE DEF gone
  <2>3. gone \in Messages /\ fate[gone] = "pending"
    BY <2>1 DEF HoldsOnce, InFate
  <2>4. /\ InFate("pending")' = InFate("pending") \ {gone}
        /\ InFate("claimed")' = InFate("claimed")
        /\ InFate("new")' \subseteq InFate("new")
    BY <1>0, <2>2, <2>3 DEF InFate
  <2> QED BY <2>1, <2>2, <2>4 DEF HoldsOnce, driver
<1>7. ASSUME NEW target \in Targets, NEW i \in DOMAIN inbox[target], NEW m \in Messages,
             Replace(target, i, m)
      PROVE  /\ HoldsOnce'
             /\ Pending(inbox') \subseteq Pending(inbox) \cup InFate("new")
             /\ InFate("new")' \subseteq InFate("new")
  <2> DEFINE gone == inbox[target][i]
  <2>0. m \in Messages \ Pending(inbox) /\ m \in InFate("new") /\ fate[m] = "new"
    BY <1>7 DEF Replace, HoldsOnce, InFate
  <2>1. /\ Once(inbox') /\ Pending(inbox') = (Pending(inbox) \ {gone}) \cup {m}
        /\ gone \in Pending(inbox)
    BY <1>0, <1>7, <2>0, EditOnce DEF Replace, HoldsOnce
  <2>2. fate' = [fate EXCEPT ![gone] = "discarded", ![m] = "pending"] /\ UNCHANGED driver
    BY <1>7 DEF Replace
  <2> HIDE DEF gone
  <2>3. gone \in Messages /\ fate[gone] = "pending"
    BY <2>1 DEF HoldsOnce, InFate
  <2>4. /\ InFate("pending")' = (InFate("pending") \ {gone}) \cup {m}
        /\ InFate("claimed")' = InFate("claimed")
        /\ InFate("new")' \subseteq InFate("new")
    BY <1>0, <2>0, <2>2, <2>3 DEF InFate
  <2> QED BY <2>0, <2>1, <2>2, <2>4 DEF HoldsOnce, driver
<1>8. CASE RunMaintenance
  BY <1>8 DEF RunMaintenance, HoldsOnce, InFate, driver, history
<1> QED
  BY <1>1, <1>2, <1>3, <1>4, <1>5, <1>6, <1>7, <1>8, <1>9 DEF Callers, Causes

\* What claims, drops or enters a proposed step keeps every message in one place.
LEMMA ClaimCustody ==
    ASSUME TypeOK, HoldsOnce, batch = {}, NEW target \in Targets, Claim(target)
    PROVE  /\ HoldsOnce'
           /\ Pending(inbox') \subseteq Pending(inbox)
           /\ InFate("new")' \subseteq InFate("new")
<1> DEFINE claimed == Range(Claimed(inbox, target))
<1>1. /\ Once(inbox') /\ Pending(inbox') = Pending(inbox) \ claimed
      /\ claimed \subseteq Pending(inbox)
  BY ClaimOnce DEF TypeOK, HoldsOnce, Claim
<1>2. batch' = claimed /\ fate' = FateOf(claimed, "claimed") /\ pc' = "assemble"
  BY DEF Claim
<1> HIDE DEF claimed
<1>3. claimed \subseteq InFate("pending") /\ claimed \in SUBSET Messages
  BY <1>1 DEF HoldsOnce, InFate
<1>4. \A g : InFate(g)' = IF g = "claimed" THEN InFate(g) \cup claimed ELSE InFate(g) \ claimed
  BY <1>2, <1>3, Refate
<1> QED BY <1>1, <1>2, <1>3, <1>4 DEF HoldsOnce

\* The proposed step's messages are settled, whatever becomes of them.
LEMMA SettleCustody ==
    ASSUME TypeOK, HoldsOnce, NEW f \in {"dropped", "entered"},
           batch' = {}, fate' = FateOf(batch, f), UNCHANGED inbox
    PROVE  /\ HoldsOnce'
           /\ Pending(inbox') \subseteq Pending(inbox)
           /\ InFate("new")' \subseteq InFate("new")
<1>1. \A g : InFate(g)' = IF g = f THEN InFate(g) \cup batch ELSE InFate(g) \ batch
  BY Refate DEF TypeOK
<1>2. batch = InFate("claimed")
  BY DEF HoldsOnce
<1>3. InFate("pending") \cap batch = {} /\ InFate("claimed")' = {}
  BY <1>1, <1>2 DEF InFate
<1> QED BY <1>1, <1>3 DEF HoldsOnce

\* Nothing happens to messages where fates, inbox and batch stay.
LEMMA SameCustody ==
    ASSUME HoldsOnce, UNCHANGED <<fate, inbox, batch>>, pc = "assemble" => pc' = "assemble"
    PROVE  /\ HoldsOnce'
           /\ Pending(inbox') \subseteq Pending(inbox)
           /\ InFate("new")' \subseteq InFate("new")
BY DEF HoldsOnce, InFate

\* A wake leaves the proposed step alone.
LEMMA WakesLeaveTheBatch ==
    ASSUME TypeOK, NEW after, NEW below, WakeDriver(after, below)
    PROVE  UNCHANGED batch /\ (pc = "assemble" => pc' = "assemble")
BY DEF TypeOK, WakeDriver, StartDriver, driver

\* Custody under the driver.
LEMMA DriverCustody ==
    ASSUME TypeOK, HoldsOnce, Turns \/ Steps \/ CallersGoOn \/ FinishMaintenance
    PROVE  /\ HoldsOnce'
           /\ Pending(inbox') \subseteq Pending(inbox)
           /\ InFate("new")' \subseteq InFate("new")
<1>1. ASSUME NEW ending, CloseTurn(ending)
      PROVE  batch' = {} /\ fate' = FateOf(batch, "dropped") /\ UNCHANGED inbox
  BY <1>1 DEF CloseTurn
<1>2. ASSUME Raise
      PROVE  batch' = {} /\ fate' = FateOf(batch, "dropped") /\ UNCHANGED inbox
  BY <1>2 DEF Raise
<1>3. CASE EnterStep
  BY <1>3, SettleCustody DEF EnterStep
<1>4. CASE \E ending : CloseTurn(ending)
  BY <1>1, <1>4, SettleCustody
<1>5. CASE Raise
  BY <1>2, <1>5, SettleCustody
<1>6. CASE pc # "assemble" /\ \E target \in Targets : Claim(target)
  BY <1>6, ClaimCustody DEF HoldsOnce
<1>7. CASE UNCHANGED <<fate, inbox, batch>> /\ (pc = "assemble" => pc' = "assemble")
  BY <1>7, SameCustody
<1>8. CASE Turns
  <2>1. CASE FirstStep \/ AfterStep \/ AfterStopping
    BY <1>4, <1>6, <1>7, <2>1
       DEF FirstStep, AfterStep, AfterStopping, Goto, history, Targets
  <2>2. CASE RejectStep \/ EnterNothing \/ Report \/ Catch
    BY <1>4, <1>7, <2>2 DEF RejectStep, EnterNothing, Report, Catch, Goto, history
  <2>3. CASE FailPreStep \/ FailStopping
    BY <1>5, <2>3 DEF FailPreStep, FailStopping
  <2>4. CASE RefuseTurn \/ OpenTurn
    BY <1>7, <2>4 DEF RefuseTurn, OpenTurn, TurnIsDue, LeaveAs, LeaveLoop
  <2>5. CASE AfterTurn \/ Exit
    BY <1>7, <2>5 DEF AfterTurn, LeaveAs, LeaveLoop, Exit, history
  <2>6. CASE Replay
    BY <1>7, <2>6, WakesLeaveTheBatch DEF Replay, history, driver
  <2> QED BY <1>3, <1>8, <2>1, <2>2, <2>3, <2>4, <2>5, <2>6 DEF Turns
<1>9. CASE Steps
  <2>1. CASE FailStep
    BY <1>5, <2>1 DEF FailStep
  <2>2. CASE ~FailStep
    BY <1>7, <1>9, <2>2 DEF Steps, DispatchRequest, FailRequest, RetryRequest, AskTools,
         FinishStream, FinishTools, InStep, Goto, EndStep, history
  <2> QED BY <2>1, <2>2
<1>10. CASE CallersGoOn
  <2>1. CASE FinishSend
    BY <1>7, <2>1, WakesLeaveTheBatch DEF FinishSend
  <2>2. CASE ClearTurns
    BY <2>2, EmptyListCustody DEF ClearTurns, Targets
  <2>3. CASE FinishCancel
    BY <1>7, <2>3 DEF FinishCancel, Interrupt, driver
  <2> QED BY <1>10, <2>1, <2>2, <2>3 DEF CallersGoOn
<1>11. CASE FinishMaintenance
  BY <1>7, <1>11 DEF FinishMaintenance, StartDriver, TypeOK, driver
<1> QED BY <1>8, <1>9, <1>10, <1>11

\* Every message is in one place at a time: it waits in the inbox exactly
\* once, belongs to the one proposed step, or its fate is settled.
THEOREM MessagesHaveOneOwner == Spec => []Custody
<1>1. Init => HoldsOnce
  <2> SUFFICES ASSUME Init  PROVE HoldsOnce
    OBVIOUS
  <2>1. inbox["next-turn"] = <<>> /\ inbox["next-step"] = <<>>
    BY DEF Init, EmptyInbox, Targets
  <2>2. Once(inbox) /\ Pending(inbox) = {}
    BY <2>1, ShortLists DEF Once, Pending, Targets
  <2> QED BY <2>2 DEF Init, HoldsOnce, InFate
<1>2. TypeOK /\ HoldsOnce /\ [Next]_vars => HoldsOnce'
  <2> SUFFICES ASSUME TypeOK, HoldsOnce, [Next]_vars  PROVE HoldsOnce'
    OBVIOUS
  <2>1. CASE UNCHANGED vars
    BY <2>1, SameCustody DEF vars, driver, history
  <2> QED BY <2>1, CallersCustody, DriverCustody DEF Next
<1>3. TypeOK /\ HoldsOnce => Custody
  BY OnceCounts DEF TypeOK, HoldsOnce, InFate, Custody
<1> QED BY <1>1, <1>2, <1>3, TypeCorrect, PTL DEF Spec

-----------------------------------------------------------------------------
(***************************************************************************)
(* How a turn ends.                                                        *)
(***************************************************************************)
InTurn == {"opened", "assemble", "request", "stream", "recover", "tools", "stepped",
           "stopping", "raised", "reporting"}

\* What an open turn has claimed, and what it may have come to.
EndingSoFar ==
    /\ ordinary <= 1
    /\ pc = "opened" => ordinary = 0
    /\ pc \in InTurn => turnEnds \in {"none", "completed", "max-tokens"}
    /\ pc \in InTurn /\ ceiling => turnEnds = "max-tokens"

\* A turn closes from inside, and its ending is its own.
Closes(ending) == pc \in InTurn /\ pc' = "closed" /\ turnEnds' = ending

\* How a turn may close: as what its cancellation, its rejection, its failure
\* or its steps made of it.
ClosedRightly ==
    \/ Closes("aborted") /\ Aborted
    \/ Closes("blocked") /\ ~Aborted
    \/ Closes("error") /\ pc = "reporting"
    \/ Closes("noop") /\ ~Aborted /\ turnEnds = "none"
    \/ Closes(turnEnds) /\ ~Aborted

\* An ending that stands while the turn moves on.
LEMMA SameEnding ==
    ASSUME EndingSoFar, UNCHANGED <<ordinary, ceiling, turnEnds>>,
           pc' \in InTurn => pc \in InTurn, pc' = "opened" => pc = "opened"
    PROVE  EndingSoFar'
BY DEF EndingSoFar

\* A closed turn asks nothing of its ending here.
LEMMA ClosedEnding ==
    ASSUME EndingSoFar, NEW ending, CloseTurn(ending)
    PROVE  EndingSoFar' /\ pc' = "closed" /\ turnEnds' = ending
BY DEF EndingSoFar, CloseTurn, InTurn

\* Only the boundary that opens a turn takes a queued message.
LEMMA ClaimEnding ==
    ASSUME TypeOK, EndingSoFar, NEW target \in Targets, Claim(target), pc \in InTurn,
           target = "next-turn" => pc = "opened"
    PROVE  EndingSoFar' /\ pc' = "assemble"
<1>1. /\ QueuedTurn(inbox, target) \in {0, 1}
      /\ target = "next-step" => QueuedTurn(inbox, target) = 0
  BY QueuedTurnRange DEF TypeOK
<1>2. ordinary' = ordinary + QueuedTurn(inbox, target) /\ ordinary \in Nat
  BY DEF Claim, TypeOK
<1>3. ordinary' <= 1
  BY <1>1, <1>2 DEF EndingSoFar, Targets
<1> QED BY <1>3 DEF EndingSoFar, Claim, InTurn

\* What one step of the agent does to an open turn's ending.
LEMMA EndingStep ==
    ASSUME TypeOK, EndingSoFar, [Next]_vars
    PROVE  EndingSoFar' /\ (pc # "closed" /\ pc' = "closed" => ClosedRightly)
<1> DEFINE Right == EndingSoFar' /\ (pc # "closed" /\ pc' = "closed" => ClosedRightly)
<1>1. ASSUME NEW place \in InTurn \ {"opened"}, pc \in InTurn, Goto(place)
      PROVE  Right
  BY <1>1, SameEnding DEF Goto, history, InTurn
<1>2. ASSUME pc \in InTurn, Raise
      PROVE  Right
  BY <1>2, SameEnding DEF Raise, InTurn
<1>3. ASSUME pc \in InTurn, NEW target \in Targets, Claim(target),
             target = "next-turn" => pc = "opened"
      PROVE  Right
  BY <1>3, ClaimEnding
<1>4. ASSUME UNCHANGED <<pc, ordinary, ceiling, turnEnds>>
      PROVE  Right
  BY <1>4, SameEnding
<1>5. ASSUME pc' \in {"starting", "again", "exit", "none"},
             UNCHANGED <<ordinary, ceiling, turnEnds>>
      PROVE  Right
  BY <1>5, SameEnding DEF InTurn
<1>6. CASE Turns
  <2>1. CASE RefuseTurn
    BY <1>5, <2>1 DEF RefuseTurn, LeaveAs, LeaveLoop
  <2>2. CASE OpenTurn
    BY <2>2 DEF OpenTurn, EndingSoFar, InTurn
  <2>3. CASE FirstStep
    <3>1. CASE Aborted
      BY <2>3, <3>1, ClosedEnding DEF FirstStep, ClosedRightly, Closes, InTurn
    <3>2. CASE ~Aborted
      BY <1>3, <2>3, <3>2 DEF FirstStep, InTurn, Targets
    <3> QED BY <3>1, <3>2
  <2>4. CASE FailPreStep \/ FailStopping
    BY <1>2, <2>4 DEF FailPreStep, FailStopping, InTurn
  <2>5. CASE RejectStep
    BY <2>5, ClosedEnding DEF RejectStep, ClosedRightly, Closes, InTurn
  <2>6. CASE EnterNothing
    BY <2>6, ClosedEnding DEF EnterNothing, ClosedRightly, Closes, InTurn
  <2>7. CASE EnterStep
    BY <2>7, SameEnding DEF EnterStep, InTurn
  <2>8. CASE AfterStep
    <3>1. CASE Aborted
      BY <2>8, <3>1, ClosedEnding DEF AfterStep, ClosedRightly, Closes, InTurn
    <3>2. CASE ~Aborted
      BY <1>1, <1>3, <2>8, <3>2 DEF AfterStep, InTurn, Targets
    <3> QED BY <3>1, <3>2
  <2>9. CASE AfterStopping
    <3>1. CASE inbox["next-step"] = <<>>
      BY <2>9, <3>1, ClosedEnding DEF AfterStopping, ClosedRightly, Closes, InTurn
    <3>2. CASE inbox["next-step"] # <<>>
      BY <1>3, <2>9, <3>2 DEF AfterStopping, InTurn, Targets
    <3> QED BY <3>1, <3>2
  <2>10. CASE Catch
    <3>1. CASE Aborted
      BY <2>10, <3>1, ClosedEnding DEF Catch, ClosedRightly, Closes, InTurn
    <3>2. CASE ~Aborted
      BY <1>1, <2>10, <3>2 DEF Catch, InTurn
    <3> QED BY <3>1, <3>2
  <2>11. CASE Report
    BY <2>11, ClosedEnding DEF Report, ClosedRightly, Closes, InTurn
  <2>12. CASE AfterTurn
    BY <1>5, <2>12 DEF AfterTurn, LeaveAs, LeaveLoop, history
  <2>13. CASE Exit
    BY <1>5, <2>13 DEF Exit, history
  <2>14. CASE Replay
    BY <1>4, <1>5, <2>14 DEF Replay, WakeDriver, StartDriver, driver, history
  <2> QED
    BY <1>6, <2>1, <2>2, <2>3, <2>4, <2>5, <2>6, <2>7, <2>8, <2>9, <2>10, <2>11, <2>12, <2>13,
       <2>14 DEF Turns
<1>7. CASE Steps
  <2>1. CASE DispatchRequest \/ FailRequest \/ RetryRequest \/ AskTools
    BY <1>1, <2>1 DEF DispatchRequest, FailRequest, RetryRequest, AskTools, InStep, InTurn
  <2>2. CASE FailStep
    BY <1>2, <2>2 DEF FailStep, InTurn
  <2>3. ASSUME NEW result \in {"none", "completed", "max-tokens"}, pc \in {"stream", "tools"},
               EndStep(result)
        PROVE  Right
    BY <2>3 DEF EndStep, StickyResult, EndingSoFar, InTurn, TypeOK
  <2>4. ASSUME NEW result \in {"completed", "max-tokens"}, FinishStream(result)
        PROVE  Right
    BY <2>3, <2>4 DEF FinishStream, InStep
  <2>5. ASSUME NEW concluded \in BOOLEAN, FinishTools(concluded)
        PROVE  Right
    BY <2>3, <2>5 DEF FinishTools, InStep
  <2> QED BY <1>7, <2>1, <2>2, <2>4, <2>5 DEF Steps
<1>8. CASE Callers
  BY <1>4, <1>8 DEF Callers, Send, Cancel, CancelClearing, Interrupt, EmptyList, RemoveMessage, Replace,
                    PrependContext, RunMaintenance, driver, history
<1>9. CASE CallersGoOn
  BY <1>4, <1>5, <1>9 DEF CallersGoOn, FinishSend, ClearTurns, FinishCancel, Interrupt, EmptyList,
                          WakeDriver, StartDriver, driver
<1>10. CASE FinishMaintenance
  BY <1>4, <1>5, <1>10 DEF FinishMaintenance, StartDriver, driver
<1>11. CASE UNCHANGED vars
  BY <1>4, <1>11 DEF vars, driver, history
<1> QED BY <1>6, <1>7, <1>8, <1>9, <1>10, <1>11 DEF Next

\* An open turn's ending is kept from its opening to its end.
LEMMA EndingHolds == Spec => []EndingSoFar
<1>1. Init => EndingSoFar
  BY DEF Init, EndingSoFar, InTurn
<1>2. TypeOK /\ EndingSoFar /\ [Next]_vars => EndingSoFar'
  BY EndingStep
<1> QED BY <1>1, <1>2, TypeCorrect, PTL DEF Spec

\* However messages are queued, steered or put back, a turn serves at most one
\* of those that wait for a turn of their own.
THEOREM TurnsServeOneMessage == Spec => []OneOrdinaryMessage
<1>1. EndingSoFar => OneOrdinaryMessage
  BY DEF EndingSoFar, OneOrdinaryMessage
<1> QED BY <1>1, EndingHolds, PTL

\* A turn is recorded as aborted exactly when it was cancelled before its
\* outcome was decided.
THEOREM AbortsAreRecorded == Spec => AbortedTurnsSayAborted
<1> DEFINE A == pc # "closed" /\ pc' = "closed" /\ pc # "reporting" =>
                    (turnEnds' = "aborted" <=> Aborted)
<1>1. TypeOK /\ EndingSoFar /\ [Next]_vars => [A]_vars
  BY EndingStep DEF ClosedRightly, Closes, EndingSoFar
<1> QED BY <1>1, TypeCorrect, EndingHolds, PTL DEF Spec, AbortedTurnsSayAborted

\* A turn in which a step hit the ceiling is never recorded as completed.
THEOREM CeilingIsSticky == Spec => CeilingSticks
<1> DEFINE A == pc # "closed" /\ pc' = "closed" /\ ceiling =>
                    turnEnds' \notin {"completed", "noop"}
<1>1. TypeOK /\ EndingSoFar /\ [Next]_vars => [A]_vars
  BY EndingStep DEF ClosedRightly, Closes, EndingSoFar
<1> QED BY <1>1, TypeCorrect, EndingHolds, PTL DEF Spec, CeilingSticks

\* No step starts, no request is sent and no tool runs once the activity is
\* cancelled.
THEOREM AbortStopsModelWork == Spec => NoModelWorkAfterAbort
<1> DEFINE A == pc' # pc /\ pc' \in {"request", "stream", "tools"} => ~Aborted
<1>1. [Next]_vars => [A]_vars
  <2> SUFFICES ASSUME Next, pc' # pc, pc' \in {"request", "stream", "tools"}, Aborted
               PROVE  FALSE
    OBVIOUS
  <2>1. CASE Turns
    BY <2>1 DEF Turns, RefuseTurn, OpenTurn, FirstStep, FailPreStep, RejectStep, EnterNothing,
         EnterStep, AfterStep, AfterStopping, FailStopping, Catch, Report, AfterTurn, Exit, Replay,
         LeaveAs, LeaveLoop, CloseTurn, Claim, Raise, Goto, WakeDriver, StartDriver, driver
  <2>2. CASE Steps
    BY <2>2 DEF Steps, DispatchRequest, FailRequest, RetryRequest, FailStep, AskTools, FinishStream,
         FinishTools, EndStep, Goto, Raise
  <2>3. CASE Callers
    BY <2>3 DEF Callers, Send, Cancel, CancelClearing, Interrupt, EmptyList, RemoveMessage, Replace,
         PrependContext, RunMaintenance, driver
  <2>4. CASE CallersGoOn \/ FinishMaintenance
    BY <2>4 DEF CallersGoOn, FinishSend, ClearTurns, FinishCancel, Interrupt, EmptyList,
         FinishMaintenance, WakeDriver, StartDriver, driver
  <2> QED BY <2>1, <2>2, <2>3, <2>4 DEF Next
<1> QED BY <1>1, PTL DEF Spec, NoModelWorkAfterAbort

-----------------------------------------------------------------------------
(***************************************************************************)
(* What waits for the next step.                                           *)
(***************************************************************************)
Steering(box) == Range(box["next-step"])

\* A splice leaves in a list what was there and what it inserts.
LEMMA SplicedRange ==
    ASSUME NEW S, NEW s \in Seq(S), NEW start \in Nat, NEW count \in Nat, NEW inserted \in Seq(S),
           start + count <= Len(s)
    PROVE  Range(Spliced(s, start, count, inserted)) \subseteq Range(s) \cup Range(inserted)
<1> DEFINE r == Spliced(s, start, count, inserted)
           n == Len(inserted)
<1>1. /\ r \in Seq(S) /\ Len(r) = Len(s) - count + n
      /\ \A k \in 1 .. Len(r) : r[k] = IF k <= start THEN s[k]
                                       ELSE IF k <= start + n THEN inserted[k - start]
                                       ELSE s[k - n + count]
  BY SplicedElements
<1>2. /\ Len(s) \in Nat /\ n \in Nat
      /\ DOMAIN s = 1 .. Len(s) /\ DOMAIN inserted = 1 .. n /\ DOMAIN r = 1 .. Len(r)
  BY <1>1, LenProperties
<1> HIDE DEF r
<1>3. ASSUME NEW k \in 1 .. Len(r)
      PROVE  r[k] \in Range(s) \cup Range(inserted)
  <2>1. CASE k <= start
    <3>1. k \in DOMAIN s /\ r[k] = s[k]
      BY <1>1, <1>2, <2>1
    <3> QED BY <3>1 DEF Range
  <2>2. CASE ~(k <= start) /\ k <= start + n
    <3>1. k - start \in DOMAIN inserted /\ r[k] = inserted[k - start]
      BY <1>1, <1>2, <2>2
    <3> QED BY <3>1 DEF Range
  <2>3. CASE ~(k <= start) /\ ~(k <= start + n)
    <3>1. k - n + count \in DOMAIN s /\ r[k] = s[k - n + count]
      BY <1>1, <1>2, <2>3
    <3> QED BY <3>1 DEF Range
  <2> QED BY <2>1, <2>2, <2>3
<1> QED BY <1>2, <1>3 DEF Range, r

\* So does one in the inbox, of what waits for the next step.
LEMMA SpliceRange ==
    ASSUME NEW box \in Inboxes, NEW target \in Targets,
           NEW start \in Nat, NEW count \in Nat, NEW inserted \in Seq(Messages),
           start + count <= Len(box[target])
    PROVE  Steering(Splice(box, target, start, count, inserted))
              \subseteq Steering(box) \cup Range(inserted)
<1>1. CASE target # "next-step"
  BY <1>1, SpliceOther DEF Steering, Targets
<1>2. CASE target = "next-step"
  <2>1. box["next-step"] \in Seq(Messages) /\ start + count <= Len(box["next-step"])
    BY <1>2 DEF Inboxes
  <2>2. Splice(box, target, start, count, inserted)["next-step"]
           = Spliced(box["next-step"], start, count, inserted)
    BY <1>2 DEF Splice, Spliced, Inboxes
  <2> QED BY <2>1, <2>2, SplicedRange DEF Steering
<1> QED BY <1>1, <1>2

\* Insertions and edits leave what was there and the new message.
LEMMA EditRange ==
    ASSUME NEW box \in Inboxes, NEW target \in Targets, NEW m \in Messages
    PROVE  /\ Steering(Add(box, target, m)) \subseteq Steering(box) \cup {m}
           /\ Steering(Prepend(box, target, m)) \subseteq Steering(box) \cup {m}
           /\ Steering(Emptied(box, target)) \subseteq Steering(box)
           /\ \A i \in DOMAIN box[target] :
                 /\ Steering(RemoveAtIndex(box, target, i)) \subseteq Steering(box)
                 /\ Steering(ReplaceAtIndex(box, target, i, m)) \subseteq Steering(box) \cup {m}
<1>1. box[target] \in Seq(Messages) /\ Len(box[target]) \in Nat
  BY LenProperties DEF Inboxes
<1> DEFINE one == <<m>>
           none == <<>>
<1>2. /\ one \in Seq(Messages) /\ Range(one) = {m}
      /\ none \in Seq(Messages) /\ Range(none) = {}
  BY ShortLists
<1> HIDE DEF one, none
<1>3. ASSUME NEW start \in Nat, NEW count \in Nat, start + count <= Len(box[target])
      PROVE  /\ Steering(Splice(box, target, start, count, one)) \subseteq Steering(box) \cup {m}
             /\ Steering(Splice(box, target, start, count, none)) \subseteq Steering(box)
  <2>1. Steering(Splice(box, target, start, count, one)) \subseteq Steering(box) \cup Range(one)
    BY <1>2, <1>3, SpliceRange
  <2>2. Steering(Splice(box, target, start, count, none)) \subseteq Steering(box) \cup Range(none)
    BY <1>2, <1>3, SpliceRange
  <2> QED BY <1>2, <2>1, <2>2
<1>4. /\ Len(box[target]) + 0 <= Len(box[target]) /\ 0 + 0 <= Len(box[target])
      /\ 0 + Len(box[target]) <= Len(box[target]) /\ 0 \in Nat
  BY <1>1
<1>5. \A i \in DOMAIN box[target] : i - 1 \in Nat /\ 1 \in Nat /\ i - 1 + 1 <= Len(box[target])
  BY <1>1, LenProperties
<1> QED BY <1>1, <1>3, <1>4, <1>5 DEF Add, Prepend, Emptied, RemoveAtIndex, ReplaceAtIndex, one, none

\* A boundary takes all that waits for the next step.
LEMMA ClaimRange ==
    ASSUME NEW box \in Inboxes, NEW target \in Targets
    PROVE  Steering(AfterClaim(box, target)) \subseteq Steering(box)
<1> DEFINE noSteps == Emptied(box, "next-step")
<1>1. noSteps \in Inboxes
  BY DrainType DEF Emptied, Targets
<1>2. AfterClaim(box, target) = Splice(noSteps, "next-turn", 0, QueuedTurn(box, target), <<>>)
  BY DEF AfterClaim, Emptied
<1> HIDE DEF noSteps
<1>3. AfterClaim(box, target)["next-step"] = noSteps["next-step"]
  BY <1>1, <1>2, SpliceOther DEF Targets
<1>4. CASE Messages = {}
  <2>1. noSteps["next-step"] \in Seq(Messages)
    BY <1>1 DEF Inboxes, Targets
  <2>2. Range(noSteps["next-step"]) = {}
    BY <1>4, <2>1 DEF Range
  <2> QED BY <1>3, <2>2 DEF Steering
<1>5. CASE Messages # {}
  BY <1>3, <1>5, EditRange DEF Steering, noSteps, Targets
<1> QED BY <1>4, <1>5

\* Callers put only new messages there.
LEMMA CallersSteering ==
    ASSUME TypeOK, Callers
    PROVE  Steering(inbox') \subseteq Steering(inbox) \cup InFate("new")
<1>0. inbox \in Inboxes
  BY DEF TypeOK
<1>1. ASSUME NEW m \in Messages, NEW how \in Kinds, Send(m, how)
      PROVE  Steering(inbox') \subseteq Steering(inbox) \cup InFate("new")
  <2>1. (\E target \in Targets : inbox' = Add(inbox, target, m)) /\ m \in InFate("new")
    BY <1>1 DEF Send, Targets, InFate
  <2> QED BY <1>0, <2>1, EditRange
<1>2. ASSUME NEW cause \in Causes, CancelClearing(cause)
      PROVE  Steering(inbox') \subseteq Steering(inbox)
  <2>1. \E target \in Targets : inbox' = Emptied(inbox, target) /\ inbox[target] # <<>>
    BY <1>2 DEF CancelClearing, EmptyList, HasPending, Targets
  <2>2. PICK target \in Targets : inbox' = Emptied(inbox, target) /\ inbox[target] # <<>>
    BY <2>1
  <2>3. PICK m : m \in Messages
    <3>1. inbox[target] \in Seq(Messages)
      BY <1>0 DEF Inboxes
    <3>2. Len(inbox[target]) \in Nat /\ Len(inbox[target]) # 0
      BY <2>2, <3>1, LenProperties, EmptySeq
    <3>3. inbox[target][1] \in Messages
      BY <3>1, <3>2, ElementOfSeq
    <3> QED BY <3>3
  <2> QED BY <1>0, <2>2, <2>3, EditRange
<1>3. ASSUME NEW target \in Targets, NEW i \in DOMAIN inbox[target], RemoveMessage(target, i)
      PROVE  Steering(inbox') \subseteq Steering(inbox)
  <2>1. inbox[target][i] \in Messages
    BY <1>0 DEF Inboxes
  <2> QED BY <1>0, <1>3, <2>1, EditRange DEF RemoveMessage
<1>4. ASSUME NEW target \in Targets, NEW i \in DOMAIN inbox[target], NEW m \in Messages,
             Replace(target, i, m)
      PROVE  Steering(inbox') \subseteq Steering(inbox) \cup InFate("new")
  BY <1>0, <1>4, EditRange DEF Replace, InFate
<1>5. ASSUME NEW m \in Messages, PrependContext(m)
      PROVE  Steering(inbox') \subseteq Steering(inbox) \cup InFate("new")
  BY <1>0, <1>5, EditRange DEF PrependContext, InFate, Targets
<1>6. ASSUME NEW cause, NEW keepInbox, Cancel(cause, keepInbox) \/ RunMaintenance
      PROVE  inbox' = inbox
  BY <1>6 DEF Cancel, Interrupt, RunMaintenance
<1> QED BY <1>1, <1>2, <1>3, <1>4, <1>5, <1>6 DEF Callers

\* The driver puts nothing there.
LEMMA DriverSteering ==
    ASSUME TypeOK, Turns \/ Steps \/ FinishSend \/ FinishCancel \/ FinishMaintenance
    PROVE  Steering(inbox') \subseteq Steering(inbox)
<1>1. ASSUME NEW target \in Targets, Claim(target)
      PROVE  Steering(inbox') \subseteq Steering(inbox)
  BY <1>1, ClaimRange DEF Claim, TypeOK
<1>2. CASE inbox' = inbox
  BY <1>2
<1>3. CASE Turns
  BY <1>1, <1>2, <1>3 DEF Turns, RefuseTurn, OpenTurn, FirstStep, FailPreStep, RejectStep,
       EnterNothing, EnterStep, AfterStep, AfterStopping, FailStopping, Catch, Report, AfterTurn,
       Exit, Replay, LeaveAs, CloseTurn, Raise, Goto, Targets
<1>4. CASE Steps
  BY <1>2, <1>4 DEF Steps, DispatchRequest, FailRequest, RetryRequest, FailStep, AskTools,
       FinishStream, FinishTools, EndStep, Goto, Raise
<1>5. CASE FinishSend \/ FinishCancel \/ FinishMaintenance
  BY <1>2, <1>5 DEF FinishSend, FinishCancel, Interrupt, FinishMaintenance
<1> QED BY <1>3, <1>4, <1>5

\* Nothing waits for a step that does not wait at all.
LEMMA SteeringIsPending ==
    ASSUME TypeOK
    PROVE  /\ Steering(inbox) \subseteq Pending(inbox)
           /\ inbox["next-turn"] = <<>> => Pending(inbox) = Steering(inbox)
           /\ Pending(inbox) \ Range(inbox["next-turn"]) \subseteq Steering(inbox)
BY ShortLists DEF Steering, Pending

-----------------------------------------------------------------------------
(***************************************************************************)
(* Wakes.                                                                  *)
(***************************************************************************)
\* The messages whose send has not come back from its listeners.
Waking == WakingIn(stack)

\* A new message has not been sent.
NewIsUnsent == (wakes \cup Waking \cup promised) \cap InFate("new") = {}

Owed == promised \cap Pending(inbox)

\* Who serves a promise: a driver about to open a turn, the latch, or the
\* replay of the latch.  A cancel that will erase the latch leaves no promised
\* message in a list it has emptied.
PromisesAreKept ==
    /\ kind = "running" /\ Owed # {} => wakeRequested \/ (pc \in {"starting", "again"} /\ ~Aborted)
    /\ kind # "running" /\ Owed # {} => wakeRequested \/ Waits("replay")
    /\ abort = "disposed" => Owed = {}
    /\ Clearing => promised \cap Steering(inbox) = {}
    /\ Waits("cleared") => Owed = {}

\* Of these messages, those sent with wakeup came after the driver's last look.
Late(messages) == wakes \cap messages \subseteq gap \cup Waking

LateOnly  == Late(Pending(inbox))
LateSteps == Late(Steering(inbox))

\* Where nothing is left to look at the inbox again, only late ones are in it;
\* where a cancel will erase the latch, only late ones in what it has emptied.
DrainedIsLate ==
    lastExit = "drained" =>
        /\ pc = "exit" /\ ~wakeRequested => LateOnly
        /\ pc = "exit" /\ Clearing => LateSteps
        /\ pc = "exit" /\ Waits("cleared") => LateOnly
        /\ kind = "idle" /\ ~Waits("replay") => LateOnly
        /\ kind = "maintenance" /\ ~Aborted /\ ~wakeRequested /\ ~Waits("replay") => LateOnly

WakeInv == TypeOK /\ HoldsOnce /\ NewIsUnsent /\ PromisesAreKept /\ DrainedIsLate

WakeParts == NewIsUnsent /\ PromisesAreKept /\ DrainedIsLate

\* A call begins to wait.
LEMMA Pushes ==
    ASSUME TypeOK, NEW f \in Frames, stack' = Append(stack, f)
    PROVE  /\ Waking' = Waking \cup f.waking
           /\ \A call : Waits(call)' <=> Waits(call) \/ f.call = call
BY PushFacts DEF TypeOK, Waking, Waits, WaitsIn

\* The innermost call returns.
LEMMA Pops ==
    ASSUME TypeOK, NEW call, Returns(call), stack' = Front(stack)
    PROVE  /\ Waking = Waking' \cup Last(stack).waking
           /\ call # "send" => Waking' = Waking
           /\ Waits(call)
           /\ \A other : Waits(other)' => Waits(other)
           /\ \A other : other # call => (Waits(other)' <=> Waits(other))
<1>1. /\ Last(stack) \in Frames /\ Last(stack).call = call
      /\ WakingIn(stack) = WakingIn(Front(stack)) \cup Last(stack).waking
      /\ \A other : WaitsIn(stack, other) <=> WaitsIn(Front(stack), other) \/ Last(stack).call = other
  BY PopFacts DEF TypeOK, Returns
<1>2. call # "send" => Last(stack).waking = {}
  BY <1>1, FrameKinds
<1>3. \A other : (Waits(other) <=> WaitsIn(stack, other)) /\ (Waits(other)' <=> WaitsIn(Front(stack), other))
  BY DEF Waits, WaitsIn
<1>4. Waking = WakingIn(stack) /\ Waking' = WakingIn(Front(stack))
  BY DEF Waking
<1> QED BY <1>1, <1>2, <1>3, <1>4

\* Nothing begins or returns.
LEMMA SameStack ==
    ASSUME stack' = stack
    PROVE  Waking' = Waking /\ \A call : Waits(call)' <=> Waits(call)
BY DEF Waking, Waits

\* What the inbox holds beyond what it held is new, and new was never sent.
LEMMA OldWakes ==
    ASSUME WakeInv, NEW after, NEW before, after \subseteq before \cup InFate("new"),
           NEW S, S \subseteq wakes \cup promised
    PROVE  S \cap after \subseteq S \cap before
BY DEF WakeInv, NewIsUnsent

\* Steps that leave the phase, the latch and the wakes alone, and whoever may
\* still open a turn in place.
LEMMA SameWakes ==
    ASSUME WakeInv,
           Pending(inbox') \subseteq Pending(inbox) \cup InFate("new"),
           Steering(inbox') \subseteq Steering(inbox) \cup InFate("new"),
           InFate("new")' \subseteq InFate("new"),
           UNCHANGED <<kind, abort, wakeRequested, wakes, promised, gap>>,
           Waking' = Waking, \A call : call # "kick" => (Waits(call)' <=> Waits(call)),
           pc \in {"starting", "again"} /\ ~Aborted => pc' = pc \/ Owed = {},
           lastExit' = "drained" => lastExit = "drained" /\ (pc' = "exit" => pc = "exit")
    PROVE  WakeParts'
<1>1. /\ promised \cap Pending(inbox') \subseteq promised \cap Pending(inbox)
      /\ wakes \cap Pending(inbox') \subseteq wakes \cap Pending(inbox)
      /\ promised \cap Steering(inbox') \subseteq promised \cap Steering(inbox)
      /\ wakes \cap Steering(inbox') \subseteq wakes \cap Steering(inbox)
  BY OldWakes
<1>2. Owed' \subseteq Owed /\ (LateOnly => LateOnly') /\ (LateSteps => LateSteps')
  BY <1>1 DEF Owed, LateOnly, LateSteps, Late
<1>3. /\ Waits("replay")' <=> Waits("replay")
      /\ Waits("cleared")' <=> Waits("cleared")
      /\ Clearing' <=> Clearing
  BY DEF Clearing
<1>4. NewIsUnsent'
  BY DEF WakeInv, NewIsUnsent
<1>5. PromisesAreKept'
  BY <1>1, <1>2, <1>3 DEF WakeInv, PromisesAreKept, Aborted
<1>6. DrainedIsLate'
  BY <1>2, <1>3 DEF WakeInv, DrainedIsLate, Aborted
<1> QED BY <1>4, <1>5, <1>6 DEF WakeParts

\* send inserts, and its wake is still to come.
LEMMA SendWakes ==
    ASSUME WakeInv, NEW m \in Messages, NEW how \in Kinds, Send(m, how),
           Steering(inbox') \subseteq Steering(inbox) \cup InFate("new")
    PROVE  WakeParts'
<1>1. /\ m \in InFate("new")
      /\ InFate("new")' \subseteq InFate("new") \ {m}
      /\ Pending(inbox') \subseteq Pending(inbox) \cup InFate("new")
  <2>1. m \in InFate("new") /\ fate[m] = "new"
    BY DEF Send, InFate
  <2>2. InFate("new")' \subseteq InFate("new") \ {m}
    BY <2>1 DEF InFate, Send, WakeInv, TypeOK
  <2>3. \E target \in Targets : inbox' = Add(inbox, target, m)
    BY DEF Send, Targets
  <2>4. m \notin Pending(inbox) /\ Once(inbox) /\ inbox \in Inboxes
    BY <2>1 DEF WakeInv, HoldsOnce, InFate, TypeOK
  <2>5. Pending(inbox') = Pending(inbox) \cup {m}
    BY <2>3, <2>4, AddOnce
  <2> QED BY <2>1, <2>2, <2>5
<1>2. UNCHANGED <<kind, abort, wakeRequested, pc, promised, gap, lastExit>>
  BY DEF Send, phase, driver
<1>3. /\ \/ wakes' = wakes /\ Waking' = Waking
         \/ wakes' = wakes \cup {m} /\ Waking' = Waking \cup {m}
      /\ \A call : call # "send" => (Waits(call)' <=> Waits(call))
  <2>1. CASE stack' = stack /\ wakes' = wakes
    BY <2>1, SameStack
  <2>2. CASE /\ wakes' = wakes \cup {m}
             /\ WakingIn(stack') = WakingIn(stack) \cup {m}
             /\ \A call : call # "send" => (WaitsIn(stack', call) <=> WaitsIn(stack, call))
    BY <2>2 DEF Waking, Waits, WaitsIn
  <2> QED BY <2>1, <2>2, SendStack DEF WakeInv
<1>4. /\ Waits("replay")' <=> Waits("replay")
      /\ Waits("cleared")' <=> Waits("cleared")
      /\ Clearing' <=> Clearing
  BY <1>3 DEF Clearing
<1>5. /\ promised \cap Pending(inbox') \subseteq promised \cap Pending(inbox)
      /\ wakes \cap Pending(inbox') \subseteq wakes \cap Pending(inbox)
      /\ promised \cap Steering(inbox') \subseteq promised \cap Steering(inbox)
      /\ wakes \cap Steering(inbox') \subseteq wakes \cap Steering(inbox)
  BY <1>1, OldWakes
<1>6. Owed' \subseteq Owed /\ (LateOnly => LateOnly') /\ (LateSteps => LateSteps')
  BY <1>2, <1>3, <1>5 DEF Owed, LateOnly, LateSteps, Late
<1>7. NewIsUnsent'
  BY <1>1, <1>2, <1>3 DEF WakeInv, NewIsUnsent
<1>8. PromisesAreKept'
  BY <1>2, <1>4, <1>5, <1>6 DEF WakeInv, PromisesAreKept, Aborted
<1>9. DrainedIsLate'
  BY <1>2, <1>4, <1>6 DEF WakeInv, DrainedIsLate, Aborted
<1> QED BY <1>7, <1>8, <1>9 DEF WakeParts

\* cancel with nothing to discard keeps the latch, or has none to keep.
LEMMA CancelWakes ==
    ASSUME WakeInv, NEW cause \in Causes, NEW keepInbox \in BOOLEAN, Cancel(cause, keepInbox),
           cause = "disposed" => ~keepInbox
    PROVE  WakeParts'
<1>1. /\ promised' \subseteq promised /\ (kind = "running" /\ ~Aborted => promised' = {})
      /\ wakeRequested' = (wakeRequested /\ keepInbox)
      /\ abort' = Signal(cause)
      /\ UNCHANGED <<kind, pc, inbox, fate, stack, wakes, gap, lastExit>>
  BY DEF Cancel, Interrupt, driver
<1>2. /\ Waking' = Waking
      /\ Waits("replay")' <=> Waits("replay")
      /\ Waits("cleared")' <=> Waits("cleared")
      /\ Clearing' <=> Clearing
  BY <1>1, SameStack DEF Clearing
<1>3. NewIsUnsent'
  BY <1>1, <1>2 DEF WakeInv, NewIsUnsent, InFate
<1>4. Owed' \subseteq Owed /\ (LateOnly <=> LateOnly') /\ (LateSteps <=> LateSteps')
  BY <1>1, <1>2 DEF Owed, LateOnly, LateSteps, Late
<1>5. CASE ~keepInbox
  <2>1. Pending(inbox) = {} /\ Steering(inbox) = {}
    BY <1>5, PendingMeans, SteeringIsPending DEF Cancel, WakeInv, TypeOK
  <2>2. Owed' = {} /\ LateOnly' /\ LateSteps' /\ promised' \cap Steering(inbox') = {}
    BY <1>1, <2>1 DEF Owed, LateOnly, LateSteps, Late
  <2> QED BY <1>3, <2>2 DEF WakeParts, PromisesAreKept, DrainedIsLate
<1>6. CASE keepInbox
  <2>1. wakeRequested' = wakeRequested
    BY <1>1, <1>6 DEF WakeInv, TypeOK
  <2>2. kind = "running" /\ ~Aborted => Owed' = {}
    BY <1>1 DEF Owed
  <2>3. /\ Aborted => abort' = abort
        /\ kind = "idle" => abort' = abort
        /\ abort' = "disposed" => abort = "disposed"
        /\ ~Aborted' => ~Aborted
    BY <1>1, <1>6 DEF Signal, Aborted, Causes, NoAbort
  <2>4. PromisesAreKept'
    BY <1>1, <1>2, <1>4, <2>1, <2>2, <2>3 DEF WakeInv, PromisesAreKept, Aborted
  <2>5. DrainedIsLate'
    BY <1>1, <1>2, <1>4, <2>1, <2>3 DEF WakeInv, DrainedIsLate
  <2> QED BY <1>3, <2>4, <2>5 DEF WakeParts
<1> QED BY <1>5, <1>6

\* A cancel that discards leaves the first list empty, or both.
LEMMA CancelClearingWakes ==
    ASSUME WakeInv, NEW cause \in Causes, CancelClearing(cause)
    PROVE  WakeParts'
<1> DEFINE first == IF inbox["next-step"] # <<>> THEN "next-step" ELSE "next-turn"
           call == IF first = "next-step" THEN "clearing" ELSE "cleared"
           f == [Plain(call) EXCEPT !.cause = cause]
<1>1. EmptyList(first) /\ stack' = Append(stack, f) /\ first \in Targets
  BY DEF CancelClearing, Targets
<1>2. /\ Pending(inbox') = Pending(inbox) \ Range(inbox[first])
      /\ Range(inbox'[first]) = {} /\ InFate("new")' \subseteq InFate("new")
  BY <1>1, EmptyListCustody DEF WakeInv
<1>3. UNCHANGED <<kind, abort, wakeRequested, pc, wakes, promised, gap, lastExit>>
  BY <1>1 DEF EmptyList, phase, driver
<1>4. f \in Frames /\ f.waking = {} /\ f.call = call
  BY FrameTypes
<1>5. Steering(inbox') \subseteq Steering(inbox) \cup InFate("new")
  BY CallersSteering DEF WakeInv, Callers, Causes
<1> HIDE DEF f
<1>6. Waking' = Waking /\ \A c : Waits(c)' <=> Waits(c) \/ c = call
  BY <1>1, <1>4, Pushes DEF WakeInv
<1>7. Waits("replay")' <=> Waits("replay")
  BY <1>6
<1>8. NewIsUnsent'
  BY <1>2, <1>3, <1>6 DEF WakeInv, NewIsUnsent
<1>9. Owed' \subseteq Owed /\ (LateOnly => LateOnly')
  BY <1>2, <1>3, <1>6 DEF Owed, LateOnly, Late
<1>10. Steering(inbox') = {}
  <2>1. CASE inbox["next-step"] # <<>>
    BY <1>2, <2>1 DEF Steering
  <2>2. CASE inbox["next-step"] = <<>>
    <3>1. inbox'["next-step"] = inbox["next-step"]
      BY <1>1, <2>2, SpliceOther DEF EmptyList, Emptied, WakeInv, TypeOK, Targets
    <3> QED BY <2>2, <3>1, ShortLists DEF Steering
  <2> QED BY <2>1, <2>2
<1>11. call = "cleared" => Pending(inbox') = {}
  <2>1. CASE inbox["next-step"] = <<>>
    BY <1>2, <2>1, ShortLists DEF Pending
  <2> QED BY <2>1
<1> HIDE DEF call
<1>12. PromisesAreKept'
  <2>1. promised' \cap Steering(inbox') = {}
    BY <1>10
  <2>2. Waits("cleared")' => Owed' = {}
    BY <1>6, <1>9, <1>11 DEF WakeInv, PromisesAreKept, Owed
  <2> QED BY <1>3, <1>7, <1>9, <2>1, <2>2 DEF WakeInv, PromisesAreKept, Aborted
<1>13. DrainedIsLate'
  <2>1. LateSteps'
    BY <1>10 DEF LateSteps, Late
  <2>2. lastExit = "drained" /\ pc = "exit" /\ Waits("cleared")' => LateOnly'
    BY <1>6, <1>9, <1>11 DEF WakeInv, DrainedIsLate, LateOnly, Late
  <2> QED BY <1>3, <1>7, <1>9, <2>1, <2>2 DEF WakeInv, DrainedIsLate, Aborted
<1> QED BY <1>8, <1>12, <1>13 DEF WakeParts

\* The second list goes with what promised messages were left.
LEMMA ClearTurnsWakes ==
    ASSUME WakeInv, ClearTurns
    PROVE  WakeParts'
<1> DEFINE f == [Last(stack) EXCEPT !.call = "cleared"]
           below == Front(stack)
<1>1. /\ Returns("clearing") /\ EmptyList("next-turn") /\ stack' = Append(below, f)
      /\ "next-turn" \in Targets
  BY DEF ClearTurns, Resumes, Targets
<1>2. /\ Pending(inbox') = Pending(inbox) \ Range(inbox["next-turn"])
      /\ InFate("new")' \subseteq InFate("new")
  BY <1>1, EmptyListCustody DEF WakeInv
<1>3. UNCHANGED <<kind, abort, wakeRequested, pc, wakes, promised, gap, lastExit>>
  BY <1>1 DEF EmptyList, phase, driver
<1>4. /\ below \in Seq(Frames) /\ Last(stack) \in Frames /\ Last(stack).call = "clearing"
      /\ WakingIn(stack) = WakingIn(below) \cup Last(stack).waking
      /\ \A call : WaitsIn(stack, call) <=> WaitsIn(below, call) \/ call = "clearing"
  BY <1>1, PopFacts DEF WakeInv, TypeOK, Returns
<1>5. f \in Frames /\ f.waking = {} /\ f.call = "cleared" /\ Last(stack).waking = {}
  BY <1>4, FrameKinds
<1> HIDE DEF f, below
<1>6. /\ WakingIn(stack') = WakingIn(below) \cup f.waking
      /\ \A call : WaitsIn(stack', call) <=> WaitsIn(below, call) \/ call = "cleared"
  BY <1>1, <1>4, <1>5, PushFacts
<1>7. /\ Waking' = Waking /\ Clearing /\ (Waits("replay")' <=> Waits("replay"))
  BY <1>4, <1>5, <1>6 DEF Waking, Clearing, Waits, WaitsIn
<1>8. Pending(inbox') \subseteq Steering(inbox) /\ Steering(inbox') \subseteq Steering(inbox)
  <2>1. inbox'["next-step"] = inbox["next-step"]
    BY <1>1, SpliceOther DEF EmptyList, Emptied, WakeInv, TypeOK, Targets
  <2> QED BY <1>2, <2>1, SteeringIsPending DEF WakeInv, Steering
<1>9. NewIsUnsent'
  BY <1>2, <1>3, <1>7 DEF WakeInv, NewIsUnsent
<1>10. PromisesAreKept'
  <2>1. Owed' = {} /\ promised' \cap Steering(inbox') = {}
    BY <1>3, <1>7, <1>8 DEF WakeInv, PromisesAreKept, Owed
  <2> QED BY <2>1 DEF PromisesAreKept
<1>11. DrainedIsLate'
  <2>1. LateOnly => LateOnly'
    BY <1>2, <1>3, <1>7 DEF LateOnly, Late
  <2>2. LateSteps => LateOnly' /\ LateSteps'
    BY <1>3, <1>7, <1>8 DEF LateOnly, LateSteps, Late
  <2> QED BY <1>3, <1>7, <2>1, <2>2 DEF WakeInv, DrainedIsLate, Aborted
<1> QED BY <1>9, <1>10, <1>11 DEF WakeParts

\* The end of such a cancel finds nothing promised, and only late messages.
LEMMA FinishCancelWakes ==
    ASSUME WakeInv, FinishCancel
    PROVE  WakeParts'
<1> DEFINE cause == Last(stack).cause
<1>1. PICK call \in {"clearing", "cleared"} :
         Returns(call) /\ (call = "clearing" => inbox["next-turn"] = <<>>)
  BY DEF FinishCancel, Resumes
<1>2. cause \in Causes
  <2>1. Last(stack) \in Frames /\ Last(stack).call \in {"clearing", "cleared"}
    BY <1>1, PopFacts DEF WakeInv, TypeOK, Returns
  <2> QED BY <2>1, FrameKinds
<1>3. /\ promised' \subseteq promised /\ wakeRequested' = FALSE /\ abort' = Signal(cause)
      /\ UNCHANGED <<kind, pc, inbox, fate, wakes, gap, lastExit>> /\ stack' = Front(stack)
  BY DEF FinishCancel, Interrupt, driver
<1> HIDE DEF cause
<1>4. /\ Waking' = Waking /\ Waits(call) /\ Clearing
      /\ Waits("replay")' <=> Waits("replay")
  BY <1>1, <1>3, Pops DEF WakeInv, Clearing
<1>5. call = "clearing" => Pending(inbox) = Steering(inbox)
  BY <1>1, SteeringIsPending DEF WakeInv
<1>6. Owed = {} /\ promised \cap Steering(inbox) = {}
  BY <1>4, <1>5 DEF WakeInv, PromisesAreKept, Owed
<1>7. NewIsUnsent'
  BY <1>3, <1>4 DEF WakeInv, NewIsUnsent, InFate
<1>8. Owed' = {} /\ promised' \cap Steering(inbox') = {}
  BY <1>3, <1>6 DEF Owed
<1>9. PromisesAreKept'
  BY <1>8 DEF PromisesAreKept
<1>10. DrainedIsLate'
  <2>1. LateOnly => LateOnly' /\ LateSteps'
    BY <1>3, <1>4, SteeringIsPending DEF WakeInv, LateOnly, LateSteps, Late
  <2>2. lastExit = "drained" /\ pc = "exit" => LateOnly
    BY <1>4, <1>5 DEF WakeInv, DrainedIsLate, LateOnly, LateSteps, Late
  <2>3. kind = "maintenance" => Aborted'
    BY <1>2, <1>3 DEF Signal, Aborted, Causes, NoAbort
  <2> QED BY <1>3, <1>4, <2>1, <2>2, <2>3 DEF WakeInv, DrainedIsLate
<1> QED BY <1>7, <1>9, <1>10 DEF WakeParts

\* A wake of an agent that rests starts a driver, which will look at the inbox.
LEMMA StartDriverWakes ==
    ASSUME WakeInv, NEW below \in Seq(Frames), StartDriver(below),
           WakingIn(below) \subseteq Waking, \A call : WaitsIn(below, call) => Waits(call),
           promised' = promised, UNCHANGED <<inbox, fate, wakes>>
    PROVE  WakeParts'
<1>1. kind' = "running" /\ pc' = "starting" /\ abort' = NoAbort /\ stack' = Append(below, Plain("kick"))
  BY DEF StartDriver
<1> DEFINE f == Plain("kick")
<1>7. f \in Frames /\ f.waking = {} /\ f.call = "kick" /\ stack' = Append(below, f)
  BY <1>1, FrameTypes
<1> HIDE DEF f
<1>8. /\ WakingIn(Append(below, f)) = WakingIn(below) \cup f.waking
      /\ \A call : WaitsIn(Append(below, f), call) <=> WaitsIn(below, call) \/ f.call = call
  BY <1>7, PushFacts
<1>2. /\ WakingIn(stack') = WakingIn(below)
      /\ \A call : WaitsIn(stack', call) <=> WaitsIn(below, call) \/ call = "kick"
  BY <1>7, <1>8
<1>3. /\ Waking' \subseteq Waking
      /\ Clearing' => Clearing
      /\ Waits("cleared")' => Waits("cleared")
  <2>1. \A call : call # "kick" => (Waits(call)' => Waits(call))
    BY <1>2 DEF Waits, WaitsIn
  <2> QED BY <1>2, <2>1 DEF Waking, Clearing
<1>4. NewIsUnsent'
  BY <1>3 DEF WakeInv, NewIsUnsent, InFate
<1>5. PromisesAreKept'
  <2>1. Owed' = Owed /\ promised' \cap Steering(inbox') = promised \cap Steering(inbox)
    BY DEF Owed
  <2> QED BY <1>1, <1>3, <2>1 DEF WakeInv, PromisesAreKept, Aborted, NoAbort
<1>6. DrainedIsLate'
  BY <1>1 DEF DrainedIsLate
<1> QED BY <1>4, <1>5, <1>6 DEF WakeParts

\* send's wake: it starts a driver, is latched, or leaves its message to the
\* driver that runs.
LEMMA FinishSendWakes ==
    ASSUME WakeInv, FinishSend
    PROVE  WakeParts'
<1> DEFINE waking == Last(stack).waking
           after == Last(stack).afterAbort
           below == Front(stack)
<1>1. /\ UNCHANGED <<inbox, fate, wakes, lastExit>>
      /\ promised' = IF Promises(after) THEN promised \cup waking ELSE promised
      /\ gap' = IF pc = "exit" /\ ~Promises(after) THEN gap \cup waking ELSE gap
      /\ WakeDriver(after, below) /\ Returns("send")
  BY DEF FinishSend, Resumes
<1>2. /\ below \in Seq(Frames)
      /\ WakingIn(stack) = WakingIn(below) \cup waking
      /\ \A call : WaitsIn(stack, call) <=> WaitsIn(below, call) \/ call = "send"
  BY <1>1, PopFacts DEF WakeInv, TypeOK, Returns
<1>3. /\ Waking = WakingIn(below) \cup waking
      /\ \A call : Waits(call) <=> WaitsIn(below, call) \/ call = "send"
  BY <1>2 DEF Waking, Waits, WaitsIn
<1> HIDE DEF waking, after, below
<1>4. CASE kind = "idle"
  <2>1. StartDriver(below) /\ promised' = promised
    BY <1>1, <1>4 DEF WakeDriver, Promises
  <2> QED BY <1>1, <1>2, <1>3, <2>1, StartDriverWakes
<1>5. CASE kind # "idle"
  <2>1. /\ wakeRequested' = (wakeRequested \/ Latches(after)) /\ stack' = below
        /\ UNCHANGED <<kind, abort, pc>>
    BY <1>1, <1>5 DEF WakeDriver, driver
  <2>2. /\ Waking = Waking' \cup waking
        /\ Waits("replay")' <=> Waits("replay")
        /\ Waits("cleared")' <=> Waits("cleared")
        /\ Clearing' <=> Clearing
    <3>1. \A call : Waits(call)' <=> WaitsIn(below, call)
      BY <2>1 DEF Waits, WaitsIn
    <3>2. Waking' = WakingIn(below)
      BY <2>1 DEF Waking
    <3> QED BY <1>3, <3>1, <3>2 DEF Clearing
  <2>3. Promises(after) => wakeRequested' /\ abort # "disposed" /\ ~Clearing
    BY <1>5, <2>1 DEF Promises, Latches
  <2>4. ~Promises(after) => promised' = promised /\ Owed' = Owed
    BY <1>1 DEF Owed
  <2>5. NewIsUnsent'
    BY <1>1, <2>2 DEF WakeInv, NewIsUnsent, InFate
  <2>6. PromisesAreKept'
    <3>1. CASE Promises(after)
      <4>1. Clearing' = FALSE /\ ~Waits("cleared")'
        BY <2>2, <2>3, <3>1 DEF Clearing
      <4> QED BY <2>1, <2>3, <3>1, <4>1 DEF PromisesAreKept
    <3>2. CASE ~Promises(after)
      BY <1>1, <2>1, <2>2, <2>4, <3>2 DEF WakeInv, PromisesAreKept, Aborted
    <3> QED BY <3>1, <3>2
  <2>7. pc = "exit" /\ ~Promises(after) => (LateOnly => LateOnly') /\ (LateSteps => LateSteps')
    BY <1>1, <2>2 DEF LateOnly, LateSteps, Late
  <2>8. kind = "maintenance" /\ ~Aborted => wakeRequested'
    BY <2>1 DEF Latches, Aborted, NoAbort
  <2>9. kind = "running" <=> pc # "none"
    BY DEF WakeInv, TypeOK
  <2>10. Promises(after) => ~Clearing' /\ ~Waits("cleared")'
    BY <2>2, <2>3 DEF Clearing
  <2>11. DrainedIsLate'
    BY <1>1, <1>5, <2>1, <2>2, <2>3, <2>7, <2>8, <2>10 DEF WakeInv, DrainedIsLate, Aborted
  <2> QED BY <2>5, <2>6, <2>11 DEF WakeParts
<1> QED BY <1>4, <1>5

\* Maintenance ends in rest or, when something was latched, in a driver.
LEMMA FinishMaintenanceWakes ==
    ASSUME WakeInv, FinishMaintenance
    PROVE  WakeParts'
<1>1. /\ UNCHANGED <<inbox, fate, wakes, promised, gap>>
      /\ kind = "maintenance" /\ stack = <<>> /\ pc = "none"
      /\ lastExit' = IF Aborted THEN "aborted" ELSE lastExit
  BY DEF FinishMaintenance, Unnested, WakeInv, TypeOK
<1>0. Waking = {} /\ \A call : ~Waits(call)
  BY <1>1 DEF Waking, WakingIn, Waits
<1>2. CASE wakeRequested /\ HasPending(inbox)
  <2>1. /\ StartDriver(stack) /\ stack \in Seq(Frames)
        /\ WakingIn(stack) \subseteq Waking /\ \A call : WaitsIn(stack, call) => Waits(call)
    BY <1>2 DEF FinishMaintenance, WakeInv, TypeOK, Waking, Waits, WaitsIn
  <2> QED BY <1>1, <2>1, StartDriverWakes
<1>3. CASE ~(wakeRequested /\ HasPending(inbox))
  <2>1. kind' = "idle" /\ abort' = NoAbort /\ ~wakeRequested' /\ pc' = "none" /\ stack' = stack
    BY <1>1, <1>3 DEF FinishMaintenance, driver
  <2>7. Waking' = Waking /\ (\A call : ~Waits(call)') /\ ~Clearing'
    BY <1>0, <2>1, SameStack DEF Clearing
  <2>2. Owed = {} /\ Owed' = Owed
    <3>1. ~HasPending(inbox) => Pending(inbox) = {}
      BY PendingMeans DEF WakeInv, TypeOK
    <3> QED BY <1>0, <1>1, <1>3, <3>1 DEF WakeInv, PromisesAreKept, Owed
  <2>3. lastExit' = "drained" => LateOnly'
    <3>1. ~HasPending(inbox) => Pending(inbox) = {}
      BY PendingMeans DEF WakeInv, TypeOK
    <3>2. lastExit' = "drained" => ~Aborted /\ lastExit = "drained"
      BY <1>1
    <3> QED BY <1>0, <1>1, <1>3, <2>7, <3>1, <3>2 DEF WakeInv, DrainedIsLate, LateOnly, Late
  <2>4. NewIsUnsent'
    BY <1>1, <2>7 DEF WakeInv, NewIsUnsent, InFate
  <2>5. PromisesAreKept'
    BY <2>1, <2>2, <2>7 DEF PromisesAreKept
  <2>6. DrainedIsLate'
    BY <2>1, <2>3 DEF DrainedIsLate
  <2> QED BY <2>4, <2>5, <2>6 DEF WakeParts
<1> QED BY <1>2, <1>3

\* The agent's callers keep the promises.
LEMMA CallersWakes ==
    ASSUME WakeInv, Callers
    PROVE  WakeParts'
<1>1. /\ Pending(inbox') \subseteq Pending(inbox) \cup InFate("new")
      /\ Steering(inbox') \subseteq Steering(inbox) \cup InFate("new")
      /\ InFate("new")' \subseteq InFate("new")
  BY CallersCustody, CallersSteering DEF WakeInv
<1>2. ASSUME NEW m \in Messages, NEW how \in Kinds, Send(m, how)
      PROVE  WakeParts'
  BY <1>1, <1>2, SendWakes
<1>3. CASE \E keepInbox \in BOOLEAN : Cancel("user", keepInbox)
  BY <1>3, CancelWakes DEF Causes
<1>4. CASE Cancel("disposed", FALSE)
  BY <1>4, CancelWakes DEF Causes
<1>7. CASE \E cause \in Causes : CancelClearing(cause)
  BY <1>7, CancelClearingWakes
<1>5. CASE \/ \E target \in Targets : \E i \in DOMAIN inbox[target] :
                 RemoveMessage(target, i) \/ \E m \in Messages : Replace(target, i, m)
           \/ \E m \in Messages : PrependContext(m)
  <2>1. UNCHANGED <<phase, driver, stack, wakes, promised, gap, lastExit>>
    BY <1>5 DEF RemoveMessage, Replace, PrependContext
  <2> QED BY <1>1, <2>1, SameStack, SameWakes DEF phase, driver
<1>6. CASE RunMaintenance
  <2>1. /\ kind = "idle" /\ kind' = "maintenance" /\ abort' = NoAbort /\ ~wakeRequested'
        /\ UNCHANGED <<pc, inbox, stack, wakes, promised, gap, lastExit, fate>>
    BY <1>6 DEF RunMaintenance, driver, history
  <2>2. ~wakeRequested /\ pc = "none"
    BY <2>1 DEF WakeInv, TypeOK
  <2>7. /\ Waking' = Waking /\ (Waits("replay")' <=> Waits("replay"))
        /\ (Waits("cleared")' <=> Waits("cleared")) /\ (Clearing' <=> Clearing)
    BY <2>1, SameStack DEF Clearing
  <2>3. Owed' = Owed /\ LateOnly' = LateOnly
    BY <2>1, <2>7 DEF Owed, LateOnly, Late
  <2>4. PromisesAreKept'
    BY <2>1, <2>2, <2>3, <2>7 DEF WakeInv, PromisesAreKept, Causes, NoAbort
  <2>5. DrainedIsLate'
    BY <2>1, <2>2, <2>3, <2>7 DEF WakeInv, DrainedIsLate
  <2>6. NewIsUnsent'
    BY <2>1, <2>7 DEF WakeInv, NewIsUnsent, InFate
  <2> QED BY <2>4, <2>5, <2>6 DEF WakeParts
<1> QED BY <1>2, <1>3, <1>4, <1>5, <1>6, <1>7 DEF Callers

\* A driver opens a turn, or leaves it to the latch.
LEMMA TurnsWakes ==
    ASSUME WakeInv, Turns
    PROVE  WakeParts'
<1>1. /\ Pending(inbox') \subseteq Pending(inbox)
      /\ Steering(inbox') \subseteq Steering(inbox)
      /\ InFate("new")' \subseteq InFate("new")
  BY DriverCustody, DriverSteering DEF WakeInv
<1>2. /\ Pending(inbox') \subseteq Pending(inbox) \cup InFate("new")
      /\ kind = "running" <=> pc # "none"
      /\ kind = "idle" => ~wakeRequested /\ abort = NoAbort
      /\ ~HasPending(inbox) => Pending(inbox) = {}
  BY <1>1, PendingMeans DEF WakeInv, TypeOK
<1>3. CASE /\ UNCHANGED <<phase, stack, wakes, promised, gap, lastExit>>
           /\ pc \notin {"starting", "again", "exit"} /\ pc' # "exit"
  BY <1>1, <1>2, <1>3, SameStack, SameWakes DEF phase
<1>16. ASSUME TurnIsDue
       PROVE  Waking' = Waking /\ \A call : call # "kick" => (Waits(call)' <=> Waits(call))
  BY <1>16, Pops, SameStack DEF TurnIsDue, WakeInv
<1>4. CASE RefuseTurn
  <2>1. TurnIsDue /\ LeaveAs("aborted") /\ Aborted
    BY <1>4 DEF RefuseTurn
  <2> QED BY <1>1, <1>2, <1>16, <2>1, SameWakes DEF LeaveAs, LeaveLoop, phase
<1>5. CASE OpenTurn
  <2>1. /\ promised' = {} /\ pc' = "opened" /\ kind' = "running"
        /\ wakes' = wakes /\ Waking' = Waking
    BY <1>2, <1>5, <1>16 DEF OpenTurn, TurnIsDue
  <2>2. Owed' = {} /\ NewIsUnsent'
    BY <1>1, <2>1 DEF Owed, WakeInv, NewIsUnsent
  <2> QED BY <2>1, <2>2 DEF WakeParts, PromisesAreKept, DrainedIsLate
<1>6. CASE EnterStep
  BY <1>1, <1>2, <1>6, SameStack, SameWakes DEF EnterStep
<1>7. ASSUME NEW ending, CloseTurn(ending)
      PROVE  UNCHANGED <<phase, stack, wakes, promised, gap, lastExit>> /\ pc' # "exit"
  BY <1>7 DEF CloseTurn
<1>8. ASSUME NEW target, Claim(target)
      PROVE  UNCHANGED <<phase, stack, wakes, promised, gap, lastExit>> /\ pc' # "exit"
  BY <1>8 DEF Claim
<1>9. ASSUME NEW place \in {"stopping", "reporting"}, Goto(place)
      PROVE  UNCHANGED <<phase, stack, wakes, promised, gap, lastExit>> /\ pc' # "exit"
  BY <1>9 DEF Goto, history
<1>10. CASE Raise /\ pc \in {"assemble", "stopping"}
  BY <1>3, <1>10 DEF Raise
<1>11. CASE FirstStep \/ RejectStep \/ EnterNothing \/ AfterStep \/ AfterStopping \/ Catch \/ Report
  <2>1. UNCHANGED <<phase, stack, wakes, promised, gap, lastExit>> /\ pc' # "exit"
    BY <1>7, <1>8, <1>9, <1>11
       DEF FirstStep, RejectStep, EnterNothing, AfterStep, AfterStopping, Catch, Report
  <2>2. pc \notin {"starting", "again", "exit"}
    BY <1>11 DEF FirstStep, RejectStep, EnterNothing, AfterStep, AfterStopping, Catch, Report
  <2> QED BY <1>3, <2>1, <2>2
<1>12. CASE FailPreStep \/ FailStopping
  BY <1>10, <1>12 DEF FailPreStep, FailStopping
<1>13. CASE AfterTurn
  <2>1. /\ UNCHANGED <<kind, stack, wakes, promised, gap, inbox, fate>>
        /\ pc = "closed" /\ kind = "running"
    BY <1>2, <1>13 DEF AfterTurn, LeaveAs, LeaveLoop, phase, history
  <2>6. /\ Waking' = Waking /\ (\A call : Waits(call)' <=> Waits(call)) /\ (Clearing' <=> Clearing)
    BY <2>1, SameStack DEF Clearing
  <2>2. NewIsUnsent' /\ Owed' = Owed /\ promised' \cap Steering(inbox') = promised \cap Steering(inbox)
    BY <2>1, <2>6 DEF WakeInv, NewIsUnsent, InFate, Owed
  <2>3. CASE turnEnds \in {"noop", "blocked", "aborted", "error"} /\ LeaveAs(turnEnds)
    BY <1>1, <1>2, <2>1, <2>3, <2>6, SameWakes DEF LeaveAs, LeaveLoop, phase
  <2>4. CASE ~HasPending(inbox) /\ LeaveAs("drained")
    <3>1. Owed' = {} /\ LateOnly' /\ LateSteps' /\ promised' \cap Steering(inbox') = {}
      BY <1>2, <2>1, <2>4, SteeringIsPending DEF WakeInv, Owed, LateOnly, LateSteps, Late
    <3> QED BY <2>2, <3>1 DEF WakeParts, PromisesAreKept, DrainedIsLate
  <2>5. CASE RenewTurn /\ pc' = "again"
    <3>1. /\ pc' = "again" /\ kind' = "running" /\ abort' = NoAbort
          /\ Waits("cleared")' <=> Waits("cleared")
      BY <2>1, <2>5, <2>6 DEF RenewTurn
    <3>2. PromisesAreKept'
      BY <2>2, <2>6, <3>1 DEF WakeInv, PromisesAreKept, Aborted, NoAbort
    <3>3. DrainedIsLate'
      BY <3>1 DEF DrainedIsLate
    <3> QED BY <2>2, <3>2, <3>3 DEF WakeParts
  <2> QED BY <1>13, <2>3, <2>4, <2>5 DEF AfterTurn
<1>14. CASE Exit
  <2>1. /\ UNCHANGED <<wakes, promised, gap, inbox, fate, lastExit>>
        /\ pc = "exit" /\ kind = "running" /\ kind' = "idle" /\ abort' = NoAbort
        /\ pc' = "none" /\ stack = <<>>
        /\ stack' = IF wakeRequested THEN <<Plain("replay")>> ELSE <<>>
    BY <1>2, <1>14 DEF Exit, Latched, Unnested, history
  <2>2. /\ Waking = {} /\ Waking' = {}
        /\ Waits("replay")' <=> wakeRequested
        /\ ~Waits("cleared")' /\ ~Clearing'
    <3>1. \A call : Waits(call)' <=> WaitsIn(stack', call)
      BY DEF Waits, WaitsIn
    <3>2. Waking = WakingIn(stack) /\ Waking' = WakingIn(stack')
      BY DEF Waking
    <3>3. /\ WakingIn(<<Plain("replay")>>) = {}
          /\ \A call : WaitsIn(<<Plain("replay")>>, call) <=> call = "replay"
      <4> DEFINE f == Plain("replay")
      <4>1. f \in Frames /\ f.waking = {} /\ f.call = "replay"
        BY FrameTypes
      <4> HIDE DEF f
      <4>2. WakingIn(<<f>>) = {} /\ \A call : WaitsIn(<<f>>, call) <=> call = "replay"
        BY <4>1, SingleFacts
      <4> QED BY <4>2 DEF f
    <3> QED BY <2>1, <3>1, <3>2, <3>3, EmptyFacts DEF Clearing, WakeInv, TypeOK
  <2>3. NewIsUnsent' /\ Owed' = Owed /\ LateOnly' = LateOnly
    BY <2>1, <2>2 DEF WakeInv, NewIsUnsent, InFate, Owed, LateOnly, Late
  <2>4. PromisesAreKept'
    BY <2>1, <2>2, <2>3 DEF WakeInv, PromisesAreKept, NoAbort
  <2>5. DrainedIsLate'
    BY <2>1, <2>2, <2>3 DEF WakeInv, DrainedIsLate
  <2> QED BY <2>3, <2>4, <2>5 DEF WakeParts
<1>15. CASE Replay
  <2>1. /\ UNCHANGED <<wakes, promised, gap, inbox, fate, lastExit>> /\ Returns("replay")
    BY <1>15 DEF Replay, Resumes, history
  <2>2. CASE HasPending(inbox) /\ kind = "idle"
    <3>1. StartDriver(Front(stack))
      BY <1>15, <2>2 DEF Replay, WakeDriver
    <3>2. /\ Front(stack) \in Seq(Frames) /\ WakingIn(Front(stack)) \subseteq WakingIn(stack)
          /\ \A call : WaitsIn(Front(stack), call) => WaitsIn(stack, call)
      BY <2>1, PopFacts DEF Returns, WakeInv, TypeOK
    <3>3. /\ WakingIn(Front(stack)) \subseteq Waking
          /\ \A call : WaitsIn(Front(stack), call) => Waits(call)
      BY <3>2 DEF Waking, Waits, WaitsIn
    <3> QED BY <2>1, <3>1, <3>2, <3>3, StartDriverWakes
  <2>3. CASE ~(HasPending(inbox) /\ kind = "idle")
    <3>1. /\ UNCHANGED <<kind, abort, pc>> /\ stack' = Front(stack)
          /\ wakeRequested' = (wakeRequested \/ (HasPending(inbox) /\ Latches(FALSE)))
      BY <1>15, <2>3 DEF Replay, WakeDriver, phase, driver, WakeInv, TypeOK
    <3>2. /\ Waking' = Waking /\ (Waits("cleared")' <=> Waits("cleared")) /\ (Clearing' <=> Clearing)
      BY <2>1, <3>1, Pops DEF WakeInv, Clearing
    <3>3. /\ NewIsUnsent' /\ Owed' = Owed /\ LateOnly' = LateOnly /\ LateSteps' = LateSteps
          /\ promised' \cap Steering(inbox') = promised \cap Steering(inbox)
      BY <2>1, <3>2 DEF WakeInv, NewIsUnsent, InFate, Owed, LateOnly, LateSteps, Late
    <3>4. Latches(FALSE) <=> kind = "maintenance" /\ abort # "disposed"
      BY DEF Latches
    <3>5. ~HasPending(inbox) => Owed = {} /\ LateOnly
      BY <1>2 DEF Owed, LateOnly, Late
    <3>6. kind \in {"idle", "maintenance", "running"}
      BY DEF WakeInv, TypeOK
    <3>7. PromisesAreKept'
      BY <2>3, <3>1, <3>2, <3>3, <3>4, <3>5, <3>6 DEF WakeInv, PromisesAreKept, Aborted
    <3>8. DrainedIsLate'
      BY <1>2, <2>1, <2>3, <3>1, <3>2, <3>3, <3>4, <3>5, <3>6
         DEF WakeInv, DrainedIsLate, Aborted, NoAbort
    <3> QED BY <3>3, <3>7, <3>8 DEF WakeParts
  <2> QED BY <2>2, <2>3
<1> QED
  BY <1>4, <1>5, <1>6, <1>11, <1>12, <1>13, <1>14, <1>15 DEF Turns

\* Within a step the inbox and the latch are the callers' alone.
LEMMA StepsWakes ==
    ASSUME WakeInv, Steps
    PROVE  WakeParts'
<1>1. /\ Pending(inbox') \subseteq Pending(inbox)
      /\ Steering(inbox') \subseteq Steering(inbox)
      /\ InFate("new")' \subseteq InFate("new")
  BY DriverCustody, DriverSteering DEF WakeInv
<1>2. /\ UNCHANGED <<phase, stack, wakes, promised, gap, lastExit>>
      /\ pc \notin {"starting", "again", "exit"} /\ pc' # "exit"
  BY DEF Steps, DispatchRequest, FailRequest, RetryRequest, FailStep, AskTools, FinishStream,
         FinishTools, InStep, Goto, Raise, EndStep, history
<1> QED BY <1>1, <1>2, SameStack, SameWakes DEF phase

\* Where a promised wake, or one a drained driver left, can still be waiting.
LEMMA WakesHold == Spec => []WakeInv
<1>1. Init => HoldsOnce /\ WakeParts
  <2> SUFFICES ASSUME Init  PROVE HoldsOnce /\ WakeParts
    OBVIOUS
  <2>1. inbox["next-turn"] = <<>> /\ inbox["next-step"] = <<>>
    BY DEF Init, EmptyInbox, Targets
  <2>2. Once(inbox) /\ Pending(inbox) = {}
    BY <2>1, ShortLists DEF Once, Pending, Targets
  <2>3. HoldsOnce
    BY <2>2 DEF Init, HoldsOnce, InFate
  <2> QED
    <3>1. Waking = {} /\ (\A call : ~Waits(call)) /\ ~Clearing
      BY DEF Init, Waking, WakingIn, Waits, Clearing
    <3> QED
      BY <2>2, <2>3, <3>1
         DEF Init, WakeParts, NewIsUnsent, PromisesAreKept, Owed, DrainedIsLate, LateOnly, Late
<1>2. TypeOK /\ HoldsOnce /\ WakeParts /\ [Next]_vars => HoldsOnce' /\ WakeParts'
  <2> SUFFICES ASSUME WakeInv, [Next]_vars  PROVE HoldsOnce' /\ WakeParts'
    BY DEF WakeInv, WakeParts
  <2>1. CASE UNCHANGED vars
    <3>1. /\ Pending(inbox') = Pending(inbox) /\ Steering(inbox') = Steering(inbox)
          /\ HoldsOnce' /\ InFate("new")' = InFate("new")
      BY <2>1 DEF vars, WakeInv, HoldsOnce, InFate, driver, history
    <3>2. /\ UNCHANGED <<phase, stack, wakes, promised, gap, lastExit, pc>>
      BY <2>1 DEF vars, driver, history
    <3> QED BY <3>1, <3>2, SameStack, SameWakes DEF phase
  <2>2. HoldsOnce'
    BY <2>1, CallersCustody, DriverCustody, SameCustody DEF Next, WakeInv, vars, driver, history
  <2>3. WakeParts'
    BY <2>1, CallersWakes, FinishSendWakes, ClearTurnsWakes, FinishCancelWakes,
       FinishMaintenanceWakes, TurnsWakes, StepsWakes DEF Next, CallersGoOn
  <2> QED BY <2>2, <2>3
<1>3. TypeOK /\ HoldsOnce /\ WakeParts => WakeInv
  BY DEF WakeInv, WakeParts
<1> QED BY <1>1, <1>2, <1>3, TypeCorrect, PTL DEF Spec

\* Whatever maintenance, cancellation and replay do in between, an agent that
\* rests owes no wake: each promised one had a turn opened after it, or was
\* withdrawn or cancelled.
THEOREM PromisesAreServed == Spec => []PromisedWakes
<1>1. WakeInv => PromisedWakes
  <2> SUFFICES ASSUME WakeInv, Resting  PROVE promised \cap Pending(inbox) = {}
    BY DEF PromisedWakes
  <2>1. ~Waits("replay") /\ kind = "idle" /\ ~wakeRequested
    BY DEF Resting, Unnested, Waits, WakeInv, TypeOK
  <2> QED BY <2>1 DEF WakeInv, PromisesAreKept, Owed
<1> QED BY <1>1, WakesHold, PTL

\* A driver that came to rest over an empty inbox left no waking message
\* behind but those sent after its last look.
THEOREM DrainedAgentsAreServed == Spec => []DrainedMeansServed
<1>1. WakeInv => DrainedMeansServed
  <2> SUFFICES ASSUME WakeInv, Resting, lastExit = "drained"
               PROVE  wakes \cap Pending(inbox) \subseteq gap
    BY DEF DrainedMeansServed
  <2>1. Waking = {} /\ ~Waits("replay") /\ kind = "idle"
    BY DEF Resting, Unnested, Waking, WakingIn, Waits
  <2> QED BY <2>1 DEF WakeInv, DrainedIsLate, LateOnly, Late
<1> QED BY <1>1, WakesHold, PTL
=============================================================================
