----------------------- MODULE SessionPersistenceProofs -----------------------
(***************************************************************************)
(* SessionPersistence keeps its invariant, for every set of clients, number *)
(* of sessions and length of the log: PersistenceIsSafe.  The callers that *)
(* append from outside bring whole turns (BatchSize = 2); what happens when *)
(* they do not, the run session_appends shows.  One lemma per action says  *)
(* that it keeps the inductive invariant IInv.                             *)
(***************************************************************************)
EXTENDS SessionPersistence, FiniteSetTheorems, WellFoundedInduction, TLAPS

-----------------------------------------------------------------------------
(***************************************************************************)
(* The inductive invariant.                                                *)
(***************************************************************************)
Ops == {chain[i] : i \in DOMAIN chain}

ClientOps == {"commit", "check", "public"}
SessionOps == {"append", "seed", "created", "retire"}

Operations ==
    [op : {"load"}, who : Nat \ {0}, from : {0}, to : {0}]
    \cup [op : ClientOps, who : Clients, from : Nat, to : Nat]
    \cup [op : SessionOps, who : Sessions, from : Nat, to : Nat]

\* A log's length: with what setup, callers and repair may add.
Fits(n) == n \in Nat /\ (n <= MaxLog \/ n <= 2 \/ (n = MaxLog + 1 /\ n % 2 = 0))
Logs == {l \in Seq(0..MaxSessions) : Fits(Len(l))}

Callers == [pc : {"idle", "start", "awaiting", "committing", "committed", "checking", "checked", "reserved"},
            kind : Kinds \cup {"none"}, key : Nat, view : Logs]

Types ==
    /\ store \in Logs
    /\ chain \in Seq(Operations)
    /\ begun \in BOOLEAN
    /\ state \in {NoState} \cup [owner : 0..MaxSessions, cursor : Nat]
    /\ entry \in {NoEntry} \cup [phase : {"loading", "ready", "committing", "reserved"},
                                 key : Nat \ {0}, session : 0..MaxSessions, base : Logs]
    /\ log \in [Sessions -> Logs]
    /\ life \in [Sessions -> {"unborn", "prepared", "live", "retiring", "stuck", "gone"}]
    /\ init \in [Sessions -> {"none", "pending", "ready", "failed"}]
    /\ sent \in [Sessions -> Nat]
    /\ client \in [Clients -> Callers]

Attached(s) == life[s] \in {"live", "retiring"}

\* Each operation is in the chain once.
Once ==
    /\ \A i, j \in DOMAIN chain : chain[i] = chain[j] => i = j
    /\ \A o, p \in Ops : /\ o.who = p.who
                         /\ \/ o.op \in ClientOps /\ p.op \in ClientOps
                            \/ o.op \in SessionOps /\ p.op \in SessionOps
                            \/ o.op = "load" /\ p.op = "load"
                         => o = p

\* Who waits for an operation, and what it may count on.
OpFits(o) ==
    /\ o.op = "load" => (o.who = entry.key => entry.phase = "loading")
    /\ o.op = "commit" => client[o.who].pc = "committing" /\ client[o.who].kind \in {"prepare", "load"}
    /\ o.op = "check" => client[o.who].pc = "checking" /\ client[o.who].kind = "inspect"
    /\ o.op = "public" => client[o.who].kind = "append" /\ o.to = o.from + BatchSize /\ o.to <= MaxLog
    /\ o.op \in SessionOps => Attached(o.who)
    /\ o.op = "append" => /\ init[o.who] = "ready" /\ state.owner = o.who
                         /\ o.from <= o.to /\ o.to <= Len(log[o.who])
    /\ o.op = "seed" => /\ init[o.who] = "pending" /\ state.owner = o.who
                       /\ store # <<>> /\ o.to <= Len(log[o.who])
    /\ o.op = "created" => init[o.who] = "pending"
    /\ o.op = "retire" => /\ life[o.who] = "retiring" /\ init[o.who] = "ready" /\ ~Unsent(o.who)
                         /\ o.from = 0 /\ o.to = 0

OpsFit == \A o \in Ops : OpFits(o)

\* The operation that has begun is an append that continues the store.
BegunFits ==
    begun => chain # <<>> /\ Head(chain).op \in Appends /\ state # NoState /\ First = state.cursor

ClientFits(c) ==
    LET me == client[c]
    IN  /\ me.pc = "idle" => me = NoClient
        /\ me.pc # "idle" => me.kind # "none"
        /\ me.kind = "append" => me.pc = "committing" /\ me.key = 0 /\ \E o \in Ops : o.op = "public" /\ o.who = c
        /\ me.pc = "committing" /\ me.kind # "append" => \E o \in Ops : o.op = "commit" /\ o.who = c
        /\ me.pc = "checking" => \E o \in Ops : o.op = "check" /\ o.who = c
        /\ me.pc \in {"checking", "checked"} => me.kind = "inspect"
        /\ me.pc \in {"committing", "committed", "reserved"} => me.kind # "inspect"
        /\ me.pc \notin {"idle", "start"} /\ me.kind # "append" => me.key # 0
        /\ me.pc \in {"committed", "reserved"} => Mine(c)

ClientsFit == \A c \in Clients : ClientFits(c)

\* An entry is exclusive of attached sessions, and has the only prepared one.
EntryFits ==
    /\ entry # NoEntry => \A s \in Sessions : ~Attached(s)
    /\ entry.phase = "loading" => entry.session = 0 /\ \E o \in Ops : o.op = "load" /\ o.who = entry.key
    /\ entry.phase \in {"ready", "committing", "reserved"} =>
            entry.session \in Sessions /\ life[entry.session] = "prepared" /\ entry.base # <<>>
    /\ entry.phase \in {"ready", "committing"} => log[entry.session] = entry.base \o Closers(entry.base)
    /\ \A s \in Sessions : life[s] = "prepared" => s = entry.session

\* Whoever has taken the entry.
Holding(c) == entry # NoEntry /\ Mine(c) /\ client[c].pc \in {"committing", "committed", "reserved"}

HolderFits ==
    /\ \A c, d \in Clients : Holding(c) /\ Holding(d) => c = d
    /\ \A c \in Clients : Holding(c) => entry.phase = IF client[c].pc = "reserved" THEN "reserved" ELSE "committing"
    /\ entry.phase \in {"committing", "reserved"} => \E c \in Clients : Holding(c)
    /\ (\E c \in Clients : client[c].pc \in {"committed", "reserved"}) =>
            /\ entry.base = store /\ Closers(store) = <<>> /\ ~begun
            /\ state = [owner |-> Nobody, cursor |-> Len(store)]
    /\ entry.phase = "reserved" => log[entry.session] \in {entry.base, Append(entry.base, entry.session)}

\* Who appends from outside is the only writer.
PublicIsAlone ==
    \A c \in Clients : client[c].kind = "append" =>
        /\ \A d \in Clients : client[d].kind # "prepare"
        /\ \A s \in Sessions : life[s] \in {"unborn", "prepared", "gone"}

OwnerFits ==
    /\ state # NoState => state.cursor = Len(store)
    /\ state.owner = Nobody => Len(store) % 2 = 0
    /\ state.owner > Nobody => life[state.owner] \in {"live", "retiring", "stuck"}
                                 /\ IsPrefix(store, log[state.owner])
    /\ \A s \in Sessions : /\ Attached(s) /\ init[s] = "ready" /\ (life[s] = "live" \/ Unsent(s))
                           => state.owner = s
    /\ \A s \in Sessions : sent[s] <= Len(log[s]) /\ (life[s] \in {"unborn", "prepared"} => sent[s] = 0)

\* The live session is the one that was created last.
LiveIsLatest ==
    \A i \in DOMAIN chain : chain[i].op = "created" =>
        \A s \in Sessions : life[s] = "live" =>
            \E j \in i..Len(chain) : chain[j].op = "created" /\ chain[j].who = s

IInv ==
    /\ Types /\ Once /\ OpsFit /\ BegunFits /\ ClientsFit /\ EntryFits /\ HolderFits
    /\ PublicIsAlone /\ OwnerFits /\ LiveIsLatest

\* Every nonempty set of naturals has a least element.
LEMMA LeastElement ==
    ASSUME NEW T, T \subseteq Nat, T # {}
    PROVE  \E x \in T : \A y \in T : x <= y
<1> DEFINE R == OpToRel(<, Nat)
<1>1. IsWellFoundedOn(R, Nat)
  BY NatLessThanWellFounded
<1>2. \A x, y \in Nat : y < x => <<y, x>> \in R
  BY DEF OpToRel
<1> HIDE DEF R
<1>3. PICK x \in T : \A y \in T : ~ (<<y, x>> \in R)
  BY <1>1, WFMin
<1>4. \A y \in T : ~ (y < x)
  BY <1>2, <1>3
<1> QED BY <1>3, <1>4

\* The session that is born next has not been born.
LEMMA FreshIsUnborn ==
    ASSUME Unborn # {}
    PROVE  Fresh \in Sessions /\ life[Fresh] = "unborn"
<1>1. Unborn \subseteq Nat
  BY PersistenceBounds DEF Unborn, Sessions
<1>2. \E s \in Unborn : \A t \in Unborn : s <= t
  BY <1>1, LeastElement
<1>3. Fresh \in Unborn
  BY <1>2 DEF Fresh
<1> QED BY <1>3 DEF Unborn

\* There are more candidates than keys in use.
LEMMA FreshKeyIsFree ==
    ASSUME Types
    PROVE  FreshKey \in Nat \ {0} /\ FreshKey \notin KeysInUse
<1> DEFINE A == {entry.key}
           B == {client[c].key : c \in Clients}
           D == {j \in DOMAIN chain : chain[j].op = "load"}
           C == {chain[i].who : i \in D}
           n == Cardinality(Clients)
           l == Len(chain)
<1>1. IsFiniteSet(Clients) /\ n \in Nat /\ l \in Nat
  BY PersistenceBounds, FS_CardinalityType DEF Types
<1>2. IsFiniteSet(A) /\ Cardinality(A) = 1
  BY FS_Singleton
<1>3. IsFiniteSet(B) /\ Cardinality(B) <= n
  <2> DEFINE f == [c \in Clients |-> client[c].key]
  <2>1. B = {f[c] : c \in Clients}
    OBVIOUS
  <2> HIDE DEF f, B
  <2>a. f \in [Clients -> B]
    BY DEF f, B
  <2>b. f \in Surjection(Clients, B)
    BY <2>a DEF f, B, Surjection
  <2> QED BY <1>1, <2>b, FS_Surjection
<1>4. IsFiniteSet(C) /\ Cardinality(C) <= l
  <2>1. IsFiniteSet(1..l) /\ Cardinality(1..l) = l
    <3>1. 1 \in Int /\ l \in Int
      BY <1>1
    <3>2. IsFiniteSet(1..l) /\ Cardinality(1..l) = IF 1 > l THEN 0 ELSE l - 1 + 1
      BY <3>1, FS_Interval
    <3> QED BY <1>1, <3>2
  <2>2. D \subseteq 1..l
    BY DEF Types
  <2>3. IsFiniteSet(D) /\ Cardinality(D) <= l
    BY <2>1, <2>2, FS_Subset
  <2> DEFINE f == [i \in D |-> chain[i].who]
  <2> HIDE DEF D
  <2>a. f \in [D -> C]
    OBVIOUS
  <2>b. f \in Surjection(D, C)
    BY <2>a DEF Surjection
  <2> HIDE DEF f, C
  <2>4. IsFiniteSet(C) /\ Cardinality(C) <= Cardinality(D)
    BY <2>3, <2>b, FS_Surjection
  <2>5. Cardinality(C) \in Nat /\ Cardinality(D) \in Nat
    BY <2>3, <2>4, FS_CardinalityType
  <2> QED BY <1>1, <2>3, <2>4, <2>5
<1> HIDE DEF A, B, C, D, n, l
<1>5. IsFiniteSet(A \cup B) /\ Cardinality(A \cup B) <= 1 + n
  <2>1. IsFiniteSet(A \cup B) /\ IsFiniteSet(A \cap B)
        /\ Cardinality(A \cup B) = Cardinality(A) + Cardinality(B) - Cardinality(A \cap B)
    BY <1>2, <1>3, FS_Union, FS_Intersection
  <2>2. Cardinality(B) \in Nat /\ Cardinality(A \cap B) \in Nat
    BY <1>3, <2>1, FS_CardinalityType
  <2> QED BY <1>1, <1>2, <1>3, <2>1, <2>2
<1>6. IsFiniteSet(A \cup B \cup C) /\ Cardinality(A \cup B \cup C) <= 1 + n + l
  <2> DEFINE X == A \cup B
  <2> HIDE DEF X
  <2>0. IsFiniteSet(X) /\ Cardinality(X) <= 1 + n
    BY <1>5 DEF X
  <2>1. IsFiniteSet(X \cup C) /\ IsFiniteSet(X \cap C)
        /\ Cardinality(X \cup C) = Cardinality(X) + Cardinality(C) - Cardinality(X \cap C)
    BY <1>4, <2>0, FS_Union, FS_Intersection
  <2>2. Cardinality(X) \in Nat /\ Cardinality(C) \in Nat /\ Cardinality(X \cap C) \in Nat
    BY <1>4, <2>0, <2>1, FS_CardinalityType
  <2> QED BY <1>1, <1>4, <2>0, <2>1, <2>2 DEF X
<1>7. KeysInUse = A \cup B \cup C
  BY DEF KeysInUse, A, B, C, D
<1>8. ~ (1..(n + l + 2) \subseteq KeysInUse)
  <2> SUFFICES ASSUME 1..(n + l + 2) \subseteq KeysInUse  PROVE FALSE
    OBVIOUS
  <2> DEFINE N == n + l + 2
  <2>1. 1 \in Int /\ N \in Int /\ N > 1 /\ N = n + l + 2
    BY <1>1
  <2> HIDE DEF N
  <2>2. Cardinality(1..N) = IF 1 > N THEN 0 ELSE N - 1 + 1
    BY <2>1, FS_Interval
  <2>3. Cardinality(1..N) <= Cardinality(KeysInUse)
    BY <1>6, <1>7, <2>1, FS_Subset
  <2>4. Cardinality(KeysInUse) \in Nat
    BY <1>6, <1>7, FS_CardinalityType
  <2> QED BY <1>1, <1>6, <1>7, <2>1, <2>2, <2>3, <2>4
<1>9. FreshKey \in 1..(n + l + 2) /\ FreshKey \notin KeysInUse
  BY <1>8 DEF FreshKey, n, l
<1> QED BY <1>1, <1>9

-----------------------------------------------------------------------------
(***************************************************************************)
(* The chain.                                                              *)
(***************************************************************************)
\* A chain that grows keeps its operations, their places and its head.
LEMMA ChainGrows ==
    ASSUME chain \in Seq(Operations), NEW o \in Operations, Chained(o)
    PROVE  /\ chain' \in Seq(Operations) /\ chain' # <<>> /\ Len(chain') = Len(chain) + 1
           /\ Ops' = Ops \cup {o}
           /\ chain # <<>> => Head(chain') = Head(chain)
           /\ \A i \in DOMAIN chain : i \in DOMAIN chain' /\ chain'[i] = chain[i]
           /\ chain'[Len(chain) + 1] = o
<1>1. /\ chain' \in Seq(Operations) /\ chain' # <<>> /\ Len(chain') = Len(chain) + 1
      /\ \A i \in 1..Len(chain) : chain'[i] = chain[i]
      /\ chain'[Len(chain) + 1] = o /\ Len(chain) \in Nat
  BY DEF Chained
<1>2. DOMAIN chain = 1..Len(chain) /\ DOMAIN chain' = 1..(Len(chain) + 1)
  BY <1>1
<1>3. Ops' = Ops \cup {o}
  BY <1>1, <1>2 DEF Ops
<1>4. chain # <<>> => Head(chain') = Head(chain)
  BY <1>1
<1> QED BY <1>1, <1>2, <1>3, <1>4

\* An operation that is not in the chain yet is there once.
LEMMA OnceGrows ==
    ASSUME chain \in Seq(Operations), Once, NEW o \in Operations, Chained(o),
           \A p \in Ops : p.who = o.who => ~ (\/ o.op \in ClientOps /\ p.op \in ClientOps
                                              \/ o.op \in SessionOps /\ p.op \in SessionOps
                                              \/ o.op = "load" /\ p.op = "load")
    PROVE  Once'
<1>1. o \notin Ops
  BY DEF Operations, ClientOps, SessionOps
<1>2. /\ Ops' = Ops \cup {o} /\ chain' \in Seq(Operations) /\ Len(chain') = Len(chain) + 1
      /\ \A i \in DOMAIN chain : chain'[i] = chain[i] /\ chain[i] \in Ops
      /\ chain'[Len(chain) + 1] = o
  BY ChainGrows DEF Ops
<1>3. \A i, j \in DOMAIN chain' : chain'[i] = chain'[j] => i = j
  <2>1. DOMAIN chain = 1..Len(chain) /\ DOMAIN chain' = 1..(Len(chain) + 1) /\ Len(chain) \in Nat
    BY <1>2
  <2> QED BY <1>1, <1>2, <2>1 DEF Once
<1> QED BY <1>2, <1>3 DEF Once

\* A chain whose first operation is served has the others.
LEMMA ChainShrinks ==
    ASSUME chain \in Seq(Operations), Once, chain # <<>>, chain' = Tail(chain)
    PROVE  /\ chain' \in Seq(Operations) /\ Head(chain) \in Ops /\ Head(chain) = chain[1]
           /\ Ops' = Ops \ {Head(chain)} /\ Once'
           /\ Len(chain) \in Nat /\ Len(chain') = Len(chain) - 1
           /\ \A i \in DOMAIN chain' : i + 1 \in DOMAIN chain /\ chain'[i] = chain[i + 1]
<1>1. /\ chain' \in Seq(Operations) /\ Len(chain) \in Nat \ {0} /\ Len(chain') = Len(chain) - 1
      /\ Head(chain) = chain[1]
      /\ \A i \in 1..(Len(chain) - 1) : chain'[i] = chain[i + 1]
  OBVIOUS
<1>2. DOMAIN chain = 1..Len(chain) /\ DOMAIN chain' = 1..(Len(chain) - 1)
  BY <1>1
<1>3. Head(chain) \in Ops
  BY <1>1, <1>2 DEF Ops
<1>4. \A i \in DOMAIN chain' : i + 1 \in DOMAIN chain /\ chain'[i] = chain[i + 1] /\ i + 1 # 1
  BY <1>1, <1>2
<1>5. Ops' = Ops \ {Head(chain)}
  <2>1. ASSUME NEW o \in Ops'  PROVE o \in Ops \ {Head(chain)}
    <3>1. PICK i \in DOMAIN chain' : o = chain'[i]
      BY DEF Ops
    <3> QED BY <1>1, <1>2, <1>4, <3>1 DEF Ops, Once
  <2>2. ASSUME NEW o \in Ops \ {Head(chain)}  PROVE o \in Ops'
    <3>1. PICK i \in DOMAIN chain : o = chain[i]
      BY DEF Ops
    <3>2. i # 1 /\ i - 1 \in DOMAIN chain' /\ i - 1 + 1 = i
      BY <1>1, <1>2, <3>1
    <3>3. chain'[i - 1] = o
      BY <1>4, <3>1, <3>2
    <3> QED BY <3>2, <3>3 DEF Ops
  <2> QED BY <2>1, <2>2
<1>6. Once'
  <2>1. \A i, j \in DOMAIN chain' : chain'[i] = chain'[j] => i = j
    BY <1>1, <1>2, <1>4 DEF Once
  <2> QED BY <1>5, <2>1 DEF Once
<1> QED BY <1>1, <1>3, <1>4, <1>5, <1>6

\* Who is created last stays last, whatever joins the chain but a creation.
LEMMA LatestGrows ==
    ASSUME chain \in Seq(Operations), LiveIsLatest, NEW o \in Operations, Chained(o),
           o.op # "created", \A s \in Sessions : life'[s] = "live" => life[s] = "live"
    PROVE  LiveIsLatest'
<1>1. /\ chain' \in Seq(Operations) /\ Len(chain') = Len(chain) + 1 /\ Len(chain) \in Nat
      /\ DOMAIN chain = 1..Len(chain) /\ DOMAIN chain' = 1..(Len(chain) + 1)
      /\ \A i \in 1..Len(chain) : chain'[i] = chain[i]
      /\ chain'[Len(chain) + 1] = o
  BY ChainGrows
<1> SUFFICES ASSUME NEW i \in DOMAIN chain', chain'[i].op = "created",
                    NEW s \in Sessions, life'[s] = "live"
             PROVE  \E j \in i..Len(chain') : chain'[j].op = "created" /\ chain'[j].who = s
  BY DEF LiveIsLatest
<1>2. i \in 1..Len(chain) /\ chain[i].op = "created" /\ life[s] = "live"
  BY <1>1
<1>3. PICK j \in i..Len(chain) : chain[j].op = "created" /\ chain[j].who = s
  BY <1>1, <1>2 DEF LiveIsLatest
<1>4. j \in 1..Len(chain) /\ j \in i..Len(chain') /\ chain'[j] = chain[j]
  BY <1>1, <1>2, <1>3
<1> QED BY <1>3, <1>4

\* Serving an operation takes away the first creation, never a later one.
LEMMA LatestShrinks ==
    ASSUME chain \in Seq(Operations), LiveIsLatest, chain # <<>>, chain' = Tail(chain),
           \A s \in Sessions : life'[s] = "live" => life[s] = "live"
    PROVE  LiveIsLatest'
<1>1. /\ chain' \in Seq(Operations) /\ Len(chain) \in Nat \ {0} /\ Len(chain') = Len(chain) - 1
      /\ DOMAIN chain = 1..Len(chain) /\ DOMAIN chain' = 1..(Len(chain) - 1)
      /\ \A i \in 1..(Len(chain) - 1) : chain'[i] = chain[i + 1]
  OBVIOUS
<1> SUFFICES ASSUME NEW i \in DOMAIN chain', chain'[i].op = "created",
                    NEW s \in Sessions, life'[s] = "live"
             PROVE  \E j \in i..Len(chain') : chain'[j].op = "created" /\ chain'[j].who = s
  BY DEF LiveIsLatest
<1>2. i + 1 \in DOMAIN chain /\ chain[i + 1].op = "created" /\ life[s] = "live"
  BY <1>1
<1>3. PICK j \in (i + 1)..Len(chain) : chain[j].op = "created" /\ chain[j].who = s
  BY <1>2 DEF LiveIsLatest
<1>4. j - 1 \in i..Len(chain') /\ chain'[j - 1] = chain[j]
  BY <1>1, <1>3
<1> QED BY <1>3, <1>4

\* A chain that stays, or whose creations end, is no harder.
LEMMA LatestStays ==
    ASSUME LiveIsLatest, chain' = chain, \A s \in Sessions : life'[s] = "live" => life[s] = "live"
    PROVE  LiveIsLatest'
BY DEF LiveIsLatest

-----------------------------------------------------------------------------
(***************************************************************************)
(* Logs.                                                                   *)
(***************************************************************************)
\* A repair closes what is open, and changes nothing else.
LEMMA ClosersClose ==
    ASSUME NEW l \in Logs
    PROVE  /\ Closers(l) \in Seq({Nobody}) /\ Repaired(l) \in Logs /\ l \o Closers(l) \in Logs
           /\ Len(Repaired(l)) % 2 = 0 /\ Closers(Repaired(l)) = <<>>
           /\ Closers(l) = <<>> <=> Len(l) % 2 = 0
           /\ Closers(l) = <<>> => l \o Closers(l) = l
           /\ l # <<>> => Repaired(l) # <<>>
<1>1. l \in Seq(0..MaxSessions) /\ Fits(Len(l)) /\ Len(l) \in Nat /\ 0 \in 0..MaxSessions
  BY PersistenceBounds DEF Logs
<1>2. CASE Len(l) % 2 = 1
  <2>1. Closers(l) = <<0>>
    BY <1>2 DEF Closers, Nobody
  <2>2. /\ l \o <<0>> \in Seq(0..MaxSessions) /\ Len(l \o <<0>>) = Len(l) + 1
        /\ (Len(l) + 1) % 2 = 0 /\ (Len(l) + 1) % 2 # 1
    BY <1>1, <1>2
  <2>3. Fits(Len(l) + 1)
    BY <1>1, <1>2, PersistenceBounds DEF Fits
  <2> DEFINE r == l \o <<0>>
  <2>4. Closers(r) = <<>> /\ r \in Logs /\ r # <<>>
    BY <2>2, <2>3 DEF Closers, Logs
  <2> HIDE DEF r
  <2>5. Repaired(l) = r
    BY <2>1 DEF Repaired, r
  <2>6. Len(r) % 2 = 0
    BY <2>2 DEF r
  <2> QED BY <1>2, <2>1, <2>4, <2>5, <2>6 DEF Nobody, r
<1>3. CASE Len(l) % 2 = 0
  <2>1. Closers(l) = <<>> /\ l \o <<>> = l
    BY <1>1, <1>3 DEF Closers
  <2> QED BY <1>1, <1>3, <2>1 DEF Repaired
<1> QED BY <1>1, <1>2, <1>3

\* Prefixes of logs that grow.
LEMMA PrefixFacts ==
    ASSUME NEW S, NEW s \in Seq(S), NEW t \in Seq(S), NEW u \in Seq(S)
    PROVE  /\ IsPrefix(s, s) /\ IsPrefix(s, s \o t) /\ IsPrefix(<<>>, s)
           /\ IsPrefix(s, t) => IsPrefix(s, t \o u)
           /\ \A e \in S : IsPrefix(s, t) => IsPrefix(s, Append(t, e))
           /\ IsPrefix(s, t) => Len(s) <= Len(t)
<1>1. IsPrefix(s, s) /\ IsPrefix(s, s \o t) /\ IsPrefix(<<>>, s)
  BY DEF IsPrefix
<1>2. IsPrefix(s, t) => IsPrefix(s, t \o u)
  BY DEF IsPrefix
<1>3. \A e \in S : IsPrefix(s, t) => IsPrefix(s, Append(t, e))
  BY DEF IsPrefix
<1>4. IsPrefix(s, t) => Len(s) <= Len(t)
  BY DEF IsPrefix
<1> QED BY <1>1, <1>2, <1>3, <1>4

\* The next stretch of a log of which the store is a prefix.
LEMMA PrefixContinues ==
    ASSUME NEW S, NEW s \in Seq(S), NEW t \in Seq(S), IsPrefix(s, t), NEW n \in Nat, n <= Len(t)
    PROVE  /\ SubSeq(t, Len(s) + 1, n) \in Seq(S)
           /\ IsPrefix(s \o SubSeq(t, Len(s) + 1, n), t)
<1>1. Len(s) \in Nat /\ Len(t) \in Nat /\ Len(s) <= Len(t) /\ \A i \in 1..Len(s) : s[i] = t[i]
  BY DEF IsPrefix
<1> DEFINE u == SubSeq(t, Len(s) + 1, n)
<1>2. /\ u \in Seq(S) /\ Len(u) = IF n > Len(s) THEN n - Len(s) ELSE 0
      /\ \A i \in 1..Len(u) : u[i] = t[Len(s) + i]
  BY <1>1
<1> HIDE DEF u
<1>3. s \o u \in Seq(S) /\ Len(s \o u) = Len(s) + Len(u) /\ Len(s \o u) <= Len(t)
  BY <1>1, <1>2
<1>4. \A i \in 1..Len(s \o u) : (s \o u)[i] = t[i]
  <2> SUFFICES ASSUME NEW i \in 1..Len(s \o u)  PROVE (s \o u)[i] = t[i]
    OBVIOUS
  <2>1. CASE i <= Len(s)
    BY <1>1, <1>2, <1>3, <2>1
  <2>2. CASE i > Len(s)
    <3>1. i - Len(s) \in 1..Len(u) /\ Len(s) + (i - Len(s)) = i
      BY <1>1, <1>2, <1>3, <2>2
    <3>2. (s \o u)[i] = u[i - Len(s)]
      BY <1>1, <1>2, <1>3, <2>2
    <3> QED BY <1>2, <3>1, <3>2
  <2> QED BY <1>1, <1>3, <2>1, <2>2
<1>5. SubSeq(s \o u, 1, Len(s \o u)) = SubSeq(t, 1, Len(s \o u))
  BY <1>1, <1>3, <1>4
<1>6. IsPrefix(s \o u, t)
  BY <1>3, <1>5 DEF IsPrefix
<1> QED BY <1>2, <1>6 DEF u

-----------------------------------------------------------------------------
(***************************************************************************)
(* The pieces the actions are made of.                                     *)
(***************************************************************************)
Pcs == {"idle", "start", "awaiting", "committing", "committed", "checking", "checked", "reserved"}

\* A client that moves on keeps its call.
LEMMA GotoFacts ==
    ASSUME client \in [Clients -> Callers], NEW c \in Clients, NEW pc \in Pcs, Goto(c, pc)
    PROVE  /\ client' \in [Clients -> Callers]
           /\ client'[c].pc = pc /\ client'[c].kind = client[c].kind
           /\ client'[c].key = client[c].key /\ client'[c].view = client[c].view
           /\ \A d \in Clients \ {c} : client'[d] = client[d]
<1>1. client[c] \in Callers
  OBVIOUS
<1>2. client' = [client EXCEPT ![c] = [client[c] EXCEPT !.pc = pc]]
  BY DEF Goto
<1>3. [client[c] EXCEPT !.pc = pc] \in Callers
  BY <1>1 DEF Callers, Pcs
<1> DEFINE r == [client[c] EXCEPT !.pc = pc]
<1>4. r.pc = pc /\ r.kind = client[c].kind /\ r.key = client[c].key /\ r.view = client[c].view
  BY <1>1 DEF Callers
<1>5. client'[c] = r /\ \A d \in Clients \ {c} : client'[d] = client[d]
  BY <1>2
<1> QED BY <1>2, <1>3, <1>4, <1>5

\* A client without a call.
LEMMA NoClientFacts ==
    /\ NoClient \in Callers /\ NoClient.pc = "idle" /\ NoClient.kind = "none" /\ NoClient.key = 0
<1>1. <<>> \in Logs
  BY PersistenceBounds DEF Logs, Fits
<1> QED BY <1>1 DEF NoClient, Callers

\* A call that ends frees its client.
LEMMA EndFacts ==
    ASSUME client \in [Clients -> Callers], NEW c \in Clients, End(c)
    PROVE  /\ client' \in [Clients -> Callers] /\ client'[c] = NoClient
           /\ \A d \in Clients \ {c} : client'[d] = client[d]
BY NoClientFacts DEF End

\* The entry and its absence.
LEMMA NoEntryFacts ==
    /\ NoEntry.phase = "none" /\ NoEntry.key = 0 /\ NoEntry.session = 0
    /\ Types => /\ entry = NoEntry <=> entry.phase = "none"
                /\ entry = NoEntry <=> entry.key = 0
                /\ entry.key \in Nat /\ entry.session \in 0..MaxSessions
                /\ entry.base \in Logs
                /\ entry # NoEntry => entry.phase \in {"loading", "ready", "committing", "reserved"}
<1>1. <<>> \in Logs
  BY PersistenceBounds DEF Logs, Fits
<1> QED BY <1>1, PersistenceBounds DEF NoEntry, Types

\* An entry that goes takes its Session along, and no other has a prepared one.
LEMMA RemoveFacts ==
    ASSUME Types, EntryFits, RemoveEntry
    PROVE  /\ entry' = NoEntry
           /\ life' \in [Sessions -> {"unborn", "prepared", "live", "retiring", "stuck", "gone"}]
           /\ log' \in [Sessions -> Logs]
           /\ \A s \in Sessions : life[s] # "prepared" => life'[s] = life[s] /\ log'[s] = log[s]
           /\ \A s \in Sessions : life[s] = "prepared" => life'[s] = "unborn" /\ log'[s] = <<>>
           /\ EntryFits'
<1>0. <<>> \in Logs
  BY PersistenceBounds DEF Logs, Fits
<1>1. /\ life' = [s \in Sessions |-> IF s = entry.session THEN Forgotten(s) ELSE life[s]]
      /\ log' = [s \in Sessions |-> IF s = entry.session /\ life[s] = "prepared" THEN <<>> ELSE log[s]]
      /\ entry' = NoEntry
  BY DEF RemoveEntry
<1>2. \A s \in Sessions : life[s] = "prepared" => s = entry.session
  BY DEF EntryFits
<1>3. \A s \in Sessions : Forgotten(s) = IF life[s] = "prepared" THEN "unborn" ELSE life[s]
  BY PersistenceBounds DEF Forgotten, Sessions
<1>4. \A s \in Sessions : life[s] # "prepared" => life'[s] = life[s] /\ log'[s] = log[s]
  BY <1>1, <1>3
<1>5. \A s \in Sessions : life[s] = "prepared" => life'[s] = "unborn" /\ log'[s] = <<>>
  BY <1>1, <1>2, <1>3
<1>6. life' \in [Sessions -> {"unborn", "prepared", "live", "retiring", "stuck", "gone"}]
  BY <1>1, <1>3 DEF Types
<1>7. log' \in [Sessions -> Logs]
  BY <1>0, <1>1 DEF Types
<1>8. \A s \in Sessions : life'[s] # "prepared"
  BY <1>4, <1>5
<1>9. EntryFits'
  BY <1>1, <1>8, NoEntryFacts DEF EntryFits
<1> QED BY <1>1, <1>4, <1>5, <1>6, <1>7, <1>9

\* An operation's condition is about its caller, its entry or its session.
LEMMA OpKeeps ==
    ASSUME NEW o \in Operations, OpFits(o),
           o.op \in ClientOps => /\ client'[o.who].pc = client[o.who].pc
                                 /\ client'[o.who].kind = client[o.who].kind,
           o.op = "load" => (entry'.key = o.who => entry'.phase = "loading"),
           o.op \in SessionOps => /\ life'[o.who] = life[o.who] /\ init'[o.who] = init[o.who]
                                  /\ sent'[o.who] = sent[o.who] /\ log'[o.who] = log[o.who],
           o.op \in {"append", "seed"} => state'.owner = state.owner,
           store # <<>> => store' # <<>>
    PROVE  OpFits(o)'
BY DEF OpFits, ClientOps, SessionOps, Attached, Unsent, Operations

\* A client whose operation and entry stay keeps its condition.
LEMMA ClientKeeps ==
    ASSUME NEW c \in Clients, ClientFits(c), client'[c] = client[c],
           \A o \in Ops : o.op \in ClientOps /\ o.who = c => o \in Ops',
           client[c].pc \in {"committed", "reserved"} => entry'.key = entry.key
    PROVE  ClientFits(c)'
BY DEF ClientFits, Mine, ClientOps

\* An operation of the chain has its condition, and its caller or session.
LEMMA OpFacts ==
    ASSUME IInv, NEW o \in Ops
    PROVE  /\ o \in Operations /\ OpFits(o)
           /\ o.op \in ClientOps \cup SessionOps \cup {"load"}
           /\ o.op \in ClientOps => o.who \in Clients
           /\ o.op \in SessionOps => o.who \in Sessions
           /\ o.op = "load" => o.who \in Nat \ {0}
<1>1. o \in Operations
  BY DEF IInv, Types, Ops
<1>2. OpFits(o)
  BY DEF IInv, OpsFit
<1> QED BY <1>1, <1>2 DEF Operations, ClientOps, SessionOps

\* Who is calm has no operation and holds nothing.
Calm(c) == client[c].pc \in {"idle", "start", "awaiting", "checked"}

\* A calm client, and one that has committed, wait for no operation.
LEMMA CalmFacts ==
    ASSUME IInv, NEW c \in Clients
    PROVE  /\ client[c] \in Callers
           /\ Calm(c) \/ client[c].pc \in {"committed", "reserved"} =>
                 \A o \in Ops : o.op \in ClientOps => o.who # c
           /\ Calm(c) => ~Holding(c) /\ client[c].kind # "append"
           /\ client[c].pc # "committing" => client[c].kind # "append"
<1>1. client[c] \in Callers /\ ClientFits(c)
  BY DEF IInv, Types, ClientsFit
<1>2. client[c].kind = "append" => client[c].pc = "committing"
  BY <1>1 DEF ClientFits
<1>3. \A o \in Ops : OpFits(o)
  BY DEF IInv, OpsFit
<1>4. \A o \in Ops : o.op \in ClientOps => client[o.who].pc \in {"committing", "checking"} \/ client[o.who].kind = "append"
  BY <1>3 DEF OpFits, ClientOps
<1> QED BY <1>1, <1>2, <1>4 DEF Calm, Holding

\* A client that is calm moves alone.
LEMMA MoveKeeps ==
    ASSUME IInv, NEW c \in Clients, Calm(c), client' \in [Clients -> Callers],
           \A d \in Clients \ {c} : client'[d] = client[d],
           Calm(c)', client'[c].kind # "append",
           client'[c].kind = "prepare" => client[c].kind = "prepare"
                                           \/ \A d \in Clients : client[d].kind # "append",
           ClientFits(c)',
           UNCHANGED <<store, memory, sessions>>
    PROVE  IInv'
<1>1. UNCHANGED <<store, chain, begun, state, entry, log, life, init, sent>> /\ Ops' = Ops
  BY DEF memory, sessions, Ops
<1>2. Types' /\ Once' /\ BegunFits' /\ EntryFits' /\ OwnerFits' /\ LiveIsLatest'
  <2>1. Types'
    BY <1>1, Zenon DEF IInv, Types
  <2>2. Once'
    BY <1>1 DEF IInv, Once
  <2>3. BegunFits'
    BY <1>1 DEF IInv, BegunFits, First
  <2>4. EntryFits'
    BY <1>1 DEF IInv, EntryFits, Attached
  <2>5. OwnerFits'
    BY <1>1 DEF IInv, OwnerFits, Attached, Unsent
  <2>6. LiveIsLatest'
    BY <1>1 DEF IInv, LiveIsLatest
  <2> QED BY <2>1, <2>2, <2>3, <2>4, <2>5, <2>6
<1>3. ClientsFit'
  BY <1>1, ClientKeeps DEF IInv, ClientsFit
<1>4. OpsFit'
  <2> SUFFICES ASSUME NEW o \in Ops  PROVE OpFits(o)'
    BY <1>1 DEF OpsFit
  <2>1. o \in Operations /\ OpFits(o) /\ (o.op \in ClientOps => o.who \in Clients \ {c})
    BY CalmFacts DEF IInv, Types, Ops, OpsFit, Operations, ClientOps, SessionOps
  <2>2. o.op = "load" => (entry.key = o.who => entry.phase = "loading")
    BY <2>1 DEF OpFits
  <2> QED BY <1>1, <2>1, <2>2, OpKeeps
<1>5. \A d \in Clients : Holding(d)' <=> Holding(d)
  <2>1. ~Holding(c) /\ ~Holding(c)'
    BY DEF Calm, Holding
  <2>2. \A d \in Clients \ {c} : Holding(d)' <=> Holding(d)
    BY <1>1 DEF Holding, Mine
  <2> QED BY <2>1, <2>2
<1>6. \A d \in Clients : /\ Holding(d) => client'[d] = client[d]
                         /\ client'[d].pc \in {"committed", "reserved"} => client'[d] = client[d]
  BY DEF Calm, Holding
<1>7. HolderFits'
  BY <1>1, <1>5, <1>6 DEF IInv, HolderFits
<1>8. PublicIsAlone'
  BY <1>1, CalmFacts DEF IInv, PublicIsAlone
<1> QED BY <1>2, <1>3, <1>4, <1>7, <1>8 DEF IInv

-----------------------------------------------------------------------------
(***************************************************************************)
(* The actions that move one client, or take the entry away.               *)
(***************************************************************************)
\* A client that is free of operations and comes to rest, or stays where it is.
Settles(d) ==
    \/ /\ client'[d] = client[d] /\ client[d].pc \notin {"committed", "reserved"}
       /\ \A o \in Ops : o.op \in ClientOps /\ o.who = d => o \in Ops'
    \/ /\ client'[d].pc \in {"idle", "start"} /\ ClientFits(d)'
       /\ \A o \in Ops' : o.op \in ClientOps => o.who # d
       /\ client'[d].kind # "append" /\ (client'[d].kind = "prepare" => client[d].kind = "prepare")

\* An entry goes, and the clients it concerned settle.
LEMMA RemovalKeeps ==
    ASSUME IInv, RemoveEntry, Ops' \subseteq Ops,
           client' \in [Clients -> Callers], \A d \in Clients : Settles(d),
           \A o \in Ops' : o.op \in SessionOps => init'[o.who] = init[o.who] /\ sent'[o.who] = sent[o.who],
           \A o \in Ops' : o.op \in {"append", "seed"} => state'.owner = state.owner,
           store # <<>> => store' # <<>>
    PROVE  OpsFit' /\ ClientsFit' /\ EntryFits' /\ HolderFits' /\ PublicIsAlone'
<1>1. /\ entry' = NoEntry /\ EntryFits'
      /\ \A s \in Sessions : life[s] # "prepared" => life'[s] = life[s] /\ log'[s] = log[s]
      /\ \A s \in Sessions : life[s] = "prepared" => life'[s] = "unborn"
  BY RemoveFacts DEF IInv
<1>2. ClientsFit'
  <2> SUFFICES ASSUME NEW d \in Clients  PROVE ClientFits(d)'
    BY DEF ClientsFit
  <2> QED BY ClientKeeps DEF Settles, IInv, ClientsFit
<1>3. OpsFit'
  <2> SUFFICES ASSUME NEW o \in Ops'  PROVE OpFits(o)'
    BY DEF OpsFit
  <2>1. o \in Operations /\ OpFits(o)
    BY OpFacts
  <2>2. o.op \in ClientOps => client'[o.who] = client[o.who]
    BY <2>1 DEF Settles, Operations, ClientOps, SessionOps
  <2>3. o.op = "load" => entry'.key # o.who
    BY <1>1, <2>1, NoEntryFacts DEF Operations, ClientOps, SessionOps
  <2>4. o.op \in SessionOps => life'[o.who] = life[o.who] /\ log'[o.who] = log[o.who]
    BY <1>1, <2>1 DEF OpFits, Attached, Operations, ClientOps, SessionOps
  <2> QED BY <2>1, <2>2, <2>3, <2>4, OpKeeps
<1>4. HolderFits'
  <2>1. \A d \in Clients : client'[d].pc \notin {"committed", "reserved"} /\ ~Holding(d)'
    BY <1>1 DEF Settles, Holding
  <2> QED BY <1>1, <2>1, NoEntryFacts DEF HolderFits
<1>5. PublicIsAlone'
  <2>1. \A d \in Clients : /\ client'[d].kind = "append" => client[d].kind = "append"
                           /\ client'[d].kind = "prepare" => client[d].kind = "prepare"
    BY DEF Settles
  <2>2. \A s \in Sessions : life[s] \in {"unborn", "prepared", "gone"} => life'[s] \in {"unborn", "prepared", "gone"}
    BY <1>1
  <2> QED BY <2>1, <2>2 DEF IInv, PublicIsAlone
<1> QED BY <1>1, <1>2, <1>3, <1>4, <1>5

\* What the removal does not concern.
LEMMA RemovalKeepsStore ==
    ASSUME IInv, RemoveEntry, UNCHANGED <<store, chain, begun, state, init, sent>>,
           client' \in [Clients -> Callers]
    PROVE  Types' /\ Once' /\ BegunFits' /\ OwnerFits' /\ LiveIsLatest' /\ Ops' = Ops
<1>1. /\ entry' = NoEntry /\ life' \in [Sessions -> {"unborn", "prepared", "live", "retiring", "stuck", "gone"}]
      /\ log' \in [Sessions -> Logs]
      /\ \A s \in Sessions : life[s] # "prepared" => life'[s] = life[s] /\ log'[s] = log[s]
      /\ \A s \in Sessions : life[s] = "prepared" => life'[s] = "unborn" /\ log'[s] = <<>>
  BY RemoveFacts DEF IInv
<1>2. Types'
  <2>1. begun' \in BOOLEAN
    BY Zenon DEF IInv, Types
  <2> QED BY <1>1, <2>1 DEF IInv, Types
<1>3. Ops' = Ops
  BY DEF Ops
<1>4. Once'
  BY <1>3 DEF IInv, Once
<1>5. BegunFits'
  BY DEF IInv, BegunFits, First
<1>6. OwnerFits'
  <2>1. /\ state # NoState => state.cursor = Len(store)
        /\ state.owner = Nobody => Len(store) % 2 = 0
    BY DEF IInv, OwnerFits
  <2>2. state.owner > Nobody => life'[state.owner] \in {"live", "retiring", "stuck"}
                                 /\ IsPrefix(store, log'[state.owner])
    <3>1. state.owner > Nobody => state.owner \in Sessions
      BY PersistenceBounds DEF IInv, Types, NoState, Nobody, Sessions
    <3> QED BY <1>1, <3>1 DEF IInv, OwnerFits
  <2>3. \A s \in Sessions : Attached(s)' /\ init[s] = "ready" /\ (life'[s] = "live" \/ Unsent(s)')
                             => state.owner = s
    BY <1>1 DEF IInv, OwnerFits, Attached, Unsent
  <2>4. \A s \in Sessions : sent[s] <= Len(log'[s]) /\ (life'[s] \in {"unborn", "prepared"} => sent[s] = 0)
    BY <1>1 DEF IInv, OwnerFits
  <2> QED BY <2>1, <2>2, <2>3, <2>4 DEF OwnerFits
<1>7. LiveIsLatest'
  <2>1. \A s \in Sessions : life'[s] = "live" => life[s] = "live"
    BY <1>1
  <2> QED BY <2>1, LatestStays DEF IInv
<1> QED BY <1>2, <1>3, <1>4, <1>5, <1>6, <1>7

\* A call begins.
LEMMA CallStep ==
    ASSUME IInv, NEW c \in Clients, NEW kind \in Kinds, Call(c, kind)
    PROVE  IInv'
<1>1. /\ client[c].pc = "idle" /\ kind # "append" /\ OnlyWriter(c, kind)
      /\ client' = [client EXCEPT ![c] = [NoClient EXCEPT !.pc = "start", !.kind = kind]]
      /\ UNCHANGED <<store, memory, sessions>> /\ client \in [Clients -> Callers]
  BY DEF Call, IInv, Types
<1> DEFINE r == [NoClient EXCEPT !.pc = "start", !.kind = kind]
<1>2. r \in Callers /\ r.pc = "start" /\ r.kind = kind
  BY NoClientFacts DEF NoClient, Callers
<1> HIDE DEF r
<1>3. client' \in [Clients -> Callers] /\ client'[c] = r /\ \A d \in Clients \ {c} : client'[d] = client[d]
  BY <1>1, <1>2 DEF r
<1>4. Calm(c) /\ Calm(c)' /\ client'[c].kind # "append"
  BY <1>1, <1>2, <1>3 DEF Calm
<1>5. ClientFits(c)'
  BY <1>1, <1>2, <1>3 DEF ClientFits, Kinds
<1>6. kind = "prepare" => \A d \in Clients : client[d].kind # "append"
  <2>1. client[c].kind # "append"
    BY <1>4, CalmFacts
  <2>2. \A d \in Clients : client[d].kind = "append" => client[d].pc # "idle"
    BY DEF IInv, ClientsFit, ClientFits
  <2> QED BY <1>1, <2>1, <2>2 DEF OnlyWriter
<1> QED BY <1>1, <1>2, <1>3, <1>4, <1>5, <1>6, MoveKeeps

\* The moves of a calm client that only ends its call or begins it again.
LEMMA CalmEnds ==
    ASSUME IInv, NEW c \in Clients, Calm(c), End(c), UNCHANGED <<store, memory, sessions>>
    PROVE  IInv'
<1>1. /\ client' \in [Clients -> Callers] /\ client'[c] = NoClient
      /\ \A d \in Clients \ {c} : client'[d] = client[d]
  BY EndFacts DEF IInv, Types
<1>2. Calm(c)' /\ client'[c].kind = "none" /\ ClientFits(c)'
  BY <1>1, NoClientFacts DEF Calm, ClientFits
<1> QED BY <1>1, <1>2, MoveKeeps

\* A calm client begins again.
LEMMA CalmStartsAgain ==
    ASSUME IInv, NEW c \in Clients, Calm(c), client[c].pc # "idle", Goto(c, "start"),
           UNCHANGED <<store, memory, sessions>>
    PROVE  IInv'
<1>1. /\ client' \in [Clients -> Callers] /\ client'[c].pc = "start" /\ client'[c].kind = client[c].kind
      /\ \A d \in Clients \ {c} : client'[d] = client[d]
  BY GotoFacts DEF IInv, Types, Pcs
<1>2. client[c].kind \notin {"none", "append"}
  BY CalmFacts DEF IInv, ClientsFit, ClientFits
<1>3. Calm(c)' /\ ClientFits(c)'
  BY <1>1, <1>2 DEF Calm, ClientFits
<1> QED BY <1>1, <1>2, <1>3, MoveKeeps

\* Who has no operation, or gives its entry away, may end or begin again as it goes.
LEMMA RemovalBy ==
    ASSUME IInv, NEW c \in Clients, RemoveEntry, UNCHANGED <<store, chain, begun, state, init, sent>>,
           Calm(c) \/ client[c].pc \in {"committed", "reserved"},
           \A d \in Clients \ {c} : client[d].pc \notin {"committed", "reserved"},
           End(c) \/ (Goto(c, "start") /\ client[c].pc # "idle")
    PROVE  IInv'
<1>1. /\ client' \in [Clients -> Callers]
      /\ \A d \in Clients \ {c} : client'[d] = client[d]
      /\ \/ client'[c] = NoClient
         \/ client'[c].pc = "start" /\ client'[c].kind = client[c].kind /\ client[c].pc # "idle"
  BY EndFacts, GotoFacts DEF IInv, Types, Pcs
<1>2. /\ \A o \in Ops : o.op \in ClientOps => o.who # c
      /\ client[c].kind # "append" /\ (client[c].pc # "idle" => client[c].kind # "none")
  BY CalmFacts DEF Calm, IInv, ClientsFit, ClientFits
<1>3. Ops' = Ops /\ Types' /\ Once' /\ BegunFits' /\ OwnerFits' /\ LiveIsLatest'
  BY <1>1, RemovalKeepsStore
<1>4. ClientFits(c)'
  BY <1>1, <1>2, NoClientFacts DEF ClientFits
<1>5. \A d \in Clients : Settles(d)
  BY <1>1, <1>2, <1>3, <1>4, NoClientFacts DEF Settles
<1>6. OpsFit' /\ ClientsFit' /\ EntryFits' /\ HolderFits' /\ PublicIsAlone'
  BY <1>1, <1>3, <1>5, RemovalKeeps
<1> QED BY <1>3, <1>6 DEF IInv

\* Only one client holds an entry.
LEMMA HolderIsAlone ==
    ASSUME IInv, NEW c \in Clients, client[c].pc \in {"committed", "reserved"}
    PROVE  /\ Holding(c) /\ entry # NoEntry /\ Mine(c)
           /\ entry.phase = IF client[c].pc = "reserved" THEN "reserved" ELSE "committing"
           /\ \A d \in Clients \ {c} : ~Holding(d) /\ client[d].pc \notin {"committed", "reserved"}
           /\ client[c].kind \in {"prepare", "load"} /\ client[c].key # 0
           /\ entry.base = store /\ Closers(store) = <<>> /\ ~begun
           /\ state = [owner |-> Nobody, cursor |-> Len(store)]
<1>1. \A d \in Clients : client[d].pc \in {"committed", "reserved"} => Holding(d)
  <2> SUFFICES ASSUME NEW d \in Clients, client[d].pc \in {"committed", "reserved"}  PROVE Holding(d)
    OBVIOUS
  <2>1. ClientFits(d)
    BY DEF IInv, ClientsFit
  <2>2. client[d].kind # "append" /\ client[d].key # 0 /\ Mine(d)
    BY <2>1 DEF ClientFits
  <2> QED BY <2>2, NoEntryFacts DEF Holding, Mine
<1>2. Holding(c) /\ \A d \in Clients \ {c} : ~Holding(d)
  BY <1>1 DEF IInv, HolderFits
<1>3. /\ entry # NoEntry /\ Mine(c)
      /\ entry.phase = IF client[c].pc = "reserved" THEN "reserved" ELSE "committing"
  BY <1>2 DEF IInv, HolderFits, Holding
<1>4. client[c].kind \in {"prepare", "load"} /\ client[c].key # 0
  <2>1. ClientFits(c) /\ client[c] \in Callers
    BY DEF IInv, ClientsFit, Types
  <2> QED BY <2>1 DEF ClientFits, Callers, Kinds
<1>5. /\ entry.base = store /\ Closers(store) = <<>> /\ ~begun
      /\ state = [owner |-> Nobody, cursor |-> Len(store)]
  BY DEF IInv, HolderFits
<1> QED BY <1>1, <1>2, <1>3, <1>4, <1>5

\* A load is done with its view: the entry goes.
LEMMA DiscardLoadedStep ==
    ASSUME IInv, NEW c \in Clients, DiscardLoaded(c)
    PROVE  IInv'
<1>1. /\ client[c].pc = "reserved" /\ End(c) /\ RemoveEntry
      /\ UNCHANGED <<store, chain, begun, state, init, sent>>
  BY DEF DiscardLoaded
<1>2. \A d \in Clients \ {c} : client[d].pc \notin {"committed", "reserved"}
  BY <1>1, HolderIsAlone
<1> QED BY <1>1, <1>2, RemovalBy

\* No client has committed or reserved an entry that is ready.
LEMMA ReadyIsFree ==
    ASSUME IInv, entry.phase = "ready"
    PROVE  \A d \in Clients : ~Holding(d) /\ client[d].pc \notin {"committed", "reserved"}
<1>1. \A d \in Clients : client[d].pc \notin {"committed", "reserved"}
  BY HolderIsAlone
<1>2. \A d \in Clients : ~Holding(d)
  BY DEF IInv, HolderFits
<1> QED BY <1>1, <1>2

\* An inspection whose view is stale ends or begins again.
LEMMA InspectStaleStep ==
    ASSUME IInv, NEW c \in Clients, InspectStale(c)
    PROVE  IInv'
<1>1. client[c].pc = "checked" /\ Calm(c)
  BY DEF InspectStale, Calm
<1>2. CASE End(c) /\ UNCHANGED <<entry, life, log>>
  BY <1>1, <1>2, CalmEnds DEF InspectStale, memory, sessions
<1>3. CASE Goto(c, "start") /\ UNCHANGED <<entry, life, log>>
  BY <1>1, <1>3, CalmStartsAgain DEF InspectStale, memory, sessions
<1>4. CASE Goto(c, "start") /\ entry.phase = "ready" /\ RemoveEntry
  <2>1. \A d \in Clients : client[d].pc \notin {"committed", "reserved"}
    BY <1>4, ReadyIsFree
  <2> QED BY <1>1, <1>4, <2>1, RemovalBy DEF InspectStale
<1> QED BY <1>2, <1>3, <1>4 DEF InspectStale

\* A ready entry is evicted.
LEMMA EvictStep ==
    ASSUME IInv, Evict  PROVE IInv'
<1>1. /\ entry.phase = "ready" /\ RemoveEntry
      /\ UNCHANGED <<store, chain, begun, state, init, sent, client>>
  BY DEF Evict
<1>2. Ops' = Ops /\ Types' /\ Once' /\ BegunFits' /\ OwnerFits' /\ LiveIsLatest'
  BY <1>1, RemovalKeepsStore DEF IInv, Types
<1>3. \A d \in Clients : Settles(d)
  BY <1>1, <1>2, ReadyIsFree DEF Settles
<1>4. OpsFit' /\ ClientsFit' /\ EntryFits' /\ HolderFits' /\ PublicIsAlone'
  BY <1>1, <1>2, <1>3, RemovalKeeps DEF IInv, Types
<1> QED BY <1>2, <1>4 DEF IInv

-----------------------------------------------------------------------------
(***************************************************************************)
(* The actions with which a client asks for an operation.                  *)
(***************************************************************************)
\* The chain grows by an operation that it does not have.
LEMMA GrowKeeps ==
    ASSUME IInv, NEW o \in Operations, Chained(o), begun' = begun, state'.cursor = state.cursor,
           state # NoState => state' # NoState,
           \A p \in Ops : p.who = o.who => ~ (\/ o.op \in ClientOps /\ p.op \in ClientOps
                                              \/ o.op \in SessionOps /\ p.op \in SessionOps
                                              \/ o.op = "load" /\ p.op = "load")
    PROVE  Once' /\ BegunFits' /\ chain' \in Seq(Operations) /\ Ops' = Ops \cup {o}
<1>1. /\ chain' \in Seq(Operations) /\ chain' # <<>> /\ Ops' = Ops \cup {o}
      /\ chain # <<>> => Head(chain') = Head(chain)
  BY ChainGrows DEF IInv, Types
<1>2. Once'
  BY OnceGrows DEF IInv, Types
<1>3. BegunFits'
  BY <1>1 DEF IInv, BegunFits, First
<1> QED BY <1>1, <1>2, <1>3

\* A calm client asks for an operation.
LEMMA AskKeeps ==
    ASSUME IInv, NEW c \in Clients, Calm(c), client' \in [Clients -> Callers],
           \A d \in Clients \ {c} : client'[d] = client[d], ClientFits(c)',
           NEW o \in Operations, o.op \in ClientOps \cup {"load"}, o.op \in ClientOps => o.who = c,
           o.op = "load" => \A p \in Ops : p.op = "load" => p.who # o.who,
           Chained(o), OpFits(o)',
           entry' \in {NoEntry} \cup [phase : {"loading", "ready", "committing", "reserved"},
                                      key : Nat \ {0}, session : 0..MaxSessions, base : Logs],
           \A p \in Ops : p.op = "load" => (entry'.key = p.who => entry'.phase = "loading"),
           \A d \in Clients : client[d].pc \in {"committed", "reserved"} => entry'.key = entry.key,
           EntryFits', HolderFits', PublicIsAlone',
           UNCHANGED <<store, begun, state, sessions>>
    PROVE  IInv'
<1>1. UNCHANGED <<store, begun, state, log, life, init, sent>>
  BY DEF sessions
<1>2. \A p \in Ops : p.op \in ClientOps => p.who # c
  BY CalmFacts
<1>3. \A p \in Ops : p.who = o.who => ~ (\/ o.op \in ClientOps /\ p.op \in ClientOps
                                         \/ o.op \in SessionOps /\ p.op \in SessionOps
                                         \/ o.op = "load" /\ p.op = "load")
  BY <1>2 DEF ClientOps, SessionOps
<1>4. Once' /\ BegunFits' /\ chain' \in Seq(Operations) /\ Ops' = Ops \cup {o}
  BY <1>1, <1>3, GrowKeeps
<1>5. Types'
  <2>1. begun' \in BOOLEAN
    BY <1>1, Zenon DEF IInv, Types
  <2> QED BY <1>1, <1>4, <2>1 DEF IInv, Types
<1>6. OpsFit'
  <2> SUFFICES ASSUME NEW p \in Ops  PROVE OpFits(p)'
    BY <1>4 DEF OpsFit
  <2>1. p \in Operations /\ OpFits(p) /\ (p.op \in ClientOps => p.who \in Clients \ {c})
    BY <1>2, OpFacts
  <2> QED BY <1>1, <2>1, OpKeeps
<1>7. ClientsFit'
  <2> SUFFICES ASSUME NEW d \in Clients \ {c}  PROVE ClientFits(d)'
    BY DEF ClientsFit
  <2> QED BY <1>4, ClientKeeps DEF IInv, ClientsFit
<1>8. OwnerFits'
  BY <1>1 DEF IInv, OwnerFits, Attached, Unsent
<1>9. LiveIsLatest'
  <2>1. o.op # "created"
    BY DEF ClientOps
  <2> QED BY <1>1, <2>1, LatestGrows DEF IInv, Types
<1> QED BY <1>4, <1>5, <1>6, <1>7, <1>8, <1>9 DEF IInv

\* An append from outside is called.
LEMMA CallAppendStep ==
    ASSUME IInv, NEW c \in Clients, NEW from \in KnownLengths, CallAppend(c, from)
    PROVE  IInv'
<1> DEFINE r == [NoClient EXCEPT !.pc = "committing", !.kind = "append"]
           o == Operation("public", c, from, from + BatchSize)
<1>1. /\ client[c].pc = "idle" /\ OnlyWriter(c, "append") /\ from + BatchSize <= MaxLog
      /\ client' = [client EXCEPT ![c] = r] /\ Chained(o)
      /\ UNCHANGED <<store, begun, state, entry, sessions>> /\ client \in [Clients -> Callers]
  BY DEF CallAppend, IInv, Types
<1>2. r \in Callers /\ r.pc = "committing" /\ r.kind = "append" /\ r.key = 0
  BY NoClientFacts DEF NoClient, Callers, Kinds
<1>3. o \in Operations /\ o.op = "public" /\ o.who = c /\ o.from = from /\ o.to = from + BatchSize
  <2>1. from \in Nat
    BY DEF KnownLengths, IInv, Types, Logs
  <2> QED BY <2>1, PersistenceBounds DEF Operation, Operations, ClientOps
<1> HIDE DEF r, o
<1>4. client' \in [Clients -> Callers] /\ client'[c] = r /\ \A d \in Clients \ {c} : client'[d] = client[d]
  BY <1>1, <1>2
<1>5. Ops' = Ops \cup {o}
  BY <1>1, <1>3, ChainGrows DEF IInv, Types
<1>6. Calm(c)
  BY <1>1 DEF Calm
<1>7. ClientFits(c)' /\ OpFits(o)'
  <2>1. ClientFits(c)'
    BY <1>2, <1>3, <1>4, <1>5 DEF ClientFits
  <2>2. OpFits(o)'
    BY <1>1, <1>2, <1>3, <1>4 DEF OpFits, SessionOps
  <2> QED BY <2>1, <2>2
<1>8. EntryFits'
  BY <1>1, <1>5 DEF IInv, EntryFits, Attached, sessions
<1>9. HolderFits'
  <2>1. ~Holding(c) /\ ~Holding(c)' /\ client[c].pc \notin {"committed", "reserved"}
    BY <1>1, <1>2, <1>4, NoEntryFacts DEF Holding, Mine, IInv
  <2>2. \A d \in Clients \ {c} : Holding(d)' <=> Holding(d)
    BY <1>1, <1>4 DEF Holding, Mine
  <2> QED BY <1>1, <1>2, <1>4, <2>1, <2>2 DEF IInv, HolderFits, sessions
<1>10. PublicIsAlone'
  <2>1. \A d \in Clients \ {c} : client[d].kind # "prepare"
    <3>1. \A d \in Clients : client[d].pc = "idle" => client[d].kind = "none"
      BY NoClientFacts DEF IInv, ClientsFit, ClientFits
    <3> QED BY <1>1, <3>1 DEF OnlyWriter
  <2>2. \A s \in Sessions : life[s] \in {"unborn", "prepared", "gone"}
    BY <1>1 DEF OnlyWriter
  <2> QED BY <1>1, <1>2, <1>4, <2>1, <2>2 DEF PublicIsAlone, sessions
<1>11. \A p \in Ops : p.op = "load" => (entry'.key = p.who => entry'.phase = "loading")
  BY <1>1, OpFacts DEF OpFits
<1>12. o.op \in ClientOps /\ o.op # "load"
  BY <1>3 DEF ClientOps
<1>13. entry' \in {NoEntry} \cup [phase : {"loading", "ready", "committing", "reserved"},
                                  key : Nat \ {0}, session : 0..MaxSessions, base : Logs]
  BY <1>1 DEF IInv, Types
<1> QED BY <1>1, <1>3, <1>4, <1>6, <1>7, <1>8, <1>9, <1>10, <1>11, <1>12, <1>13, AskKeeps

\* An entry whose holders stay the same.
LEMMA HoldersStay ==
    ASSUME IInv, UNCHANGED <<store, state, log, entry>>, begun' => begun,
           \A d \in Clients : /\ Holding(d) \/ Holding(d)' => client'[d].pc = client[d].pc /\ client'[d].key = client[d].key
                              /\ client'[d].pc \in {"committed", "reserved"} => client'[d].pc = client[d].pc
    PROVE  HolderFits'
<1>1. \A d \in Clients : Holding(d)' <=> Holding(d)
  BY DEF Holding, Mine
<1>2. Closers(store)' = Closers(store)
  BY DEF Closers
<1> QED BY <1>1, <1>2 DEF IInv, HolderFits

\* A call enters the retry loop.
LEMMA EnterStep ==
    ASSUME IInv, NEW c \in Clients, Enter(c)
    PROVE  IInv'
<1>1. /\ client[c].pc = "start" /\ Calm(c) /\ Retiring = {} /\ UNCHANGED <<store, begun, state, sessions>>
      /\ client \in [Clients -> Callers] /\ client[c] \in Callers
      /\ client[c].kind \notin {"none", "append"}
  <2>1. client[c].pc = "start" /\ Calm(c) /\ Retiring = {} /\ UNCHANGED <<store, begun, state, sessions>>
    BY DEF Enter, Calm
  <2>2. client[c].kind \notin {"none", "append"}
    BY <2>1, CalmFacts DEF IInv, ClientsFit, ClientFits
  <2> QED BY <2>1, <2>2 DEF IInv, Types
<1>2. CASE End(c) /\ UNCHANGED <<chain, entry>>
  BY <1>1, <1>2, CalmEnds DEF memory
<1>3. CASE /\ entry # NoEntry /\ UNCHANGED <<chain, entry>>
           /\ client' = [client EXCEPT ![c].pc = "awaiting", ![c].key = entry.key, ![c].view = entry.base]
  <2> DEFINE r == [client[c] EXCEPT !.pc = "awaiting", !.key = entry.key, !.view = entry.base]
  <2>1. r \in Callers /\ r.pc = "awaiting" /\ r.kind = client[c].kind /\ r.key # 0
    BY <1>1, <1>3, NoEntryFacts DEF Callers, IInv
  <2>2. client' = [client EXCEPT ![c] = r]
    BY <1>3
  <2> HIDE DEF r
  <2>3. client' \in [Clients -> Callers] /\ client'[c] = r /\ \A d \in Clients \ {c} : client'[d] = client[d]
    BY <1>1, <2>1, <2>2
  <2>4. Calm(c)' /\ ClientFits(c)' /\ client'[c].kind = client[c].kind
    BY <1>1, <2>1, <2>3 DEF Calm, ClientFits
  <2> QED BY <1>1, <1>3, <2>3, <2>4, MoveKeeps DEF memory
<1>4. CASE /\ Live = {} /\ entry = NoEntry
           /\ entry' = [NoEntry EXCEPT !.phase = "loading", !.key = FreshKey]
           /\ Chained(Operation("load", FreshKey, 0, 0))
           /\ client' = [client EXCEPT ![c].pc = "awaiting", ![c].key = FreshKey]
  <2>0. PICK k : k = FreshKey
    OBVIOUS
  <2> DEFINE r == [client[c] EXCEPT !.pc = "awaiting", !.key = k]
             o == Operation("load", k, 0, 0)
  <2>1. k \in Nat \ {0} /\ k \notin KeysInUse
    BY <2>0, FreshKeyIsFree DEF IInv
  <2>2. /\ \A d \in Clients : client[d].key # k
        /\ \A p \in Ops : p.op = "load" => p.who # k
    BY <2>1 DEF KeysInUse, Ops
  <2>3. r \in Callers /\ r.pc = "awaiting" /\ r.kind = client[c].kind /\ r.key = k
    BY <1>1, <2>1 DEF Callers
  <2>4. client' = [client EXCEPT ![c] = r]
    BY <1>4, <2>0
  <2>5. o \in Operations /\ o.op = "load" /\ o.who = k /\ Chained(o)
    BY <1>4, <2>0, <2>1 DEF Operation, Operations
  <2>6. /\ entry'.phase = "loading" /\ entry'.key = k /\ entry'.session = 0 /\ entry' # NoEntry
        /\ entry' \in [phase : {"loading", "ready", "committing", "reserved"},
                       key : Nat \ {0}, session : 0..MaxSessions, base : Logs]
    <3>1. <<>> \in Logs
      BY PersistenceBounds DEF Logs, Fits
    <3>2. entry' = [phase |-> "loading", key |-> k, session |-> 0, base |-> <<>>]
      BY <1>4, <2>0 DEF NoEntry
    <3> QED BY <2>1, <3>1, <3>2, PersistenceBounds DEF NoEntry
  <2> HIDE DEF r, o
  <2>7. client' \in [Clients -> Callers] /\ client'[c] = r /\ \A d \in Clients \ {c} : client'[d] = client[d]
    BY <1>1, <2>3, <2>4
  <2>8. ClientFits(c)'
    BY <1>1, <2>1, <2>3, <2>7 DEF ClientFits
  <2>9. OpFits(o)'
    BY <2>5, <2>6 DEF OpFits, SessionOps
  <2>10. Ops' = Ops \cup {o}
    BY <2>5, ChainGrows DEF IInv, Types
  <2>11. EntryFits'
    <3>1. \A s \in Sessions : ~Attached(s)'
      BY <1>1, <1>4 DEF Live, Retiring, Attached, sessions
    <3>2. \A s \in Sessions : life'[s] # "prepared"
      BY <1>1, <1>4, NoEntryFacts, PersistenceBounds DEF IInv, EntryFits, sessions, Sessions
    <3>3. \E p \in Ops' : p.op = "load" /\ p.who = entry'.key
      BY <2>5, <2>6, <2>10
    <3> QED BY <2>6, <3>1, <3>2, <3>3 DEF EntryFits
  <2>12. \A d \in Clients : ~Holding(d)' /\ client'[d].pc \notin {"committed", "reserved"} /\ client[d].pc \notin {"committed", "reserved"}
    <3>1. \A d \in Clients : client[d].pc \notin {"committed", "reserved"}
      BY <1>4, HolderIsAlone
    <3>2. \A d \in Clients \ {c} : ~Mine(d)'
      BY <2>2, <2>6, <2>7 DEF Mine
    <3> QED BY <2>3, <2>7, <3>1, <3>2 DEF Holding
  <2>13. HolderFits'
    BY <2>6, <2>12 DEF HolderFits
  <2>14. PublicIsAlone'
    BY <1>1, <2>3, <2>7 DEF IInv, PublicIsAlone, sessions
  <2>15. \A p \in Ops : p.op = "load" => (entry'.key = p.who => entry'.phase = "loading")
    BY <2>6
  <2>16. o.op \notin ClientOps
    BY <2>5 DEF ClientOps
  <2> QED BY <1>1, <2>2, <2>5, <2>6, <2>7, <2>8, <2>9, <2>11, <2>12, <2>13, <2>14, <2>15, <2>16, AskKeeps
<1> QED BY <1>1, <1>2, <1>3, <1>4 DEF Enter

\* A reservation takes an entry that is ready.
LEMMA ReserveStep ==
    ASSUME IInv, NEW c \in Clients, Reserve(c)
    PROVE  IInv'
<1>1. /\ client[c].pc = "awaiting" /\ Calm(c) /\ client[c].kind # "inspect"
      /\ UNCHANGED <<store, begun, state, sessions>>
      /\ client \in [Clients -> Callers] /\ client[c].kind \in {"prepare", "load"} /\ client[c].key # 0
  <2>1. client[c].pc = "awaiting" /\ Calm(c) /\ client[c].kind # "inspect"
        /\ UNCHANGED <<store, begun, state, sessions>>
    BY DEF Reserve, Calm
  <2>2. client[c].kind \notin {"none", "append"} /\ client[c] \in Callers /\ client[c].key # 0
    BY <2>1, CalmFacts DEF IInv, ClientsFit, ClientFits
  <2> QED BY <2>1, <2>2 DEF IInv, Types, Callers, Kinds
<1>2. CASE Goto(c, "start") /\ UNCHANGED <<chain, entry>>
  BY <1>1, <1>2, CalmStartsAgain DEF memory
<1>3. CASE /\ Mine(c) /\ entry.phase = "ready" /\ entry' = [entry EXCEPT !.phase = "committing"]
           /\ Chained(Operation("commit", c, 0, 0)) /\ Goto(c, "committing")
  <2> DEFINE o == Operation("commit", c, 0, 0)
  <2>1. o \in Operations /\ o.op = "commit" /\ o.who = c /\ Chained(o)
    BY <1>3 DEF Operation, Operations, ClientOps
  <2> HIDE DEF o
  <2>2. /\ client' \in [Clients -> Callers] /\ client'[c].pc = "committing"
        /\ client'[c].kind = client[c].kind /\ client'[c].key = client[c].key
        /\ \A d \in Clients \ {c} : client'[d] = client[d]
    BY <1>1, <1>3, GotoFacts DEF Pcs
  <2>3. entry \in [phase : {"loading", "ready", "committing", "reserved"},
                   key : Nat \ {0}, session : 0..MaxSessions, base : Logs] /\ entry # NoEntry
    BY <1>3, NoEntryFacts DEF IInv, Types
  <2>4. /\ entry'.phase = "committing" /\ entry'.key = entry.key /\ entry'.session = entry.session
        /\ entry'.base = entry.base /\ entry' # NoEntry
        /\ entry' \in [phase : {"loading", "ready", "committing", "reserved"},
                       key : Nat \ {0}, session : 0..MaxSessions, base : Logs]
    BY <1>3, <2>3, NoEntryFacts
  <2>5. Ops' = Ops \cup {o}
    BY <2>1, ChainGrows DEF IInv, Types
  <2>6. ClientFits(c)'
    BY <1>1, <2>1, <2>2, <2>5 DEF ClientFits
  <2>7. OpFits(o)'
    BY <1>1, <2>1, <2>2 DEF OpFits, SessionOps
  <2>8. EntryFits'
    BY <1>1, <1>3, <2>3, <2>4 DEF IInv, EntryFits, Attached, sessions
  <2>9. \A d \in Clients : ~Holding(d) /\ client[d].pc \notin {"committed", "reserved"}
    BY <1>3, ReadyIsFree
  <2>10. HolderFits'
    <3>1. \A d \in Clients \ {c} : ~Holding(d)'
      BY <2>2, <2>3, <2>4, <2>9 DEF Holding, Mine
    <3>2. Holding(c)' /\ \A d \in Clients : client'[d].pc \notin {"committed", "reserved"}
      BY <1>3, <2>2, <2>4, <2>9 DEF Holding, Mine
    <3> QED BY <2>2, <2>4, <3>1, <3>2 DEF HolderFits
  <2>11. PublicIsAlone'
    BY <1>1, <2>2 DEF IInv, PublicIsAlone, sessions
  <2>12. \A p \in Ops : p.op = "load" => (entry'.key = p.who => entry'.phase = "loading")
    BY <1>3, <2>4, OpFacts DEF OpFits
  <2>13. o.op \in ClientOps /\ o.op # "load"
    BY <2>1 DEF ClientOps
  <2> QED BY <1>1, <2>1, <2>2, <2>4, <2>6, <2>7, <2>8, <2>9, <2>10, <2>11, <2>12, <2>13, AskKeeps
<1> QED BY <1>1, <1>2, <1>3 DEF Reserve

\* An inspection asks whether its view is current.
LEMMA InspectLoadedStep ==
    ASSUME IInv, NEW c \in Clients, InspectLoaded(c)
    PROVE  IInv'
<1>1. /\ client[c].pc = "awaiting" /\ Calm(c) /\ client[c].kind = "inspect"
      /\ UNCHANGED <<store, begun, state, entry, sessions>>
      /\ client \in [Clients -> Callers] /\ client[c].key # 0
  BY DEF InspectLoaded, Calm, IInv, Types, ClientsFit, ClientFits
<1>2. CASE End(c) /\ UNCHANGED chain
  BY <1>1, <1>2, CalmEnds DEF memory
<1>3. CASE Goto(c, "checking") /\ Chained(Operation("check", c, 0, 0))
  <2> DEFINE o == Operation("check", c, 0, 0)
  <2>1. o \in Operations /\ o.op = "check" /\ o.who = c /\ Chained(o)
    BY <1>3 DEF Operation, Operations, ClientOps
  <2> HIDE DEF o
  <2>2. /\ client' \in [Clients -> Callers] /\ client'[c].pc = "checking"
        /\ client'[c].kind = client[c].kind /\ client'[c].key = client[c].key
        /\ \A d \in Clients \ {c} : client'[d] = client[d]
    BY <1>1, <1>3, GotoFacts DEF Pcs
  <2>3. entry' \in {NoEntry} \cup [phase : {"loading", "ready", "committing", "reserved"},
                   key : Nat \ {0}, session : 0..MaxSessions, base : Logs]
    BY <1>1 DEF IInv, Types
  <2>5. Ops' = Ops \cup {o}
    BY <2>1, ChainGrows DEF IInv, Types
  <2>6. ClientFits(c)'
    BY <1>1, <2>1, <2>2, <2>5 DEF ClientFits
  <2>7. OpFits(o)'
    BY <1>1, <2>1, <2>2 DEF OpFits, SessionOps
  <2>8. EntryFits'
    BY <1>1, <2>5 DEF IInv, EntryFits, Attached, sessions
  <2>9. UNCHANGED log
    BY <1>1 DEF sessions
  <2>10. ~Holding(c) /\ ~Holding(c)'
    BY <1>1, <2>2 DEF Holding
  <2>11. HolderFits'
    BY <1>1, <2>2, <2>9, <2>10, HoldersStay
  <2>12. PublicIsAlone'
    BY <1>1, <2>2 DEF IInv, PublicIsAlone, sessions
  <2>13. \A p \in Ops : p.op = "load" => (entry'.key = p.who => entry'.phase = "loading")
    BY <1>1, OpFacts DEF OpFits
  <2>14. o.op \in ClientOps /\ o.op # "load"
    BY <2>1 DEF ClientOps
  <2> QED BY <1>1, <2>1, <2>2, <2>3, <2>6, <2>7, <2>8, <2>11, <2>12, <2>13, <2>14, AskKeeps
<1> QED BY <1>1, <1>2, <1>3 DEF InspectLoaded

-----------------------------------------------------------------------------
(***************************************************************************)
(* What the holder of an entry does.                                       *)
(***************************************************************************)
\* The holder of an entry moves, and the entry with it.
LEMMA HolderMoves ==
    ASSUME IInv, NEW c \in Clients, client[c].pc \in {"committed", "reserved"},
           client' \in [Clients -> Callers], \A d \in Clients \ {c} : client'[d] = client[d],
           ClientFits(c)', client'[c].kind # "append",
           client'[c].kind = "prepare" => client[c].kind = "prepare",
           entry' \in [phase : {"loading", "ready", "committing", "reserved"},
                       key : Nat \ {0}, session : 0..MaxSessions, base : Logs],
           entry'.key = entry.key, EntryFits', HolderFits',
           UNCHANGED <<store, chain, begun, state, sessions>>
    PROVE  IInv'
<1>1. UNCHANGED <<store, chain, begun, state, log, life, init, sent>> /\ Ops' = Ops
  BY DEF sessions, Ops
<1>2. Types' /\ Once' /\ BegunFits' /\ OwnerFits' /\ LiveIsLatest'
  <2>0. begun' \in BOOLEAN
    BY <1>1, Zenon DEF IInv, Types
  <2>1. Types'
    BY <1>1, <2>0 DEF IInv, Types
  <2>2. Once'
    BY <1>1 DEF IInv, Once
  <2>3. BegunFits'
    BY <1>1 DEF IInv, BegunFits, First
  <2>5. OwnerFits'
    BY <1>1 DEF IInv, OwnerFits, Attached, Unsent
  <2>6. LiveIsLatest'
    BY <1>1 DEF IInv, LiveIsLatest
  <2> QED BY <2>1, <2>2, <2>3, <2>5, <2>6
<1>3. ClientsFit'
  <2> SUFFICES ASSUME NEW d \in Clients \ {c}  PROVE ClientFits(d)'
    BY DEF ClientsFit
  <2> QED BY <1>1, ClientKeeps DEF IInv, ClientsFit
<1>4. OpsFit'
  <2> SUFFICES ASSUME NEW o \in Ops  PROVE OpFits(o)'
    BY <1>1 DEF OpsFit
  <2>1. o \in Operations /\ OpFits(o) /\ (o.op \in ClientOps => o.who \in Clients \ {c})
    BY OpFacts, CalmFacts
  <2>2. o.op = "load" => entry'.key # o.who
    BY <2>1, HolderIsAlone DEF OpFits
  <2> QED BY <1>1, <2>1, <2>2, OpKeeps
<1>5. PublicIsAlone'
  BY <1>1 DEF IInv, PublicIsAlone
<1> QED BY <1>2, <1>3, <1>4, <1>5 DEF IInv

\* The fields of an entry that has another phase.
LEMMA PhaseFacts ==
    ASSUME Types, entry # NoEntry, NEW p \in {"loading", "ready", "committing", "reserved"},
           entry' = [entry EXCEPT !.phase = p]
    PROVE  /\ entry'.phase = p /\ entry'.key = entry.key /\ entry'.session = entry.session
           /\ entry'.base = entry.base
           /\ entry' \in [phase : {"loading", "ready", "committing", "reserved"},
                          key : Nat \ {0}, session : 0..MaxSessions, base : Logs]
           /\ entry' # NoEntry
<1>1. entry \in [phase : {"loading", "ready", "committing", "reserved"},
                 key : Nat \ {0}, session : 0..MaxSessions, base : Logs]
  BY DEF Types
<1>2. /\ entry'.phase = p /\ entry'.key = entry.key /\ entry'.session = entry.session
      /\ entry'.base = entry.base
      /\ entry' \in [phase : {"loading", "ready", "committing", "reserved"},
                     key : Nat \ {0}, session : 0..MaxSessions, base : Logs]
  BY <1>1
<1> QED BY <1>2, NoEntryFacts

\* What an entry that is held has of its own.
LEMMA HeldEntry ==
    ASSUME IInv, NEW c \in Clients, client[c].pc \in {"committed", "reserved"}
    PROVE  /\ entry.session \in Sessions /\ life[entry.session] = "prepared" /\ entry.base # <<>>
           /\ \A s \in Sessions : ~Attached(s) /\ (life[s] = "prepared" => s = entry.session)
           /\ \A o \in Ops : o.op \notin SessionOps
           /\ entry.base \o Closers(entry.base) = entry.base
<1>1. entry # NoEntry /\ entry.phase \in {"committing", "reserved"} /\ Closers(store) = <<>> /\ entry.base = store
  BY HolderIsAlone
<1>2. \A s \in Sessions : ~Attached(s)
  BY <1>1 DEF IInv, EntryFits
<1>3. \A o \in Ops : o.op \notin SessionOps
  BY <1>2, OpFacts DEF OpFits
<1>4. entry.base \o Closers(entry.base) = entry.base
  BY <1>1, ClosersClose DEF IInv, Types
<1> QED BY <1>1, <1>2, <1>3, <1>4 DEF IInv, EntryFits

\* An entry is given back as it was prepared.
LEMMA GivesBack ==
    ASSUME IInv, NEW c \in Clients, client[c].pc \in {"committed", "reserved"}, End(c),
           entry' = [entry EXCEPT !.phase = "ready"], log[entry.session] = entry.base,
           UNCHANGED <<store, chain, begun, state, sessions>>
    PROVE  IInv'
<1>1. /\ client' \in [Clients -> Callers] /\ client'[c] = NoClient
      /\ \A d \in Clients \ {c} : client'[d] = client[d]
  BY EndFacts DEF IInv, Types
<1>2. /\ entry # NoEntry /\ Holding(c) /\ Mine(c)
      /\ \A d \in Clients \ {c} : ~Holding(d) /\ client[d].pc \notin {"committed", "reserved"}
  BY HolderIsAlone
<1>3. /\ entry'.phase = "ready" /\ entry'.key = entry.key /\ entry'.session = entry.session
      /\ entry'.base = entry.base
      /\ entry' \in [phase : {"loading", "ready", "committing", "reserved"},
                     key : Nat \ {0}, session : 0..MaxSessions, base : Logs]
      /\ entry' # NoEntry
  BY <1>2, PhaseFacts DEF IInv
<1>4. ClientFits(c)' /\ client'[c].kind = "none"
  BY <1>1, NoClientFacts DEF ClientFits
<1>5. EntryFits'
  BY <1>3, HeldEntry DEF EntryFits, Attached, sessions
<1>6. HolderFits'
  <2>1. \A d \in Clients : ~Holding(d)' /\ client'[d].pc \notin {"committed", "reserved"}
    BY <1>1, <1>2, <1>3, NoClientFacts DEF Holding, Mine
  <2> QED BY <1>3, <2>1 DEF HolderFits
<1> QED BY <1>1, <1>3, <1>4, <1>5, <1>6, HolderMoves

\* A reservation is through.
LEMMA ReservedStep ==
    ASSUME IInv, NEW c \in Clients, Reserved(c)
    PROVE  IInv'
<1>1. /\ client[c].pc = "committed" /\ UNCHANGED <<store, chain, begun, state, sessions>>
      /\ client \in [Clients -> Callers]
  BY DEF Reserved, IInv, Types
<1>2. /\ Holding(c) /\ entry # NoEntry /\ Mine(c) /\ entry.phase = "committing"
      /\ \A d \in Clients \ {c} : ~Holding(d) /\ client[d].pc \notin {"committed", "reserved"}
      /\ client[c].kind \in {"prepare", "load"} /\ client[c].key # 0
      /\ entry.base = store /\ Closers(store) = <<>> /\ ~begun
      /\ state = [owner |-> Nobody, cursor |-> Len(store)]
  BY <1>1, HolderIsAlone
<1>3. log[entry.session] = entry.base
  BY <1>1, <1>2, HeldEntry DEF IInv, EntryFits
<1>4. CASE entry' = [entry EXCEPT !.phase = "reserved"] /\ Goto(c, "reserved")
  <2>1. /\ client' \in [Clients -> Callers] /\ client'[c].pc = "reserved"
        /\ client'[c].kind = client[c].kind /\ client'[c].key = client[c].key
        /\ \A d \in Clients \ {c} : client'[d] = client[d]
    BY <1>1, <1>4, GotoFacts DEF Pcs
  <2>2. /\ entry'.phase = "reserved" /\ entry'.key = entry.key /\ entry'.session = entry.session
        /\ entry'.base = entry.base
        /\ entry' \in [phase : {"loading", "ready", "committing", "reserved"},
                       key : Nat \ {0}, session : 0..MaxSessions, base : Logs]
        /\ entry' # NoEntry
    BY <1>2, <1>4, PhaseFacts DEF IInv
  <2>3. ClientFits(c)'
    BY <1>2, <2>1, <2>2 DEF ClientFits, Mine
  <2>4. EntryFits'
    BY <1>1, <2>2, HeldEntry DEF EntryFits, Attached, sessions
  <2>5. HolderFits'
    <3>1. \A d \in Clients \ {c} : ~Holding(d)'
      BY <1>2, <2>1, <2>2 DEF Holding, Mine
    <3>2. Holding(c)'
      BY <1>2, <2>1, <2>2 DEF Holding, Mine
    <3>3. UNCHANGED <<store, state, begun, log>>
      BY <1>1 DEF sessions
    <3>4. Closers(store)' = <<>>
      BY <1>2, <3>3 DEF Closers
    <3> QED BY <1>2, <1>3, <2>1, <2>2, <3>1, <3>2, <3>3, <3>4 DEF HolderFits
  <2> QED BY <1>1, <1>2, <2>1, <2>2, <2>3, <2>4, <2>5, HolderMoves
<1>5. CASE entry' = [entry EXCEPT !.phase = "ready"] /\ End(c)
  BY <1>1, <1>3, <1>5, GivesBack
<1> QED BY <1>1, <1>2, <1>4, <1>5 DEF Reserved

\* A preparation is given back.
LEMMA ReleaseStep ==
    ASSUME IInv, NEW c \in Clients, Release(c)
    PROVE  IInv'
<1>1. /\ client[c].pc = "reserved" /\ End(c) /\ UNCHANGED <<store, chain, begun, state, init, sent>>
  BY DEF Release, Holds
<1>2. CASE Reusable /\ entry' = [entry EXCEPT !.phase = "ready"] /\ UNCHANGED <<life, log>>
  BY <1>1, <1>2, GivesBack DEF Reusable, sessions
<1>3. CASE RemoveEntry
  <2>1. \A d \in Clients \ {c} : client[d].pc \notin {"committed", "reserved"}
    BY <1>1, HolderIsAlone
  <2> QED BY <1>1, <1>3, <2>1, RemovalBy
<1> QED BY <1>1, <1>2, <1>3 DEF Release

\* Setup appends to the prepared Session.
LEMMA SetupStep ==
    ASSUME IInv, NEW c \in Clients, Setup(c)
    PROVE  IInv'
<1>1. /\ client[c].pc = "reserved" /\ log[entry.session] = entry.base /\ Len(entry.base) < MaxLog
      /\ log' = [log EXCEPT ![entry.session] = Append(@, entry.session)]
      /\ UNCHANGED <<store, chain, begun, state, entry, life, init, sent, client>> /\ Ops' = Ops
  BY DEF Setup, Holds, memory, Ops
<1>2. /\ entry # NoEntry /\ entry.phase = "reserved"
      /\ entry.base = store /\ Closers(store) = <<>> /\ ~begun
      /\ state = [owner |-> Nobody, cursor |-> Len(store)]
  BY <1>1, HolderIsAlone
<1>3. /\ entry.session \in Sessions /\ life[entry.session] = "prepared"
      /\ \A s \in Sessions : ~Attached(s) /\ (life[s] = "prepared" => s = entry.session)
      /\ \A o \in Ops : o.op \notin SessionOps
  BY <1>1, HeldEntry
<1>4. log' \in [Sessions -> Logs] /\ log'[entry.session] = Append(entry.base, entry.session)
      /\ \A s \in Sessions \ {entry.session} : log'[s] = log[s]
  <2>1. log \in [Sessions -> Logs] /\ entry.base \in Logs
    BY NoEntryFacts DEF IInv, Types
  <2>2. entry.session \in 0..MaxSessions
    BY <1>3, PersistenceBounds DEF Sessions
  <2>3. Append(entry.base, entry.session) \in Logs
    <3>1. \A b \in Seq(0..MaxSessions), x \in 0..MaxSessions :
             Append(b, x) \in Seq(0..MaxSessions) /\ Len(Append(b, x)) = Len(b) + 1 /\ Len(b) \in Nat
      OBVIOUS
    <3>2. \A n \in Nat : n < MaxLog => Fits(n + 1)
      BY PersistenceBounds DEF Fits
    <3>3. \A b \in Logs, x \in 0..MaxSessions : Len(b) < MaxLog => Append(b, x) \in Logs
      BY <3>1, <3>2 DEF Logs
    <3> QED BY <1>1, <2>1, <2>2, <3>3
  <2> QED BY <1>1, <1>3, <2>1, <2>3
<1>5. Types' /\ Once' /\ BegunFits' /\ ClientsFit' /\ PublicIsAlone' /\ LiveIsLatest'
  <2>0. begun' \in BOOLEAN
    BY <1>1, Zenon DEF IInv, Types
  <2>1. Types'
    BY <1>1, <1>4, <2>0 DEF IInv, Types
  <2>2. Once'
    BY <1>1 DEF IInv, Once
  <2>3. BegunFits'
    BY <1>1 DEF IInv, BegunFits, First
  <2>4. ClientsFit'
    BY <1>1, ClientKeeps DEF IInv, ClientsFit
  <2>5. PublicIsAlone'
    BY <1>1 DEF IInv, PublicIsAlone
  <2>6. LiveIsLatest'
    BY <1>1, LatestStays DEF IInv
  <2> QED BY <2>1, <2>2, <2>3, <2>4, <2>5, <2>6
<1>6. OpsFit'
  <2> SUFFICES ASSUME NEW o \in Ops  PROVE OpFits(o)'
    BY <1>1 DEF OpsFit
  <2>1. o \in Operations /\ OpFits(o) /\ o.op \notin SessionOps /\ o.op \notin {"append", "seed"}
    BY <1>3, OpFacts DEF SessionOps
  <2>2. o.op = "load" => (entry'.key = o.who => entry'.phase = "loading")
    BY <1>1, <2>1 DEF OpFits
  <2> QED BY <1>1, <2>1, <2>2, OpKeeps
<1>7. EntryFits'
  BY <1>1, <1>2, <1>3, HeldEntry DEF EntryFits, Attached
<1>8. HolderFits'
  <2>1. \A d \in Clients : Holding(d)' <=> Holding(d)
    BY <1>1 DEF Holding, Mine
  <2>2. Closers(store)' = <<>>
    BY <1>1, <1>2 DEF Closers
  <2>3. log'[entry'.session] = Append(entry'.base, entry'.session)
    BY <1>1, <1>4
  <2> QED BY <1>1, <1>2, <2>1, <2>2, <2>3 DEF IInv, HolderFits
<1>9. OwnerFits'
  <2>1. \A s \in Sessions : ~Attached(s)'
    BY <1>1, <1>3 DEF Attached
  <2>2. \A s \in Sessions : sent'[s] <= Len(log'[s]) /\ (life'[s] \in {"unborn", "prepared"} => sent'[s] = 0)
    <3>1. sent[entry.session] = 0
      BY <1>3 DEF IInv, OwnerFits
    <3>2. 0 <= Len(log'[entry.session])
      BY <1>3, <1>4 DEF Logs
    <3> QED BY <1>1, <1>3, <1>4, <3>1, <3>2 DEF IInv, OwnerFits
  <2>3. state'.owner = Nobody /\ state' = state /\ store' = store
    BY <1>1, <1>2
  <2> QED BY <2>1, <2>2, <2>3 DEF IInv, OwnerFits, Nobody
<1> QED BY <1>5, <1>6, <1>7, <1>8, <1>9 DEF IInv

-----------------------------------------------------------------------------
(***************************************************************************)
(* The steps of live sessions.                                             *)
(***************************************************************************)
\* What they leave alone: the prepared Session, the clients, the entry.
LEMMA SessionKeeps ==
    ASSUME IInv, UNCHANGED <<store, begun, state, entry, client>>, Ops \subseteq Ops',
           \A t \in Sessions : /\ life'[t] = "prepared" <=> life[t] = "prepared"
                               /\ life[t] = "prepared" => log'[t] = log[t],
           entry # NoEntry => \A t \in Sessions : ~Attached(t)',
           (\E c \in Clients : client[c].kind = "append") =>
               \A t \in Sessions : life'[t] \in {"unborn", "prepared", "gone"}
    PROVE  ClientsFit' /\ EntryFits' /\ HolderFits' /\ PublicIsAlone'
<1>1. ClientsFit'
  BY ClientKeeps DEF IInv, ClientsFit
<1>2. EntryFits'
  <2>1. entry.phase \in {"ready", "committing", "reserved"} =>
            /\ entry.session \in Sessions /\ life'[entry.session] = "prepared" /\ entry.base # <<>>
            /\ log'[entry.session] = log[entry.session]
    BY DEF IInv, EntryFits
  <2>2. entry.phase = "loading" => entry.session = 0 /\ \E o \in Ops' : o.op = "load" /\ o.who = entry.key
    BY DEF IInv, EntryFits
  <2>3. \A t \in Sessions : life'[t] = "prepared" => t = entry.session
    BY DEF IInv, EntryFits
  <2>4. entry.phase \in {"ready", "committing"} => log'[entry.session] = entry.base \o Closers(entry.base)
    BY <2>1 DEF IInv, EntryFits
  <2> QED BY <2>1, <2>2, <2>3, <2>4 DEF EntryFits, Closers
<1>3. HolderFits'
  <2>1. \A d \in Clients : Holding(d)' <=> Holding(d)
    BY DEF Holding, Mine
  <2>2. entry.phase = "reserved" => log'[entry.session] = log[entry.session]
    BY DEF IInv, EntryFits
  <2>3. Closers(store)' = Closers(store)
    BY DEF Closers
  <2> QED BY <2>1, <2>2, <2>3 DEF IInv, HolderFits
<1>4. PublicIsAlone'
  BY DEF IInv, PublicIsAlone
<1> QED BY <1>1, <1>2, <1>3, <1>4

\* While a session is attached nobody has prepared anything or appends from outside.
LEMMA AttachedIsAlone ==
    ASSUME IInv, NEW s \in Sessions, Attached(s)
    PROVE  entry = NoEntry /\ \A c \in Clients : client[c].kind # "append"
BY DEF IInv, EntryFits, PublicIsAlone, Attached

\* A live session logs an event.
LEMMA LogEventStep ==
    ASSUME IInv, NEW s \in Sessions, LogEvent(s)
    PROVE  IInv'
<1>1. /\ life[s] = "live" /\ Len(log[s]) < MaxLog /\ log' = [log EXCEPT ![s] = Append(@, s)]
      /\ UNCHANGED <<store, chain, begun, state, entry, life, init, sent, client>> /\ Ops' = Ops
  BY DEF LogEvent, memory, Ops
<1>2. Attached(s) /\ entry = NoEntry /\ \A c \in Clients : client[c].kind # "append"
  BY <1>1, AttachedIsAlone DEF Attached
<1>3. /\ log' \in [Sessions -> Logs] /\ log'[s] = Append(log[s], s)
      /\ Len(log'[s]) = Len(log[s]) + 1 /\ Len(log[s]) \in Nat
      /\ \A t \in Sessions \ {s} : log'[t] = log[t]
  <2>1. log \in [Sessions -> Logs] /\ log[s] \in Logs /\ s \in 0..MaxSessions
    BY PersistenceBounds DEF IInv, Types, Sessions
  <2>2. \A b \in Seq(0..MaxSessions), x \in 0..MaxSessions :
           Append(b, x) \in Seq(0..MaxSessions) /\ Len(Append(b, x)) = Len(b) + 1 /\ Len(b) \in Nat
    OBVIOUS
  <2>3. \A n \in Nat : n < MaxLog => Fits(n + 1)
    BY PersistenceBounds DEF Fits
  <2>4. \A b \in Logs, x \in 0..MaxSessions : Len(b) < MaxLog =>
            Append(b, x) \in Logs /\ Len(Append(b, x)) = Len(b) + 1 /\ Len(b) \in Nat
    BY <2>2, <2>3 DEF Logs
  <2> QED BY <1>1, <2>1, <2>4
<1>4. ClientsFit' /\ EntryFits' /\ HolderFits' /\ PublicIsAlone'
  BY <1>1, <1>2, <1>3, SessionKeeps
<1>5. Types' /\ Once' /\ BegunFits' /\ LiveIsLatest'
  <2>0. begun' \in BOOLEAN
    BY <1>1, Zenon DEF IInv, Types
  <2>1. Types'
    BY <1>1, <1>3, <2>0 DEF IInv, Types
  <2>2. Once'
    BY <1>1 DEF IInv, Once
  <2>3. BegunFits'
    BY <1>1 DEF IInv, BegunFits, First
  <2>6. LiveIsLatest'
    BY <1>1, LatestStays DEF IInv
  <2> QED BY <2>1, <2>2, <2>3, <2>6
<1>6. OpsFit'
  <2> SUFFICES ASSUME NEW o \in Ops  PROVE OpFits(o)'
    BY <1>1 DEF OpsFit
  <2>1. /\ o \in Operations /\ OpFits(o)
        /\ o.op = "load" => (entry.key = o.who => entry.phase = "loading")
    BY OpFacts DEF OpFits
  <2>2. CASE o.op \in SessionOps /\ o.who = s
    <3>1. o.op # "retire" /\ o.to \in Nat /\ o.op \notin ClientOps /\ o.op # "load"
      BY <1>1, <2>1, <2>2 DEF OpFits, Operations, SessionOps, ClientOps
    <3>2. Attached(s)'
      BY <1>1 DEF Attached
    <3> QED BY <1>1, <1>3, <2>1, <2>2, <3>1, <3>2 DEF OpFits, ClientOps
  <2>3. CASE ~ (o.op \in SessionOps /\ o.who = s)
    <3>1. o.op \in SessionOps => log'[o.who] = log[o.who]
      BY <1>3, <2>3, OpFacts
    <3> QED BY <1>1, <2>1, <3>1, OpKeeps
  <2> QED BY <2>2, <2>3
<1>7. OwnerFits'
  <2>1. \A t \in Sessions : IsPrefix(store, log[t]) => IsPrefix(store, log'[t])
    <3>1. store \in Seq(0..MaxSessions) /\ log[s] \in Seq(0..MaxSessions) /\ s \in 0..MaxSessions
      BY PersistenceBounds DEF IInv, Types, Logs, Sessions
    <3>2. IsPrefix(store, log[s]) => IsPrefix(store, Append(log[s], s))
      BY <3>1, PrefixFacts
    <3> QED BY <1>3, <3>2
  <2>2. state.owner > Nobody => state.owner \in Sessions
    BY PersistenceBounds DEF IInv, Types, NoState, Nobody, Sessions
  <2>3. \A t \in Sessions : sent[t] \in Nat /\ sent[t] <= Len(log'[t])
    <3>1. \A t \in Sessions : sent[t] \in Nat /\ sent[t] <= Len(log[t])
      BY DEF IInv, Types, OwnerFits
    <3>2. \A n, k \in Nat : n <= k => n <= k + 1
      OBVIOUS
    <3> QED BY <1>3, <3>1, <3>2
  <2>4. \A t \in Sessions : /\ Attached(t)' /\ init[t] = "ready" /\ (life[t] = "live" \/ Unsent(t)')
                            => state.owner = t
    BY <1>1, <1>3 DEF IInv, OwnerFits, Attached, Unsent
  <2> QED BY <1>1, <2>1, <2>2, <2>3, <2>4 DEF IInv, OwnerFits
<1> QED BY <1>4, <1>5, <1>6, <1>7 DEF IInv

\* A session enqueues what it has not sent.
LEMMA WriteStep ==
    ASSUME IInv, NEW s \in Sessions, Write(s)
    PROVE  IInv'
<1>0. PICK a, b : a = sent[s] /\ b = Len(log[s])
  OBVIOUS
<1> DEFINE o == Operation("append", s, a, b)
<1>1. /\ Attached(s) /\ init[s] = "ready" /\ Unsent(s) /\ ~Writing(s) /\ Chained(o)
      /\ sent' = [sent EXCEPT ![s] = b]
      /\ UNCHANGED <<store, begun, state, entry, log, life, init, client>>
  BY <1>0 DEF Write, Attached
<1>2. a \in Nat /\ b \in Nat /\ a <= b
  BY <1>0, <1>1 DEF IInv, Types, Logs, Unsent
<1>3. /\ o \in Operations /\ o.op = "append" /\ o.who = s /\ o.from = a /\ o.to = b
  BY <1>2 DEF Operation, Operations, SessionOps
<1> HIDE DEF o
<1>4. \A p \in Ops : p.op \in SessionOps => p.who # s
  <2> SUFFICES ASSUME NEW p \in Ops, p.op \in SessionOps, p.who = s  PROVE FALSE
    OBVIOUS
  <2>1. p.op # "append"
    BY <1>1 DEF Writing, Ops
  <2>2. p.op \notin {"seed", "created", "retire"}
    BY <1>1, OpFacts DEF OpFits
  <2> QED BY <2>1, <2>2 DEF SessionOps
<1>5. Once' /\ BegunFits' /\ chain' \in Seq(Operations) /\ Ops' = Ops \cup {o}
  <2>1. o.op \in SessionOps /\ o.op \notin ClientOps /\ o.op # "load"
    BY <1>3 DEF SessionOps, ClientOps
  <2> QED BY <1>1, <1>3, <1>4, <2>1, GrowKeeps
<1>6. ClientsFit' /\ EntryFits' /\ HolderFits' /\ PublicIsAlone'
  BY <1>1, <1>5, SessionKeeps, AttachedIsAlone
<1>7. sent' \in [Sessions -> Nat] /\ sent'[s] = b /\ \A t \in Sessions \ {s} : sent'[t] = sent[t]
  BY <1>1, <1>2 DEF IInv, Types
<1>8. Types'
  <2>0. begun' \in BOOLEAN
    BY <1>1, Zenon DEF IInv, Types
  <2> QED BY <1>1, <1>5, <1>7, <2>0 DEF IInv, Types
<1>9. state.owner = s
  BY <1>1 DEF IInv, OwnerFits
<1>10. OpsFit'
  <2>1. ASSUME NEW p \in Ops  PROVE OpFits(p)'
    <3>1. /\ p \in Operations /\ OpFits(p) /\ (p.op \in SessionOps => sent'[p.who] = sent[p.who])
          /\ p.op = "load" => (entry.key = p.who => entry.phase = "loading")
      BY <1>4, <1>7, OpFacts DEF OpFits
    <3> QED BY <1>1, <3>1, OpKeeps
  <2>2. OpFits(o)'
    <3>1. Attached(s)' /\ b <= Len(log[s]) /\ o.op \notin ClientOps
      BY <1>0, <1>1, <1>2, <1>3 DEF Attached, ClientOps
    <3> QED BY <1>1, <1>2, <1>3, <1>9, <3>1 DEF OpFits
  <2> QED BY <1>5, <2>1, <2>2 DEF OpsFit
<1>11. OwnerFits'
  <2>1. \A t \in Sessions : Unsent(t)' => Unsent(t)
    BY <1>0, <1>1, <1>2, <1>7 DEF Unsent
  <2>2. \A t \in Sessions : sent'[t] <= Len(log[t]) /\ (life[t] \in {"unborn", "prepared"} => sent'[t] = 0)
    BY <1>0, <1>1, <1>2, <1>7 DEF IInv, OwnerFits, Attached
  <2>3. \A t \in Sessions : /\ Attached(t)' /\ init[t] = "ready" /\ (life[t] = "live" \/ Unsent(t)')
                            => state.owner = t
    BY <1>1, <2>1 DEF IInv, OwnerFits, Attached
  <2> QED BY <1>1, <2>2, <2>3 DEF IInv, OwnerFits
<1>12. LiveIsLatest'
  BY <1>1, <1>3, LatestGrows DEF IInv, Types
<1> QED BY <1>5, <1>6, <1>8, <1>10, <1>11, <1>12 DEF IInv

\* A live session is disposed of.
LEMMA DisposeStep ==
    ASSUME IInv, NEW s \in Sessions, Dispose(s)
    PROVE  IInv'
<1>1. /\ life[s] = "live" /\ life' = [life EXCEPT ![s] = "retiring"]
      /\ UNCHANGED <<store, chain, begun, state, entry, log, init, sent, client>> /\ Ops' = Ops
  BY DEF Dispose, memory, Ops
<1>2. Attached(s) /\ entry = NoEntry /\ \A c \in Clients : client[c].kind # "append"
  BY <1>1, AttachedIsAlone DEF Attached
<1>3. /\ life' \in [Sessions -> {"unborn", "prepared", "live", "retiring", "stuck", "gone"}]
      /\ life'[s] = "retiring" /\ \A t \in Sessions \ {s} : life'[t] = life[t]
  BY <1>1 DEF IInv, Types
<1>4. ClientsFit' /\ EntryFits' /\ HolderFits' /\ PublicIsAlone'
  BY <1>1, <1>2, <1>3, SessionKeeps
<1>5. Types' /\ Once' /\ BegunFits' /\ LiveIsLatest'
  <2>0. begun' \in BOOLEAN
    BY <1>1, Zenon DEF IInv, Types
  <2>1. Types'
    BY <1>1, <1>3, <2>0 DEF IInv, Types
  <2>2. Once'
    BY <1>1 DEF IInv, Once
  <2>3. BegunFits'
    BY <1>1 DEF IInv, BegunFits, First
  <2>4. LiveIsLatest'
    BY <1>1, <1>3, LatestStays DEF IInv
  <2> QED BY <2>1, <2>2, <2>3, <2>4
<1>6. OpsFit'
  <2> SUFFICES ASSUME NEW o \in Ops  PROVE OpFits(o)'
    BY <1>1 DEF OpsFit
  <2>1. /\ o \in Operations /\ OpFits(o)
        /\ o.op = "load" => (entry.key = o.who => entry.phase = "loading")
    BY OpFacts DEF OpFits
  <2>2. CASE o.op \in SessionOps /\ o.who = s
    <3>1. o.op # "retire" /\ o.op \notin ClientOps /\ o.op # "load"
      BY <1>1, <2>1, <2>2 DEF OpFits, SessionOps, ClientOps
    <3>2. Attached(s)'
      BY <1>3 DEF Attached
    <3> QED BY <1>1, <2>1, <2>2, <3>1, <3>2 DEF OpFits, ClientOps
  <2>3. CASE ~ (o.op \in SessionOps /\ o.who = s)
    <3>1. o.op \in SessionOps => life'[o.who] = life[o.who]
      BY <1>3, <2>3, OpFacts
    <3> QED BY <1>1, <2>1, <3>1, OpKeeps
  <2> QED BY <2>2, <2>3
<1>7. OwnerFits'
  <2>1. state.owner > Nobody => life'[state.owner] \in {"live", "retiring", "stuck"}
                                 /\ IsPrefix(store, log[state.owner])
    <3>1. state.owner > Nobody => state.owner \in Sessions
      BY PersistenceBounds DEF IInv, Types, NoState, Nobody, Sessions
    <3> QED BY <1>3, <3>1 DEF IInv, OwnerFits
  <2>2. \A t \in Sessions : /\ Attached(t)' /\ init[t] = "ready" /\ (life'[t] = "live" \/ Unsent(t)')
                            => state.owner = t
    BY <1>1, <1>3 DEF IInv, OwnerFits, Attached, Unsent
  <2>3. \A t \in Sessions : sent[t] <= Len(log[t]) /\ (life'[t] \in {"unborn", "prepared"} => sent[t] = 0)
    BY <1>3 DEF IInv, OwnerFits
  <2> QED BY <1>1, <2>1, <2>2, <2>3 DEF IInv, OwnerFits
<1> QED BY <1>4, <1>5, <1>6, <1>7 DEF IInv

\* A retiring session has written everything.
LEMMA DrainedStep ==
    ASSUME IInv, NEW s \in Sessions, Drained(s)
    PROVE  IInv'
<1> DEFINE o == Operation("retire", s, 0, 0)
<1>1. /\ life[s] = "retiring" /\ Attached(s) /\ init[s] = "ready" /\ ~Unsent(s) /\ ~Writing(s)
      /\ ~\E i \in DOMAIN chain : chain[i] = o
      /\ Chained(o)
      /\ UNCHANGED <<store, begun, state, entry, log, life, init, sent, client>>
  BY DEF Drained, Attached, sessions
<1>3. o \in Operations /\ o.op = "retire" /\ o.who = s /\ o.from = 0 /\ o.to = 0
  BY DEF Operation, Operations, SessionOps
<1>4. \A p \in Ops : p.op \in SessionOps => p.who # s
  <2> SUFFICES ASSUME NEW p \in Ops, p.op \in SessionOps, p.who = s  PROVE FALSE
    OBVIOUS
  <2>1. p.op # "append"
    BY <1>1 DEF Writing, Ops
  <2>2. p.op \notin {"seed", "created"}
    BY <1>1, OpFacts DEF OpFits
  <2>3. p.op # "retire"
    <3> SUFFICES ASSUME p.op = "retire"  PROVE FALSE
      OBVIOUS
    <3>1. p.from = 0 /\ p.to = 0 /\ p \in Operations
      BY OpFacts DEF OpFits
    <3>2. p = o
      BY <3>1 DEF Operation, Operations
    <3> QED BY <1>1, <3>2 DEF Ops
  <2> QED BY <2>1, <2>2, <2>3 DEF SessionOps
<1> HIDE DEF o
<1>5. Once' /\ BegunFits' /\ chain' \in Seq(Operations) /\ Ops' = Ops \cup {o}
  <2>1. o.op \in SessionOps /\ o.op \notin ClientOps /\ o.op # "load"
    BY <1>3 DEF SessionOps, ClientOps
  <2> QED BY <1>1, <1>3, <1>4, <2>1, GrowKeeps
<1>6. ClientsFit' /\ EntryFits' /\ HolderFits' /\ PublicIsAlone'
  BY <1>1, <1>5, SessionKeeps, AttachedIsAlone
<1>8. Types'
  <2>0. begun' \in BOOLEAN
    BY <1>1, Zenon DEF IInv, Types
  <2> QED BY <1>1, <1>5, <2>0 DEF IInv, Types
<1>10. OpsFit'
  <2>1. ASSUME NEW p \in Ops  PROVE OpFits(p)'
    <3>1. /\ p \in Operations /\ OpFits(p)
          /\ p.op = "load" => (entry.key = p.who => entry.phase = "loading")
      BY OpFacts DEF OpFits
    <3> QED BY <1>1, <3>1, OpKeeps
  <2>2. OpFits(o)'
    <3>1. Attached(s)' /\ ~Unsent(s)' /\ o.op \notin ClientOps
      BY <1>1, <1>3 DEF Attached, ClientOps, Unsent
    <3> QED BY <1>1, <1>3, <3>1 DEF OpFits
  <2> QED BY <1>5, <2>1, <2>2 DEF OpsFit
<1>11. OwnerFits'
  BY <1>1 DEF IInv, OwnerFits, Attached, Unsent
<1>12. LiveIsLatest'
  BY <1>1, <1>3, LatestGrows DEF IInv, Types
<1> QED BY <1>5, <1>6, <1>8, <1>10, <1>11, <1>12 DEF IInv

\* A retiring session whose initialization has failed is stuck.
LEMMA RetireFailsStep ==
    ASSUME IInv, NEW s \in Sessions, RetireFails(s)
    PROVE  IInv'
<1>1. /\ life[s] = "retiring" /\ init[s] = "failed" /\ life' = [life EXCEPT ![s] = "stuck"]
      /\ UNCHANGED <<store, chain, begun, state, entry, log, init, sent, client>> /\ Ops' = Ops
  BY DEF RetireFails, memory, Ops
<1>2. Attached(s) /\ entry = NoEntry /\ \A c \in Clients : client[c].kind # "append"
  BY <1>1, AttachedIsAlone DEF Attached
<1>3. /\ life' \in [Sessions -> {"unborn", "prepared", "live", "retiring", "stuck", "gone"}]
      /\ life'[s] = "stuck" /\ \A t \in Sessions \ {s} : life'[t] = life[t]
  BY <1>1 DEF IInv, Types
<1>4. ClientsFit' /\ EntryFits' /\ HolderFits' /\ PublicIsAlone'
  BY <1>1, <1>2, <1>3, SessionKeeps
<1>5. Types' /\ Once' /\ BegunFits' /\ LiveIsLatest'
  <2>0. begun' \in BOOLEAN
    BY <1>1, Zenon DEF IInv, Types
  <2>1. Types'
    BY <1>1, <1>3, <2>0 DEF IInv, Types
  <2>2. Once'
    BY <1>1 DEF IInv, Once
  <2>3. BegunFits'
    BY <1>1 DEF IInv, BegunFits, First
  <2>4. LiveIsLatest'
    BY <1>1, <1>3, LatestStays DEF IInv
  <2> QED BY <2>1, <2>2, <2>3, <2>4
<1>6. OpsFit'
  <2> SUFFICES ASSUME NEW o \in Ops  PROVE OpFits(o)'
    BY <1>1 DEF OpsFit
  <2>1. /\ o \in Operations /\ OpFits(o)
        /\ o.op = "load" => (entry.key = o.who => entry.phase = "loading")
    BY OpFacts DEF OpFits
  <2>2. o.op \in SessionOps => o.who \in Sessions \ {s}
    BY <1>1, <2>1, OpFacts DEF OpFits, SessionOps
  <2> QED BY <1>1, <1>3, <2>1, <2>2, OpKeeps
<1>7. OwnerFits'
  <2>1. state.owner > Nobody => life'[state.owner] \in {"live", "retiring", "stuck"}
                                 /\ IsPrefix(store, log[state.owner])
    <3>1. state.owner > Nobody => state.owner \in Sessions
      BY PersistenceBounds DEF IInv, Types, NoState, Nobody, Sessions
    <3> QED BY <1>3, <3>1 DEF IInv, OwnerFits
  <2>2. \A t \in Sessions : /\ Attached(t)' /\ init[t] = "ready" /\ (life'[t] = "live" \/ Unsent(t)')
                            => state.owner = t
    BY <1>1, <1>3 DEF IInv, OwnerFits, Attached, Unsent
  <2>3. \A t \in Sessions : sent[t] <= Len(log[t]) /\ (life'[t] \in {"unborn", "prepared"} => sent[t] = 0)
    BY <1>3 DEF IInv, OwnerFits
  <2> QED BY <1>1, <2>1, <2>2, <2>3 DEF IInv, OwnerFits
<1> QED BY <1>4, <1>5, <1>6, <1>7 DEF IInv

\* A new session is created.
LEMMA CreateSessionStep ==
    ASSUME IInv, CreateSession
    PROVE  IInv'
<1>0. PICK f : f = Fresh
  OBVIOUS
<1> DEFINE o == Operation("created", f, 0, 0)
<1>1. /\ Live = {} /\ entry = NoEntry /\ f \in Sessions /\ life[f] = "unborn"
      /\ \A c \in Clients : client[c].kind # "append"
      /\ life' = [life EXCEPT ![f] = "live"] /\ init' = [init EXCEPT ![f] = "pending"]
      /\ sent' = [sent EXCEPT ![f] = 0] /\ Chained(o)
      /\ UNCHANGED <<store, begun, state, entry, log, client>>
  <2>1. f \in Sessions /\ life[f] = "unborn"
    BY <1>0, FreshIsUnborn DEF CreateSession
  <2>2. \A c \in Clients : client[c].kind # "append"
    BY DEF CreateSession, IInv, ClientsFit, ClientFits
  <2> QED BY <1>0, <2>1, <2>2 DEF CreateSession
<1>2. /\ life' \in [Sessions -> {"unborn", "prepared", "live", "retiring", "stuck", "gone"}]
      /\ init' \in [Sessions -> {"none", "pending", "ready", "failed"}]
      /\ sent' \in [Sessions -> Nat]
      /\ life'[f] = "live" /\ init'[f] = "pending" /\ sent'[f] = 0
      /\ \A t \in Sessions \ {f} : life'[t] = life[t] /\ init'[t] = init[t] /\ sent'[t] = sent[t]
  BY <1>1 DEF IInv, Types
<1>3. /\ o \in Operations /\ o.op = "created" /\ o.who = f
  BY <1>1 DEF Operation, Operations, SessionOps
<1> HIDE DEF o
<1>4. \A p \in Ops : p.op \in SessionOps => p.who # f
  BY <1>1, OpFacts DEF OpFits, Attached
<1>5. Once' /\ BegunFits' /\ chain' \in Seq(Operations) /\ Ops' = Ops \cup {o}
  <2>1. o.op \in SessionOps /\ o.op \notin ClientOps /\ o.op # "load"
    BY <1>3 DEF SessionOps, ClientOps
  <2> QED BY <1>1, <1>3, <1>4, <2>1, GrowKeeps
<1>6. ClientsFit' /\ EntryFits' /\ HolderFits' /\ PublicIsAlone'
  BY <1>1, <1>2, <1>5, SessionKeeps
<1>8. Types'
  <2>0. begun' \in BOOLEAN
    BY <1>1, Zenon DEF IInv, Types
  <2> QED BY <1>1, <1>2, <1>5, <2>0 DEF IInv, Types
<1>10. OpsFit'
  <2>1. ASSUME NEW p \in Ops  PROVE OpFits(p)'
    <3>1. /\ p \in Operations /\ OpFits(p)
          /\ p.op = "load" => (entry.key = p.who => entry.phase = "loading")
          /\ p.op \in SessionOps => p.who \in Sessions \ {f}
      BY <1>4, OpFacts DEF OpFits
    <3> QED BY <1>1, <1>2, <3>1, OpKeeps
  <2>2. OpFits(o)'
    <3>1. Attached(f)' /\ o.op \notin ClientOps
      BY <1>2, <1>3 DEF Attached, ClientOps
    <3> QED BY <1>2, <1>3, <3>1 DEF OpFits
  <2> QED BY <1>5, <2>1, <2>2 DEF OpsFit
<1>11. OwnerFits'
  <2>1. state.owner > Nobody => life'[state.owner] \in {"live", "retiring", "stuck"}
                                 /\ IsPrefix(store, log[state.owner])
    <3>1. state.owner > Nobody => state.owner \in Sessions \ {f}
      BY <1>1, PersistenceBounds DEF IInv, Types, OwnerFits, NoState, Nobody, Sessions
    <3> QED BY <1>2, <3>1 DEF IInv, OwnerFits
  <2>2. \A t \in Sessions : /\ Attached(t)' /\ init'[t] = "ready" /\ (life'[t] = "live" \/ Unsent(t)')
                            => state.owner = t
    BY <1>1, <1>2 DEF IInv, OwnerFits, Attached, Unsent
  <2>3. \A t \in Sessions : sent'[t] <= Len(log[t]) /\ (life'[t] \in {"unborn", "prepared"} => sent'[t] = 0)
    <3>1. Len(log[f]) \in Nat
      BY <1>1 DEF IInv, Types, Logs
    <3> QED BY <1>2, <3>1 DEF IInv, OwnerFits
  <2> QED BY <1>1, <2>1, <2>2, <2>3 DEF IInv, OwnerFits
<1>12. LiveIsLatest'
  <2>1. chain' \in Seq(Operations) /\ Len(chain') = Len(chain) + 1 /\ Len(chain) \in Nat
        /\ chain'[Len(chain) + 1] = o
    BY <1>1, <1>3, ChainGrows DEF IInv, Types
  <2>2. \A s \in Sessions : life'[s] = "live" => s = f
    BY <1>1, <1>2 DEF Live
  <2> SUFFICES ASSUME NEW i \in DOMAIN chain', NEW s \in Sessions, life'[s] = "live"
               PROVE  \E j \in i..Len(chain') : chain'[j].op = "created" /\ chain'[j].who = s
    BY DEF LiveIsLatest
  <2>3. Len(chain) + 1 \in i..Len(chain')
    BY <2>1
  <2> QED BY <1>3, <2>1, <2>2, <2>3
<1> QED BY <1>5, <1>6, <1>8, <1>10, <1>11, <1>12 DEF IInv

\* Publication: the prepared Session becomes the owner of the log.
LEMMA PublishStep ==
    ASSUME IInv, NEW c \in Clients, Publish(c)
    PROVE  IInv'
<1>0. PICK s : s = entry.session
  OBVIOUS
<1>1. client[c].pc = "reserved" /\ client[c].kind = "prepare"
  BY DEF Publish, Holds
<1>2. /\ entry # NoEntry /\ entry.phase = "reserved" /\ Mine(c)
      /\ \A d \in Clients \ {c} : ~Holding(d) /\ client[d].pc \notin {"committed", "reserved"}
      /\ entry.base = store /\ Closers(store) = <<>> /\ ~begun
      /\ state = [owner |-> Nobody, cursor |-> Len(store)]
  BY <1>1, HolderIsAlone
<1>3. /\ s \in Sessions /\ life[s] = "prepared" /\ store # <<>>
      /\ \A t \in Sessions : ~Attached(t) /\ (life[t] = "prepared" => t = s)
      /\ \A o \in Ops : o.op \notin SessionOps
      /\ log[s] \in {store, Append(store, s)}
  BY <1>0, <1>1, <1>2, HeldEntry DEF IInv, HolderFits
<1>4. CASE Attachable
  <2> DEFINE l == Len(log[s])
             n == Len(store)
  <2>1. /\ life' = [life EXCEPT ![s] = "live"] /\ state' = [state EXCEPT !.owner = s] /\ entry' = NoEntry
        /\ sent' = [sent EXCEPT ![s] = l] /\ End(c) /\ UNCHANGED <<store, begun, log>>
        /\ \/ /\ init' = [init EXCEPT ![s] = "pending"]
              /\ Chained(Operation("seed", s, n, l))
           \/ init' = [init EXCEPT ![s] = "ready"] /\ UNCHANGED chain
    BY <1>0, <1>2, <1>4 DEF Publish
  <2>2. l \in Nat /\ n \in Nat
    BY <1>3 DEF IInv, Types, Logs
  <2>3. state' = [owner |-> s, cursor |-> n] /\ s \in 1..MaxSessions
    BY <1>2, <1>3, <2>1 DEF Sessions
  <2>4. /\ client' \in [Clients -> Callers] /\ client'[c] = NoClient
        /\ \A d \in Clients \ {c} : client'[d] = client[d]
    BY <2>1, EndFacts DEF IInv, Types
  <2>5. /\ life' \in [Sessions -> {"unborn", "prepared", "live", "retiring", "stuck", "gone"}]
        /\ init' \in [Sessions -> {"none", "pending", "ready", "failed"}]
        /\ sent' \in [Sessions -> Nat]
        /\ life'[s] = "live" /\ sent'[s] = l
        /\ \A t \in Sessions \ {s} : life'[t] = life[t] /\ init'[t] = init[t] /\ sent'[t] = sent[t]
    <3>1. init' \in [Sessions -> {"none", "pending", "ready", "failed"}]
          /\ \A t \in Sessions \ {s} : init'[t] = init[t]
      BY <1>3, <2>1 DEF IInv, Types
    <3> QED BY <1>3, <2>1, <2>2, <3>1 DEF IInv, Types
  <2>6. PICK b : b = l
    OBVIOUS
  <2>7. PICK a : a = n
    OBVIOUS
  <2> DEFINE o == Operation("seed", s, a, b)
  <2>8. /\ o \in Operations /\ o.op = "seed" /\ o.who = s /\ o.to = b
    BY <1>3, <2>2, <2>6, <2>7 DEF Operation, Operations, SessionOps
  <2>9. \/ init'[s] = "pending" /\ Chained(o)
        \/ init'[s] = "ready" /\ UNCHANGED chain
    BY <1>3, <2>1, <2>6, <2>7 DEF IInv, Types
  <2> HIDE DEF o, l, n
  <2>10. Once' /\ chain' \in Seq(Operations) /\ Ops \subseteq Ops' /\ Ops' \subseteq Ops \cup {o}
         /\ (o \in Ops' => init'[s] = "pending")
    <3>1. CASE init'[s] = "ready" /\ UNCHANGED chain
      <4>1. Ops' = Ops /\ o \notin Ops
        BY <1>3, <2>8, <3>1 DEF Ops, SessionOps
      <4> QED BY <3>1, <4>1 DEF IInv, Types, Once
    <3>2. CASE init'[s] = "pending" /\ Chained(o)
      <4>1. \A p \in Ops : p.who = o.who => ~ (\/ o.op \in ClientOps /\ p.op \in ClientOps
                                               \/ o.op \in SessionOps /\ p.op \in SessionOps
                                               \/ o.op = "load" /\ p.op = "load")
        BY <1>3, <2>8 DEF ClientOps
      <4>2. Once'
        BY <2>8, <3>2, <4>1, OnceGrows DEF IInv, Types
      <4>3. Ops' = Ops \cup {o} /\ chain' \in Seq(Operations)
        BY <2>8, <3>2, ChainGrows DEF IInv, Types
      <4> QED BY <3>2, <4>2, <4>3
    <3> QED BY <2>9, <3>1, <3>2
  <2>11. Types'
    <3>0. begun' \in BOOLEAN
      BY <2>1, Zenon DEF IInv, Types
    <3>1. state' \in [owner : 0..MaxSessions, cursor : Nat]
      BY <2>2, <2>3, PersistenceBounds
    <3>2. store' \in Logs /\ log' \in [Sessions -> Logs]
      BY <2>1 DEF IInv, Types
    <3> QED BY <2>1, <2>4, <2>5, <2>10, <3>0, <3>1, <3>2 DEF Types
  <2>12. BegunFits'
    BY <1>2, <2>1 DEF BegunFits
  <2>13. OpsFit'
    <3>1. ASSUME NEW p \in Ops  PROVE OpFits(p)'
      <4>1. /\ p \in Operations /\ OpFits(p) /\ p.op \notin SessionOps /\ p.op \notin {"append", "seed"}
            /\ p.op \in ClientOps => p.who \in Clients \ {c}
        BY <1>1, <1>3, OpFacts, CalmFacts DEF SessionOps
      <4>2. p.op = "load" => entry'.key # p.who
        BY <2>1, OpFacts, NoEntryFacts
      <4> QED BY <2>1, <2>4, <4>1, <4>2, OpKeeps
    <3>2. ASSUME o \in Ops'  PROVE OpFits(o)'
      <4>1. Attached(s)' /\ o.op \notin ClientOps /\ b = Len(log'[s])
        BY <2>1, <2>5, <2>6, <2>8 DEF Attached, ClientOps, l
      <4>2. b \in Nat /\ store' # <<>> /\ state'.owner = s
        BY <1>3, <2>1, <2>2, <2>3, <2>6
      <4> QED BY <2>8, <2>10, <3>2, <4>1, <4>2 DEF OpFits
    <3> QED BY <2>10, <3>1, <3>2 DEF OpsFit
  <2>14. ClientsFit'
    <3>1. ClientFits(c)'
      BY <2>4, NoClientFacts DEF ClientFits
    <3>2. ASSUME NEW d \in Clients \ {c}  PROVE ClientFits(d)'
      BY <1>2, <2>4, <2>10, ClientKeeps DEF IInv, ClientsFit
    <3> QED BY <3>1, <3>2 DEF ClientsFit
  <2>15. EntryFits'
    <3>1. \A t \in Sessions : life'[t] # "prepared"
      BY <1>3, <2>5
    <3> QED BY <2>1, <3>1, NoEntryFacts DEF EntryFits
  <2>16. HolderFits'
    <3>1. \A d \in Clients : ~Holding(d)' /\ client'[d].pc \notin {"committed", "reserved"}
      BY <1>2, <2>1, <2>4, NoClientFacts DEF Holding
    <3> QED BY <2>1, <3>1, NoEntryFacts DEF HolderFits
  <2>17. PublicIsAlone'
    <3>1. \A d \in Clients : client'[d].kind # "append"
      BY <1>1, <2>4, NoClientFacts DEF IInv, PublicIsAlone
    <3> QED BY <3>1 DEF PublicIsAlone
  <2>18. OwnerFits'
    <3>1. IsPrefix(store, log[s])
      <4>1. store \in Seq(0..MaxSessions) /\ s \in 0..MaxSessions
        BY <2>3, PersistenceBounds DEF IInv, Types, Logs
      <4>2. IsPrefix(store, store) /\ IsPrefix(store, Append(store, s))
        BY <4>1, PrefixFacts
      <4> QED BY <1>3, <4>2
    <3>2. state'.owner = s /\ state'.cursor = Len(store') /\ state'.owner # Nobody
      BY <2>1, <2>3 DEF Nobody, n
    <3>3. \A t \in Sessions : Attached(t)' => t = s
      BY <1>3, <2>5 DEF Attached
    <3>4. \A t \in Sessions : sent'[t] <= Len(log'[t]) /\ (life'[t] \in {"unborn", "prepared"} => sent'[t] = 0)
      BY <2>1, <2>2, <2>5 DEF IInv, OwnerFits, l
    <3> QED BY <2>1, <2>5, <3>1, <3>2, <3>3, <3>4 DEF OwnerFits
  <2>19. LiveIsLatest'
    <3>1. \A p \in Ops' : p.op # "created"
      BY <1>3, <2>8, <2>10 DEF SessionOps
    <3>2. \A i \in DOMAIN chain' : chain'[i] \in Ops'
      BY DEF Ops
    <3> QED BY <3>1, <3>2 DEF LiveIsLatest
  <2> QED BY <2>10, <2>11, <2>12, <2>13, <2>14, <2>15, <2>16, <2>17, <2>18, <2>19 DEF IInv
<1>5. CASE RemoveEntry /\ End(c) /\ UNCHANGED <<store, chain, begun, state, init, sent>>
  BY <1>1, <1>2, <1>5, RemovalBy
<1> QED BY <1>4, <1>5 DEF Publish

-----------------------------------------------------------------------------
(***************************************************************************)
(* The chain: the first operation is served.                               *)
(***************************************************************************)
\* What serving does to the chain, and what is known of the operation.
LEMMA ServedFacts ==
    ASSUME IInv, chain # <<>>, Served,
           \A s \in Sessions : life'[s] = "live" => life[s] = "live"
    PROVE  /\ chain' \in Seq(Operations) /\ begun' \in BOOLEAN /\ ~begun'
           /\ Head(chain) \in Ops /\ Head(chain) = chain[1] /\ 1 \in DOMAIN chain
           /\ Ops' = Ops \ {Head(chain)} /\ Once' /\ BegunFits' /\ LiveIsLatest'
           /\ \A o \in Ops' : o.who = Head(chain).who =>
                 ~ (\/ o.op \in ClientOps /\ Head(chain).op \in ClientOps
                    \/ o.op \in SessionOps /\ Head(chain).op \in SessionOps
                    \/ o.op = "load" /\ Head(chain).op = "load")
<1>1. chain \in Seq(Operations) /\ Once /\ LiveIsLatest /\ chain' = Tail(chain) /\ ~begun' /\ begun' \in BOOLEAN
  BY DEF IInv, Types, Served
<1>2. /\ chain' \in Seq(Operations) /\ Head(chain) \in Ops /\ Head(chain) = chain[1]
      /\ Ops' = Ops \ {Head(chain)} /\ Once'
  BY <1>1, ChainShrinks
<1>3. BegunFits'
  BY <1>1 DEF BegunFits
<1>4. LiveIsLatest'
  BY <1>1, LatestShrinks
<1>5. \A o \in Ops' : o.who = Head(chain).who =>
                 ~ (\/ o.op \in ClientOps /\ Head(chain).op \in ClientOps
                    \/ o.op \in SessionOps /\ Head(chain).op \in SessionOps
                    \/ o.op = "load" /\ Head(chain).op = "load")
  BY <1>1, <1>2 DEF Once
<1>6. 1 \in DOMAIN chain
  BY <1>1
<1> QED BY <1>1, <1>2, <1>3, <1>4, <1>5, <1>6

\* Operations whose callers and sessions have not moved.
LEMMA OpsKeep ==
    ASSUME IInv, Ops' \subseteq Ops, store # <<>> => store' # <<>>,
           \A o \in Ops' :
              /\ o.op \in ClientOps => /\ client'[o.who].pc = client[o.who].pc
                                       /\ client'[o.who].kind = client[o.who].kind
              /\ o.op = "load" => (entry'.key = o.who => entry'.phase = "loading")
              /\ o.op \in SessionOps => /\ life'[o.who] = life[o.who] /\ init'[o.who] = init[o.who]
                                        /\ sent'[o.who] = sent[o.who] /\ log'[o.who] = log[o.who]
              /\ o.op \in {"append", "seed"} => state'.owner = state.owner
    PROVE  OpsFit'
<1> SUFFICES ASSUME NEW o \in Ops'  PROVE OpFits(o)'
  BY DEF OpsFit
<1>1. o \in Operations /\ OpFits(o)
  BY OpFacts
<1> QED BY <1>1, OpKeeps

\* A client whose view only has changed.
LEMMA ClientSees ==
    ASSUME NEW c \in Clients, ClientFits(c),
           client'[c].pc = client[c].pc, client'[c].kind = client[c].kind, client'[c].key = client[c].key,
           client[c].pc = "idle" => client'[c] = client[c],
           \A o \in Ops : o.op \in ClientOps /\ o.who = c => o \in Ops',
           client[c].pc \in {"committed", "reserved"} => entry'.key = entry.key
    PROVE  ClientFits(c)'
BY DEF ClientFits, Mine, ClientOps

\* An entry that is being loaded has no holder and no Session, nor has any session been published.
LEMMA LoadingFacts ==
    ASSUME IInv, entry.phase = "loading"
    PROVE  /\ entry # NoEntry /\ entry.session = 0
           /\ \A d \in Clients : ~Holding(d) /\ client[d].pc \notin {"committed", "reserved"}
           /\ \A s \in Sessions : ~Attached(s) /\ life[s] # "prepared"
           /\ \A o \in Ops : o.op \notin SessionOps
<1>1. entry # NoEntry
  BY NoEntryFacts
<1>2. \A d \in Clients : ~Holding(d)
  BY DEF IInv, HolderFits
<1>3. \A d \in Clients : client[d].pc \notin {"committed", "reserved"}
  BY HolderIsAlone
<1>4. entry.session = 0 /\ \A s \in Sessions : ~Attached(s) /\ life[s] # "prepared"
  BY <1>1, PersistenceBounds DEF IInv, EntryFits, Sessions
<1>5. \A o \in Ops : o.op \notin SessionOps
  BY <1>4, OpFacts DEF OpFits
<1> QED BY <1>1, <1>2, <1>3, <1>4, <1>5

\* A load is served: the entry is ready, or gone, or another one by now.
LEMMA LoadStep ==
    ASSUME IInv, Load
    PROVE  IInv'
<1>0. PICK k : k = Who
  OBVIOUS
<1>1. /\ chain # <<>> /\ Served /\ Head(chain).op = "load" /\ Head(chain).who = k
      /\ UNCHANGED <<store, state, init, sent>> /\ Head(chain) \in Ops
      /\ client \in [Clients -> Callers]
  BY <1>0, ChainShrinks DEF Load, NextIs, Who, IInv, Types, Served
<1>2. k \in Nat \ {0} /\ (entry.key = k => entry.phase = "loading")
  BY <1>1, OpFacts DEF OpFits
<1>3. ASSUME \A s \in Sessions : life'[s] = "live" => life[s] = "live"
      PROVE  /\ chain' \in Seq(Operations) /\ begun' \in BOOLEAN /\ ~begun'
             /\ Once' /\ BegunFits' /\ LiveIsLatest' /\ Ops' \subseteq Ops
             /\ \A o \in Ops' : o.op = "load" => o.who # k
             /\ \A o \in Ops : o \in Ops' \/ (o.op = "load" /\ o.who = k)
  <2>1. /\ chain' \in Seq(Operations) /\ begun' \in BOOLEAN /\ ~begun'
        /\ Ops' = Ops \ {Head(chain)} /\ Once' /\ BegunFits' /\ LiveIsLatest'
        /\ \A o \in Ops' : o.who = Head(chain).who =>
                 ~ (\/ o.op \in ClientOps /\ Head(chain).op \in ClientOps
                    \/ o.op \in SessionOps /\ Head(chain).op \in SessionOps
                    \/ o.op = "load" /\ Head(chain).op = "load")
    BY <1>1, <1>3, ServedFacts
  <2> QED BY <1>1, <2>1
<1>4. CASE /\ entry.key = k /\ store # <<>> /\ Unborn # {}
           /\ entry' = [entry EXCEPT !.phase = "ready", !.session = Fresh, !.base = store]
           /\ life' = [life EXCEPT ![Fresh] = "prepared"]
           /\ log' = [log EXCEPT ![Fresh] = store \o Closers(store)]
           /\ client' = [d \in Clients |-> IF client[d].key = k THEN [client[d] EXCEPT !.view = store]
                                                                 ELSE client[d]]
  <2>0. PICK f : f = Fresh
    OBVIOUS
  <2>1. f \in Sessions /\ life[f] = "unborn"
    BY <1>4, <2>0, FreshIsUnborn
  <2>2. /\ entry # NoEntry /\ entry.session = 0 /\ entry.phase = "loading"
        /\ \A d \in Clients : ~Holding(d) /\ client[d].pc \notin {"committed", "reserved"}
        /\ \A s \in Sessions : ~Attached(s) /\ life[s] # "prepared"
        /\ \A o \in Ops : o.op \notin SessionOps
    BY <1>2, <1>4, LoadingFacts
  <2>3. /\ life' \in [Sessions -> {"unborn", "prepared", "live", "retiring", "stuck", "gone"}]
        /\ life'[f] = "prepared" /\ \A t \in Sessions \ {f} : life'[t] = life[t]
    BY <1>4, <2>0, <2>1 DEF IInv, Types
  <2>4. store \in Logs /\ store \o Closers(store) \in Logs
    BY ClosersClose DEF IInv, Types
  <2>5. /\ log' \in [Sessions -> Logs]
        /\ log'[f] = store \o Closers(store) /\ \A t \in Sessions \ {f} : log'[t] = log[t]
    BY <1>4, <2>0, <2>1, <2>4 DEF IInv, Types
  <2>6. /\ entry'.phase = "ready" /\ entry'.key = k /\ entry'.session = f /\ entry'.base = store
        /\ entry' # NoEntry
        /\ entry' \in [phase : {"loading", "ready", "committing", "reserved"},
                       key : Nat \ {0}, session : 0..MaxSessions, base : Logs]
    <3>1. entry \in [phase : {"loading", "ready", "committing", "reserved"},
                     key : Nat \ {0}, session : 0..MaxSessions, base : Logs]
      BY <2>2 DEF IInv, Types
    <3>2. f \in 0..MaxSessions
      BY <2>1, PersistenceBounds DEF Sessions
    <3>3. /\ entry'.phase = "ready" /\ entry'.key = k /\ entry'.session = f /\ entry'.base = store
          /\ entry' \in [phase : {"loading", "ready", "committing", "reserved"},
                         key : Nat \ {0}, session : 0..MaxSessions, base : Logs]
      BY <1>4, <2>0, <2>4, <3>1, <3>2
    <3> QED BY <3>3, NoEntryFacts
  <2>7. /\ client' \in [Clients -> Callers]
        /\ \A d \in Clients : /\ client'[d].pc = client[d].pc /\ client'[d].kind = client[d].kind
                              /\ client'[d].key = client[d].key
                              /\ client[d].key # k => client'[d] = client[d]
    <3>1. \A r \in Callers : LET v == [r EXCEPT !.view = store]
                             IN  v \in Callers /\ v.pc = r.pc /\ v.kind = r.kind /\ v.key = r.key
      BY <2>4 DEF Callers
    <3> QED BY <1>1, <1>4, <3>1
  <2>8. /\ chain' \in Seq(Operations) /\ begun' \in BOOLEAN /\ ~begun'
        /\ Once' /\ BegunFits' /\ LiveIsLatest' /\ Ops' \subseteq Ops
        /\ \A o \in Ops' : o.op = "load" => o.who # k
        /\ \A o \in Ops : o \in Ops' \/ (o.op = "load" /\ o.who = k)
    BY <1>3, <2>3
  <2>9. Types'
    BY <1>1, <2>3, <2>5, <2>6, <2>7, <2>8 DEF IInv, Types
  <2>10. OpsFit'
    <3>1. \A o \in Ops' : /\ o.op \in ClientOps => o.who \in Clients
                          /\ o.op \notin SessionOps /\ o.op \notin {"append", "seed"}
      BY <2>2, <2>8, OpFacts DEF SessionOps
    <3> QED BY <1>1, <2>6, <2>7, <2>8, <3>1, OpsKeep
  <2>11. ClientsFit'
    <3> SUFFICES ASSUME NEW d \in Clients  PROVE ClientFits(d)'
      BY DEF ClientsFit
    <3>1. client[d].pc = "idle" => client'[d] = client[d]
      BY <1>2, <2>7, NoClientFacts DEF IInv, ClientsFit, ClientFits
    <3>2. \A o \in Ops : o.op \in ClientOps /\ o.who = d => o \in Ops'
      BY <2>8 DEF ClientOps
    <3> QED BY <2>2, <2>7, <3>1, <3>2, ClientSees DEF IInv, ClientsFit
  <2>12. EntryFits'
    <3>1. \A t \in Sessions : ~Attached(t)' /\ (life'[t] = "prepared" => t = f)
      BY <2>2, <2>3 DEF Attached
    <3>2. log'[entry'.session] = entry'.base \o Closers(entry'.base)
      BY <2>5, <2>6
    <3> QED BY <1>4, <2>1, <2>3, <2>6, <3>1, <3>2 DEF EntryFits, Closers
  <2>13. HolderFits'
    <3>1. \A d \in Clients : ~Holding(d)' /\ client'[d].pc \notin {"committed", "reserved"}
      BY <1>4, <2>2, <2>6, <2>7 DEF Holding, Mine
    <3> QED BY <2>6, <3>1 DEF HolderFits
  <2>14. PublicIsAlone'
    BY <2>3, <2>7 DEF IInv, PublicIsAlone
  <2>15. OwnerFits'
    <3>1. state.owner > Nobody => state.owner \in Sessions \ {f}
      BY <2>1, PersistenceBounds DEF IInv, Types, OwnerFits, NoState, Nobody, Sessions
    <3>2. state.owner > Nobody => life'[state.owner] \in {"live", "retiring", "stuck"}
                                 /\ IsPrefix(store, log'[state.owner])
      BY <2>3, <2>5, <3>1 DEF IInv, OwnerFits
    <3>3. \A t \in Sessions : sent[t] <= Len(log'[t]) /\ (life'[t] \in {"unborn", "prepared"} => sent[t] = 0)
      <4>1. sent[f] = 0 /\ Len(log'[f]) \in Nat
        BY <2>1, <2>5 DEF IInv, OwnerFits, Logs
      <4> QED BY <2>3, <2>5, <4>1 DEF IInv, OwnerFits
    <3>4. \A t \in Sessions : ~Attached(t)'
      BY <2>2, <2>3 DEF Attached
    <3> QED BY <1>1, <3>2, <3>3, <3>4 DEF IInv, OwnerFits
  <2> QED BY <2>8, <2>9, <2>10, <2>11, <2>12, <2>13, <2>14, <2>15 DEF IInv
<1>5. CASE /\ entry.key = k /\ entry' = NoEntry
           /\ client' = [d \in Clients |-> IF client[d].key = k /\ client[d].pc = "awaiting"
                                           THEN NoClient ELSE client[d]]
           /\ UNCHANGED <<life, log>>
  <2>1. /\ entry.session = 0
        /\ \A d \in Clients : ~Holding(d) /\ client[d].pc \notin {"committed", "reserved"}
        /\ \A s \in Sessions : ~Attached(s) /\ life[s] # "prepared"
        /\ \A o \in Ops : o.op \notin SessionOps
    BY <1>2, <1>5, LoadingFacts
  <2>2. /\ chain' \in Seq(Operations) /\ begun' \in BOOLEAN /\ ~begun'
        /\ Once' /\ BegunFits' /\ LiveIsLatest' /\ Ops' \subseteq Ops
        /\ \A o \in Ops' : o.op = "load" => o.who # k
        /\ \A o \in Ops : o \in Ops' \/ (o.op = "load" /\ o.who = k)
    BY <1>3, <1>5
  <2>3. /\ client' \in [Clients -> Callers]
        /\ \A d \in Clients : client'[d] = client[d] \/ (client[d].pc = "awaiting" /\ client'[d] = NoClient)
    BY <1>1, <1>5, NoClientFacts
  <2>4. Types'
    BY <1>1, <1>5, <2>2, <2>3 DEF IInv, Types
  <2>5. OpsFit'
    <3>1. \A o \in Ops' : o.op \in ClientOps => o.who \in Clients /\ client'[o.who] = client[o.who]
      <4> SUFFICES ASSUME NEW o \in Ops', o.op \in ClientOps
                   PROVE  o.who \in Clients /\ client'[o.who] = client[o.who]
        OBVIOUS
      <4>1. o \in Ops /\ o.who \in Clients
        BY <2>2, OpFacts
      <4>2. client[o.who].pc # "awaiting"
        BY <4>1, CalmFacts DEF Calm
      <4> QED BY <2>3, <4>1, <4>2
    <3>2. \A o \in Ops' : o.op \notin SessionOps /\ o.op \notin {"append", "seed"}
      BY <2>1, <2>2 DEF SessionOps
    <3>3. \A o \in Ops' : o.op = "load" => entry'.key # o.who
      BY <1>5, <2>2, OpFacts, NoEntryFacts
    <3> QED BY <1>1, <2>2, <3>1, <3>2, <3>3, OpsKeep
  <2>6. ClientsFit'
    <3> SUFFICES ASSUME NEW d \in Clients  PROVE ClientFits(d)'
      BY DEF ClientsFit
    <3>1. CASE client'[d] = client[d]
      <4>1. \A o \in Ops : o.op \in ClientOps /\ o.who = d => o \in Ops'
        BY <2>2 DEF ClientOps
      <4> QED BY <2>1, <3>1, <4>1, ClientKeeps DEF IInv, ClientsFit
    <3>2. CASE client'[d] = NoClient
      BY <3>2, NoClientFacts DEF ClientFits
    <3> QED BY <2>3, <3>1, <3>2
  <2>7. EntryFits'
    BY <1>5, <2>1, NoEntryFacts DEF EntryFits
  <2>8. HolderFits'
    <3>1. \A d \in Clients : ~Holding(d)' /\ client'[d].pc \notin {"committed", "reserved"}
      BY <1>5, <2>1, <2>3, NoClientFacts DEF Holding
    <3> QED BY <1>5, <3>1, NoEntryFacts DEF HolderFits
  <2>9. PublicIsAlone'
    BY <1>5, <2>3, NoClientFacts DEF IInv, PublicIsAlone
  <2>10. OwnerFits'
    BY <1>1, <1>5 DEF IInv, OwnerFits, Attached, Unsent
  <2> QED BY <2>2, <2>4, <2>5, <2>6, <2>7, <2>8, <2>9, <2>10 DEF IInv
<1>6. CASE entry.key # k /\ UNCHANGED <<entry, life, log, client>>
  <2>1. /\ chain' \in Seq(Operations) /\ begun' \in BOOLEAN /\ ~begun'
        /\ Once' /\ BegunFits' /\ LiveIsLatest' /\ Ops' \subseteq Ops
        /\ \A o \in Ops : o \in Ops' \/ (o.op = "load" /\ o.who = k)
    BY <1>3, <1>6
  <2>2. Types'
    BY <1>1, <1>6, <2>1 DEF IInv, Types
  <2>3. OpsFit'
    <3>1. \A o \in Ops' : o.op = "load" => (entry'.key = o.who => entry'.phase = "loading")
      BY <1>6, <2>1, OpFacts DEF OpFits
    <3> QED BY <1>1, <1>6, <2>1, <3>1, OpsKeep
  <2>4. ClientsFit'
    <3>1. \A d \in Clients : \A o \in Ops : o.op \in ClientOps /\ o.who = d => o \in Ops'
      BY <2>1 DEF ClientOps
    <3> QED BY <1>6, <3>1, ClientKeeps DEF IInv, ClientsFit
  <2>5. EntryFits'
    BY <1>6, <2>1 DEF IInv, EntryFits, Attached
  <2>6. HolderFits'
    BY <1>1, <1>6, <2>1, HoldersStay
  <2>7. PublicIsAlone'
    BY <1>6 DEF IInv, PublicIsAlone
  <2>8. OwnerFits'
    BY <1>1, <1>6 DEF IInv, OwnerFits, Attached, Unsent
  <2> QED BY <2>1, <2>2, <2>3, <2>4, <2>5, <2>6, <2>7, <2>8 DEF IInv
<1> QED BY <1>0, <1>4, <1>5, <1>6 DEF Load

\* An operation of a client is its only one.
LEMMA ClientServed ==
    ASSUME IInv, chain # <<>>, Served, Head(chain).op \in ClientOps,
           \A s \in Sessions : life'[s] = "live" => life[s] = "live"
    PROVE  /\ Head(chain) \in Ops /\ Who \in Clients /\ OpFits(Head(chain))
           /\ Ops' \subseteq Ops /\ \A o \in Ops' : o.op \in ClientOps => o.who # Who
           /\ \A d \in Clients \ {Who} : \A o \in Ops : o.op \in ClientOps /\ o.who = d => o \in Ops'
           /\ \A o \in Ops : o.op \notin ClientOps => o \in Ops'
<1>1. Head(chain) \in Ops /\ Ops' = Ops \ {Head(chain)}
  BY ServedFacts
<1>2. \A o \in Ops' : o.op \in ClientOps => o.who # Who
  BY ServedFacts DEF Who
<1>3. Who \in Clients /\ OpFits(Head(chain))
  BY <1>1, OpFacts DEF Who
<1> QED BY <1>1, <1>2, <1>3 DEF Who

\* A check of a view is served.
LEMMA CheckStep ==
    ASSUME IInv, Check
    PROVE  IInv'
<1>0. PICK c : c = Who
  OBVIOUS
<1>1. /\ chain # <<>> /\ Served /\ Head(chain).op = "check" /\ Head(chain).who = c
      /\ UNCHANGED <<store, state, entry, log, life, init, sent>>
      /\ client \in [Clients -> Callers]
      /\ End(c) \/ Goto(c, "checked")
  BY <1>0 DEF Check, NextIs, Who, IInv, Types, sessions
<1>2. /\ chain' \in Seq(Operations) /\ begun' \in BOOLEAN /\ ~begun'
      /\ Once' /\ BegunFits' /\ LiveIsLatest'
  BY <1>1, ServedFacts
<1>3. /\ c \in Clients /\ OpFits(Head(chain)) /\ Ops' \subseteq Ops
      /\ \A o \in Ops' : o.op \in ClientOps => o.who # c
      /\ \A d \in Clients \ {c} : \A o \in Ops : o.op \in ClientOps /\ o.who = d => o \in Ops'
      /\ \A o \in Ops : o.op \notin ClientOps => o \in Ops'
  <2>1. Head(chain).op \in ClientOps
    BY <1>1 DEF ClientOps
  <2> QED BY <1>0, <1>1, <2>1, ClientServed
<1>4. client[c].pc = "checking" /\ client[c].kind = "inspect"
  BY <1>1, <1>3 DEF OpFits
<1>5. /\ client' \in [Clients -> Callers] /\ \A d \in Clients \ {c} : client'[d] = client[d]
      /\ \/ client'[c] = NoClient
         \/ client'[c].pc = "checked" /\ client'[c].kind = "inspect" /\ client'[c].key = client[c].key
  BY <1>1, <1>3, <1>4, EndFacts, GotoFacts DEF Pcs
<1>6. Types'
  BY <1>1, <1>2, <1>5 DEF IInv, Types
<1>7. OpsFit'
  <2>1. \A o \in Ops' : /\ o.op \in ClientOps => o.who \in Clients \ {c}
                        /\ o.op = "load" => (entry'.key = o.who => entry'.phase = "loading")
    BY <1>1, <1>3, OpFacts DEF OpFits
  <2> QED BY <1>1, <1>3, <1>5, <2>1, OpsKeep
<1>8. ClientsFit'
  <2>1. ClientFits(c)'
    BY <1>4, <1>5, NoClientFacts, <1>3 DEF IInv, ClientsFit, ClientFits
  <2>2. ASSUME NEW d \in Clients \ {c}  PROVE ClientFits(d)'
    BY <1>1, <1>3, <1>5, ClientKeeps DEF IInv, ClientsFit
  <2> QED BY <2>1, <2>2 DEF ClientsFit
<1>9. EntryFits'
  <2>1. entry.phase = "loading" => \E o \in Ops' : o.op = "load" /\ o.who = entry.key
    BY <1>3 DEF IInv, EntryFits, ClientOps
  <2> QED BY <1>1, <2>1 DEF IInv, EntryFits, Attached, Closers
<1>10. HolderFits'
  <2>1. ~Holding(c) /\ ~Holding(c)' /\ client'[c].pc \notin {"committed", "reserved"}
    BY <1>4, <1>5, NoClientFacts DEF Holding
  <2> QED BY <1>1, <1>2, <1>5, <2>1, HoldersStay
<1>11. PublicIsAlone'
  BY <1>1, <1>4, <1>5, NoClientFacts DEF IInv, PublicIsAlone
<1>12. OwnerFits'
  BY <1>1 DEF IInv, OwnerFits, Attached, Unsent
<1> QED BY <1>2, <1>6, <1>7, <1>8, <1>9, <1>10, <1>11, <1>12 DEF IInv

\* The operation of a session that is attached: it is the only one of its kind.
LEMMA SessionServed ==
    ASSUME IInv, chain # <<>>, Served, Head(chain).op \in SessionOps,
           \A s \in Sessions : life'[s] = "live" => life[s] = "live"
    PROVE  /\ Head(chain) \in Ops /\ Head(chain) \in Operations /\ Who \in Sessions /\ Attached(Who)
           /\ OpFits(Head(chain))
           /\ Ops' \subseteq Ops /\ \A o \in Ops' : o.op \in SessionOps => o.who \in Sessions \ {Who}
           /\ \A o \in Ops : o.op \notin SessionOps => o \in Ops'
           /\ entry = NoEntry /\ \A c \in Clients : client[c].kind # "append"
           /\ \A c \in Clients : ~Holding(c) /\ client[c].pc \notin {"committed", "reserved"}
<1>1. Head(chain) \in Ops /\ Ops' = Ops \ {Head(chain)}
  BY ServedFacts
<1>2. \A o \in Ops' : o.op \in SessionOps => o.who # Who
  BY ServedFacts DEF Who
<1>3. Who \in Sessions /\ OpFits(Head(chain)) /\ Attached(Who) /\ Head(chain) \in Operations
  BY <1>1, OpFacts DEF Who, OpFits
<1>4. entry = NoEntry /\ \A c \in Clients : client[c].kind # "append"
  BY <1>3, AttachedIsAlone
<1>5. \A c \in Clients : ~Holding(c) /\ client[c].pc \notin {"committed", "reserved"}
  BY <1>4, HolderIsAlone DEF Holding
<1>6. \A o \in Ops' : o.op \in SessionOps => o.who \in Sessions
  BY <1>1, OpFacts
<1> QED BY <1>1, <1>2, <1>3, <1>4, <1>5, <1>6

\* What the operations of sessions leave alone.
LEMMA SessionServes ==
    ASSUME IInv, chain # <<>>, Served, Head(chain).op \in SessionOps,
           \A s \in Sessions : life'[s] = "live" => life[s] = "live",
           UNCHANGED <<entry, client>>,
           \A t \in Sessions : life'[t] = "prepared" => life[t] = "prepared"
    PROVE  ClientsFit' /\ EntryFits' /\ HolderFits' /\ PublicIsAlone'
<1>1. /\ \A o \in Ops : o.op \notin SessionOps => o \in Ops'
      /\ entry = NoEntry /\ \A c \in Clients : client[c].kind # "append"
      /\ \A c \in Clients : ~Holding(c) /\ client[c].pc \notin {"committed", "reserved"}
  BY SessionServed
<1>2. ClientsFit'
  <2>1. \A d \in Clients : \A o \in Ops : o.op \in ClientOps /\ o.who = d => o \in Ops'
    BY <1>1 DEF ClientOps, SessionOps
  <2> QED BY <2>1, ClientKeeps DEF IInv, ClientsFit
<1>3. EntryFits'
  BY <1>1, NoEntryFacts DEF IInv, EntryFits
<1>4. HolderFits'
  <2>1. \A d \in Clients : ~Holding(d)'
    BY <1>1 DEF Holding
  <2> QED BY <1>1, <2>1, NoEntryFacts DEF HolderFits
<1>5. PublicIsAlone'
  BY <1>1 DEF PublicIsAlone
<1> QED BY <1>2, <1>3, <1>4, <1>5

\* The creation of a session is served: it owns the id, or has failed.
LEMMA CreatedStep ==
    ASSUME IInv, Created
    PROVE  IInv'
<1>0. PICK s : s = Who
  OBVIOUS
<1>1. /\ chain # <<>> /\ Served /\ Head(chain).op = "created" /\ Head(chain).who = s
      /\ UNCHANGED <<store, entry, log, life, sent, client>>
  BY <1>0 DEF Created, NextIs, Who
<1>2. Head(chain).op \in SessionOps
  BY <1>1 DEF SessionOps
<1>3. /\ chain' \in Seq(Operations) /\ begun' \in BOOLEAN /\ ~begun'
      /\ Once' /\ BegunFits' /\ LiveIsLatest' /\ Head(chain) = chain[1] /\ 1 \in DOMAIN chain
  BY <1>1, ServedFacts
<1>4. /\ s \in Sessions /\ Attached(s) /\ OpFits(Head(chain)) /\ Ops' \subseteq Ops
      /\ \A o \in Ops' : o.op \in SessionOps => o.who \in Sessions \ {s}
      /\ entry = NoEntry
  BY <1>0, <1>1, <1>2, SessionServed
<1>5. init[s] = "pending"
  BY <1>1, <1>4 DEF OpFits
<1>6. ClientsFit' /\ EntryFits' /\ HolderFits' /\ PublicIsAlone'
  BY <1>1, <1>2, SessionServes
<1>7. CASE /\ store = <<>> /\ (state = NoState \/ Abandoned)
           /\ state' = [owner |-> s, cursor |-> 0] /\ init' = [init EXCEPT ![s] = "ready"]
  <2>1. /\ init' \in [Sessions -> {"none", "pending", "ready", "failed"}] /\ init'[s] = "ready"
        /\ \A t \in Sessions \ {s} : init'[t] = init[t]
    BY <1>4, <1>7 DEF IInv, Types
  <2>2. state' \in [owner : 0..MaxSessions, cursor : Nat] /\ state'.owner = s /\ state'.cursor = 0
        /\ s > Nobody /\ s # Nobody
    BY <1>4, <1>7, PersistenceBounds DEF Sessions, Nobody
  <2>3. Types'
    BY <1>1, <1>3, <2>1, <2>2 DEF IInv, Types
  <2>4. \A o \in Ops : o.op \notin {"append", "seed"}
    <3> SUFFICES ASSUME NEW o \in Ops, o.op \in {"append", "seed"}  PROVE FALSE
      OBVIOUS
    <3>1. o.who \in Sessions /\ state.owner = o.who /\ o.op # "seed"
      BY <1>7, OpFacts DEF OpFits, SessionOps
    <3>2. state # NoState
      BY <3>1, PersistenceBounds DEF Sessions, NoState
    <3>3. ~Writing(o.who)
      BY <1>7, <3>1, <3>2 DEF Abandoned
    <3> QED BY <3>1, <3>3 DEF Writing, Ops
  <2>5. OpsFit'
    <3>1. \A o \in Ops' : o.op = "load" => (entry'.key = o.who => entry'.phase = "loading")
      BY <1>1, <1>4, OpFacts DEF OpFits
    <3> QED BY <1>1, <1>4, <2>1, <2>4, <3>1, OpsKeep
  <2>6. OwnerFits'
    <3>1. life[s] \in {"live", "retiring", "stuck"} /\ IsPrefix(store, log[s])
      <4>1. log[s] \in Seq(0..MaxSessions)
        BY <1>4 DEF IInv, Types, Logs
      <4>2. IsPrefix(<<>>, log[s])
        BY <4>1, PrefixFacts
      <4> QED BY <1>4, <1>7, <4>2 DEF Attached
    <3>2. \A t \in Sessions : /\ Attached(t)' /\ init'[t] = "ready" /\ (life'[t] = "live" \/ Unsent(t)')
                              => t = s
      <4> SUFFICES ASSUME NEW t \in Sessions, Attached(t)', init'[t] = "ready",
                          life'[t] = "live" \/ Unsent(t)', t # s
                   PROVE  FALSE
        OBVIOUS
      <4>1. init[t] = "ready" /\ Attached(t) /\ (life[t] = "live" \/ Unsent(t))
        BY <1>1, <2>1 DEF Attached, Unsent
      <4>2. state.owner = t /\ state # NoState
        BY <4>1, PersistenceBounds DEF IInv, OwnerFits, Sessions, NoState
      <4>3. ~Unsent(t)
        BY <1>7, <4>2 DEF Abandoned
      <4>4. life[t] = "live" /\ chain[1].op = "created"
        BY <1>1, <1>3, <4>1, <4>3
      <4>5. PICK j \in 1..Len(chain) : chain[j].op = "created" /\ chain[j].who = t
        BY <1>3, <4>4 DEF IInv, LiveIsLatest
      <4>6. chain[j] \in Ops
        BY <4>5 DEF Ops, IInv, Types
      <4>7. init[t] = "pending"
        BY <4>5, <4>6, OpFacts DEF OpFits
      <4> QED BY <4>1, <4>7
    <3>3. Len(store) = 0
      BY <1>7
    <3> QED BY <1>1, <2>2, <3>1, <3>2, <3>3 DEF IInv, OwnerFits
  <2> QED BY <1>3, <1>6, <2>3, <2>5, <2>6 DEF IInv
<1>8. CASE UNCHANGED state /\ init' = [init EXCEPT ![s] = "failed"]
  <2>1. /\ init' \in [Sessions -> {"none", "pending", "ready", "failed"}] /\ init'[s] = "failed"
        /\ \A t \in Sessions \ {s} : init'[t] = init[t]
    BY <1>4, <1>8 DEF IInv, Types
  <2>3. Types'
    BY <1>1, <1>3, <1>8, <2>1 DEF IInv, Types
  <2>5. OpsFit'
    <3>1. \A o \in Ops' : o.op = "load" => (entry'.key = o.who => entry'.phase = "loading")
      BY <1>1, <1>4, OpFacts DEF OpFits
    <3> QED BY <1>1, <1>4, <1>8, <2>1, <3>1, OpsKeep
  <2>6. OwnerFits'
    <3>1. \A t \in Sessions : init'[t] = "ready" => init[t] = "ready"
      BY <2>1
    <3> QED BY <1>1, <1>8, <3>1 DEF IInv, OwnerFits, Attached, Unsent
  <2> QED BY <1>3, <1>6, <2>3, <2>5, <2>6 DEF IInv
<1> QED BY <1>0, <1>7, <1>8 DEF Created

\* A retirement is served.
LEMMA RetiredStep ==
    ASSUME IInv, Retired
    PROVE  IInv'
<1>0. PICK s : s = Who
  OBVIOUS
<1>1. /\ chain # <<>> /\ Served /\ Head(chain).op = "retire" /\ Head(chain).who = s
      /\ life' = [life EXCEPT ![s] = "gone"]
      /\ state' = IF state.owner = s THEN NoState ELSE state
      /\ UNCHANGED <<store, entry, log, init, sent, client>>
  BY <1>0 DEF Retired, NextIs, Who
<1>2. Head(chain).op \in SessionOps
  BY <1>1 DEF SessionOps
<1>3. \A t \in Sessions : life'[t] = life[t] \/ life'[t] = "gone"
  BY <1>1 DEF IInv, Types
<1>4. /\ chain' \in Seq(Operations) /\ begun' \in BOOLEAN /\ ~begun'
      /\ Once' /\ BegunFits' /\ LiveIsLatest'
  BY <1>1, <1>3, ServedFacts
<1>5. /\ s \in Sessions /\ Attached(s) /\ Ops' \subseteq Ops
      /\ \A o \in Ops' : o.op \in SessionOps => o.who \in Sessions \ {s}
      /\ entry = NoEntry
  BY <1>0, <1>1, <1>2, <1>3, SessionServed
<1>6. /\ life' \in [Sessions -> {"unborn", "prepared", "live", "retiring", "stuck", "gone"}]
      /\ life'[s] = "gone" /\ \A t \in Sessions \ {s} : life'[t] = life[t]
  BY <1>1, <1>5 DEF IInv, Types
<1>7. ClientsFit' /\ EntryFits' /\ HolderFits' /\ PublicIsAlone'
  BY <1>1, <1>2, <1>3, SessionServes
<1>8. Types'
  BY <1>1, <1>4, <1>6 DEF IInv, Types
<1>9. OpsFit'
  <2>1. \A o \in Ops' : o.op = "load" => (entry'.key = o.who => entry'.phase = "loading")
    BY <1>1, <1>5, OpFacts DEF OpFits
  <2>2. \A o \in Ops' : o.op \in {"append", "seed"} => state'.owner = state.owner
    <3>1. \A o \in Ops' : o.op \in {"append", "seed"} => state.owner = o.who /\ o.who # s
      BY <1>5, OpFacts DEF OpFits, SessionOps
    <3> QED BY <1>1, <3>1
  <2> QED BY <1>1, <1>5, <1>6, <2>1, <2>2, OpsKeep
<1>10. OwnerFits'
  <2>1. \A t \in Sessions : /\ Attached(t)' /\ init'[t] = "ready" /\ (life'[t] = "live" \/ Unsent(t)')
                            => state.owner = t /\ t # s
    BY <1>1, <1>6 DEF IInv, OwnerFits, Attached, Unsent
  <2>2. \A t \in Sessions : sent[t] <= Len(log[t]) /\ (life'[t] \in {"unborn", "prepared"} => sent[t] = 0)
    BY <1>6 DEF IInv, OwnerFits
  <2>3. CASE state.owner = s
    <3>1. state' = NoState /\ state'.owner = -1 /\ ~(state'.owner > Nobody) /\ state'.owner # Nobody
      BY <1>1, <2>3 DEF NoState, Nobody
    <3> QED BY <1>1, <2>1, <2>2, <2>3, <3>1 DEF OwnerFits
  <2>4. CASE state.owner # s
    <3>1. state.owner > Nobody => state.owner \in Sessions \ {s}
      BY <2>4, PersistenceBounds DEF IInv, Types, NoState, Nobody, Sessions
    <3> QED BY <1>1, <1>6, <2>1, <2>2, <2>4, <3>1 DEF IInv, OwnerFits
  <2> QED BY <2>3, <2>4
<1> QED BY <1>4, <1>7, <1>8, <1>9, <1>10 DEF IInv

\* What remains of the bookkeeping when the entry's Session goes and nobody is attached, or the
\* owner has not changed.
LEMMA RemovalOwner ==
    ASSUME IInv, RemoveEntry, UNCHANGED <<state, init, sent>>,
           state # NoState => state.cursor = Len(store'),
           state.owner = Nobody => Len(store') % 2 = 0,
           state.owner > Nobody => store' = store
    PROVE  OwnerFits'
<1>1. /\ \A s \in Sessions : life[s] # "prepared" => life'[s] = life[s] /\ log'[s] = log[s]
      /\ \A s \in Sessions : life[s] = "prepared" => life'[s] = "unborn" /\ log'[s] = <<>>
  BY RemoveFacts DEF IInv
<1>2. state.owner > Nobody => life'[state.owner] \in {"live", "retiring", "stuck"}
                               /\ IsPrefix(store', log'[state.owner])
  <2>1. state.owner > Nobody => state.owner \in Sessions
    BY PersistenceBounds DEF IInv, Types, NoState, Nobody, Sessions
  <2> QED BY <1>1, <2>1 DEF IInv, OwnerFits
<1>3. \A s \in Sessions : Attached(s)' /\ init[s] = "ready" /\ (life'[s] = "live" \/ Unsent(s)')
                             => state.owner = s
  BY <1>1 DEF IInv, OwnerFits, Attached, Unsent
<1>4. \A s \in Sessions : sent[s] <= Len(log'[s]) /\ (life'[s] \in {"unborn", "prepared"} => sent[s] = 0)
  BY <1>1 DEF IInv, OwnerFits
<1> QED BY <1>2, <1>3, <1>4 DEF OwnerFits

\* A commit is served: committed, repaired and begun again, or given up.
LEMMA CommitStep ==
    ASSUME IInv, Commit
    PROVE  IInv'
<1>0. PICK c : c = Who
  OBVIOUS
<1>1. /\ chain # <<>> /\ Served /\ Head(chain).op = "commit" /\ Head(chain).who = c
      /\ UNCHANGED <<init, sent>> /\ Head(chain).op \in ClientOps
      /\ client \in [Clients -> Callers] /\ store \in Logs
  BY <1>0 DEF Commit, NextIs, Who, IInv, Types, ClientOps
<1>2. /\ entry.key \in Nat /\ (entry = NoEntry <=> entry.key = 0)
      /\ entry # NoEntry => entry.phase \in {"loading", "ready", "committing", "reserved"}
      /\ NoEntry.phase = "none"
  BY NoEntryFacts DEF IInv
<1>3. ASSUME \A s \in Sessions : life'[s] = "live" => life[s] = "live"
      PROVE  /\ chain' \in Seq(Operations) /\ begun' \in BOOLEAN /\ ~begun'
             /\ Once' /\ BegunFits' /\ LiveIsLatest' /\ Ops' \subseteq Ops
             /\ \A o \in Ops' : o.op \in ClientOps => o.who # c
             /\ \A d \in Clients \ {c} : \A o \in Ops : o.op \in ClientOps /\ o.who = d => o \in Ops'
             /\ \A o \in Ops : o.op \notin ClientOps => o \in Ops'
  BY <1>0, <1>1, <1>3, ServedFacts, ClientServed
<1>4. c \in Clients /\ client[c].pc = "committing" /\ client[c].kind \in {"prepare", "load"}
  <2>1. Head(chain) \in Ops
    BY <1>1, ChainShrinks DEF Served, IInv, Types
  <2> QED BY <1>1, <2>1, OpFacts DEF OpFits
<1>5. client[c].key # 0
  BY <1>4 DEF IInv, ClientsFit, ClientFits
<1>6. client[c].key = entry.key =>
          /\ Holding(c) /\ entry # NoEntry /\ entry.phase = "committing"
          /\ \A d \in Clients \ {c} : ~Holding(d)
          /\ \A d \in Clients : client[d].pc \notin {"committed", "reserved"}
  <2> SUFFICES ASSUME client[c].key = entry.key
               PROVE  /\ Holding(c) /\ entry # NoEntry /\ entry.phase = "committing"
                      /\ \A d \in Clients \ {c} : ~Holding(d)
                      /\ \A d \in Clients : client[d].pc \notin {"committed", "reserved"}
    OBVIOUS
  <2>1. Holding(c)
    BY <1>2, <1>4, <1>5 DEF Holding, Mine
  <2>2. \A d \in Clients \ {c} : ~Holding(d)
    BY <1>4, <2>1 DEF IInv, HolderFits
  <2>3. \A d \in Clients : client[d].pc \notin {"committed", "reserved"}
    BY <1>4, <2>2, HolderIsAlone
  <2> QED BY <1>2, <1>4, <1>5, <2>1, <2>2, <2>3 DEF IInv, HolderFits
\* The entry goes, and whoever wanted it ends or begins again.
<1>7. CASE /\ RemoveEntry /\ UNCHANGED state /\ client[c].key = entry.key
           /\ End(c) \/ Goto(c, "start")
           /\ store' = store \/ (store' = Repaired(store) /\ state.owner <= Nobody)
  <2>1. /\ entry' = NoEntry
        /\ life' \in [Sessions -> {"unborn", "prepared", "live", "retiring", "stuck", "gone"}]
        /\ log' \in [Sessions -> Logs]
        /\ \A s \in Sessions : life'[s] = "live" => life[s] = "live"
    BY <1>7, RemoveFacts DEF IInv
  <2>2. /\ chain' \in Seq(Operations) /\ begun' \in BOOLEAN /\ ~begun'
        /\ Once' /\ BegunFits' /\ LiveIsLatest' /\ Ops' \subseteq Ops
        /\ \A o \in Ops' : o.op \in ClientOps => o.who # c
        /\ \A d \in Clients \ {c} : \A o \in Ops : o.op \in ClientOps /\ o.who = d => o \in Ops'
    BY <1>3, <2>1
  <2>3. /\ client' \in [Clients -> Callers] /\ \A d \in Clients \ {c} : client'[d] = client[d]
        /\ \/ client'[c] = NoClient
           \/ client'[c].pc = "start" /\ client'[c].kind = client[c].kind
    BY <1>1, <1>4, <1>7, EndFacts, GotoFacts DEF Pcs
  <2>4. ClientFits(c)'
    BY <1>4, <2>3, NoClientFacts DEF ClientFits
  <2>5. \A d \in Clients : Settles(d)
    BY <1>4, <1>6, <1>7, <2>2, <2>3, <2>4, NoClientFacts DEF Settles
  <2>6. store' \in Logs /\ (store # <<>> => store' # <<>>)
    BY <1>1, <1>7, ClosersClose
  <2>7. OpsFit' /\ ClientsFit' /\ EntryFits' /\ HolderFits' /\ PublicIsAlone'
    BY <1>1, <1>7, <2>2, <2>3, <2>5, <2>6, RemovalKeeps
  <2>8. Types'
    BY <1>1, <1>7, <2>1, <2>2, <2>3, <2>6 DEF IInv, Types
  <2>9. OwnerFits'
    <3>1. CASE store' = store
      BY <1>1, <1>7, <3>1, RemovalOwner DEF IInv, OwnerFits
    <3>2. CASE store' # store
      <4>1. store' = Repaired(store) /\ state.owner <= Nobody
        BY <1>7, <3>2
      <4>2. Closers(store) # <<>>
        BY <1>1, <3>2, <4>1, ClosersClose DEF Repaired
      <4>3. state = NoState
        <5>1. state.owner # Nobody
          BY <1>1, <4>2, ClosersClose DEF IInv, OwnerFits
        <5>2. state \in {NoState} \cup [owner : 0..MaxSessions, cursor : Nat]
          BY DEF IInv, Types
        <5> QED BY <4>1, <5>1, <5>2, PersistenceBounds DEF Nobody
      <4>4. ~(state.owner > Nobody) /\ state.owner # Nobody
        BY <4>3 DEF NoState, Nobody
      <4> QED BY <1>1, <1>7, <4>3, <4>4, RemovalOwner
    <3> QED BY <3>1, <3>2
  <2> QED BY <2>2, <2>7, <2>8, <2>9 DEF IInv
\* The entry is another one by now.
<1>8. CASE /\ client[c].key # entry.key /\ UNCHANGED <<store, state, entry, life, log>>
           /\ End(c) \/ Goto(c, "start")
  <2>2. /\ chain' \in Seq(Operations) /\ begun' \in BOOLEAN /\ ~begun'
        /\ Once' /\ BegunFits' /\ LiveIsLatest' /\ Ops' \subseteq Ops
        /\ \A o \in Ops' : o.op \in ClientOps => o.who # c
        /\ \A d \in Clients \ {c} : \A o \in Ops : o.op \in ClientOps /\ o.who = d => o \in Ops'
        /\ \A o \in Ops : o.op \notin ClientOps => o \in Ops'
    BY <1>3, <1>8
  <2>3. /\ client' \in [Clients -> Callers] /\ \A d \in Clients \ {c} : client'[d] = client[d]
        /\ \/ client'[c] = NoClient
           \/ client'[c].pc = "start" /\ client'[c].kind = client[c].kind
    BY <1>1, <1>4, <1>8, EndFacts, GotoFacts DEF Pcs
  <2>4. ClientsFit'
    <3>1. ClientFits(c)'
      BY <1>4, <2>3, NoClientFacts DEF ClientFits
    <3>2. ASSUME NEW d \in Clients \ {c}  PROVE ClientFits(d)'
      BY <1>8, <2>2, <2>3, ClientKeeps DEF IInv, ClientsFit
    <3> QED BY <3>1, <3>2 DEF ClientsFit
  <2>5. OpsFit'
    <3>1. \A o \in Ops' : /\ o.op \in ClientOps => o.who \in Clients \ {c}
                          /\ o.op = "load" => (entry'.key = o.who => entry'.phase = "loading")
      BY <1>8, <2>2, OpFacts DEF OpFits
    <3> QED BY <1>1, <1>8, <2>2, <2>3, <3>1, OpsKeep
  <2>6. EntryFits'
    <3>1. entry.phase = "loading" => \E o \in Ops' : o.op = "load" /\ o.who = entry.key
      BY <2>2 DEF IInv, EntryFits, ClientOps
    <3> QED BY <1>8, <3>1 DEF IInv, EntryFits, Attached, Closers
  <2>7. HolderFits'
    <3>1. ~Holding(c) /\ ~Holding(c)' /\ client'[c].pc \notin {"committed", "reserved"}
      BY <1>8, <2>3, NoClientFacts DEF Holding, Mine
    <3> QED BY <1>8, <2>2, <2>3, <3>1, HoldersStay
  <2>8. PublicIsAlone'
    BY <1>4, <1>8, <2>3, NoClientFacts DEF IInv, PublicIsAlone
  <2>9. OwnerFits'
    BY <1>1, <1>8 DEF IInv, OwnerFits, Attached, Unsent
  <2>10. Types'
    BY <1>1, <1>8, <2>2, <2>3 DEF IInv, Types
  <2> QED BY <2>2, <2>4, <2>5, <2>6, <2>7, <2>8, <2>9, <2>10 DEF IInv
\* The prepared log is current and closed: it is committed.
<1>9. CASE /\ client[c].key = entry.key /\ entry.base = store /\ Closers(store) = <<>>
           /\ state' = [owner |-> Nobody, cursor |-> Len(store)]
           /\ Goto(c, "committed") /\ UNCHANGED <<store, entry, life, log>>
  <2>1. /\ Holding(c) /\ entry # NoEntry /\ entry.phase = "committing"
        /\ \A d \in Clients \ {c} : ~Holding(d)
        /\ \A d \in Clients : client[d].pc \notin {"committed", "reserved"}
    BY <1>6, <1>9
  <2>2. /\ chain' \in Seq(Operations) /\ begun' \in BOOLEAN /\ ~begun'
        /\ Once' /\ BegunFits' /\ LiveIsLatest' /\ Ops' \subseteq Ops
        /\ \A o \in Ops' : o.op \in ClientOps => o.who # c
        /\ \A d \in Clients \ {c} : \A o \in Ops : o.op \in ClientOps /\ o.who = d => o \in Ops'
        /\ \A o \in Ops : o.op \notin ClientOps => o \in Ops'
    BY <1>3, <1>9
  <2>3. /\ client' \in [Clients -> Callers] /\ \A d \in Clients \ {c} : client'[d] = client[d]
        /\ client'[c].pc = "committed" /\ client'[c].kind = client[c].kind /\ client'[c].key = client[c].key
    BY <1>1, <1>4, <1>9, GotoFacts DEF Pcs
  <2>4. \A s \in Sessions : ~Attached(s)
    BY <2>1 DEF IInv, EntryFits
  <2>5. \A o \in Ops : o.op \notin SessionOps /\ o.op \notin {"append", "seed"}
    BY <2>4, OpFacts DEF OpFits, SessionOps
  <2>6. ClientsFit'
    <3>1. ClientFits(c)'
      BY <1>4, <1>5, <1>9, <2>3 DEF ClientFits, Mine
    <3>2. ASSUME NEW d \in Clients \ {c}  PROVE ClientFits(d)'
      BY <1>9, <2>2, <2>3, ClientKeeps DEF IInv, ClientsFit
    <3> QED BY <3>1, <3>2 DEF ClientsFit
  <2>7. OpsFit'
    <3>1. \A o \in Ops' : /\ o.op \in ClientOps => o.who \in Clients \ {c}
                          /\ o.op = "load" => (entry'.key = o.who => entry'.phase = "loading")
                          /\ o.op \notin SessionOps /\ o.op \notin {"append", "seed"}
      BY <1>9, <2>2, <2>5, OpFacts DEF OpFits
    <3> QED BY <1>1, <1>9, <2>2, <2>3, <3>1, OpsKeep
  <2>8. EntryFits'
    <3>1. entry.phase = "loading" => \E o \in Ops' : o.op = "load" /\ o.who = entry.key
      BY <2>2 DEF IInv, EntryFits, ClientOps
    <3> QED BY <1>9, <3>1 DEF IInv, EntryFits, Attached, Closers
  <2>9. HolderFits'
    <3>1. Holding(c)' /\ \A d \in Clients \ {c} : ~Holding(d)'
      BY <1>9, <2>1, <2>3 DEF Holding, Mine
    <3>2. Closers(store)' = <<>>
      BY <1>9 DEF Closers
    <3>3. \A d \in Clients : Holding(d)' => d = c
      BY <3>1
    <3>4. entry'.phase = "committing" /\ client'[c].pc = "committed"
      BY <1>9, <2>1, <2>3
    <3>5. /\ entry'.base = store' /\ ~begun' /\ state' = [owner |-> Nobody, cursor |-> Len(store')]
      BY <1>9, <2>2
    <3> QED BY <1>4, <3>1, <3>2, <3>3, <3>4, <3>5 DEF HolderFits
  <2>10. PublicIsAlone'
    BY <1>9, <2>3 DEF IInv, PublicIsAlone
  <2>11. OwnerFits'
    <3>1. state'.owner = Nobody /\ ~(state'.owner > Nobody) /\ state'.cursor = Len(store') /\ Len(store') % 2 = 0
      BY <1>1, <1>9, ClosersClose DEF Nobody
    <3>2. \A s \in Sessions : ~Attached(s)'
      BY <1>9, <2>4 DEF Attached
    <3> QED BY <1>1, <1>9, <3>1, <3>2 DEF IInv, OwnerFits
  <2>12. Types'
    <3>1. state' \in [owner : 0..MaxSessions, cursor : Nat]
      BY <1>1, <1>9, PersistenceBounds DEF Nobody, Logs
    <3> QED BY <1>1, <1>9, <2>2, <2>3, <3>1 DEF IInv, Types
  <2> QED BY <2>2, <2>6, <2>7, <2>8, <2>9, <2>10, <2>11, <2>12 DEF IInv
<1>10. CASE state.owner > Nobody \/ client[c].key # entry.key
  <2>1. CASE client[c].key = entry.key
    <3>0. state.owner > Nobody /\ ~(state.owner <= Nobody)
      BY <1>10, <2>1, PersistenceBounds DEF IInv, Types, NoState, Nobody
    <3>1. /\ RemoveEntry /\ UNCHANGED <<store, state>> /\ (End(c) \/ Goto(c, "start"))
      BY <1>0, <2>1, <3>0 DEF Commit, GiveUp
    <3> QED BY <1>7, <2>1, <3>1
  <2>2. CASE client[c].key # entry.key
    <3>1. UNCHANGED <<store, state, entry, life, log>> /\ (End(c) \/ Goto(c, "start"))
      BY <1>0, <2>2 DEF Commit
    <3> QED BY <1>8, <2>2, <3>1
  <2> QED BY <2>1, <2>2
<1>11. CASE state.owner <= Nobody /\ client[c].key = entry.key
  <2>0. ~(state.owner > Nobody)
    BY <1>11, PersistenceBounds DEF IInv, Types, NoState, Nobody
  <2>1. IF entry.base = store /\ Closers(store) = <<>>
        THEN /\ state' = [owner |-> Nobody, cursor |-> Len(store)]
             /\ Goto(c, "committed") /\ UNCHANGED <<store, entry, life, log>>
        ELSE /\ store' = IF entry.base = store THEN Repaired(store) ELSE store
             /\ RemoveEntry /\ Goto(c, "start") /\ UNCHANGED state
    BY <1>0, <1>11, <2>0 DEF Commit
  <2> QED BY <1>7, <1>9, <1>11, <2>1
<1>12. state.owner > Nobody \/ state.owner <= Nobody
  BY PersistenceBounds DEF IInv, Types, NoState, Nobody
<1> QED BY <1>10, <1>11, <1>12

-----------------------------------------------------------------------------
(***************************************************************************)
(* The chain: appends.                                                     *)
(***************************************************************************)
\* An append from outside: its caller is the only writer.
LEMMA PublicServed ==
    ASSUME IInv, chain # <<>>, Served, Head(chain).op = "public", NEW c, c = Who, End(c),
           \A s \in Sessions : life'[s] = "live" => life[s] = "live"
    PROVE  /\ c \in Clients /\ client' \in [Clients -> Callers] /\ client'[c] = NoClient
           /\ \A d \in Clients \ {c} : client'[d] = client[d]
           /\ Ops' \subseteq Ops /\ \A o \in Ops' : o.op \in ClientOps => o.who # c
           /\ \A d \in Clients \ {c} : \A o \in Ops : o.op \in ClientOps /\ o.who = d => o \in Ops'
           /\ \A o \in Ops : o.op \notin ClientOps => o \in Ops'
           /\ ~Holding(c) /\ ~Holding(c)' /\ ClientFits(c)'
           /\ \A s \in Sessions : life[s] \in {"unborn", "prepared", "gone"}
           /\ Head(chain) \in Operations /\ Head(chain).to = Head(chain).from + BatchSize
           /\ Head(chain).to <= MaxLog
<1>1. Head(chain).op \in ClientOps
  BY DEF ClientOps
<1>2. /\ Head(chain) \in Ops /\ c \in Clients /\ OpFits(Head(chain)) /\ Ops' \subseteq Ops
      /\ \A o \in Ops' : o.op \in ClientOps => o.who # c
      /\ \A d \in Clients \ {c} : \A o \in Ops : o.op \in ClientOps /\ o.who = d => o \in Ops'
      /\ \A o \in Ops : o.op \notin ClientOps => o \in Ops'
  BY <1>1, ClientServed
<1>3. /\ client' \in [Clients -> Callers] /\ client'[c] = NoClient
      /\ \A d \in Clients \ {c} : client'[d] = client[d]
  BY <1>2, EndFacts DEF IInv, Types
<1>4. client[c].kind = "append" /\ Head(chain).to = Head(chain).from + BatchSize /\ Head(chain).to <= MaxLog
  BY <1>2 DEF OpFits, Who
<1>5. client[c].key = 0
  BY <1>2, <1>4 DEF IInv, ClientsFit, ClientFits
<1>6. ~Holding(c) /\ ~Holding(c)'
  BY <1>3, <1>5, NoEntryFacts, NoClientFacts DEF Holding, Mine, IInv
<1>7. ClientFits(c)'
  BY <1>3, NoClientFacts DEF ClientFits
<1>8. \A s \in Sessions : life[s] \in {"unborn", "prepared", "gone"}
  BY <1>2, <1>4 DEF IInv, PublicIsAlone
<1> QED BY <1>2, <1>3, <1>4, <1>6, <1>7, <1>8, OpFacts

\* An append is refused.
LEMMA RefusedStep ==
    ASSUME IInv, chain # <<>>, Head(chain).op \in Appends, Refused
    PROVE  IInv'
<1>0. PICK w : w = Who
  OBVIOUS
<1>1. /\ Served /\ UNCHANGED <<store, state, entry, log>>
      /\ sent' = IF Head(chain).op = "append" THEN [sent EXCEPT ![w] = Head(chain).from] ELSE sent
      /\ life' = IF Head(chain).op = "append" /\ life[w] = "retiring"
                 THEN [life EXCEPT ![w] = "stuck"] ELSE life
      /\ init' = IF Head(chain).op = "seed" THEN [init EXCEPT ![w] = "failed"] ELSE init
      /\ IF Head(chain).op = "public" THEN End(w) ELSE UNCHANGED client
  BY <1>0 DEF Refused, Who
<1>2. \A t \in Sessions : life'[t] = life[t] \/ (life'[t] = "stuck" /\ life[t] = "retiring")
  BY <1>1 DEF IInv, Types
<1>3. /\ chain' \in Seq(Operations) /\ begun' \in BOOLEAN /\ ~begun'
      /\ Once' /\ BegunFits' /\ LiveIsLatest'
  BY <1>1, <1>2, ServedFacts
<1>4. CASE Head(chain).op = "public"
  <2>1. UNCHANGED <<store, state, entry, log, sent, life, init>> /\ End(w)
    BY <1>1, <1>4
  <2>2. /\ w \in Clients /\ client' \in [Clients -> Callers] /\ client'[w] = NoClient
        /\ \A d \in Clients \ {w} : client'[d] = client[d]
        /\ Ops' \subseteq Ops /\ \A o \in Ops' : o.op \in ClientOps => o.who # w
        /\ \A d \in Clients \ {w} : \A o \in Ops : o.op \in ClientOps /\ o.who = d => o \in Ops'
        /\ \A o \in Ops : o.op \notin ClientOps => o \in Ops'
        /\ ~Holding(w) /\ ~Holding(w)' /\ ClientFits(w)'
    BY <1>0, <1>1, <1>2, <1>4, PublicServed
  <2>3. ClientsFit'
    <3>1. ASSUME NEW d \in Clients \ {w}  PROVE ClientFits(d)'
      BY <2>1, <2>2, ClientKeeps DEF IInv, ClientsFit
    <3> QED BY <2>2, <3>1 DEF ClientsFit
  <2>4. OpsFit'
    <3>1. \A o \in Ops' : /\ o.op \in ClientOps => o.who \in Clients \ {w}
                          /\ o.op = "load" => (entry'.key = o.who => entry'.phase = "loading")
      BY <2>1, <2>2, OpFacts DEF OpFits
    <3> QED BY <2>1, <2>2, <3>1, OpsKeep
  <2>5. EntryFits'
    <3>1. entry.phase = "loading" => \E o \in Ops' : o.op = "load" /\ o.who = entry.key
      BY <2>2 DEF IInv, EntryFits, ClientOps
    <3> QED BY <2>1, <3>1 DEF IInv, EntryFits, Attached, Closers
  <2>6. HolderFits'
    BY <1>3, <2>1, <2>2, NoClientFacts, HoldersStay
  <2>7. PublicIsAlone'
    BY <2>1, <2>2, NoClientFacts DEF IInv, PublicIsAlone
  <2>8. OwnerFits'
    BY <2>1 DEF IInv, OwnerFits, Attached, Unsent
  <2>9. Types'
    BY <1>3, <2>1, <2>2 DEF IInv, Types
  <2> QED BY <1>3, <2>3, <2>4, <2>5, <2>6, <2>7, <2>8, <2>9 DEF IInv
<1>5. CASE Head(chain).op \in {"append", "seed"}
  <2>1. Head(chain).op \in SessionOps /\ UNCHANGED client
    BY <1>1, <1>5 DEF SessionOps
  <2>2. /\ w \in Sessions /\ Attached(w) /\ OpFits(Head(chain)) /\ Head(chain) \in Operations /\ Ops' \subseteq Ops
        /\ \A o \in Ops' : o.op \in SessionOps => o.who \in Sessions \ {w}
        /\ entry = NoEntry
    BY <1>0, <1>1, <1>2, <2>1, SessionServed
  <2>3. ClientsFit' /\ EntryFits' /\ HolderFits' /\ PublicIsAlone'
    BY <1>1, <1>2, <2>1, SessionServes
  <2>4. Head(chain).from \in Nat
    BY <2>2 DEF Operations
  <2>5. /\ life' \in [Sessions -> {"unborn", "prepared", "live", "retiring", "stuck", "gone"}]
        /\ init' \in [Sessions -> {"none", "pending", "ready", "failed"}]
        /\ sent' \in [Sessions -> Nat]
        /\ \A t \in Sessions \ {w} : life'[t] = life[t] /\ init'[t] = init[t] /\ sent'[t] = sent[t]
    <3>1. life' \in [Sessions -> {"unborn", "prepared", "live", "retiring", "stuck", "gone"}]
          /\ \A t \in Sessions \ {w} : life'[t] = life[t]
      BY <1>1 DEF IInv, Types
    <3>2. init' \in [Sessions -> {"none", "pending", "ready", "failed"}]
          /\ \A t \in Sessions \ {w} : init'[t] = init[t]
      BY <1>1 DEF IInv, Types
    <3>3. sent' \in [Sessions -> Nat] /\ \A t \in Sessions \ {w} : sent'[t] = sent[t]
      BY <1>1, <2>4 DEF IInv, Types
    <3> QED BY <3>1, <3>2, <3>3
  <2>6. Types'
    BY <1>1, <1>3, <2>1, <2>5 DEF IInv, Types
  <2>7. OpsFit'
    <3>1. \A o \in Ops' : o.op = "load" => (entry'.key = o.who => entry'.phase = "loading")
      BY <1>1, <2>2, OpFacts DEF OpFits
    <3> QED BY <1>1, <2>1, <2>2, <2>5, <3>1, OpsKeep
  <2>8. OwnerFits'
    <3>1. state.owner = w
      BY <1>0, <1>5, <2>2 DEF OpFits, Who
    <3>2. life'[w] \in {"live", "retiring", "stuck"}
      BY <1>2, <2>2 DEF Attached
    <3>3. sent'[w] <= Len(log[w]) /\ life'[w] \notin {"unborn", "prepared"}
      <4>1. CASE Head(chain).op = "append"
        <5>1. /\ sent'[w] = Head(chain).from /\ Head(chain).from <= Head(chain).to /\ Head(chain).to <= Len(log[w])
          BY <1>0, <1>1, <2>2, <4>1 DEF OpFits, Who, IInv, Types
        <5>2. Head(chain).from \in Nat /\ Head(chain).to \in Nat /\ Len(log[w]) \in Nat
          BY <2>2, <4>1 DEF Operations, IInv, Types, Logs
        <5> QED BY <3>2, <5>1, <5>2
      <4>2. CASE Head(chain).op = "seed"
        BY <1>1, <2>2, <3>2, <4>2 DEF IInv, OwnerFits
      <4> QED BY <1>5, <4>1, <4>2
    <3>4. \A t \in Sessions : sent'[t] <= Len(log[t]) /\ (life'[t] \in {"unborn", "prepared"} => sent'[t] = 0)
      BY <2>5, <3>3 DEF IInv, OwnerFits
    <3>5. \A t \in Sessions : /\ Attached(t)' /\ init'[t] = "ready" /\ (life'[t] = "live" \/ Unsent(t)')
                              => state.owner = t
      BY <1>1, <2>5, <3>1 DEF IInv, OwnerFits, Attached, Unsent
    <3> QED BY <1>1, <3>1, <3>2, <3>4, <3>5 DEF IInv, OwnerFits
  <2> QED BY <1>3, <2>3, <2>6, <2>7, <2>8 DEF IInv
<1> QED BY <1>4, <1>5 DEF Appends

\* An id that the backend does not track is adopted, repair included.
LEMMA AdoptStep ==
    ASSUME IInv, Writable, ~begun, state = NoState, store # <<>>,
           store' = Repaired(store), state' = [owner |-> Nobody, cursor |-> Len(store')],
           IF entry.phase = "ready" THEN RemoveEntry ELSE UNCHANGED <<entry, life, log>>,
           UNCHANGED <<chain, begun, init, sent, client>>
    PROVE  IInv'
<1>1. /\ store' \in Logs /\ store' # <<>> /\ Len(store') % 2 = 0 /\ Len(store') \in Nat
  BY ClosersClose DEF IInv, Types, Logs
<1>2. Ops' = Ops /\ Once' /\ ~begun' /\ BegunFits' /\ begun' \in BOOLEAN
  <2>1. begun' \in BOOLEAN
    BY Zenon DEF IInv, Types
  <2> QED BY <2>1 DEF Ops, Once, IInv, BegunFits
<1>3. entry.phase \notin {"committing", "reserved"}
  BY DEF Writable
<1>4. \A d \in Clients : ~Holding(d) /\ client[d].pc \notin {"committed", "reserved"}
  <2>1. \A d \in Clients : client[d].pc \notin {"committed", "reserved"}
    BY <1>3, HolderIsAlone
  <2>2. \A d \in Clients : ~Holding(d)
    BY <1>3 DEF IInv, HolderFits
  <2> QED BY <2>1, <2>2
<1>5. /\ state'.owner = Nobody /\ state'.cursor = Len(store') /\ ~(state'.owner > Nobody)
      /\ state' \in [owner : 0..MaxSessions, cursor : Nat]
  BY <1>1, PersistenceBounds DEF Nobody
<1>6. \A o \in Ops : o.op \notin {"append", "seed"}
  <2>1. \A o \in Ops : o.op \in {"append", "seed"} => o.who \in Sessions /\ state.owner = o.who
    BY OpFacts DEF OpFits, SessionOps
  <2> QED BY <2>1, PersistenceBounds DEF NoState, Sessions
<1>7. \A t \in Sessions : ~ (Attached(t) /\ init[t] = "ready" /\ (life[t] = "live" \/ Unsent(t)))
  BY PersistenceBounds DEF IInv, OwnerFits, NoState, Sessions
<1>8. CASE entry.phase = "ready" /\ RemoveEntry
  <2>1. /\ entry' = NoEntry
        /\ life' \in [Sessions -> {"unborn", "prepared", "live", "retiring", "stuck", "gone"}]
        /\ log' \in [Sessions -> Logs]
        /\ \A s \in Sessions : life[s] # "prepared" => life'[s] = life[s] /\ log'[s] = log[s]
        /\ \A s \in Sessions : life[s] = "prepared" => life'[s] = "unborn" /\ log'[s] = <<>>
    BY <1>8, RemoveFacts DEF IInv
  <2>2. \A d \in Clients : Settles(d)
    BY <1>2, <1>4 DEF Settles
  <2>3. OpsFit' /\ ClientsFit' /\ EntryFits' /\ HolderFits' /\ PublicIsAlone'
    BY <1>1, <1>2, <1>6, <1>8, <2>2, RemovalKeeps DEF IInv, Types
  <2>4. Types'
    BY <1>1, <1>2, <1>5, <2>1 DEF IInv, Types
  <2>5. LiveIsLatest'
    BY <2>1, LatestStays DEF IInv
  <2>6. OwnerFits'
    <3>1. \A t \in Sessions : ~ (Attached(t)' /\ init'[t] = "ready" /\ (life'[t] = "live" \/ Unsent(t)'))
      BY <1>7, <2>1 DEF Attached, Unsent
    <3>2. \A s \in Sessions : sent[s] <= Len(log'[s]) /\ (life'[s] \in {"unborn", "prepared"} => sent[s] = 0)
      BY <2>1 DEF IInv, OwnerFits
    <3> QED BY <1>1, <1>5, <3>1, <3>2 DEF OwnerFits
  <2> QED BY <1>2, <2>3, <2>4, <2>5, <2>6 DEF IInv
<1>9. CASE UNCHANGED <<entry, life, log>>
  <2>1. Types'
    BY <1>1, <1>2, <1>5, <1>9 DEF IInv, Types
  <2>2. OpsFit'
    <3>1. \A o \in Ops' : /\ o.op = "load" => (entry'.key = o.who => entry'.phase = "loading")
                          /\ o.op \notin {"append", "seed"}
      BY <1>2, <1>6, <1>9, OpFacts DEF OpFits
    <3> QED BY <1>1, <1>2, <1>9, <3>1, OpsKeep
  <2>3. ClientsFit'
    BY <1>2, <1>9, ClientKeeps DEF IInv, ClientsFit
  <2>4. EntryFits'
    BY <1>2, <1>9 DEF IInv, EntryFits, Attached
  <2>5. HolderFits'
    <3>1. \A d \in Clients : ~Holding(d)' /\ client'[d].pc \notin {"committed", "reserved"}
      BY <1>4, <1>9 DEF Holding, Mine
    <3> QED BY <1>3, <1>9, <3>1 DEF HolderFits
  <2>6. PublicIsAlone'
    BY <1>9 DEF IInv, PublicIsAlone
  <2>7. LiveIsLatest'
    BY <1>9, LatestStays DEF IInv
  <2>8. OwnerFits'
    <3>1. \A t \in Sessions : ~ (Attached(t)' /\ init'[t] = "ready" /\ (life'[t] = "live" \/ Unsent(t)'))
      BY <1>7, <1>9 DEF Attached, Unsent
    <3> QED BY <1>1, <1>5, <1>9, <3>1 DEF IInv, OwnerFits
  <2> QED BY <1>2, <2>1, <2>2, <2>3, <2>4, <2>5, <2>6, <2>7, <2>8 DEF IInv
<1> QED BY <1>8, <1>9

\* An append passes the checks, is refused, or adopts the log first.
LEMMA BeginAppendStep ==
    ASSUME IInv, BeginAppend
    PROVE  IInv'
<1>1. chain # <<>> /\ Head(chain).op \in Appends /\ ~begun
  BY DEF BeginAppend
<1>2. CASE /\ Writable /\ state # NoState /\ First = state.cursor /\ begun' = TRUE
           /\ UNCHANGED <<store, chain, state, entry, sessions, client>>
  <2>1. UNCHANGED <<store, chain, state, entry, log, life, init, sent, client>> /\ Ops' = Ops
    BY <1>2 DEF sessions, Ops
  <2>2. Types' /\ Once' /\ OpsFit' /\ EntryFits' /\ PublicIsAlone' /\ OwnerFits' /\ LiveIsLatest' /\ ClientsFit'
    <3>1. Types'
      BY <1>2, <2>1 DEF IInv, Types
    <3>2. Once'
      BY <2>1 DEF IInv, Once
    <3>3. OpsFit'
      <4>1. \A o \in Ops' : o.op = "load" => (entry'.key = o.who => entry'.phase = "loading")
        BY <2>1, OpFacts DEF OpFits
      <4> QED BY <2>1, <4>1, OpsKeep
    <3>4. EntryFits'
      BY <2>1 DEF IInv, EntryFits, Attached
    <3>5. PublicIsAlone'
      BY <2>1 DEF IInv, PublicIsAlone
    <3>6. OwnerFits'
      BY <2>1 DEF IInv, OwnerFits, Attached, Unsent
    <3>7. LiveIsLatest'
      BY <2>1, LatestStays DEF IInv
    <3>8. ClientsFit'
      BY <2>1, ClientKeeps DEF IInv, ClientsFit
    <3> QED BY <3>1, <3>2, <3>3, <3>4, <3>5, <3>6, <3>7, <3>8
  <2>3. BegunFits'
    BY <1>1, <1>2, <2>1 DEF BegunFits, First
  <2>4. HolderFits'
    <3>1. \A d \in Clients : ~Holding(d) /\ client[d].pc \notin {"committed", "reserved"}
      <4>1. \A d \in Clients : client[d].pc \notin {"committed", "reserved"}
        BY <1>2, HolderIsAlone DEF Writable
      <4> QED BY <1>2, <4>1 DEF IInv, HolderFits, Writable
    <3>2. \A d \in Clients : ~Holding(d)'
      BY <2>1, <3>1 DEF Holding, Mine
    <3> QED BY <1>2, <2>1, <3>1, <3>2 DEF HolderFits, Writable
  <2> QED BY <2>2, <2>3, <2>4 DEF IInv
<1>3. CASE Refused
  BY <1>1, <1>3, RefusedStep
<1>4. CASE /\ Writable /\ state = NoState /\ store # <<>> /\ store' = Repaired(store)
           /\ state' = [owner |-> Nobody, cursor |-> Len(store')]
           /\ IF entry.phase = "ready" THEN RemoveEntry ELSE UNCHANGED <<entry, life, log>>
           /\ UNCHANGED <<chain, begun, init, sent, client>>
  BY <1>1, <1>4, AdoptStep
<1> QED BY <1>2, <1>3, <1>4 DEF BeginAppend

\* A shorter log fits as well.
LEMMA FitsBelow ==
    ASSUME NEW n, Fits(n), NEW m \in Nat, m <= n
    PROVE  Fits(m)
BY PersistenceBounds DEF Fits

\* What an append has written: it continues the store, and its author's log if that is a session.
LEMMA WrittenContinues ==
    ASSUME BatchSize = 2, IInv, begun, store' = store \o Written
    PROVE  /\ store' \in Logs /\ Len(store') = Len(store) + Len(Written) /\ Len(Written) \in Nat
           /\ Head(chain).op = "public" => Len(Written) = 2
           /\ Head(chain).op \in {"append", "seed"} => IsPrefix(store', log[Who])
<1>1. /\ chain # <<>> /\ Head(chain).op \in Appends /\ state # NoState /\ First = state.cursor
      /\ state.cursor = Len(store)
  BY DEF IInv, BegunFits, OwnerFits
<1>2. Head(chain) \in Ops
  <2>1. chain \in Seq(Operations)
    BY DEF IInv, Types
  <2> QED BY <1>1, <2>1 DEF Ops
<1>3. Head(chain) \in Operations /\ OpFits(Head(chain)) /\ Head(chain).from \in Nat /\ Head(chain).to \in Nat
  BY <1>2, OpFacts DEF Operations
<1>4. store \in Seq(0..MaxSessions) /\ Fits(Len(store)) /\ Len(store) \in Nat
  BY DEF IInv, Types, Logs
<1> DEFINE n == Len(store)
           to == Head(chain).to
<1>5. CASE Head(chain).op = "public"
  <2> DEFINE b == [i \in 1..to |-> Nobody]
             w == SubSeq(b, n + 1, to)
  <2>1. Written = w
    BY <1>1, <1>5 DEF Written
  <2>2. to = n + 2 /\ to <= MaxLog
    <3>1. First = Head(chain).from
      BY <1>5 DEF First
    <3> QED BY <1>1, <1>3, <1>5, <3>1 DEF OpFits
  <2>3. b \in Seq(0..MaxSessions) /\ Len(b) = to
    BY <1>3, PersistenceBounds DEF Nobody
  <2> HIDE DEF b
  <2>4. w \in Seq(0..MaxSessions) /\ Len(w) = 2
    <3>1. ASSUME NEW S, NEW l \in Seq(S), NEW i \in Nat, NEW j \in Nat, j = i + 2, Len(l) = j
          PROVE  SubSeq(l, i + 1, j) \in Seq(S) /\ Len(SubSeq(l, i + 1, j)) = 2
      <4>1. Len(SubSeq(l, i + 1, j)) = 2
        BY <3>1
      <4>2. SubSeq(l, i + 1, j) \in Seq(S)
        BY <3>1
      <4> QED BY <4>1, <4>2
    <3>2. n \in Nat /\ to \in Nat
      BY <1>3, <1>4
    <3> HIDE DEF n, to
    <3> QED BY <2>2, <2>3, <3>1, <3>2
  <2> HIDE DEF w
  <2>5. store \o w \in Seq(0..MaxSessions) /\ Len(store \o w) = n + 2
    <3>1. \A k, l \in Seq(0..MaxSessions) : k \o l \in Seq(0..MaxSessions) /\ Len(k \o l) = Len(k) + Len(l)
      OBVIOUS
    <3> QED BY <1>4, <2>4, <3>1
  <2>6. Fits(n + 2)
    BY <1>4, <2>2 DEF Fits
  <2> QED BY <1>4, <1>5, <2>1, <2>4, <2>5, <2>6 DEF Logs
<1>6. CASE Head(chain).op \in {"append", "seed"}
  <2>1. /\ Who \in Sessions /\ state.owner = Who /\ to <= Len(log[Who])
    BY <1>2, <1>3, <1>6, OpFacts DEF OpFits, Who, SessionOps
  <2> DEFINE t == log[Who]
             w == SubSeq(t, n + 1, to)
  <2>2. Written = w
    BY <1>1, <1>6 DEF Written, Who
  <2>3. t \in Seq(0..MaxSessions) /\ Fits(Len(t)) /\ Len(t) \in Nat
    BY <2>1 DEF IInv, Types, Logs
  <2>4. IsPrefix(store, t)
    <3>1. state.owner > Nobody
      BY <2>1, PersistenceBounds DEF Sessions, Nobody
    <3> QED BY <2>1, <3>1 DEF IInv, OwnerFits
  <2>a. to \in Nat /\ to <= Len(t)
    BY <1>3, <2>1
  <2> HIDE DEF t
  <2>5. w \in Seq(0..MaxSessions) /\ IsPrefix(store \o w, t)
    BY <1>4, <2>3, <2>4, <2>a, PrefixContinues
  <2> HIDE DEF w
  <2>6. store \o w \in Seq(0..MaxSessions) /\ Len(store \o w) = n + Len(w) /\ Len(w) \in Nat
    BY <1>4, <2>5
  <2>7. Len(store \o w) <= Len(t)
    BY <2>3, <2>5, <2>6, PrefixFacts
  <2>8. Fits(Len(store \o w))
    BY <1>4, <2>3, <2>6, <2>7, FitsBelow
  <2> QED BY <1>4, <1>6, <2>2, <2>5, <2>6, <2>8 DEF Logs, t
<1> QED BY <1>1, <1>5, <1>6 DEF Appends

\* An append is stored, or is refused by the store.
LEMMA EndAppendStep ==
    ASSUME BatchSize = 2, IInv, EndAppend
    PROVE  IInv'
<1>1. /\ begun /\ chain # <<>> /\ Head(chain).op \in Appends /\ state # NoState
      /\ state.cursor = Len(store)
  BY DEF EndAppend, IInv, BegunFits, OwnerFits
<1>2. CASE Refused
  BY <1>1, <1>2, RefusedStep
<1>3. CASE ~Refused
  <2>0. PICK w : w = Who
    OBVIOUS
  <2>1. /\ Served /\ store' = store \o Written
        /\ state' = [state EXCEPT !.cursor = @ + Len(Written)] /\ RemoveEntry
        /\ init' = IF Head(chain).op = "seed" THEN [init EXCEPT ![w] = "ready"] ELSE init
        /\ IF Head(chain).op = "public" THEN End(w) ELSE UNCHANGED client
        /\ UNCHANGED sent
    BY <1>3, <2>0 DEF EndAppend, Who
  <2>2. /\ store' \in Logs /\ Len(store') = Len(store) + Len(Written) /\ Len(Written) \in Nat
        /\ Head(chain).op = "public" => Len(Written) = 2
        /\ Head(chain).op \in {"append", "seed"} => IsPrefix(store', log[w])
    BY <1>1, <2>0, <2>1, WrittenContinues
  <2>3. /\ state' \in [owner : 0..MaxSessions, cursor : Nat]
        /\ state'.owner = state.owner /\ state'.cursor = Len(store') /\ state.owner \in 0..MaxSessions
    <3>1. state \in [owner : 0..MaxSessions, cursor : Nat]
      BY <1>1 DEF IInv, Types
    <3> QED BY <1>1, <2>1, <2>2, <3>1
  <2>4. store # <<>> => store' # <<>>
    <3>1. store # <<>> => Len(store) > 0
      BY DEF IInv, Types, Logs
    <3>2. Len(store) \in Nat /\ (store' = <<>> => Len(store') = 0)
      BY DEF IInv, Types, Logs
    <3> QED BY <2>2, <3>1, <3>2
  <2>5. \A d \in Clients : client[d].pc \notin {"committed", "reserved"}
    BY <1>1, HolderIsAlone
  <2>6. /\ entry' = NoEntry
        /\ life' \in [Sessions -> {"unborn", "prepared", "live", "retiring", "stuck", "gone"}]
        /\ log' \in [Sessions -> Logs]
        /\ \A s \in Sessions : life[s] # "prepared" => life'[s] = life[s] /\ log'[s] = log[s]
        /\ \A s \in Sessions : life[s] = "prepared" => life'[s] = "unborn" /\ log'[s] = <<>>
    BY <2>1, RemoveFacts DEF IInv
  <2>7. /\ chain' \in Seq(Operations) /\ begun' \in BOOLEAN /\ ~begun'
        /\ Once' /\ BegunFits' /\ LiveIsLatest'
    BY <1>1, <2>1, <2>6, ServedFacts
  <2>8. \A s \in Sessions : sent[s] <= Len(log'[s]) /\ (life'[s] \in {"unborn", "prepared"} => sent[s] = 0)
    BY <2>6 DEF IInv, OwnerFits
  <2>9. CASE Head(chain).op = "public"
    <3>1. /\ w \in Clients /\ client' \in [Clients -> Callers] /\ client'[w] = NoClient
          /\ \A d \in Clients \ {w} : client'[d] = client[d]
          /\ Ops' \subseteq Ops /\ \A o \in Ops' : o.op \in ClientOps => o.who # w
          /\ \A d \in Clients \ {w} : \A o \in Ops : o.op \in ClientOps /\ o.who = d => o \in Ops'
          /\ ClientFits(w)'
          /\ \A s \in Sessions : life[s] \in {"unborn", "prepared", "gone"}
      BY <1>1, <2>0, <2>1, <2>6, <2>9, PublicServed
    <3>2. UNCHANGED init
      BY <2>1, <2>9
    <3>3. \A d \in Clients : Settles(d)
      BY <2>5, <3>1, NoClientFacts DEF Settles
    <3>4. OpsFit' /\ ClientsFit' /\ EntryFits' /\ HolderFits' /\ PublicIsAlone'
      BY <2>1, <2>3, <2>4, <3>1, <3>2, <3>3, RemovalKeeps
    <3>5. Types'
      BY <2>1, <2>2, <2>3, <2>6, <2>7, <3>1, <3>2 DEF IInv, Types
    <3>6. OwnerFits'
      <4>1. ~(state.owner > Nobody)
        BY <2>3, <3>1, PersistenceBounds DEF IInv, OwnerFits, Nobody, Sessions
      <4>2. state.owner = Nobody => Len(store') % 2 = 0
        <5>1. state.owner = Nobody => Len(store) % 2 = 0
          BY DEF IInv, OwnerFits
        <5>2. \A n \in Nat : n % 2 = 0 => (n + 2) % 2 = 0
          OBVIOUS
        <5>3. Len(store) \in Nat /\ Len(store') = Len(store) + 2
          <6>1. Len(store) \in Nat
            BY DEF IInv, Types, Logs
          <6> QED BY <2>2, <2>9, <6>1
        <5> QED BY <5>1, <5>2, <5>3
      <4>3. \A s \in Sessions : ~Attached(s)'
        BY <2>6, <3>1 DEF Attached
      <4> QED BY <2>1, <2>3, <2>8, <4>1, <4>2, <4>3 DEF OwnerFits
    <3> QED BY <2>7, <3>4, <3>5, <3>6 DEF IInv
  <2>10. CASE Head(chain).op \in {"append", "seed"}
    <3>1. Head(chain).op \in SessionOps /\ UNCHANGED client /\ client \in [Clients -> Callers]
      BY <2>1, <2>10 DEF SessionOps, IInv, Types
    <3>2. /\ w \in Sessions /\ Attached(w) /\ OpFits(Head(chain)) /\ Ops' \subseteq Ops
          /\ \A o \in Ops' : o.op \in SessionOps => o.who \in Sessions \ {w}
          /\ \A o \in Ops : o.op \notin SessionOps => o \in Ops'
      BY <1>1, <2>0, <2>1, <2>6, <3>1, SessionServed
    <3>3. /\ init' \in [Sessions -> {"none", "pending", "ready", "failed"}]
          /\ \A t \in Sessions \ {w} : init'[t] = init[t]
      BY <2>1, <3>2 DEF IInv, Types
    <3>4. \A d \in Clients : Settles(d)
      BY <2>5, <3>1, <3>2 DEF Settles, ClientOps, SessionOps
    <3>5. OpsFit' /\ ClientsFit' /\ EntryFits' /\ HolderFits' /\ PublicIsAlone'
      BY <2>1, <2>3, <2>4, <3>1, <3>2, <3>3, <3>4, RemovalKeeps
    <3>6. Types'
      BY <2>1, <2>2, <2>3, <2>6, <2>7, <3>1, <3>3 DEF IInv, Types
    <3>7. OwnerFits'
      <4>1. state.owner = w /\ state.owner # Nobody
        BY <2>0, <2>10, <3>2, PersistenceBounds DEF OpFits, Who, Sessions, Nobody
      <4>2. life'[w] \in {"live", "retiring", "stuck"} /\ IsPrefix(store', log'[w])
        BY <2>2, <2>6, <2>10, <3>2 DEF Attached
      <4>3. \A t \in Sessions : /\ Attached(t)' /\ init'[t] = "ready" /\ (life'[t] = "live" \/ Unsent(t)')
                                => state.owner = t
        BY <2>1, <2>6, <3>3, <4>1 DEF IInv, OwnerFits, Attached, Unsent
      <4> QED BY <2>1, <2>3, <2>8, <4>1, <4>2, <4>3 DEF OwnerFits
    <3> QED BY <2>7, <3>5, <3>6, <3>7 DEF IInv
  <2> QED BY <1>1, <2>9, <2>10 DEF Appends
<1> QED BY <1>2, <1>3

-----------------------------------------------------------------------------
(***************************************************************************)
(* The theorem.                                                            *)
(***************************************************************************)
\* The invariant holds at the start.
LEMMA InitHolds == Init => IInv
<1> SUFFICES ASSUME Init  PROVE IInv
  OBVIOUS
<1>1. <<>> \in Logs /\ Nobody \in 0..MaxSessions
  BY PersistenceBounds DEF Logs, Fits, Nobody
<1>2. store \in Logs
  <2>1. <<Nobody>> \in Logs
    BY <1>1 DEF Logs, Fits
  <2>2. <<Nobody, Nobody>> \in Logs
    BY <1>1 DEF Logs, Fits
  <2> QED BY <1>1, <2>1, <2>2 DEF Init
<1>3. Ops = {} /\ chain = <<>> /\ chain \in Seq(Operations)
  BY DEF Ops, Init
<1>4. \A c \in Clients : client[c] = NoClient
  BY DEF Init
<1>5. Types
  <2>1. begun \in BOOLEAN
    BY DEF Init
  <2>2. client \in [Clients -> Callers]
    BY NoClientFacts DEF Init
  <2> QED BY <1>1, <1>2, <1>3, <2>1, <2>2 DEF Types, Init
<1>6. Once /\ OpsFit /\ BegunFits /\ LiveIsLatest
  BY <1>3 DEF Once, OpsFit, BegunFits, LiveIsLatest, Init
<1>7. ClientsFit
  BY <1>4, NoClientFacts DEF ClientsFit, ClientFits
<1>8. EntryFits
  BY NoEntryFacts DEF EntryFits, Init
<1>9. HolderFits
  <2>1. \A c \in Clients : ~Holding(c) /\ client[c].pc \notin {"committed", "reserved"}
    BY <1>4, NoClientFacts DEF Holding
  <2> QED BY <2>1, NoEntryFacts DEF HolderFits, Init
<1>10. PublicIsAlone
  BY <1>4, NoClientFacts DEF PublicIsAlone
<1>11. OwnerFits
  <2>1. \A s \in Sessions : life[s] = "unborn" /\ sent[s] = 0 /\ Len(log[s]) = 0
    BY DEF Init
  <2>2. state = NoState /\ state.owner = -1
    BY DEF Init, NoState
  <2> QED BY <2>1, <2>2 DEF OwnerFits, Attached, Nobody
<1> QED BY <1>5, <1>6, <1>7, <1>8, <1>9, <1>10, <1>11 DEF IInv

\* The invariant is about the variables only.
LEMMA StutterHolds == IInv /\ UNCHANGED vars => IInv'
<1> SUFFICES ASSUME IInv, UNCHANGED vars  PROVE IInv'
  OBVIOUS
<1>1. UNCHANGED <<store, chain, begun, state, entry, log, life, init, sent, client>> /\ Ops' = Ops
  BY DEF vars, memory, sessions, Ops
<1>2. Types'
  BY <1>1, Zenon DEF IInv, Types
<1>3. Once'
  BY <1>1 DEF IInv, Once
<1>4. OpsFit'
  <2>1. \A o \in Ops' : o.op = "load" => (entry'.key = o.who => entry'.phase = "loading")
    BY <1>1, OpFacts DEF OpFits
  <2> QED BY <1>1, <2>1, OpsKeep
<1>5. BegunFits'
  BY <1>1 DEF IInv, BegunFits, First
<1>6. ClientsFit'
  BY <1>1, ClientKeeps DEF IInv, ClientsFit
<1>7. EntryFits'
  BY <1>1 DEF IInv, EntryFits, Attached
<1>8. HolderFits'
  BY <1>1, HoldersStay
<1>9. PublicIsAlone'
  BY <1>1 DEF IInv, PublicIsAlone
<1>10. OwnerFits'
  BY <1>1 DEF IInv, OwnerFits, Attached, Unsent
<1>11. LiveIsLatest'
  BY <1>1, LatestStays DEF IInv
<1> QED BY <1>2, <1>3, <1>4, <1>5, <1>6, <1>7, <1>8, <1>9, <1>10, <1>11 DEF IInv

\* Every step keeps the invariant.
LEMMA StepHolds == BatchSize = 2 => (IInv /\ [Next]_vars => IInv')
<1> SUFFICES ASSUME BatchSize = 2, IInv, [Next]_vars  PROVE IInv'
  OBVIOUS
<1>1. ASSUME NEW c \in Clients, NEW kind \in Kinds, Call(c, kind)  PROVE IInv'
  BY <1>1, CallStep
<1>2. ASSUME NEW c \in Clients, NEW from \in KnownLengths, CallAppend(c, from)  PROVE IInv'
  BY <1>2, CallAppendStep
<1>3. ASSUME NEW c \in Clients, Progress(c)  PROVE IInv'
  BY <1>3, EnterStep, ReserveStep, ReservedStep, DiscardLoadedStep, InspectLoadedStep, InspectStaleStep
     DEF Progress
<1>4. ASSUME NEW c \in Clients, Holder(c)  PROVE IInv'
  BY <1>4, SetupStep, PublishStep, ReleaseStep DEF Holder
<1>5. ASSUME NEW s \in Sessions, Session(s)  PROVE IInv'
  BY <1>5, LogEventStep, WriteStep, DisposeStep, DrainedStep, RetireFailsStep DEF Session
<1>6. ASSUME Chain  PROVE IInv'
  BY <1>6, LoadStep, CommitStep, CheckStep, BeginAppendStep, EndAppendStep, CreatedStep, RetiredStep DEF Chain
<1>7. ASSUME UNCHANGED vars  PROVE IInv'
  BY <1>7, StutterHolds
<1> QED BY <1>1, <1>2, <1>3, <1>4, <1>5, <1>6, <1>7, CreateSessionStep, EvictStep DEF Next

\* The invariant gives what the runs check.
LEMMA InvImplies == IInv => PersistenceInv
<1> SUFFICES ASSUME IInv  PROVE PersistenceInv
  OBVIOUS
<1>1. TypeOK
  <2>1. store \in Seq(0..MaxSessions) /\ \A s \in Sessions : log[s] \in Seq(0..MaxSessions)
    BY DEF IInv, Types, Logs
  <2>2. \A i \in DOMAIN chain : chain[i].op \in {"load", "commit", "check", "append", "seed", "public",
                                                "created", "retire"}
    BY OpFacts DEF Ops, ClientOps, SessionOps
  <2>3. begun \in BOOLEAN
    BY DEF IInv, Types
  <2>4. begun => chain # <<>>
    BY DEF IInv, BegunFits
  <2>5. state.owner \in -1..MaxSessions
    BY PersistenceBounds DEF IInv, Types, NoState
  <2>6. \A l \in Logs : Len(l) \in 0..(MaxLog + 2)
    BY PersistenceBounds DEF Logs, Fits
  <2>7. state.cursor \in 0..(MaxLog + 2)
    BY <2>6, PersistenceBounds DEF IInv, Types, OwnerFits, NoState
  <2>8. entry.phase \in {"none", "loading", "ready", "committing", "reserved"}
    BY NoEntryFacts DEF IInv
  <2>9. sent \in [Sessions -> 0..(MaxLog + 2)]
    <3>1. \A s \in Sessions : sent[s] \in 0..(MaxLog + 2)
      <4> SUFFICES ASSUME NEW s \in Sessions  PROVE sent[s] \in 0..(MaxLog + 2)
        OBVIOUS
      <4>1. sent[s] \in Nat /\ sent[s] <= Len(log[s])
        BY DEF IInv, Types, OwnerFits
      <4>2. Len(log[s]) \in 0..(MaxLog + 2)
        BY <2>6 DEF IInv, Types
      <4> QED BY <4>1, <4>2, PersistenceBounds
    <3> QED BY <3>1 DEF IInv, Types
  <2>10. \A c \in Clients : client[c].pc \in Pcs
    BY DEF IInv, Types, Callers, Pcs
  <2>11. /\ life \in [Sessions -> {"unborn", "prepared", "live", "retiring", "stuck", "gone"}]
         /\ init \in [Sessions -> {"none", "pending", "ready", "failed"}]
    BY DEF IInv, Types
  <2> QED BY <2>1, <2>2, <2>3, <2>4, <2>5, <2>7, <2>8, <2>9, <2>10, <2>11 DEF TypeOK, Pcs
<1>2. WaitersAreServed
  <2> SUFFICES ASSUME NEW c \in Clients
               PROVE  /\ client[c].pc = "awaiting" /\ Mine(c) /\ entry.phase = "loading" => Queued("load", entry.key)
                      /\ client[c].pc = "awaiting" /\ Mine(c) /\ entry.phase \in {"committing", "reserved"} =>
                            \E d \in Clients \ {c} :
                                client[d].key = entry.key /\ client[d].pc \in {"committing", "committed", "reserved"}
                      /\ client[c].pc = "committing" => Queued("commit", c) \/ Queued("public", c)
                      /\ client[c].pc = "checking" => Queued("check", c)
    BY DEF WaitersAreServed
  <2>1. \A o \in Ops : Queued(o.op, o.who)
    BY DEF Ops, Queued
  <2>2. entry.phase = "loading" => Queued("load", entry.key)
    BY <2>1 DEF IInv, EntryFits
  <2>3. client[c].pc = "awaiting" /\ entry.phase \in {"committing", "reserved"} =>
            \E d \in Clients \ {c} :
                client[d].key = entry.key /\ client[d].pc \in {"committing", "committed", "reserved"}
    BY DEF IInv, HolderFits, Holding, Mine
  <2>4. client[c].pc = "committing" => Queued("commit", c) \/ Queued("public", c)
    BY <2>1 DEF IInv, ClientsFit, ClientFits
  <2>5. client[c].pc = "checking" => Queued("check", c)
    BY <2>1 DEF IInv, ClientsFit, ClientFits
  <2> QED BY <2>2, <2>3, <2>4, <2>5
<1>3. CursorIsStored /\ OwnerHasStore
  BY DEF CursorIsStored, OwnerHasStore, IInv, OwnerFits
<1>4. ReservedIsCurrent
  <2> SUFFICES ASSUME entry.phase = "reserved"
               PROVE  /\ entry.base = store /\ Attachable
                      /\ IsPrefix(store, log[entry.session])
                      /\ Cardinality({c \in Clients : client[c].pc = "reserved"}) = 1
    BY DEF ReservedIsCurrent
  <2>1. PICK c \in Clients : Holding(c) /\ client[c].pc = "reserved"
    BY DEF IInv, HolderFits
  <2>2. /\ \A d \in Clients \ {c} : client[d].pc # "reserved"
        /\ entry.base = store /\ state = [owner |-> Nobody, cursor |-> Len(store)]
    BY <2>1, HolderIsAlone
  <2>3. entry.session \in Sessions /\ \A s \in Sessions : ~Attached(s)
    BY <2>1, HeldEntry
  <2>4. Live = {}
    BY <2>3 DEF Live, Attached
  <2>5. Attachable
    BY <2>2, <2>4 DEF Attachable
  <2>6. IsPrefix(store, log[entry.session])
    <3>1. store \in Seq(0..MaxSessions) /\ entry.session \in 0..MaxSessions
      BY <2>3, PersistenceBounds DEF IInv, Types, Logs, Sessions
    <3>2. IsPrefix(store, store) /\ IsPrefix(store, Append(store, entry.session))
      BY <3>1, PrefixFacts
    <3> QED BY <2>2, <3>2 DEF IInv, HolderFits
  <2>7. {d \in Clients : client[d].pc = "reserved"} = {c}
    BY <2>1, <2>2
  <2> QED BY <2>2, <2>5, <2>6, <2>7, FS_Singleton
<1>5. ReadyIsPristine
  BY DEF ReadyIsPristine, IInv, EntryFits
<1> QED BY <1>1, <1>2, <1>3, <1>4, <1>5 DEF PersistenceInv

\* The coordinator's bookkeeping is the store's; the store is a prefix of its
\* owner's log; a preparation that is held is current and exclusive; what waits
\* for reuse is the log as stored; whoever waits is served.
THEOREM PersistenceIsSafe == BatchSize = 2 => (Spec => []PersistenceInv)
<1> SUFFICES ASSUME BatchSize = 2  PROVE Spec => []PersistenceInv
  OBVIOUS
<1>1. IInv /\ [Next]_vars => IInv'
  BY StepHolds
<1> QED BY <1>1, InitHolds, InvImplies, PTL DEF Spec
===============================================================================
