------------------------- MODULE AgentLifecycleProofs -------------------------
(***************************************************************************)
(* The lifecycle's safety, proved for any number of calls for one id, and  *)
(* that observers of the id see what OneLife promises.                     *)
(***************************************************************************)
EXTENDS AgentLifecycle, FiniteSetTheorems, TLAPS

Publishing(c) == pc[c] \in {"session", "agent", "start"}
Busy(c) == Publishing(c) \/ Leaving(c)
Lost(c) == disposing[c] \in {"fleeing", "lost"}

\* Publication and the two detaches exclude each other and themselves.
OneAtATime ==
    /\ \A c, d \in Calls : Busy(c) /\ Busy(d) => c = d
    /\ \A c \in Calls : ~(Publishing(c) /\ Leaving(c))

\* The registries and what observers were last told, at every stage.
EntriesFit ==
    /\ who = sessions /\ (told = "free" <=> sessions = None)
    /\ Quiet => agents = sessions
    /\ \A c \in Calls : Publishing(c) =>
          /\ sessions = c /\ agents = c
          /\ pc[c] = "session" => told = "session created"
          /\ pc[c] = "agent" => told = "agent created"
          /\ pc[c] = "start" => told = "session start"
    /\ \A c \in Calls : Leaving(c) =>
          /\ agents = IF sessions = c THEN None ELSE sessions
          /\ sessions = c => told \in {"session created", "agent disposed"}
    /\ told = "agent disposed" => Leaving(sessions)
    /\ \A c \in Calls : sessions = c => prepared[c] /\ ~Finished(c)

\* What a call has at the stage it is in, and who gives it up has aborted it,
\* once there is something to abort.
CallFits(c) ==
    /\ pc[c] = "new" <=> kind[c] = "none"
    /\ pc[c] \in {"setup", "session", "agent", "start", "published", "failing"} => prepared[c]
    /\ pc[c] \in {"new", "waiting", "released", "loading", "loaded", "listing"} => ~prepared[c]
    /\ pc[c] \in {"waiting", "released", "listing"} => kind[c] = "configured"
    /\ pc[c] = "listing" \/ kind[c] = "fallback" => loaded[c] = "none"
    /\ loaded[c] = "held" => pc[c] \in {"loaded", "setup", "session", "agent", "start", "failing"}
    /\ kind[c] \in {"none", "configured", "fallback"} => ~callerAborted[c]
    /\ disposing[c] # "no" => prepared[c] /\ aborted[c]
    /\ prepared[c] /\ (callerAborted[c] \/ TornDownFactory \/ OwnerRan(c)) => aborted[c]
    /\ phase[c] # "idle" => prepared[c]
    /\ disposing[c] \in {"unwinding", "leaving", "done"} => phase[c] = "idle"
    /\ Publishing(c) => ~TornDownFactory /\ ~OwnerRan(c)
    /\ callerAborted[c] => pc[c] # "published"

\* What has gone has left nothing unfinished.
GoneFit ==
    /\ factory = "gone" /\ (\A c \in Calls : ~Lost(c)) =>
          \A c \in Calls : ~Tracked(c) /\ ~InProgress(c)
    /\ owner = "gone" => \A c \in joins : Finished(c)

\* A latched wake has its place among the activities.
Budget == begun + Cardinality({c \in Calls : latched[c]}) <= MaxActivities

IInv ==
    /\ TypeOK /\ Budget /\ OneAtATime /\ EntriesFit
    /\ \A c \in Calls : CallFits(c)
    /\ WaitersHaveAReason /\ GoneFit

\* What a call may be at.
Stages == {"new", "waiting", "released", "loading", "loaded", "listing", "setup", "session",
           "agent", "start", "published", "failing", "failed"}
Kinds == {"none", "create", "resume", "configured", "fallback"}
Loads == {"none", "pending", "held", "released"}

\* TypeOK in parts, for the provers.
WrapperTypes ==
    /\ pc \in [Calls -> Stages] /\ kind \in [Calls -> Kinds] /\ loaded \in [Calls -> Loads]
    /\ prepared \in [Calls -> BOOLEAN] /\ callerAborted \in [Calls -> BOOLEAN]

DriverTypes ==
    /\ activity \in [Calls -> 0 .. MaxActivities] /\ begun \in 0 .. MaxActivities
    /\ phase \in [Calls -> {"idle", "running", "stuck"}]
    /\ reason \in [Calls -> {"none", "user", "disposed"}] /\ latched \in [Calls -> BOOLEAN]

TeardownTypes ==
    /\ aborted \in [Calls -> BOOLEAN]
    /\ disposing \in [Calls -> {"no", "draining", "unwinding", "broken", "leaving", "fleeing",
                                "done", "lost"}]
    /\ waitingOn \in [Calls -> 0 .. MaxActivities]

PlaceTypes ==
    /\ sessions \in Calls \cup {None} /\ agents \in Calls \cup {None}
    /\ told \in {"free", "session created", "agent created", "session start", "agent disposed"}
    /\ who \in Calls \cup {None}
    /\ owner \in {"active", "unloading", "cleaned", "gone"} /\ joins \subseteq Calls
    /\ factory \in {"active", "unloading", "tearing", "gone"}
    /\ initiators \in {"active", "closing"}

\* The type invariant is its parts, before a step and after it.
LEMMA TypeParts ==
    /\ TypeOK <=> WrapperTypes /\ DriverTypes /\ TeardownTypes /\ PlaceTypes
    /\ TypeOK' <=> WrapperTypes' /\ DriverTypes' /\ TeardownTypes' /\ PlaceTypes'
<1> USE DEF TypeOK, WrapperTypes, DriverTypes, TeardownTypes, PlaceTypes, Stages, Kinds, Loads
<1>1. TypeOK <=> WrapperTypes /\ DriverTypes /\ TeardownTypes /\ PlaceTypes
  OBVIOUS
<1>2. TypeOK' <=> WrapperTypes' /\ DriverTypes' /\ TeardownTypes' /\ PlaceTypes'
  OBVIOUS
<1> QED BY <1>1, <1>2

-----------------------------------------------------------------------------
(***************************************************************************)
(* Steps that leave the registries alone.                                  *)
(***************************************************************************)
\* What CallFits reads of a call.
At(c) == <<pc[c], kind[c], loaded[c], prepared[c], aborted[c], callerAborted[c], disposing[c], phase[c]>>

\* A call that a step does not touch stays as it is.
LEMMA UntouchedFits ==
    ASSUME NEW d \in Calls, CallFits(d), UNCHANGED <<At(d), owner, factory>>
    PROVE  CallFits(d)'
BY DEF CallFits, At, Publishing, TornDownFactory, OwnerRan, Configured

\* A step of one call that neither publishes nor detaches.
OnlyItself(c) ==
    /\ UNCHANGED <<registries, owner, joins, factory>>
    /\ \A d \in Calls \ {c} : UNCHANGED At(d)
    /\ Publishing(c) \/ Publishing(c)' => pc'[c] = pc[c]
    /\ (Leaving(c)' <=> Leaving(c)) /\ (Finished(c)' <=> Finished(c)) /\ (Lost(c) => Lost(c)')
    /\ prepared[c] => prepared'[c]
    /\ pc'[c] = "waiting" => pc[c] = "waiting" \/ sessions # None
    /\ factory = "gone" => (InProgress(c)' => InProgress(c)) /\ (Tracked(c)' => Tracked(c))

\* Such a step needs only its own call looked at.
LEMMA OneCallStep ==
    ASSUME IInv, NEW c \in Calls, TypeOK', Budget', CallFits(c)', OnlyItself(c)
    PROVE  IInv' /\ UNCHANGED <<told, who>>
<1>1. \A d \in Calls : /\ Publishing(d)' <=> Publishing(d)
                       /\ Publishing(d) => pc'[d] = pc[d]
                       /\ Leaving(d)' <=> Leaving(d)
                       /\ Finished(d)' <=> Finished(d)
                       /\ Lost(d) => Lost(d)'
                       /\ prepared[d] => prepared'[d]
  <2> TAKE d \in Calls
  <2>1. CASE d = c
    BY <2>1 DEF OnlyItself, Publishing
  <2>2. CASE d # c
    <3>1. UNCHANGED At(d)
      BY <2>2 DEF OnlyItself
    <3> QED BY <3>1 DEF At, Publishing, Leaving, Finished, Lost
  <2> QED BY <2>1, <2>2
<1>2. UNCHANGED <<sessions, agents, told, who>>
  BY DEF OnlyItself, registries
<1>3. OneAtATime'
  BY <1>1 DEF IInv, OneAtATime, Busy
<1>4. Quiet' <=> Quiet
  BY <1>1 DEF Quiet, Publishing
<1>5. EntriesFit'
  <2>1. \A d \in Calls : sessions = d => prepared'[d] /\ ~Finished(d)'
    BY <1>1 DEF IInv, EntriesFit
  <2>2. told = "agent disposed" => Leaving(sessions)'
    BY <1>1, <1>2, NoneAssumption DEF IInv, EntriesFit, TypeOK
  <2>3. \A d \in Calls : Publishing(d)' => pc'[d] = pc[d] /\ Publishing(d)
    BY <1>1
  <2> QED BY <1>1, <1>2, <1>4, <2>1, <2>2, <2>3 DEF IInv, EntriesFit
<1>6. \A d \in Calls : CallFits(d)'
  <2> TAKE d \in Calls
  <2>1. CASE d # c
    BY <2>1, UntouchedFits DEF IInv, OnlyItself
  <2> QED BY <2>1
<1>7. WaitersHaveAReason'
  <2> SUFFICES ASSUME NEW d \in Calls, pc'[d] = "waiting"  PROVE sessions # None
    BY <1>2 DEF WaitersHaveAReason
  <2>1. pc[d] = "waiting" \/ sessions # None
    BY DEF OnlyItself, At
  <2> QED BY <2>1 DEF IInv, WaitersHaveAReason
<1>8. GoneFit'
  <2>1. ASSUME factory = "gone", \A d \in Calls : ~Lost(d)', NEW d \in Calls
        PROVE  ~Tracked(d)' /\ ~InProgress(d)'
    <3>1. ~Tracked(d) /\ ~InProgress(d)
      BY <1>1, <2>1 DEF IInv, GoneFit
    <3>2. (Tracked(d)' => Tracked(d)) /\ (InProgress(d)' => InProgress(d))
      BY <2>1 DEF OnlyItself, At, Tracked, Finished, InProgress
    <3> QED BY <3>1, <3>2
  <2>2. owner = "gone" => \A d \in joins : Finished(d)'
    BY <1>1 DEF IInv, GoneFit, TypeOK
  <2> QED BY <2>1, <2>2 DEF GoneFit, OnlyItself
<1> QED BY <1>2, <1>3, <1>5, <1>6, <1>7, <1>8 DEF IInv

\* A latch that is taken back frees its place.
LEMMA BudgetKept ==
    ASSUME TypeOK, Budget, begun' = begun, \A c \in Calls : latched'[c] => latched[c]
    PROVE  Budget'
<1> DEFINE L == {c \in Calls : latched[c]}
<1>1. L' \subseteq L /\ IsFiniteSet(L)
  BY FiniteAssumption, FS_Subset
<1>2. Cardinality(L') <= Cardinality(L) /\ Cardinality(L) \in Nat /\ Cardinality(L') \in Nat
  BY <1>1, FS_Subset, FS_CardinalityType
<1>3. begun \in Nat /\ MaxActivities \in Nat
  <2>1. begun \in 0 .. MaxActivities
    BY DEF TypeOK
  <2> QED BY <2>1, ActivitiesAssumption
<1> QED BY <1>2, <1>3 DEF Budget

\* A driver begins where a wake was latched or there is room for another.
LEMMA BudgetSpent ==
    ASSUME TypeOK, Budget, NEW c \in Calls, StartDriver(c), latched[c] \/ Room
    PROVE  Budget' /\ begun' \in 0 .. MaxActivities
<1> DEFINE L == {d \in Calls : latched[d]}
<1>1. L' = L \ {c}
  BY DEF StartDriver, TypeOK
<1>2. IsFiniteSet(L) /\ Cardinality(L) \in Nat
  BY FiniteAssumption, FS_Subset, FS_CardinalityType
<1>3. Cardinality(L') = IF c \in L THEN Cardinality(L) - 1 ELSE Cardinality(L)
  BY <1>1, <1>2, FS_RemoveElement
<1>4. begun' = begun + 1 /\ begun \in Nat /\ MaxActivities \in Nat
  <2>1. begun \in 0 .. MaxActivities
    BY DEF TypeOK
  <2> QED BY <2>1, ActivitiesAssumption DEF StartDriver
<1>5. begun' + Cardinality(L') <= MaxActivities
  BY <1>2, <1>3, <1>4 DEF Budget, Room
<1>6. Cardinality(L') \in Nat
  <2>1. IsFiniteSet(L')
    BY <1>1, <1>2, FS_RemoveElement
  <2> QED BY <2>1, FS_CardinalityType
<1> QED BY <1>4, <1>5, <1>6 DEF Budget

\* What dispose() does to each call it is asked for.
LEMMA DisposeEach ==
    ASSUME TypeOK, Budget, NEW S, Dispose(S)
    PROVE  /\ aborted' \in [Calls -> BOOLEAN] /\ latched' \in [Calls -> BOOLEAN]
           /\ disposing' \in [Calls -> {"no", "draining", "unwinding", "broken", "leaving",
                                        "fleeing", "done", "lost"}]
           /\ waitingOn' \in [Calls -> 0 .. MaxActivities]
           /\ reason' \in [Calls -> {"none", "user", "disposed"}]
           /\ UNCHANGED <<activity, begun, phase>> /\ Budget'
           /\ \A d \in Calls :
                 IF d \in S /\ prepared[d] /\ disposing[d] = "no"
                 THEN aborted'[d] /\ disposing'[d] = "draining"
                 ELSE aborted'[d] = aborted[d] /\ disposing'[d] = disposing[d]
<1>1. /\ aborted' \in [Calls -> BOOLEAN] /\ latched' \in [Calls -> BOOLEAN]
      /\ UNCHANGED <<activity, begun, phase>>
  BY DEF Dispose, TypeOK
<1>2. disposing' \in [Calls -> {"no", "draining", "unwinding", "broken", "leaving",
                                "fleeing", "done", "lost"}]
  BY DEF Dispose, TypeOK
<1>3. waitingOn' \in [Calls -> 0 .. MaxActivities]
  BY DEF Dispose, TypeOK
<1>4. reason' \in [Calls -> {"none", "user", "disposed"}]
  BY DEF Dispose, TypeOK
<1>5. \A d \in Calls : latched'[d] => latched[d]
  BY DEF Dispose, TypeOK
<1>6. Budget'
  BY <1>1, <1>5, BudgetKept
<1>7. \A d \in Calls :
          IF d \in S /\ prepared[d] /\ disposing[d] = "no"
          THEN aborted'[d] /\ disposing'[d] = "draining"
          ELSE aborted'[d] = aborted[d] /\ disposing'[d] = disposing[d]
  BY DEF Dispose, TypeOK
<1> QED BY <1>1, <1>2, <1>3, <1>4, <1>6, <1>7

\* The agent that the registry lists has its session and its teardown.
LEMMA ListedIsPrepared ==
    ASSUME IInv, NEW c \in Calls, agents = c
    PROVE  sessions = c /\ prepared[c] /\ ~Finished(c) /\ who = c /\ told # "agent disposed"
<1>1. c # None
  BY NoneAssumption
<1>2. CASE Quiet
  BY <1>1, <1>2, NoneAssumption DEF IInv, EntriesFit, Quiet, TypeOK
<1>3. CASE ~Quiet
  <2>1. PICK d \in Calls : Publishing(d) \/ Leaving(d)
    BY <1>3 DEF Quiet, Publishing
  <2>2. sessions = c
    BY <1>1, <2>1 DEF IInv, EntriesFit
  <2>3. told # "agent disposed"
    <3>1. CASE Publishing(d)
      BY <2>1, <3>1 DEF IInv, EntriesFit, Publishing
    <3>2. CASE Leaving(d)
      <4>1. d # c
        BY <1>1, <3>2 DEF IInv, EntriesFit
      <4>2. ~Leaving(c)
        BY <3>2, <4>1 DEF IInv, OneAtATime, Busy
      <4> QED BY <2>2, <4>2 DEF IInv, EntriesFit
    <3> QED BY <2>1, <3>1, <3>2
  <2> QED BY <2>2, <2>3 DEF IInv, EntriesFit
<1> QED BY <1>2, <1>3

-----------------------------------------------------------------------------
(***************************************************************************)
(* Wrappers that wait and load.                                            *)
(***************************************************************************)
\* The wrapper of one call moves on, outside of publication.
Moves(c) ==
    /\ pc' \in [Calls -> Stages] /\ kind' \in [Calls -> Kinds] /\ loaded' \in [Calls -> Loads]
    /\ \A d \in Calls \ {c} : pc'[d] = pc[d] /\ kind'[d] = kind[d] /\ loaded'[d] = loaded[d]
    /\ pc'[c] # pc[c] => /\ ~Publishing(c) /\ pc'[c] \notin {"session", "agent", "start"}
                         /\ factory # "gone" \/ InProgress(c)
    /\ pc'[c] = "waiting" => pc[c] = "waiting" \/ sessions # None

\* Only its own stage has to be looked at.
LEMMA MoveKeeps ==
    ASSUME IInv, NEW c \in Calls, Moves(c), CallFits(c)',
           UNCHANGED <<prepared, callerAborted, driver, teardown, registries, fibers>>
    PROVE  IInv' /\ UNCHANGED <<told, who>>
<1>1. TypeOK /\ Budget
  BY DEF IInv
<1>2. TypeOK'
  <2>1. WrapperTypes'
    BY <1>1, TypeParts DEF WrapperTypes, Moves, Stages, Kinds, Loads
  <2>2. DriverTypes'
    BY <1>1, TypeParts DEF DriverTypes, driver
  <2>3. TeardownTypes'
    BY <1>1, TypeParts DEF TeardownTypes, teardown
  <2>4. PlaceTypes'
    BY <1>1, TypeParts DEF PlaceTypes, registries, fibers
  <2> QED BY <2>1, <2>2, <2>3, <2>4, TypeParts
<1>3. Budget'
  BY <1>1, BudgetKept DEF driver
<1>4. \A d \in Calls \ {c} : UNCHANGED At(d)
  BY DEF Moves, At, driver, teardown
<1>5. /\ UNCHANGED <<registries, owner, joins, factory, disposing, prepared>>
      /\ Publishing(c) \/ Publishing(c)' => pc'[c] = pc[c]
      /\ pc'[c] = "waiting" => pc[c] = "waiting" \/ sessions # None
      /\ factory = "gone" => (InProgress(c)' => InProgress(c))
  BY DEF Moves, Publishing, InProgress, teardown, fibers
<1>6. OnlyItself(c)
  BY <1>4, <1>5 DEF OnlyItself, Leaving, Finished, Lost, Tracked
<1> QED BY <1>2, <1>3, <1>6, OneCallStep

\* A resume reserves nothing before its answer.
LEMMA ResumeKeeps ==
    ASSUME IInv, NEW c \in Calls, Resume(c)  PROVE IInv' /\ UNCHANGED <<told, who>>
<1> USE DEF Resume, Callable, BeginLoad
<1>1. TypeOK /\ CallFits(c)
  BY DEF IInv
<1>2. UNCHANGED <<prepared, callerAborted, driver, teardown, registries, fibers>>
  OBVIOUS
<1>3. Moves(c)
  BY <1>1 DEF Moves, TypeOK, Stages, Kinds, Loads, Publishing, InProgress, FactoryActive
<1>4. CallFits(c)'
  <2>1. UNCHANGED <<prepared, callerAborted, aborted, disposing, phase, owner, factory>>
    BY <1>2 DEF driver, teardown, fibers
  <2> QED BY <1>1, <2>1 DEF CallFits, TypeOK, Publishing, TornDownFactory, OwnerRan, Configured,
                            FactoryActive
<1> QED BY <1>2, <1>3, <1>4, MoveKeeps

\* A configured call waits only behind an entry.
LEMMA ConfigureKeeps ==
    ASSUME IInv, NEW c \in Calls, Configure(c)  PROVE IInv' /\ UNCHANGED <<told, who>>
<1>1. TypeOK /\ CallFits(c)
  BY DEF IInv
<1>2. /\ UNCHANGED <<prepared, callerAborted, driver, teardown, registries, fibers>>
      /\ pc[c] = "new" /\ factory = "active" /\ kind' = [kind EXCEPT ![c] = "configured"]
  BY DEF Configure, Callable, FactoryActive
<1>3. PICK p \in {"loading", "waiting"}, l \in {loaded[c], "pending"} :
        /\ pc' = [pc EXCEPT ![c] = p] /\ loaded' = [loaded EXCEPT ![c] = l]
        /\ p = "waiting" => sessions # None
  <2>1. Quiet => agents = sessions
    BY DEF IInv, EntriesFit
  <2>2. CASE agents = None /\ sessions = None
    BY <2>2 DEF Configure, BeginLoad
  <2>3. CASE ~(agents = None /\ sessions = None)
    <3>1. loaded' = [loaded EXCEPT ![c] = loaded[c]]
      <4>1. UNCHANGED loaded
        BY <2>3 DEF Configure
      <4> QED BY <1>1, <4>1 DEF TypeOK
    <3> QED BY <2>1, <2>3, <3>1 DEF Configure, Callable
  <2> QED BY <2>2, <2>3
<1>4. Moves(c)
  BY <1>1, <1>2, <1>3 DEF Moves, TypeOK, Stages, Kinds, Loads, Publishing
<1>5. CallFits(c)'
  <2>1. UNCHANGED <<prepared, callerAborted, aborted, disposing, phase, owner, factory>>
    BY <1>2 DEF driver, teardown, fibers
  <2>2. pc'[c] \in {"loading", "waiting"} /\ kind'[c] = "configured" /\ loaded'[c] \in {loaded[c], "pending"}
    BY <1>1, <1>2, <1>3 DEF TypeOK
  <2> QED BY <1>1, <1>2, <2>1, <2>2 DEF CallFits, Publishing, TornDownFactory, OwnerRan, Configured
<1> QED BY <1>2, <1>4, <1>5, MoveKeeps

\* It waits no longer than the entry, or the factory, is there.
LEMMA StopWaitingKeeps ==
    ASSUME IInv, NEW c \in Calls, StopWaiting(c)  PROVE IInv' /\ UNCHANGED <<told, who>>
<1>1. TypeOK /\ CallFits(c)
  BY DEF IInv
<1>2. /\ UNCHANGED <<prepared, callerAborted, driver, teardown, registries, fibers, kind>>
      /\ pc[c] \in {"waiting", "released"}
  BY DEF StopWaiting
<1>3. PICK p \in {"loading", "failed"}, l \in {loaded[c], "pending"} :
        pc' = [pc EXCEPT ![c] = p] /\ loaded' = [loaded EXCEPT ![c] = l]
  <2>1. loaded[c] # "held"
    BY <1>1, <1>2 DEF CallFits
  <2>2. CASE FactoryActive
    BY <2>2 DEF StopWaiting, BeginLoad
  <2>3. CASE ~FactoryActive
    <3>1. loaded' = [loaded EXCEPT ![c] = loaded[c]]
      <4>1. UNCHANGED loaded
        BY <2>3 DEF StopWaiting
      <4> QED BY <1>1, <4>1 DEF TypeOK
    <3> QED BY <2>1, <2>3, <3>1 DEF StopWaiting
  <2> QED BY <2>2, <2>3
<1>4. Moves(c)
  BY <1>1, <1>2, <1>3 DEF Moves, TypeOK, Stages, Kinds, Loads, Publishing, InProgress
<1>5. CallFits(c)'
  <2>1. UNCHANGED <<prepared, callerAborted, aborted, disposing, phase, owner, factory>>
    BY <1>2 DEF driver, teardown, fibers
  <2>2. pc'[c] \in {"loading", "failed"} /\ kind'[c] = kind[c] /\ loaded'[c] \in {loaded[c], "pending"}
    BY <1>1, <1>2, <1>3 DEF TypeOK
  <2> QED BY <1>1, <1>2, <2>1, <2>2 DEF CallFits, Publishing, TornDownFactory, OwnerRan, Configured
<1> QED BY <1>2, <1>4, <1>5, MoveKeeps

\* An answer is held for a wrapper that waits, and released for one that does not.
LEMMA LoadArrivesKeeps ==
    ASSUME IInv, NEW c \in Calls, LoadArrives(c)  PROVE IInv' /\ UNCHANGED <<told, who>>
<1> USE DEF LoadArrives, LateArrival
<1>1. TypeOK /\ CallFits(c)
  BY DEF IInv
<1>2. UNCHANGED <<prepared, callerAborted, driver, teardown, registries, fibers>>
  OBVIOUS
<1>3. Moves(c)
  BY <1>1 DEF Moves, TypeOK, Stages, Kinds, Loads, Publishing, InProgress, FactoryActive
<1>4. CallFits(c)'
  <2>1. UNCHANGED <<prepared, callerAborted, aborted, disposing, phase, owner, factory>>
    BY <1>2 DEF driver, teardown, fibers
  <2> QED BY <1>1, <2>1 DEF CallFits, TypeOK, Publishing, TornDownFactory, OwnerRan, Configured,
                            FactoryActive
<1> QED BY <1>2, <1>3, <1>4, MoveKeeps

\* A rejected load leaves nothing reserved.
LEMMA LoadFailsKeeps ==
    ASSUME IInv, NEW c \in Calls, LoadFails(c)  PROVE IInv' /\ UNCHANGED <<told, who>>
<1> USE DEF LoadFails
<1>1. TypeOK /\ CallFits(c)
  BY DEF IInv
<1>2. UNCHANGED <<prepared, callerAborted, driver, teardown, registries, fibers>>
  OBVIOUS
<1>3. Moves(c)
  BY <1>1 DEF Moves, TypeOK, Stages, Kinds, Loads, Publishing, InProgress, Configured, FactoryActive
<1>4. CallFits(c)'
  <2>1. UNCHANGED <<prepared, callerAborted, aborted, disposing, phase, owner, factory>>
    BY <1>2 DEF driver, teardown, fibers
  <2> QED BY <1>1, <2>1 DEF CallFits, TypeOK, Publishing, TornDownFactory, OwnerRan, Configured,
                            FactoryActive
<1> QED BY <1>2, <1>3, <1>4, MoveKeeps

\* A lost race leaves the answer to its late arrival.
LEMMA LoadAbandonedKeeps ==
    ASSUME IInv, NEW c \in Calls, LoadAbandoned(c)  PROVE IInv' /\ UNCHANGED <<told, who>>
<1> USE DEF LoadAbandoned
<1>1. TypeOK /\ CallFits(c)
  BY DEF IInv
<1>2. UNCHANGED <<prepared, callerAborted, driver, teardown, registries, fibers>>
  OBVIOUS
<1>3. Moves(c)
  BY <1>1 DEF Moves, TypeOK, Stages, Kinds, Loads, Publishing, InProgress, FactoryActive
<1>4. CallFits(c)'
  <2>1. UNCHANGED <<prepared, callerAborted, aborted, disposing, phase, owner, factory>>
    BY <1>2 DEF driver, teardown, fibers
  <2> QED BY <1>1, <2>1 DEF CallFits, TypeOK, Publishing, TornDownFactory, OwnerRan, Configured,
                            FactoryActive
<1> QED BY <1>2, <1>3, <1>4, MoveKeeps

\* A reported failure has nothing to clean up.
LEMMA FallbackFailsKeeps ==
    ASSUME IInv, NEW c \in Calls, FallbackFails(c)  PROVE IInv' /\ UNCHANGED <<told, who>>
<1> USE DEF FallbackFails
<1>1. TypeOK /\ CallFits(c)
  BY DEF IInv
<1>2. UNCHANGED <<prepared, callerAborted, driver, teardown, registries, fibers>>
  OBVIOUS
<1>3. Moves(c)
  BY <1>1 DEF Moves, TypeOK, Stages, Kinds, Loads, Publishing, InProgress, FactoryActive
<1>4. CallFits(c)'
  <2>1. UNCHANGED <<prepared, callerAborted, aborted, disposing, phase, owner, factory>>
    BY <1>2 DEF driver, teardown, fibers
  <2> QED BY <1>1, <2>1 DEF CallFits, TypeOK, Publishing, TornDownFactory, OwnerRan, Configured,
                            FactoryActive
<1> QED BY <1>2, <1>3, <1>4, MoveKeeps

\* A failing call ends after its teardown and returns what it reserved.
LEMMA RejectKeeps ==
    ASSUME IInv, NEW c \in Calls, Reject(c)  PROVE IInv' /\ UNCHANGED <<told, who>>
<1> USE DEF Reject, Release
<1>1. TypeOK /\ CallFits(c)
  BY DEF IInv
<1>2. UNCHANGED <<prepared, callerAborted, driver, teardown, registries, fibers>>
  OBVIOUS
<1>3. Moves(c)
  BY <1>1 DEF Moves, TypeOK, Stages, Kinds, Loads, Publishing, InProgress, FactoryActive
<1>4. CallFits(c)'
  <2>1. UNCHANGED <<prepared, callerAborted, aborted, disposing, phase, owner, factory>>
    BY <1>2 DEF driver, teardown, fibers
  <2> QED BY <1>1, <2>1 DEF CallFits, TypeOK, Publishing, TornDownFactory, OwnerRan, Configured,
                            FactoryActive
<1> QED BY <1>2, <1>3, <1>4, MoveKeeps

\* prepare() registers the teardown of a call that is still wanted.
LEMMA PrepareKeeps ==
    ASSUME IInv, NEW c \in Calls, Prepare(c), pc[c] \in {"new", "loaded"},
           kind' \in [Calls -> Kinds], \A d \in Calls \ {c} : kind'[d] = kind[d],
           kind'[c] = IF pc[c] = "new" THEN "create" ELSE kind[c],
           pc[c] = "new" => FactoryActive /\ OwnerActive(c),
           UNCHANGED <<callerAborted, driver, teardown, registries, fibers>>
    PROVE  IInv' /\ UNCHANGED <<told, who>>
<1>1. TypeOK /\ Budget /\ CallFits(c)
  BY DEF IInv
<1>2. UNCHANGED <<callerAborted, activity, begun, phase, reason, latched, aborted, disposing,
                  waitingOn, sessions, agents, told, who, owner, joins, factory, initiators>>
  BY DEF driver, teardown, registries, fibers
<1>3. /\ pc' = [pc EXCEPT ![c] = IF StillWanted(c) THEN "setup" ELSE "failed"]
      /\ prepared' = [prepared EXCEPT ![c] = StillWanted(c)]
      /\ loaded' = [loaded EXCEPT ![c] = IF @ = "held" /\ ~StillWanted(c) THEN "released" ELSE @]
  BY DEF Prepare
<1>4. StillWanted(c) \in BOOLEAN
  BY DEF StillWanted, OwnerActive, FactoryActive
<1>5. TypeOK'
  <2>1. WrapperTypes'
    BY <1>1, <1>2, <1>3, <1>4, TypeParts DEF WrapperTypes, Stages, Kinds, Loads
  <2>2. DriverTypes'
    BY <1>1, <1>2, <1>3, <1>4, TypeParts DEF DriverTypes
  <2>3. TeardownTypes'
    BY <1>1, <1>2, <1>3, <1>4, TypeParts DEF TeardownTypes
  <2>4. PlaceTypes'
    BY <1>1, <1>2, <1>3, <1>4, TypeParts DEF PlaceTypes
  <2> QED BY <2>1, <2>2, <2>3, <2>4, TypeParts
<1>6. Budget'
  BY <1>1, <1>2, BudgetKept
<1>7. ~prepared[c] /\ disposing[c] = "no" /\ phase[c] = "idle"
  BY <1>1 DEF CallFits, TypeOK
<1>8. CallFits(c)'
  <2>1. CASE StillWanted(c)
    <3>1. /\ pc'[c] = "setup" /\ prepared'[c] /\ loaded'[c] = loaded[c] /\ kind'[c] # "none"
      BY <1>1, <1>3, <2>1 DEF TypeOK, CallFits
    <3>2. factory = "active" /\ ~callerAborted[c] /\ OwnerActive(c)
      BY <2>1 DEF StillWanted, FactoryActive
    <3>3. ~TornDownFactory' /\ ~OwnerRan(c)'
      BY <1>1, <1>2, <3>2 DEF TornDownFactory, OwnerRan, OwnerActive, Configured, CallFits
    <3>4. kind'[c] = "fallback" => loaded'[c] = "none"
      BY <1>1, <3>1 DEF CallFits
    <3> QED BY <1>1, <1>2, <1>7, <3>1, <3>2, <3>3, <3>4 DEF CallFits, Publishing
  <2>2. CASE ~StillWanted(c)
    <3>1. /\ pc'[c] = "failed" /\ ~prepared'[c] /\ loaded'[c] # "held" /\ kind'[c] # "none"
          /\ loaded[c] = "none" => loaded'[c] = "none"
      BY <1>1, <1>3, <2>2 DEF TypeOK, CallFits
    <3>2. kind'[c] \in {"configured", "fallback"} => kind[c] = kind'[c]
      OBVIOUS
    <3> QED BY <1>1, <1>2, <1>7, <3>1, <3>2 DEF CallFits, Publishing
  <2> QED BY <2>1, <2>2
<1>9. OnlyItself(c)
  <2>1. \A d \in Calls \ {c} : UNCHANGED At(d)
    BY <1>1, <1>2, <1>3 DEF At, TypeOK
  <2>2. /\ ~Publishing(c) /\ ~Publishing(c)' /\ pc'[c] # "waiting"
        /\ factory = "gone" => ~InProgress(c)' /\ ~Tracked(c)'
    <3>1. factory = "gone" => ~StillWanted(c)
      BY DEF StillWanted, FactoryActive
    <3> QED BY <1>1, <1>3, <3>1 DEF Publishing, InProgress, Tracked, TypeOK
  <2> QED BY <1>2, <1>7, <2>1, <2>2
          DEF OnlyItself, registries, Leaving, Finished, Lost, InProgress
<1> QED BY <1>5, <1>6, <1>8, <1>9, OneCallStep

\* A created agent is prepared at once.
LEMMA CreateKeeps ==
    ASSUME IInv, NEW c \in Calls, Create(c)  PROVE IInv' /\ UNCHANGED <<told, who>>
<1>1. kind' = [kind EXCEPT ![c] = "create"] /\ pc[c] = "new" /\ FactoryActive /\ OwnerActive(c)
  BY DEF Create, Callable
<1>2. kind' \in [Calls -> Kinds] /\ \A d \in Calls \ {c} : kind'[d] = kind[d]
  BY <1>1 DEF IInv, TypeOK, Kinds
<1>3. kind'[c] = "create"
  BY <1>1 DEF IInv, TypeOK
<1> QED BY <1>1, <1>2, <1>3, PrepareKeeps DEF Create

\* A loaded one is prepared if it is still wanted.
LEMMA ContinueKeeps ==
    ASSUME IInv, NEW c \in Calls, Continue(c)  PROVE IInv' /\ UNCHANGED <<told, who>>
<1>1. kind' = kind /\ pc[c] = "loaded"
  BY DEF Continue
<1>2. kind' \in [Calls -> Kinds]
  BY <1>1 DEF IInv, TypeOK, Kinds
<1> QED BY <1>1, <1>2, PrepareKeeps DEF Continue

-----------------------------------------------------------------------------
(***************************************************************************)
(* The driver.                                                             *)
(***************************************************************************)
\* Only the driver of one call, its latch and what it is awaited by change.
LEMMA DriverKeeps ==
    ASSUME IInv, NEW c \in Calls, TypeOK', Budget', CallFits(c)',
           UNCHANGED <<wrapper, prepared, callerAborted, aborted, registries, fibers>>,
           \A d \in Calls \ {c} : phase'[d] = phase[d] /\ disposing'[d] = disposing[d],
           disposing'[c] # disposing[c] =>
               disposing[c] = "draining" /\ disposing'[c] \in {"unwinding", "broken"}
    PROVE  IInv' /\ UNCHANGED <<told, who>>
<1>1. \A d \in Calls \ {c} : UNCHANGED At(d)
  BY DEF At, wrapper
<1>2. /\ UNCHANGED <<registries, owner, joins, factory, pc, prepared>>
      /\ (Leaving(c)' <=> Leaving(c)) /\ (Finished(c)' <=> Finished(c)) /\ (Lost(c) => Lost(c)')
  BY DEF wrapper, fibers, Leaving, Finished, Lost
<1>3. OnlyItself(c)
  BY <1>1, <1>2 DEF OnlyItself, InProgress, Tracked, Publishing
<1> QED BY <1>3, OneCallStep

\* What CallFits asks of a driver.
LEMMA DriverFits ==
    ASSUME NEW c \in Calls, CallFits(c), phase'[c] # "idle" => prepared[c],
           UNCHANGED <<wrapper, prepared, callerAborted, aborted, registries, fibers>>,
           disposing[c] = "no" => disposing'[c] = "no",
           disposing'[c] \in {"unwinding", "leaving", "done"} => phase'[c] = "idle"
    PROVE  CallFits(c)'
<1>1. UNCHANGED <<pc, kind, loaded, prepared, callerAborted, aborted, owner, factory>>
  BY DEF wrapper, fibers
<1> QED BY <1>1 DEF CallFits, Publishing, TornDownFactory, OwnerRan, Configured

\* A wake reaches an agent that is listed, and so prepared.
LEMMA SendKeeps ==
    ASSUME IInv, NEW c \in Calls, Send(c)  PROVE IInv' /\ UNCHANGED <<told, who>>
<1>1. TypeOK /\ Budget /\ CallFits(c) /\ prepared[c]
  BY ListedIsPrepared DEF IInv, Send
<1>2. /\ UNCHANGED <<wrapper, prepared, callerAborted, aborted, disposing, waitingOn, registries, fibers>>
      /\ Room /\ disposing[c] \in {"no", "draining"}
  BY DEF Send, teardown
<1>3. CASE phase[c] = "idle"
  <2>1. StartDriver(c)
    BY <1>3 DEF Send
  <2>2. Budget' /\ begun' \in 0 .. MaxActivities
    BY <1>1, <1>2, <2>1, BudgetSpent
  <2>3. TypeOK'
    <3>1. WrapperTypes'
      BY <1>1, <1>2, <2>1, <2>2, TypeParts DEF WrapperTypes, wrapper
    <3>2. DriverTypes'
      BY <1>1, <1>2, <2>1, <2>2, TypeParts DEF DriverTypes, StartDriver
    <3>3. TeardownTypes'
      BY <1>1, <1>2, <2>1, <2>2, TypeParts DEF TeardownTypes
    <3>4. PlaceTypes'
      BY <1>1, <1>2, <2>1, <2>2, TypeParts DEF PlaceTypes, registries, fibers
    <3> QED BY <3>1, <3>2, <3>3, <3>4, TypeParts
  <2>4. CallFits(c)'
    BY <1>1, <1>2, DriverFits
  <2>5. \A d \in Calls \ {c} : phase'[d] = phase[d]
    BY <1>1, <2>1 DEF StartDriver, TypeOK
  <2> QED BY <1>2, <2>2, <2>3, <2>4, <2>5, DriverKeeps
<1>4. CASE phase[c] # "idle"
  <2>1. ~latched[c] /\ latched' = [latched EXCEPT ![c] = TRUE] /\ UNCHANGED <<activity, begun, phase, reason>>
    BY <1>4 DEF Send
  <2>2. Budget'
    <3> DEFINE L == {d \in Calls : latched[d]}
    <3>1. L' = L \cup {c} /\ c \notin L
      BY <1>1, <2>1 DEF TypeOK
    <3>2. IsFiniteSet(L) /\ Cardinality(L) \in Nat
      BY FiniteAssumption, FS_Subset, FS_CardinalityType
    <3>3. Cardinality(L') = Cardinality(L) + 1
      BY <3>1, <3>2, FS_AddElement
    <3>4. begun \in Nat /\ MaxActivities \in Nat /\ begun' = begun
      <4>1. begun \in 0 .. MaxActivities
        BY <1>1 DEF TypeOK
      <4> QED BY <2>1, <4>1, ActivitiesAssumption
    <3> QED BY <1>2, <3>2, <3>3, <3>4 DEF Budget, Room
  <2>3. TypeOK'
    <3>1. WrapperTypes'
      BY <1>1, <1>2, <2>1, TypeParts DEF WrapperTypes, wrapper
    <3>2. DriverTypes'
      BY <1>1, <1>2, <2>1, TypeParts DEF DriverTypes
    <3>3. TeardownTypes'
      BY <1>1, <1>2, <2>1, TypeParts DEF TeardownTypes
    <3>4. PlaceTypes'
      BY <1>1, <1>2, <2>1, TypeParts DEF PlaceTypes, registries, fibers
    <3> QED BY <3>1, <3>2, <3>3, <3>4, TypeParts
  <2>4. CallFits(c)'
    BY <1>1, <1>2, <2>1, DriverFits DEF CallFits
  <2> QED BY <1>2, <2>1, <2>2, <2>3, <2>4, DriverKeeps
<1> QED BY <1>3, <1>4

\* A cancel only aborts the activity.
LEMMA UserCancelKeeps ==
    ASSUME IInv, NEW c \in Calls, NEW keepInbox \in BOOLEAN, UserCancel(c, keepInbox)
    PROVE  IInv' /\ UNCHANGED <<told, who>>
<1>1. TypeOK /\ Budget /\ CallFits(c)
  BY DEF IInv
<1>2. /\ UNCHANGED <<wrapper, prepared, callerAborted, aborted, disposing, waitingOn, registries, fibers>>
      /\ UNCHANGED <<activity, begun, phase>>
      /\ reason' = [reason EXCEPT ![c] = IF @ = "none" THEN "user" ELSE @]
      /\ latched' = [latched EXCEPT ![c] = @ /\ keepInbox]
  BY DEF UserCancel, teardown
<1>3. Budget'
  BY <1>1, <1>2, BudgetKept DEF TypeOK
<1>4. TypeOK'
  <2>1. WrapperTypes'
    BY <1>1, <1>2, TypeParts DEF WrapperTypes, wrapper
  <2>2. DriverTypes'
    BY <1>1, <1>2, TypeParts DEF DriverTypes
  <2>3. TeardownTypes'
    BY <1>1, <1>2, TypeParts DEF TeardownTypes
  <2>4. PlaceTypes'
    BY <1>1, <1>2, TypeParts DEF PlaceTypes, registries, fibers
  <2> QED BY <2>1, <2>2, <2>3, <2>4, TypeParts
<1>5. CallFits(c)'
  BY <1>1, <1>2, DriverFits DEF CallFits
<1> QED BY <1>2, <1>3, <1>4, <1>5, DriverKeeps

\* A driver ends, or another follows it.
LEMMA ConvergeKeeps ==
    ASSUME IInv, NEW c \in Calls, NEW again \in BOOLEAN, Converge(c, again)
    PROVE  IInv' /\ UNCHANGED <<told, who>>
<1>1. TypeOK /\ Budget /\ CallFits(c)
  BY DEF IInv
<1>2. /\ UNCHANGED <<wrapper, prepared, callerAborted, aborted, disposing, waitingOn, registries, fibers>>
      /\ phase[c] = "running" /\ (again => Room)
  BY DEF Converge, teardown
<1>3. disposing[c] \notin {"unwinding", "leaving", "done"} /\ prepared[c]
  BY <1>1, <1>2 DEF CallFits
<1>4. CASE again
  <2>1. StartDriver(c)
    BY <1>4 DEF Converge
  <2>2. Budget' /\ begun' \in 0 .. MaxActivities
    BY <1>1, <1>2, <1>4, <2>1, BudgetSpent
  <2>3. TypeOK'
    <3>1. WrapperTypes'
      BY <1>1, <1>2, <2>1, <2>2, TypeParts DEF WrapperTypes, wrapper
    <3>2. DriverTypes'
      BY <1>1, <1>2, <2>1, <2>2, TypeParts DEF DriverTypes, StartDriver
    <3>3. TeardownTypes'
      BY <1>1, <1>2, <2>1, <2>2, TypeParts DEF TeardownTypes
    <3>4. PlaceTypes'
      BY <1>1, <1>2, <2>1, <2>2, TypeParts DEF PlaceTypes, registries, fibers
    <3> QED BY <3>1, <3>2, <3>3, <3>4, TypeParts
  <2>4. CallFits(c)'
    BY <1>1, <1>2, <1>3, DriverFits
  <2>5. \A d \in Calls \ {c} : phase'[d] = phase[d]
    BY <1>1, <2>1 DEF StartDriver, TypeOK
  <2> QED BY <1>2, <2>2, <2>3, <2>4, <2>5, DriverKeeps
<1>5. CASE ~again
  <2>1. /\ phase' = [phase EXCEPT ![c] = "idle"] /\ reason' = [reason EXCEPT ![c] = "none"]
        /\ UNCHANGED <<activity, begun, latched>>
    BY <1>5 DEF Converge
  <2>2. Budget'
    BY <1>1, <2>1, BudgetKept
  <2>3. TypeOK'
    <3>1. WrapperTypes'
      BY <1>1, <1>2, <2>1, TypeParts DEF WrapperTypes, wrapper
    <3>2. DriverTypes'
      BY <1>1, <1>2, <2>1, TypeParts DEF DriverTypes
    <3>3. TeardownTypes'
      BY <1>1, <1>2, <2>1, TypeParts DEF TeardownTypes
    <3>4. PlaceTypes'
      BY <1>1, <1>2, <2>1, TypeParts DEF PlaceTypes, registries, fibers
    <3> QED BY <3>1, <3>2, <3>3, <3>4, TypeParts
  <2>4. CallFits(c)'
    BY <1>1, <1>2, <1>3, <2>1, DriverFits
  <2>5. \A d \in Calls \ {c} : phase'[d] = phase[d]
    BY <1>1, <2>1 DEF TypeOK
  <2> QED BY <1>2, <2>2, <2>3, <2>4, <2>5, DriverKeeps
<1> QED BY <1>4, <1>5

\* A replayed wake begins another driver; the throw rejects who awaits the old one.
LEMMA ReplayKeeps ==
    ASSUME IInv, NEW c \in Calls, Replay(c)  PROVE IInv' /\ UNCHANGED <<told, who>>
<1>1. TypeOK /\ Budget /\ CallFits(c)
  BY DEF IInv
<1>2. /\ UNCHANGED <<wrapper, prepared, callerAborted, aborted, waitingOn, registries, fibers>>
      /\ phase[c] = "running" /\ latched[c] /\ StartDriver(c)
  BY DEF Replay
<1>3. PICK x \in {disposing[c], "broken"} :
        disposing' = [disposing EXCEPT ![c] = x] /\ (x # disposing[c] => disposing[c] = "draining")
  BY DEF Replay
<1>4. disposing[c] \notin {"unwinding", "leaving", "done"} /\ prepared[c]
  BY <1>1, <1>2 DEF CallFits
<1>5. Budget' /\ begun' \in 0 .. MaxActivities
  BY <1>1, <1>2, BudgetSpent
<1>6. /\ disposing' \in [Calls -> {"no", "draining", "unwinding", "broken", "leaving",
                                   "fleeing", "done", "lost"}]
      /\ disposing'[c] = x /\ \A d \in Calls \ {c} : disposing'[d] = disposing[d]
  BY <1>1, <1>3 DEF TypeOK
<1>7. TypeOK'
  <2>1. WrapperTypes'
    BY <1>1, <1>2, <1>5, <1>6, TypeParts DEF WrapperTypes, wrapper
  <2>2. DriverTypes'
    BY <1>1, <1>2, <1>5, <1>6, TypeParts DEF DriverTypes, StartDriver
  <2>3. TeardownTypes'
    BY <1>1, <1>2, <1>5, <1>6, TypeParts DEF TeardownTypes
  <2>4. PlaceTypes'
    BY <1>1, <1>2, <1>5, <1>6, TypeParts DEF PlaceTypes, registries, fibers
  <2> QED BY <2>1, <2>2, <2>3, <2>4, TypeParts
<1>8. CallFits(c)'
  BY <1>1, <1>2, <1>3, <1>4, <1>6, DriverFits
<1>9. \A d \in Calls \ {c} : phase'[d] = phase[d]
  BY <1>1, <1>2 DEF StartDriver, TypeOK
<1> QED BY <1>2, <1>3, <1>5, <1>6, <1>7, <1>8, <1>9, DriverKeeps

\* The drain ends with an idle driver: what it awaited is the last activity.
LEMMA DrainKeeps ==
    ASSUME IInv, NEW c \in Calls, Drain(c)  PROVE IInv' /\ UNCHANGED <<told, who>>
<1>1. TypeOK /\ Budget /\ CallFits(c)
  BY DEF IInv
<1>2. /\ UNCHANGED <<wrapper, prepared, callerAborted, aborted, registries, fibers>>
      /\ UNCHANGED <<activity, begun, phase, reason, latched>>
      /\ disposing[c] = "draining" /\ Settled(c)
  BY DEF Drain, driver
<1>3. Budget'
  BY <1>1, <1>2, BudgetKept
<1>4. CASE NoneSince(c)
  <2>1. disposing' = [disposing EXCEPT ![c] = "unwinding"] /\ UNCHANGED waitingOn
    BY <1>4 DEF Drain
  <2>2. phase[c] = "idle"
    <3>1. activity[c] \in 0 .. MaxActivities
      BY <1>1 DEF TypeOK
    <3>2. ~(activity[c] < activity[c])
      BY <3>1, ActivitiesAssumption
    <3> QED BY <1>2, <1>4, <3>2 DEF Settled, NoneSince
  <2>3. /\ disposing'[c] = "unwinding" /\ \A d \in Calls \ {c} : disposing'[d] = disposing[d]
    BY <1>1, <2>1 DEF TypeOK
  <2>4. TypeOK'
    <3>1. WrapperTypes'
      BY <1>1, <1>2, <2>1, TypeParts DEF WrapperTypes, wrapper
    <3>2. DriverTypes'
      BY <1>1, <1>2, <2>1, TypeParts DEF DriverTypes
    <3>3. TeardownTypes'
      BY <1>1, <1>2, <2>1, TypeParts DEF TeardownTypes
    <3>4. PlaceTypes'
      BY <1>1, <1>2, <2>1, TypeParts DEF PlaceTypes, registries, fibers
    <3> QED BY <3>1, <3>2, <3>3, <3>4, TypeParts
  <2>5. CallFits(c)'
    BY <1>1, <1>2, <2>2, <2>3, DriverFits
  <2> QED BY <1>2, <1>3, <2>3, <2>4, <2>5, DriverKeeps
<1>5. CASE ~NoneSince(c)
  <2>1. waitingOn' = [waitingOn EXCEPT ![c] = activity[c]] /\ UNCHANGED disposing
    BY <1>5 DEF Drain
  <2>2. TypeOK'
    <3>1. WrapperTypes'
      BY <1>1, <1>2, <2>1, TypeParts DEF WrapperTypes, wrapper
    <3>2. DriverTypes'
      BY <1>1, <1>2, <2>1, TypeParts DEF DriverTypes
    <3>3. TeardownTypes'
      BY <1>1, <1>2, <2>1, TypeParts DEF TeardownTypes, DriverTypes
    <3>4. PlaceTypes'
      BY <1>1, <1>2, <2>1, TypeParts DEF PlaceTypes, registries, fibers
    <3> QED BY <3>1, <3>2, <3>3, <3>4, TypeParts
  <2>3. CallFits(c)'
    BY <1>1, <1>2, <2>1, DriverFits DEF CallFits
  <2> QED BY <1>2, <1>3, <2>1, <2>2, <2>3, DriverKeeps
<1> QED BY <1>4, <1>5

-----------------------------------------------------------------------------
(***************************************************************************)
(* Those who tear down.                                                    *)
(***************************************************************************)
\* A teardown that is started, or an abort, outside of publication or not.
LEMMA TeardownKeeps ==
    ASSUME IInv, NEW c \in Calls, TypeOK', Budget', CallFits(c)', InProgress(c) \/ prepared[c],
           UNCHANGED <<kind, loaded, prepared, activity, begun, phase, registries, fibers>>,
           \A d \in Calls \ {c} : /\ pc'[d] = pc[d] /\ callerAborted'[d] = callerAborted[d]
                                  /\ aborted'[d] = aborted[d] /\ disposing'[d] = disposing[d],
           pc'[c] = pc[c] \/ (pc[c] = "setup" /\ pc'[c] \in {"failing", "failed"}),
           disposing'[c] = disposing[c] \/ (disposing[c] = "no" /\ disposing'[c] = "draining")
    PROVE  IInv' /\ UNCHANGED <<told, who>>
<1>1. \A d \in Calls \ {c} : UNCHANGED At(d)
  BY DEF At
<1>2. OnlyItself(c)
  BY <1>1 DEF OnlyItself, fibers, Publishing, Leaving, Finished, Lost, InProgress, Tracked
<1> QED BY <1>2, OneCallStep

\* dispose() on a prepared call: what its teardown and its fit become.
LEMMA DisposeFits ==
    ASSUME IInv, NEW c \in Calls, prepared[c], Dispose({c}),
           UNCHANGED <<kind, loaded, prepared, callerAborted, registries, fibers>>,
           pc' \in [Calls -> Stages], \A d \in Calls \ {c} : pc'[d] = pc[d],
           pc'[c] = pc[c] \/ (pc[c] \in {"setup", "session", "agent", "start"}
                              /\ pc'[c] = IF kind[c] = "fallback" THEN "failed" ELSE "failing")
    PROVE  /\ TypeOK' /\ Budget' /\ CallFits(c)'
           /\ UNCHANGED <<activity, begun, phase>>
           /\ \A d \in Calls \ {c} : aborted'[d] = aborted[d] /\ disposing'[d] = disposing[d]
           /\ disposing'[c] = disposing[c] \/ (disposing[c] = "no" /\ disposing'[c] = "draining")
<1>1. TypeOK /\ Budget /\ CallFits(c)
  BY DEF IInv
<1>2. /\ aborted' \in [Calls -> BOOLEAN] /\ latched' \in [Calls -> BOOLEAN]
      /\ disposing' \in [Calls -> {"no", "draining", "unwinding", "broken", "leaving",
                                   "fleeing", "done", "lost"}]
      /\ waitingOn' \in [Calls -> 0 .. MaxActivities]
      /\ reason' \in [Calls -> {"none", "user", "disposed"}]
      /\ UNCHANGED <<activity, begun, phase>> /\ Budget'
  BY <1>1, DisposeEach
<1>3. /\ \A d \in Calls \ {c} : aborted'[d] = aborted[d] /\ disposing'[d] = disposing[d]
      /\ IF disposing[c] = "no" THEN aborted'[c] /\ disposing'[c] = "draining"
         ELSE aborted'[c] = aborted[c] /\ disposing'[c] = disposing[c]
  BY <1>1, DisposeEach
<1>4. TypeOK'
  <2>1. WrapperTypes'
    BY <1>1, <1>2, TypeParts DEF WrapperTypes, Stages
  <2>2. DriverTypes'
    BY <1>1, <1>2, TypeParts DEF DriverTypes
  <2>3. TeardownTypes'
    BY <1>1, <1>2, TypeParts DEF TeardownTypes
  <2>4. PlaceTypes'
    BY <1>1, <1>2, TypeParts DEF PlaceTypes, registries, fibers
  <2> QED BY <2>1, <2>2, <2>3, <2>4, TypeParts
<1>5. UNCHANGED <<owner, factory>>
  BY DEF fibers
<1>6. CallFits(c)'
  <2>1. aborted[c] => aborted'[c]
    BY <1>3
  <2>2. disposing'[c] # "no" => aborted'[c]
    BY <1>1, <1>3 DEF CallFits
  <2>3. disposing'[c] \in {"unwinding", "leaving", "done"} => disposing[c] = disposing'[c]
    BY <1>3
  <2>4. pc'[c] = "failed" => pc[c] = "failed" \/ kind[c] = "fallback"
    OBVIOUS
  <2>5. Publishing(c)' => Publishing(c)
    BY DEF Publishing
  <2> QED BY <1>1, <1>2, <1>5, <2>1, <2>2, <2>3, <2>4, <2>5
          DEF CallFits, TornDownFactory, OwnerRan, Configured
<1>7. disposing'[c] = disposing[c] \/ (disposing[c] = "no" /\ disposing'[c] = "draining")
  BY <1>3
<1> QED BY <1>2, <1>3, <1>4, <1>6, <1>7

\* A setup that is given up is torn down.
LEMMA SetupThrows ==
    ASSUME IInv, NEW c \in Calls, pc[c] = "setup", Throw(c),
           UNCHANGED <<kind, loaded, prepared, callerAborted, registries, fibers>>
    PROVE  IInv' /\ UNCHANGED <<told, who>>
<1>1. prepared[c] /\ TypeOK /\ Dispose({c})
  BY DEF IInv, CallFits, Throw
<1>2. /\ pc' \in [Calls -> Stages] /\ \A d \in Calls \ {c} : pc'[d] = pc[d]
      /\ pc'[c] = IF kind[c] = "fallback" THEN "failed" ELSE "failing"
  BY <1>1 DEF Throw, TypeOK, Stages
<1>3. /\ TypeOK' /\ Budget' /\ CallFits(c)' /\ UNCHANGED <<activity, begun, phase>>
      /\ \A d \in Calls \ {c} : aborted'[d] = aborted[d] /\ disposing'[d] = disposing[d]
      /\ disposing'[c] = disposing[c] \/ (disposing[c] = "no" /\ disposing'[c] = "draining")
  BY <1>1, <1>2, DisposeFits
<1> QED BY <1>1, <1>2, <1>3, TeardownKeeps

\* Setup rejects.
LEMMA SetupFailsKeeps ==
    ASSUME IInv, NEW c \in Calls, SetupFails(c)  PROVE IInv' /\ UNCHANGED <<told, who>>
BY SetupThrows DEF SetupFails

\* A handle is disposed once.
LEMMA HandleDisposeKeeps ==
    ASSUME IInv, NEW c \in Calls, HandleDispose(c)  PROVE IInv' /\ UNCHANGED <<told, who>>
<1>1. /\ TypeOK /\ prepared[c] /\ Dispose({c})
      /\ UNCHANGED <<pc, kind, loaded, prepared, callerAborted, registries, fibers>>
  BY DEF IInv, CallFits, HandleDispose, wrapper
<1>2. pc' \in [Calls -> Stages]
  BY <1>1 DEF TypeOK, Stages
<1>3. /\ TypeOK' /\ Budget' /\ CallFits(c)' /\ UNCHANGED <<activity, begun, phase>>
      /\ \A d \in Calls \ {c} : aborted'[d] = aborted[d] /\ disposing'[d] = disposing[d]
      /\ disposing'[c] = disposing[c] \/ (disposing[c] = "no" /\ disposing'[c] = "draining")
  BY <1>1, <1>2, DisposeFits
<1>4. /\ UNCHANGED <<kind, loaded, prepared, activity, begun, phase, registries, fibers>>
      /\ pc'[c] = pc[c]
      /\ \A d \in Calls \ {c} : pc'[d] = pc[d] /\ callerAborted'[d] = callerAborted[d]
  BY <1>1, <1>3
<1> QED BY <1>1, <1>3, <1>4, TeardownKeeps

\* The caller's signal aborts what is prepared of its call.
LEMMA CallerAbortsKeeps ==
    ASSUME IInv, NEW c \in Calls, CallerAborts(c)  PROVE IInv' /\ UNCHANGED <<told, who>>
<1>1. TypeOK /\ Budget /\ CallFits(c)
  BY DEF IInv
<1>2. /\ ~callerAborted[c] /\ ~Configured(c) /\ InProgress(c)
      /\ callerAborted' = [callerAborted EXCEPT ![c] = TRUE]
      /\ aborted' = [aborted EXCEPT ![c] = @ \/ prepared[c]]
      /\ UNCHANGED <<pc, kind, loaded, prepared, activity, begun, phase, reason, latched,
                     disposing, waitingOn, registries, fibers>>
  BY DEF CallerAborts, wrapper, driver
<1>3. Budget'
  BY <1>1, <1>2, BudgetKept
<1>4. (aborted[c] \/ prepared[c]) \in BOOLEAN
  OBVIOUS
<1>5. /\ aborted' \in [Calls -> BOOLEAN] /\ callerAborted' \in [Calls -> BOOLEAN]
      /\ callerAborted'[c] /\ (aborted'[c] <=> aborted[c] \/ prepared[c])
      /\ \A d \in Calls \ {c} : aborted'[d] = aborted[d] /\ callerAborted'[d] = callerAborted[d]
  BY <1>1, <1>2, <1>4 DEF TypeOK
<1>6. TypeOK'
  <2>1. WrapperTypes'
    BY <1>1, <1>2, <1>5, TypeParts DEF WrapperTypes
  <2>2. DriverTypes'
    BY <1>1, <1>2, <1>5, TypeParts DEF DriverTypes
  <2>3. TeardownTypes'
    BY <1>1, <1>2, <1>5, TypeParts DEF TeardownTypes
  <2>4. PlaceTypes'
    BY <1>1, <1>2, <1>5, TypeParts DEF PlaceTypes, registries, fibers
  <2> QED BY <2>1, <2>2, <2>3, <2>4, TypeParts
<1>7. CallFits(c)'
  <2>1. pc[c] \notin {"new", "published"} /\ kind[c] \notin {"none", "configured", "fallback"}
    BY <1>1, <1>2 DEF InProgress, Configured, CallFits
  <2>2. UNCHANGED <<pc, kind, loaded, prepared, disposing, phase, owner, factory>>
    BY <1>2 DEF fibers
  <2> QED BY <1>1, <1>5, <2>1, <2>2 DEF CallFits, Publishing, TornDownFactory, OwnerRan, Configured
<1>8. /\ InProgress(c) /\ pc'[c] = pc[c] /\ disposing'[c] = disposing[c]
      /\ UNCHANGED <<kind, loaded, prepared, activity, begun, phase, registries, fibers>>
      /\ \A d \in Calls \ {c} : pc'[d] = pc[d] /\ disposing'[d] = disposing[d]
  BY <1>2
<1> QED BY <1>3, <1>5, <1>6, <1>7, <1>8, TeardownKeeps

-----------------------------------------------------------------------------
(***************************************************************************)
(* The fibers.                                                             *)
(***************************************************************************)
\* What a fiber does to many calls at once changes no entry.
LEMMA EntriesUntouched ==
    ASSUME IInv, UNCHANGED <<registries, pc, prepared>>,
           \A d \in Calls : \/ disposing'[d] = disposing[d]
                            \/ disposing[d] = "no" /\ disposing'[d] = "draining"
    PROVE  OneAtATime' /\ EntriesFit' /\ WaitersHaveAReason'
<1>1. \A d \in Calls : /\ Publishing(d)' <=> Publishing(d)
                       /\ Leaving(d)' <=> Leaving(d)
                       /\ Finished(d)' <=> Finished(d)
  BY DEF Publishing, Leaving, Finished
<1>2. OneAtATime'
  BY <1>1 DEF IInv, OneAtATime, Busy
<1>3. Quiet' <=> Quiet
  BY <1>1 DEF Quiet
<1>4. UNCHANGED <<sessions, agents, told, who>>
  BY DEF registries
<1>5. EntriesFit'
  <2>1. told = "agent disposed" => Leaving(sessions)'
    BY <1>1, <1>4, NoneAssumption DEF IInv, EntriesFit, TypeOK
  <2> QED BY <1>1, <1>3, <1>4, <2>1 DEF IInv, EntriesFit
<1> QED BY <1>2, <1>4, <1>5 DEF IInv, WaitersHaveAReason

\* A fiber moves on and leaves the calls alone.
LEMMA FiberMoves ==
    ASSUME IInv, UNCHANGED <<wrapper, prepared, callerAborted, driver, teardown, registries, joins>>,
           owner' \in {"active", "unloading", "cleaned", "gone"},
           factory' \in {"active", "unloading", "tearing", "gone"},
           initiators' \in {"active", "closing"},
           TornDownFactory' <=> TornDownFactory,
           owner' \in {"cleaned", "gone"} <=> owner \in {"cleaned", "gone"},
           GoneFit'
    PROVE  IInv' /\ UNCHANGED <<told, who>>
<1>1. TypeOK /\ Budget
  BY DEF IInv
<1>2. UNCHANGED <<pc, kind, loaded, prepared, callerAborted, aborted, disposing, waitingOn, activity,
                  begun, phase, reason, latched, sessions, agents, told, who, joins>>
  BY DEF wrapper, driver, teardown, registries
<1>3. TypeOK'
  BY <1>1, <1>2 DEF TypeOK
<1>4. Budget'
  BY <1>1, <1>2, BudgetKept
<1>5. OneAtATime' /\ EntriesFit' /\ WaitersHaveAReason'
  BY <1>2, EntriesUntouched DEF registries
<1>6. \A d \in Calls : CallFits(d)'
  <2> TAKE d \in Calls
  <2>1. CallFits(d) /\ (OwnerRan(d)' <=> OwnerRan(d))
    BY <1>2 DEF IInv, OwnerRan, Configured
  <2> QED BY <1>2, <2>1 DEF CallFits, Publishing
<1> QED BY <1>2, <1>3, <1>4, <1>5, <1>6 DEF IInv

\* The owner begins to unload.
LEMMA OwnerUnloadsKeeps == ASSUME IInv, OwnerUnloads  PROVE IInv' /\ UNCHANGED <<told, who>>
<1>1. GoneFit'
  BY DEF OwnerUnloads, IInv, GoneFit, Lost, Tracked, InProgress, Finished, wrapper, teardown
<1>2. TypeOK
  BY DEF IInv
<1> QED BY <1>1, <1>2, FiberMoves DEF OwnerUnloads, TornDownFactory, TypeOK

\* The owner's unload ends when what it started has ended.
LEMMA OwnerGoneKeeps == ASSUME IInv, OwnerGone  PROVE IInv' /\ UNCHANGED <<told, who>>
<1>1. GoneFit'
  BY DEF OwnerGone, Awaited, IInv, GoneFit, Lost, Tracked, InProgress, Finished, wrapper, teardown
<1>2. TypeOK
  BY DEF IInv
<1> QED BY <1>1, <1>2, FiberMoves DEF OwnerGone, TornDownFactory, TypeOK

\* The factory begins to unload.
LEMMA FactoryUnloadsKeeps == ASSUME IInv, FactoryUnloads  PROVE IInv' /\ UNCHANGED <<told, who>>
<1>1. GoneFit'
  BY DEF FactoryUnloads, IInv, GoneFit, Lost, Tracked, InProgress, Finished, wrapper, teardown
<1>2. TypeOK
  BY DEF IInv
<1> QED BY <1>1, <1>2, FiberMoves DEF FactoryUnloads, FactoryActive, TornDownFactory, TypeOK

\* The factory's unload ends when every wrapper and every teardown has.
LEMMA FactoryGoneKeeps == ASSUME IInv, FactoryGone  PROVE IInv' /\ UNCHANGED <<told, who>>
<1>1. GoneFit'
  BY DEF FactoryGone, AllSettled, IInv, GoneFit, Lost, Tracked, InProgress, Finished, wrapper, teardown
<1>2. TypeOK
  BY DEF IInv
<1> QED BY <1>1, <1>2, FiberMoves DEF FactoryGone, TornDownFactory, TypeOK

\* The initiators close.
LEMMA CloseInitiatorsKeeps == ASSUME IInv, CloseInitiators  PROVE IInv' /\ UNCHANGED <<told, who>>
<1>1. GoneFit'
  BY DEF CloseInitiators, IInv, GoneFit, Lost, Tracked, InProgress, Finished, wrapper, teardown
<1>2. TypeOK
  BY DEF IInv
<1> QED BY <1>1, <1>2, FiberMoves DEF CloseInitiators, TornDownFactory, TypeOK

\* An unload starts the teardowns of S, which hold whatever it has to end, at a
\* moment when nobody publishes.
LEMMA UnloadKeeps ==
    ASSUME IInv, NEW S, Dispose(S), Quiet, GoneFit',
           UNCHANGED <<wrapper, prepared, callerAborted, registries, initiators>>,
           owner' \in {"active", "unloading", "cleaned", "gone"},
           factory' \in {"active", "unloading", "tearing", "gone"}, joins' \subseteq Calls,
           \A d \in Calls : prepared[d] /\ (TornDownFactory' \/ OwnerRan(d)')
                               => d \in S \/ TornDownFactory \/ OwnerRan(d)
    PROVE  IInv' /\ UNCHANGED <<told, who>>
<1>1. TypeOK /\ Budget
  BY DEF IInv
<1>2. UNCHANGED <<pc, kind, loaded, prepared, callerAborted, sessions, agents, told, who, initiators>>
  BY DEF wrapper, registries
<1>3. /\ aborted' \in [Calls -> BOOLEAN] /\ latched' \in [Calls -> BOOLEAN]
      /\ disposing' \in [Calls -> {"no", "draining", "unwinding", "broken", "leaving",
                                   "fleeing", "done", "lost"}]
      /\ waitingOn' \in [Calls -> 0 .. MaxActivities]
      /\ reason' \in [Calls -> {"none", "user", "disposed"}]
      /\ UNCHANGED <<activity, begun, phase>> /\ Budget'
  BY <1>1, DisposeEach
<1>4. \A d \in Calls :
          IF d \in S /\ prepared[d] /\ disposing[d] = "no"
          THEN aborted'[d] /\ disposing'[d] = "draining"
          ELSE aborted'[d] = aborted[d] /\ disposing'[d] = disposing[d]
  BY <1>1, DisposeEach
<1>5. TypeOK'
  BY <1>1, <1>2, <1>3 DEF TypeOK
<1>6. OneAtATime' /\ EntriesFit' /\ WaitersHaveAReason'
  BY <1>2, <1>4, EntriesUntouched DEF registries
<1>7. \A d \in Calls : CallFits(d)'
  <2> TAKE d \in Calls
  <2>1. CallFits(d) /\ ~Publishing(d) /\ ~Publishing(d)'
    BY <1>2 DEF IInv, Quiet, Publishing
  <2>2. /\ aborted[d] => aborted'[d]
        /\ disposing'[d] # "no" => prepared[d] /\ aborted'[d]
        /\ disposing'[d] \in {"unwinding", "leaving", "done"} => disposing[d] = disposing'[d]
    BY <1>4, <2>1 DEF CallFits
  <2>3. prepared[d] /\ (TornDownFactory' \/ OwnerRan(d)') => aborted'[d]
    BY <1>4, <2>1, <2>2 DEF CallFits
  <2> QED BY <1>2, <1>3, <2>1, <2>2, <2>3 DEF CallFits
<1> QED BY <1>2, <1>3, <1>5, <1>6, <1>7 DEF IInv

\* The owner's cleanup.
LEMMA OwnerCleansKeeps == ASSUME IInv, OwnerCleans  PROVE IInv' /\ UNCHANGED <<told, who>>
<1>1. /\ Quiet /\ owner = "unloading" /\ owner' = "cleaned" /\ Dispose(Owned)
      /\ joins' = {c \in Owned : disposing[c] = "no"}
      /\ UNCHANGED <<wrapper, prepared, callerAborted, registries, factory, initiators>>
  BY DEF OwnerCleans
<1>2. joins' \subseteq Calls /\ UNCHANGED kind
  BY <1>1 DEF Owned, wrapper
<1>3. GoneFit'
  <2>1. \A d \in Calls : IF d \in Owned /\ prepared[d] /\ disposing[d] = "no"
                         THEN disposing'[d] = "draining" ELSE disposing'[d] = disposing[d]
    BY <1>1, DisposeEach DEF IInv
  <2>2. ASSUME factory = "gone", \A d \in Calls : ~Lost(d)', NEW d \in Calls
        PROVE  ~Tracked(d)' /\ ~InProgress(d)'
    <3>1. \A e \in Calls : ~Lost(e)
      BY <2>1, <2>2 DEF Lost
    <3>2. ~Tracked(d) /\ ~InProgress(d)
      BY <2>2, <3>1 DEF IInv, GoneFit
    <3> QED BY <1>1, <2>1, <3>2 DEF Tracked, Finished, InProgress, wrapper
  <2> QED BY <1>1, <2>2 DEF GoneFit
<1>4. TypeOK
  BY DEF IInv
<1>5. \A d \in Calls : prepared[d] /\ (TornDownFactory' \/ OwnerRan(d)')
                         => d \in Owned \/ TornDownFactory \/ OwnerRan(d)
  BY <1>1, <1>2 DEF TornDownFactory, OwnerRan, Owned, Configured
<1> QED BY <1>1, <1>2, <1>3, <1>4, <1>5, UnloadKeeps DEF TypeOK

\* The factory's.
LEMMA FactoryTearsKeeps == ASSUME IInv, FactoryTears  PROVE IInv' /\ UNCHANGED <<told, who>>
<1>1. /\ Quiet /\ factory = "unloading" /\ factory' = "tearing" /\ Dispose(Calls)
      /\ UNCHANGED <<wrapper, prepared, callerAborted, registries, owner, joins, initiators>>
  BY DEF FactoryTears
<1>2. GoneFit'
  <2>1. \A d \in Calls : IF d \in Calls /\ prepared[d] /\ disposing[d] = "no"
                         THEN disposing'[d] = "draining" ELSE disposing'[d] = disposing[d]
    BY <1>1, DisposeEach DEF IInv
  <2>2. \A d \in Calls : Finished(d)' <=> Finished(d)
    BY <2>1 DEF Finished
  <2> QED BY <1>1, <2>2 DEF GoneFit, IInv, TypeOK
<1>3. TypeOK
  BY DEF IInv
<1>4. UNCHANGED owner /\ UNCHANGED joins /\ \A d \in Calls : d \in Calls
  BY <1>1
<1> QED BY <1>1, <1>2, <1>3, <1>4, UnloadKeeps DEF TypeOK

-----------------------------------------------------------------------------
(***************************************************************************)
(* Publication and the two detaches: what observers are told.              *)
(***************************************************************************)
\* A step of a call that is not over cannot follow the factory's end.
LEMMA GoneKept ==
    ASSUME IInv, NEW c \in Calls, Tracked(c) \/ InProgress(c),
           UNCHANGED <<owner, joins, factory>>,
           \A d \in Calls : (Lost(d) => Lost(d)') /\ (Finished(d) => Finished(d)')
    PROVE  GoneFit'
<1>1. ~(factory = "gone" /\ \A d \in Calls : ~Lost(d)')
  BY DEF IInv, GoneFit
<1>2. owner = "gone" => \A d \in joins : Finished(d)'
  BY DEF IInv, GoneFit, TypeOK
<1> QED BY <1>1, <1>2 DEF GoneFit

\* While one call publishes or detaches nobody else does either.
LEMMA Alone ==
    ASSUME IInv, NEW c \in Calls, Busy(c) \/ Quiet
    PROVE  \A d \in Calls \ {c} : ~Publishing(d) /\ ~Leaving(d)
BY DEF IInv, OneAtATime, Busy, Quiet, Publishing

\* Both entries are made: a life begins.
LEMMA EntryKeeps ==
    ASSUME IInv, NEW c \in Calls, Quiet, sessions = None,
           sessions' = c, agents' = c, Tell("session created", c),
           pc' = [pc EXCEPT ![c] = "session"],
           prepared' = [prepared EXCEPT ![c] = TRUE], kind' \in [Calls -> Kinds],
           \A d \in Calls \ {c} : kind'[d] = kind[d],
           \/ pc[c] = "setup" /\ ~aborted[c] /\ kind'[c] = kind[c]
           \/ pc[c] = "listing" /\ FactoryActive /\ kind'[c] = "fallback",
           UNCHANGED <<loaded, callerAborted, driver, teardown, fibers>>
    PROVE  IInv' /\ Life!Begin(c)
<1>1. TypeOK /\ Budget /\ CallFits(c)
  BY DEF IInv
<1>2. UNCHANGED <<loaded, callerAborted, activity, begun, phase, reason, latched, aborted, disposing,
                  waitingOn, owner, joins, factory, initiators>>
  BY DEF driver, teardown, fibers
<1>3. TypeOK'
  BY <1>1, <1>2 DEF TypeOK, Kinds, Tell
<1>4. Budget'
  BY <1>1, <1>2, BudgetKept
<1>5. disposing[c] = "no" /\ ~TornDownFactory /\ ~OwnerRan(c)'
  BY <1>1, <1>2 DEF CallFits, OwnerRan, Configured, FactoryActive, TornDownFactory
<1>6. pc'[c] = "session" /\ prepared'[c]
  BY <1>1 DEF TypeOK
<1>7. CallFits(c)'
  <2>1. CASE pc[c] = "setup" /\ ~aborted[c] /\ kind'[c] = kind[c]
    BY <1>1, <1>2, <1>5, <1>6, <2>1 DEF CallFits, TornDownFactory, OwnerRan, Configured, Publishing
  <2>2. CASE pc[c] = "listing" /\ FactoryActive /\ kind'[c] = "fallback"
    BY <1>1, <1>2, <1>5, <1>6, <2>2 DEF CallFits, TornDownFactory, OwnerRan, Configured, Publishing
  <2> QED BY <2>1, <2>2
<1>8. \A d \in Calls \ {c} : UNCHANGED At(d)
  BY <1>1, <1>2 DEF At, TypeOK
<1>9. \A d \in Calls : CallFits(d)'
  BY <1>2, <1>7, <1>8, UntouchedFits DEF IInv
<1>10. /\ \A d \in Calls : ~Leaving(d)'
       /\ \A d \in Calls : Publishing(d)' <=> d = c
  <2>1. \A d \in Calls \ {c} : pc'[d] = pc[d]
    BY <1>1 DEF TypeOK
  <2>2. \A d \in Calls : ~Publishing(d) /\ ~Leaving(d)
    BY DEF Quiet, Publishing
  <2> QED BY <1>2, <1>6, <2>1, <2>2 DEF Publishing, Leaving
<1>11. OneAtATime'
  BY <1>10 DEF OneAtATime, Busy
<1>12. EntriesFit'
  <2>1. ~Quiet'
    BY <1>6 DEF Quiet
  <2>2. c # None /\ prepared'[c] /\ ~Finished(c)'
    BY <1>2, <1>5, <1>6, NoneAssumption DEF Finished
  <2> QED BY <1>6, <1>10, <2>1, <2>2 DEF EntriesFit, Tell
<1>13. WaitersHaveAReason'
  BY NoneAssumption DEF WaitersHaveAReason
<1>14. GoneFit'
  <2>1. InProgress(c)
    BY <1>1 DEF InProgress
  <2> QED BY <1>2, <2>1, GoneKept DEF Lost, Finished
<1>15. Life!Begin(c)
  BY DEF IInv, EntriesFit, Tell, Life!Begin, Life!Free
<1> QED BY <1>3, <1>4, <1>9, <1>11, <1>12, <1>13, <1>14, <1>15 DEF IInv

\* Setup has resolved.  A second lifecycle of the id is torn down instead.
LEMMA PublishKeeps ==
    ASSUME IInv, NEW c \in Calls, Publish(c)
    PROVE  IInv' /\ (Life!Begin(c) \/ UNCHANGED <<told, who>>)
<1>1. /\ Quiet /\ pc[c] = "setup" /\ ~aborted[c] /\ Enter(c)
      /\ UNCHANGED <<kind, loaded, prepared, callerAborted, fibers>>
  BY DEF Publish
<1>2. CASE sessions # None
  BY <1>1, <1>2, SetupThrows DEF Enter
<1>3. CASE sessions = None
  <2>1. prepared[c] /\ TypeOK
    BY <1>1 DEF IInv, CallFits
  <2>2. prepared' = [prepared EXCEPT ![c] = TRUE] /\ kind' \in [Calls -> Kinds]
    BY <1>1, <2>1 DEF TypeOK, Kinds
  <2>3. /\ sessions' = c /\ agents' = c /\ Tell("session created", c)
        /\ pc' = [pc EXCEPT ![c] = "session"] /\ UNCHANGED <<driver, teardown>>
    BY <1>1, <1>3 DEF Enter
  <2> QED BY <1>1, <1>3, <2>2, <2>3, EntryKeeps
<1> QED BY <1>2, <1>3

\* The configured agent is created, or the id is taken by now.
LEMMA FallbackKeeps ==
    ASSUME IInv, NEW c \in Calls, Fallback(c)
    PROVE  IInv' /\ (Life!Begin(c) \/ UNCHANGED <<told, who>>)
<1>1. TypeOK /\ CallFits(c) /\ Quiet /\ pc[c] = "listing" /\ UNCHANGED <<loaded, callerAborted, fibers>>
  BY DEF IInv, Fallback
<1>2. CASE FactoryActive /\ OwnerActive(c) /\ sessions = None
  <2>1. /\ kind' = [kind EXCEPT ![c] = "fallback"] /\ prepared' = [prepared EXCEPT ![c] = TRUE]
        /\ Enter(c)
    BY <1>2 DEF Fallback
  <2>2. /\ kind' \in [Calls -> Kinds] /\ kind'[c] = "fallback"
        /\ \A d \in Calls \ {c} : kind'[d] = kind[d]
    BY <1>1, <2>1 DEF TypeOK, Kinds
  <2>3. /\ sessions' = c /\ agents' = c /\ Tell("session created", c)
        /\ pc' = [pc EXCEPT ![c] = "session"] /\ UNCHANGED <<driver, teardown>>
    BY <1>2, <2>1 DEF Enter
  <2> QED BY <1>1, <1>2, <2>1, <2>2, <2>3, EntryKeeps
<1>3. CASE ~(FactoryActive /\ OwnerActive(c) /\ sessions = None)
  <2>1. /\ pc' = [pc EXCEPT ![c] = "failed"]
        /\ UNCHANGED <<kind, prepared, driver, teardown, registries>>
    BY <1>3 DEF Fallback
  <2>2. Moves(c)
    BY <1>1, <2>1 DEF Moves, TypeOK, Stages, Kinds, Loads, Publishing, InProgress
  <2>3. CallFits(c)'
    <3>1. UNCHANGED <<prepared, callerAborted, aborted, disposing, phase, owner, factory>>
      BY <1>1, <2>1 DEF driver, teardown, fibers
    <3> QED BY <1>1, <2>1, <3>1 DEF CallFits, TypeOK, Publishing, TornDownFactory, OwnerRan, Configured
  <2> QED BY <1>1, <2>1, <2>2, <2>3, MoveKeeps
<1> QED BY <1>2, <1>3

\* The next announcement of the call that publishes.
LEMMA AnnounceKeeps ==
    ASSUME IInv, NEW c \in Calls, NEW here \in {"session", "agent"},
           NEW edge \in {"agent created", "session start"},
           edge = IF here = "session" THEN "agent created" ELSE "session start",
           Announce(c, here, edge)
    PROVE  /\ IInv' /\ who = c /\ who' = c /\ told' = edge
           /\ told = IF here = "session" THEN "session created" ELSE "agent created"
<1>1. TypeOK /\ Budget /\ CallFits(c)
  BY DEF IInv
<1>2. /\ pc[c] = here /\ told' = edge /\ who' = c
      /\ pc' = [pc EXCEPT ![c] = IF here = "session" THEN "agent" ELSE "start"]
      /\ UNCHANGED <<kind, loaded, prepared, callerAborted, activity, begun, phase, reason, latched,
                     aborted, disposing, waitingOn, sessions, agents, owner, joins, factory,
                     initiators>>
  BY DEF Announce, Tell, driver, teardown, fibers
<1>3. TypeOK'
  BY <1>1, <1>2 DEF TypeOK
<1>4. Budget'
  BY <1>1, <1>2, BudgetKept
<1>5. /\ Publishing(c) /\ Publishing(c)'
      /\ pc'[c] = IF here = "session" THEN "agent" ELSE "start"
  BY <1>1, <1>2 DEF TypeOK, Publishing
<1>6. CallFits(c)'
  BY <1>1, <1>2, <1>5 DEF CallFits, Publishing, TornDownFactory, OwnerRan, Configured
<1>7. \A d \in Calls \ {c} : UNCHANGED At(d)
  BY <1>1, <1>2 DEF At, TypeOK
<1>8. \A d \in Calls : CallFits(d)'
  BY <1>2, <1>6, <1>7, UntouchedFits DEF IInv
<1>9. /\ \A d \in Calls : (Publishing(d)' <=> Publishing(d)) /\ (Leaving(d)' <=> Leaving(d))
      /\ \A d \in Calls : Finished(d)' <=> Finished(d)
  BY <1>2, <1>5, <1>7 DEF At, Publishing, Leaving, Finished
<1>10. OneAtATime'
  BY <1>9 DEF IInv, OneAtATime, Busy
<1>11. sessions = c /\ agents = c /\ who = c /\ c # None
  BY <1>5, NoneAssumption DEF IInv, EntriesFit
<1>12. EntriesFit'
  <2>1. \A d \in Calls : (Publishing(d)' => d = c) /\ ~Leaving(d)'
    BY <1>5, <1>9, Alone DEF IInv, OneAtATime, Busy
  <2>2. ~Quiet'
    BY <1>5 DEF Quiet, Publishing
  <2>3. prepared'[c] /\ ~Finished(c)'
    BY <1>2, <1>9, <1>11 DEF IInv, EntriesFit
  <2>4. /\ pc'[c] # "session" /\ told' \notin {"free", "agent disposed"}
        /\ pc'[c] = "agent" => told' = "agent created"
        /\ pc'[c] = "start" => told' = "session start"
    <3>1. told' = IF here = "session" THEN "agent created" ELSE "session start"
      BY <1>2
    <3>2. pc'[c] = IF here = "session" THEN "agent" ELSE "start"
      BY <1>5
    <3> QED BY <3>1, <3>2
  <2>5. sessions' = c /\ agents' = c /\ who' = c
    BY <1>2, <1>11
  <2> QED BY <1>11, <2>1, <2>2, <2>3, <2>4, <2>5 DEF EntriesFit
<1>13. WaitersHaveAReason'
  BY <1>2, <1>11 DEF WaitersHaveAReason
<1>14. GoneFit'
  <2>1. InProgress(c)
    BY <1>2 DEF InProgress
  <2> QED BY <1>2, <2>1, GoneKept DEF Lost, Finished
<1>15. told = IF here = "session" THEN "session created" ELSE "agent created"
  BY <1>2, <1>5 DEF IInv, EntriesFit
<1> QED BY <1>2, <1>3, <1>4, <1>8, <1>10, <1>11, <1>12, <1>13, <1>14, <1>15 DEF IInv

\* The call that publishes is through, or given up.
LEMMA PublicationEnds ==
    ASSUME IInv, NEW c \in Calls, Publishing(c), TypeOK', Budget', CallFits(c)',
           UNCHANGED <<registries, prepared, owner, joins, factory>>,
           \A d \in Calls \ {c} : UNCHANGED At(d),
           pc'[c] \in {"published", "failing", "failed"},
           disposing'[c] = disposing[c] \/ (disposing[c] = "no" /\ disposing'[c] = "draining")
    PROVE  IInv' /\ UNCHANGED <<told, who>>
<1>1. UNCHANGED <<sessions, agents, told, who>>
  BY DEF registries
<1>2. \A d \in Calls : CallFits(d)'
  BY UntouchedFits DEF IInv
<1>3. \A d \in Calls : ~Publishing(d)' /\ ~Leaving(d) /\ ~Leaving(d)'
  <2>1. \A d \in Calls \ {c} : ~Publishing(d) /\ ~Leaving(d)
    BY Alone DEF Busy
  <2>2. ~Leaving(c)
    BY DEF IInv, OneAtATime
  <2> QED BY <2>1, <2>2 DEF At, Publishing, Leaving
<1>4. \A d \in Calls : (Finished(d)' <=> Finished(d)) /\ (Lost(d) => Lost(d)')
  BY DEF At, Finished, Lost
<1>5. OneAtATime'
  BY <1>3 DEF OneAtATime, Busy
<1>6. sessions = c /\ agents = c /\ c # None
  BY NoneAssumption DEF IInv, EntriesFit
<1>7. EntriesFit'
  <2>1. told # "agent disposed"
    BY <1>3, <1>6 DEF IInv, EntriesFit
  <2>2. who = sessions /\ (told = "free" <=> sessions = None)
    BY DEF IInv, EntriesFit
  <2>3. prepared[c] /\ ~Finished(c)'
    BY <1>4, <1>6 DEF IInv, EntriesFit
  <2> QED BY <1>1, <1>3, <1>6, <2>1, <2>2, <2>3 DEF EntriesFit
<1>8. WaitersHaveAReason'
  BY <1>1, <1>6 DEF WaitersHaveAReason
<1>9. GoneFit'
  <2>1. InProgress(c)
    BY DEF Publishing, InProgress
  <2> QED BY <1>4, <2>1, GoneKept
<1> QED BY <1>1, <1>2, <1>5, <1>7, <1>8, <1>9 DEF IInv

\* A listener's veto, or an abort that a listener's round brought to light.
LEMMA VetoKeeps ==
    ASSUME IInv, NEW c \in Calls, Veto(c)  PROVE IInv' /\ UNCHANGED <<told, who>>
<1>1. /\ Publishing(c) /\ TypeOK /\ Dispose({c})
      /\ pc' = [pc EXCEPT ![c] = IF kind[c] = "fallback" THEN "failed" ELSE "failing"]
      /\ UNCHANGED <<kind, loaded, prepared, callerAborted, registries, fibers>>
  BY DEF IInv, Veto, Throw, Publishing
<1>2. /\ pc' \in [Calls -> Stages] /\ \A d \in Calls \ {c} : pc'[d] = pc[d]
      /\ pc'[c] = IF kind[c] = "fallback" THEN "failed" ELSE "failing"
  BY <1>1 DEF TypeOK, Stages
<1>3. prepared[c]
  BY <1>1 DEF IInv, CallFits, Publishing
<1>4. /\ TypeOK' /\ Budget' /\ CallFits(c)' /\ UNCHANGED <<activity, begun, phase>>
      /\ \A d \in Calls \ {c} : aborted'[d] = aborted[d] /\ disposing'[d] = disposing[d]
      /\ disposing'[c] = disposing[c] \/ (disposing[c] = "no" /\ disposing'[c] = "draining")
  BY <1>1, <1>2, <1>3, DisposeFits DEF Publishing
<1>5. \A d \in Calls \ {c} : UNCHANGED At(d)
  BY <1>1, <1>2, <1>4 DEF At
<1> QED BY <1>1, <1>2, <1>4, <1>5, PublicationEnds DEF fibers

\* The handle goes to a caller whose signal has not fired.
LEMMA ReturnKeeps ==
    ASSUME IInv, NEW c \in Calls, Return(c)  PROVE IInv' /\ UNCHANGED <<told, who>>
<1>1. TypeOK /\ Budget /\ CallFits(c)
  BY DEF IInv
<1>2. /\ pc[c] = "start" /\ ~aborted[c] /\ pc' = [pc EXCEPT ![c] = "published"]
      /\ loaded' = [loaded EXCEPT ![c] = IF @ = "held" THEN "released" ELSE @]
      /\ UNCHANGED <<kind, prepared, callerAborted, activity, begun, phase, reason, latched, aborted,
                     disposing, waitingOn, registries, owner, joins, factory, initiators>>
  BY DEF Return, Live, Release, driver, teardown, fibers
<1>3. TypeOK'
  <2>1. WrapperTypes'
    BY <1>1, <1>2, TypeParts DEF WrapperTypes, Stages, Kinds, Loads
  <2>2. DriverTypes'
    BY <1>1, <1>2, TypeParts DEF DriverTypes
  <2>3. TeardownTypes'
    BY <1>1, <1>2, TypeParts DEF TeardownTypes
  <2>4. PlaceTypes'
    BY <1>1, <1>2, TypeParts DEF PlaceTypes, registries
  <2> QED BY <2>1, <2>2, <2>3, <2>4, TypeParts
<1>4. Budget'
  BY <1>1, <1>2, BudgetKept
<1>5. /\ pc'[c] = "published" /\ loaded'[c] # "held" /\ (loaded[c] = "none" => loaded'[c] = "none")
  BY <1>1, <1>2 DEF TypeOK
<1>6. CallFits(c)'
  BY <1>1, <1>2, <1>5 DEF CallFits, Publishing, TornDownFactory, OwnerRan, Configured
<1>7. \A d \in Calls \ {c} : UNCHANGED At(d)
  BY <1>1, <1>2 DEF At, TypeOK
<1>8. Publishing(c)
  BY <1>2 DEF Publishing
<1> QED BY <1>2, <1>3, <1>4, <1>5, <1>6, <1>7, <1>8, PublicationEnds

\* The agent leaves the registry; whoever was announced is told of.
LEMMA DetachAgentKeeps ==
    ASSUME IInv, NEW c \in Calls, DetachAgent(c)
    PROVE  /\ IInv'
           /\ \/ Life!Step(c, {"agent created", "session start"}, "agent disposed")
              \/ UNCHANGED <<told, who>>
<1>1. TypeOK /\ Budget /\ CallFits(c)
  BY DEF IInv
<1>2. /\ Quiet /\ disposing[c] \in {"unwinding", "broken"}
      /\ UNCHANGED <<pc, kind, loaded, prepared, callerAborted, activity, begun, phase, reason,
                     latched, aborted, waitingOn, sessions, owner, joins, factory, initiators>>
      /\ disposing' = [disposing EXCEPT ![c] = IF @ = "broken" THEN "fleeing" ELSE "leaving"]
  BY DEF DetachAgent, wrapper, driver, fibers
<1>3. agents' = IF agents = c THEN None ELSE agents
  BY NoneAssumption DEF DetachAgent, OwnEntry
<1>4. IF agents = c /\ who = c /\ told \in {"agent created", "session start"}
      THEN told' = "agent disposed" /\ who' = c
      ELSE UNCHANGED <<told, who>>
  BY DEF DetachAgent, OwnEntry, WasAnnounced, Tell
<1>5. /\ disposing'[c] = IF disposing[c] = "broken" THEN "fleeing" ELSE "leaving"
      /\ \A d \in Calls \ {c} : disposing'[d] = disposing[d]
  BY <1>1, <1>2 DEF TypeOK
<1>6. TypeOK'
  BY <1>1, <1>2, <1>3, <1>4 DEF TypeOK
<1>7. Budget'
  BY <1>1, <1>2, BudgetKept
<1>8. CallFits(c)'
  BY <1>1, <1>2, <1>5 DEF CallFits, Publishing, TornDownFactory, OwnerRan, Configured
<1>9. \A d \in Calls \ {c} : UNCHANGED At(d)
  BY <1>2, <1>5 DEF At
<1>10. \A d \in Calls : CallFits(d)'
  BY <1>2, <1>8, <1>9, UntouchedFits DEF IInv
<1>11. /\ \A d \in Calls : ~Publishing(d)' /\ (Leaving(d)' <=> d = c) /\ ~Leaving(d)
       /\ \A d \in Calls : (Finished(d)' <=> Finished(d)) /\ (Lost(d) => Lost(d)')
  BY <1>2, <1>5 DEF Quiet, Publishing, Leaving, Finished, Lost
<1>12. OneAtATime'
  BY <1>11 DEF OneAtATime, Busy
<1>13. agents = sessions /\ who = sessions /\ (told = "free" <=> sessions = None)
  BY <1>2 DEF IInv, EntriesFit
<1>14. told # "agent disposed"
  BY <1>1, <1>11, <1>13 DEF IInv, EntriesFit, TypeOK
<1>15. EntriesFit'
  <2>1. CASE sessions = c
    <3>1. c # None /\ told \in {"session created", "agent created", "session start"}
      BY <1>1, <1>13, <1>14, <2>1, NoneAssumption DEF TypeOK
    <3>2. agents' = None /\ sessions' = c /\ who' = c /\ told' \in {"session created", "agent disposed"}
      BY <1>2, <1>3, <1>4, <1>13, <2>1, <3>1
    <3>3. prepared'[c] /\ ~Finished(c)'
      BY <1>2, <1>11, <2>1 DEF IInv, EntriesFit
    <3>4. ~Quiet'
      BY <1>11 DEF Quiet
    <3> QED BY <1>11, <3>1, <3>2, <3>3, <3>4 DEF EntriesFit
  <2>2. CASE sessions # c
    <3>1. agents' = sessions /\ UNCHANGED <<sessions, told, who>>
      BY <1>2, <1>3, <1>4, <1>13, <2>2
    <3>2. \A d \in Calls : sessions = d => prepared'[d] /\ ~Finished(d)'
      BY <1>2, <1>11 DEF IInv, EntriesFit
    <3> QED BY <1>11, <1>13, <1>14, <2>2, <3>1, <3>2 DEF EntriesFit
  <2> QED BY <2>1, <2>2
<1>16. WaitersHaveAReason'
  BY <1>2 DEF IInv, WaitersHaveAReason
<1>17. GoneFit'
  <2>1. Tracked(c)
    BY <1>1, <1>2 DEF CallFits, Tracked, Finished
  <2> QED BY <1>2, <1>11, <2>1, GoneKept
<1>18. \/ Life!Step(c, {"agent created", "session start"}, "agent disposed")
       \/ UNCHANGED <<told, who>>
  BY <1>4 DEF Life!Step
<1> QED BY <1>6, <1>7, <1>10, <1>12, <1>15, <1>16, <1>17, <1>18 DEF IInv

\* The session leaves: the life ends, and who waits for the id sees it.
LEMMA DetachSessionKeeps ==
    ASSUME IInv, NEW c \in Calls, DetachSession(c)
    PROVE  IInv' /\ (Life!End(c) \/ UNCHANGED <<told, who>>)
<1>1. TypeOK /\ Budget /\ CallFits(c)
  BY DEF IInv
<1>2. /\ Leaving(c)
      /\ UNCHANGED <<kind, loaded, prepared, callerAborted, activity, begun, phase, reason, latched,
                     aborted, waitingOn, agents, owner, joins, factory, initiators>>
      /\ disposing' = [disposing EXCEPT ![c] = IF @ = "fleeing" THEN "lost" ELSE "done"]
      /\ pc' = [d \in Calls |-> IF pc[d] = "waiting" /\ sessions = c THEN "released" ELSE pc[d]]
      /\ sessions' = IF sessions = c THEN None ELSE sessions
  BY DEF DetachSession, NoticeRelease, driver, fibers
<1>3. IF sessions = c THEN told' = "free" /\ who' = None ELSE UNCHANGED <<told, who>>
  BY DEF DetachSession, Tell
<1>4. /\ disposing'[c] = IF disposing[c] = "fleeing" THEN "lost" ELSE "done"
      /\ \A d \in Calls \ {c} : disposing'[d] = disposing[d]
  BY <1>1, <1>2 DEF TypeOK
<1>5. TypeOK'
  <2>1. pc' \in [Calls -> Stages]
    BY <1>1, <1>2 DEF TypeOK, Stages
  <2>2. disposing' \in [Calls -> {"no", "draining", "unwinding", "broken", "leaving",
                                  "fleeing", "done", "lost"}]
    BY <1>1, <1>2 DEF TypeOK
  <2>3. sessions' \in Calls \cup {None} /\ who' \in Calls \cup {None}
        /\ told' \in {"free", "session created", "agent created", "session start", "agent disposed"}
    BY <1>1, <1>2, <1>3 DEF TypeOK
  <2> QED BY <1>1, <1>2, <2>1, <2>2, <2>3 DEF TypeOK, Stages
<1>6. Budget'
  BY <1>1, <1>2, BudgetKept
<1>7. \A d \in Calls : ~Publishing(d) /\ (Leaving(d) <=> d = c)
  <2>1. \A d \in Calls \ {c} : ~Publishing(d) /\ ~Leaving(d)
    BY <1>2, Alone DEF Busy
  <2>2. ~Publishing(c)
    BY <1>2 DEF IInv, OneAtATime
  <2> QED BY <1>2, <2>1, <2>2
<1>8. /\ \A d \in Calls : ~Publishing(d)' /\ ~Leaving(d)'
      /\ \A d \in Calls : Finished(d)' <=> (Finished(d) \/ d = c)
      /\ \A d \in Calls : Lost(d) => Lost(d)'
  BY <1>2, <1>4, <1>7 DEF Publishing, Leaving, Finished, Lost
<1>9. OneAtATime'
  BY <1>8 DEF OneAtATime, Busy
<1>10. /\ agents = IF sessions = c THEN None ELSE sessions
       /\ who = sessions /\ (told = "free" <=> sessions = None)
       /\ sessions = c => told \in {"session created", "agent disposed"}
       /\ told = "agent disposed" => sessions = c
  <2>1. told = "agent disposed" => sessions \in Calls
    BY <1>1 DEF IInv, EntriesFit, TypeOK
  <2> QED BY <1>2, <1>7, <2>1 DEF IInv, EntriesFit
<1>11. EntriesFit'
  <2>1. /\ agents' = sessions' /\ who' = sessions' /\ (told' = "free" <=> sessions' = None)
        /\ told' # "agent disposed" /\ sessions' # c
    <3>1. CASE sessions = c
      BY <1>2, <1>3, <1>10, <3>1, NoneAssumption
    <3>2. CASE sessions # c
      BY <1>2, <1>3, <1>10, <3>2
    <3> QED BY <3>1, <3>2
  <2>2. \A d \in Calls : sessions' = d => prepared'[d] /\ ~Finished(d)'
    <3> SUFFICES ASSUME NEW d \in Calls, sessions' = d  PROVE prepared'[d] /\ ~Finished(d)'
      OBVIOUS
    <3>1. sessions = d /\ d # c
      BY <1>2, <2>1, NoneAssumption
    <3> QED BY <1>2, <1>8, <3>1 DEF IInv, EntriesFit
  <2> QED BY <1>8, <2>1, <2>2 DEF EntriesFit
<1>12. \A d \in Calls : CallFits(d)'
  <2> TAKE d \in Calls
  <2>1. CallFits(d)
    BY DEF IInv
  <2>2. /\ disposing'[d] # "no" => disposing[d] # "no"
        /\ disposing'[d] \in {"unwinding", "leaving", "done"} => phase[d] = "idle"
    BY <1>2, <1>4, <2>1 DEF CallFits, Leaving
  <2>3. pc'[d] = pc[d] \/ (pc[d] = "waiting" /\ pc'[d] = "released")
    BY <1>2
  <2> QED BY <1>2, <1>8, <2>1, <2>2, <2>3 DEF CallFits, TornDownFactory, OwnerRan, Configured
<1>13. WaitersHaveAReason'
  BY <1>2 DEF IInv, WaitersHaveAReason
<1>14. GoneFit'
  <2>1. Tracked(c)
    BY <1>1, <1>2 DEF CallFits, Tracked, Finished, Leaving
  <2> QED BY <1>2, <1>8, <2>1, GoneKept
<1>15. Life!End(c) \/ UNCHANGED <<told, who>>
  BY <1>3, <1>10 DEF Life!End
<1> QED BY <1>5, <1>6, <1>9, <1>11, <1>12, <1>13, <1>14, <1>15 DEF IInv

-----------------------------------------------------------------------------
(***************************************************************************)
(* The theorems.                                                           *)
(***************************************************************************)
\* What observers are told, step by step.
Told == [Life!Next]_<<told, who>>

\* Nobody has asked for the id yet.
LEMMA InitKeeps == Init => IInv
<1> SUFFICES ASSUME Init  PROVE IInv
  OBVIOUS
<1>1. TypeOK
  BY ActivitiesAssumption DEF Init, TypeOK
<1>2. Budget
  <2>1. {c \in Calls : latched[c]} = {}
    BY DEF Init
  <2> QED BY <2>1, FS_EmptySet, ActivitiesAssumption DEF Budget, Init
<1>3. \A c \in Calls : ~Publishing(c) /\ ~Leaving(c) /\ ~prepared[c] /\ ~InProgress(c)
  BY DEF Init, Publishing, Leaving, InProgress
<1>4. OneAtATime
  BY <1>3 DEF OneAtATime, Busy
<1>5. EntriesFit
  BY <1>3, NoneAssumption DEF EntriesFit, Init
<1>6. \A c \in Calls : CallFits(c)
  BY DEF Init, CallFits, Publishing
<1>7. WaitersHaveAReason
  BY DEF Init, WaitersHaveAReason
<1>8. GoneFit
  BY DEF Init, GoneFit
<1> QED BY <1>1, <1>2, <1>4, <1>5, <1>6, <1>7, <1>8 DEF IInv

\* Every step keeps the invariant, and tells observers what OneLife allows.
LEMMA WrapperStepKeeps ==
    ASSUME IInv, NEW c \in Calls, WrapperStep(c)  PROVE IInv' /\ Told
<1>1. CASE Create(c)
  BY <1>1, CreateKeeps DEF Told
<1>2. CASE Resume(c)
  BY <1>2, ResumeKeeps DEF Told
<1>3. CASE Configure(c)
  BY <1>3, ConfigureKeeps DEF Told
<1>4. CASE StopWaiting(c)
  BY <1>4, StopWaitingKeeps DEF Told
<1>5. CASE LoadArrives(c)
  BY <1>5, LoadArrivesKeeps DEF Told
<1>6. CASE LoadFails(c)
  BY <1>6, LoadFailsKeeps DEF Told
<1>7. CASE LoadAbandoned(c)
  BY <1>7, LoadAbandonedKeeps DEF Told
<1>8. CASE Continue(c)
  BY <1>8, ContinueKeeps DEF Told
<1>9. CASE SetupFails(c)
  BY <1>9, SetupFailsKeeps DEF Told
<1>10. CASE Publish(c)
  BY <1>10, PublishKeeps DEF Told, Life!Next
<1>11. CASE Fallback(c)
  BY <1>11, FallbackKeeps DEF Told, Life!Next
<1>12. CASE FallbackFails(c)
  BY <1>12, FallbackFailsKeeps DEF Told
<1>13. CASE AnnounceAgent(c)
  <2>1. Announce(c, "session", "agent created")
    BY <1>13 DEF AnnounceAgent
  <2>2. IInv' /\ who = c /\ who' = c /\ told' = "agent created" /\ told = "session created"
    BY <2>1, AnnounceKeeps
  <2>3. Life!Step(c, {"session created"}, "agent created")
    BY <2>2 DEF Life!Step
  <2> QED BY <2>2, <2>3 DEF Told, Life!Next
<1>14. CASE StartSession(c)
  <2>1. Announce(c, "agent", "session start")
    BY <1>14 DEF StartSession
  <2>2. IInv' /\ who = c /\ who' = c /\ told' = "session start" /\ told = "agent created"
    BY <2>1, AnnounceKeeps
  <2>3. Life!Step(c, {"agent created"}, "session start")
    BY <2>2 DEF Life!Step
  <2> QED BY <2>2, <2>3 DEF Told, Life!Next
<1>15. CASE Veto(c)
  BY <1>15, VetoKeeps DEF Told
<1>16. CASE Return(c)
  BY <1>16, ReturnKeeps DEF Told
<1>17. CASE Reject(c)
  BY <1>17, RejectKeeps DEF Told
<1> QED BY <1>1, <1>2, <1>3, <1>4, <1>5, <1>6, <1>7, <1>8, <1>9, <1>10, <1>11, <1>12, <1>13,
           <1>14, <1>15, <1>16, <1>17 DEF WrapperStep

\* Nor does any other step tell them more, or less.
LEMMA StepKeeps == ASSUME IInv, [Next]_vars  PROVE IInv' /\ Told
<1>1. ASSUME NEW c \in Calls, WrapperStep(c)  PROVE IInv' /\ Told
  BY <1>1, WrapperStepKeeps
<1>2. ASSUME NEW c \in Calls, DriverStep(c)  PROVE IInv' /\ Told
  <2>1. CASE Send(c)
    BY <2>1, SendKeeps DEF Told
  <2>2. ASSUME NEW keepInbox \in BOOLEAN, UserCancel(c, keepInbox)  PROVE IInv' /\ Told
    BY <2>2, UserCancelKeeps DEF Told
  <2>3. ASSUME NEW again \in BOOLEAN, Converge(c, again)  PROVE IInv' /\ Told
    BY <2>3, ConvergeKeeps DEF Told
  <2>4. CASE Replay(c)
    BY <2>4, ReplayKeeps DEF Told
  <2> QED BY <1>2, <2>1, <2>2, <2>3, <2>4 DEF DriverStep
<1>3. ASSUME NEW c \in Calls, TeardownStep(c)  PROVE IInv' /\ Told
  <2>1. CASE Drain(c)
    BY <2>1, DrainKeeps DEF Told
  <2>2. CASE DetachAgent(c)
    BY <2>2, DetachAgentKeeps DEF Told, Life!Next
  <2>3. CASE DetachSession(c)
    BY <2>3, DetachSessionKeeps DEF Told, Life!Next
  <2>4. CASE CallerAborts(c)
    BY <2>4, CallerAbortsKeeps DEF Told
  <2>5. CASE HandleDispose(c)
    BY <2>5, HandleDisposeKeeps DEF Told
  <2> QED BY <1>3, <2>1, <2>2, <2>3, <2>4, <2>5 DEF TeardownStep
<1>4. CASE OwnerUnloads
  BY <1>4, OwnerUnloadsKeeps DEF Told
<1>5. CASE OwnerCleans
  BY <1>5, OwnerCleansKeeps DEF Told
<1>6. CASE OwnerGone
  BY <1>6, OwnerGoneKeeps DEF Told
<1>7. CASE FactoryUnloads
  BY <1>7, FactoryUnloadsKeeps DEF Told
<1>8. CASE FactoryTears
  BY <1>8, FactoryTearsKeeps DEF Told
<1>9. CASE FactoryGone
  BY <1>9, FactoryGoneKeeps DEF Told
<1>10. CASE CloseInitiators
  BY <1>10, CloseInitiatorsKeeps DEF Told
<1>11. CASE UNCHANGED vars
  <2>1. UNCHANGED <<wrapper, prepared, callerAborted, driver, teardown, registries, joins, owner,
                    factory, initiators>>
    BY <1>11 DEF vars, fibers
  <2>2. TypeOK /\ GoneFit
    BY DEF IInv
  <2>3. GoneFit'
    BY <2>1, <2>2 DEF GoneFit, Lost, Tracked, InProgress, Finished, wrapper, teardown
  <2> QED BY <2>1, <2>2, <2>3, FiberMoves DEF TypeOK, TornDownFactory, Told
<1> QED BY <1>1, <1>2, <1>3, <1>4, <1>5, <1>6, <1>7, <1>8, <1>9, <1>10, <1>11 DEF Next

\* What the invariant says to the users of the factory.
LEMMA InvariantTells == IInv => LifecycleInv
<1> SUFFICES ASSUME IInv  PROVE LifecycleInv
  OBVIOUS
<1>1. TypeOK /\ \A c \in Calls : CallFits(c)
  BY DEF IInv
<1>2. ASSUME NEW c \in Calls, ~Tracked(c)  PROVE sessions # c /\ agents # c
  <2>1. ~(prepared[c] /\ ~Finished(c))
    BY <1>2 DEF Tracked
  <2> QED BY <2>1, ListedIsPrepared DEF IInv, EntriesFit
<1>3. RegistriesAgree
  <2>1. (Quiet => agents = sessions) /\ sessions = who
    BY DEF IInv, EntriesFit
  <2>2. agents # None => agents \in Calls
    BY <1>1 DEF TypeOK
  <2> QED BY <2>1, <2>2, ListedIsPrepared DEF RegistriesAgree
<1>4. DoneIsQuiet
  BY <1>1 DEF DoneIsQuiet, CallFits
<1>5. FailureKeepsNothing
  <2> SUFFICES ASSUME NEW c \in Calls, pc[c] = "failed", prepared[c] => Finished(c)
               PROVE  sessions # c /\ agents # c /\ loaded[c] # "held"
    BY DEF FailureKeepsNothing
  <2>1. loaded[c] # "held"
    BY <1>1 DEF CallFits
  <2> QED BY <1>2, <2>1 DEF Tracked
<1>6. GoneIsQuiet
  <2>1. ASSUME NEW c \in Calls, ~Lost(c), ~Tracked(c)  PROVE NothingOf(c)
    <3>1. phase[c] = "idle"
      BY <1>1, <2>1 DEF CallFits, Lost, Tracked, Finished
    <3> QED BY <1>2, <2>1, <3>1 DEF NothingOf
  <2>2. ASSUME \A c \in Calls : ~Lost(c), factory = "gone", NEW c \in Calls
        PROVE  NothingOf(c) /\ ~InProgress(c)
    BY <2>1, <2>2 DEF IInv, GoneFit
  <2>3. ASSUME \A c \in Calls : ~Lost(c), owner = "gone", NEW c \in joins  PROVE NothingOf(c)
    <3>1. c \in Calls /\ ~Tracked(c)
      BY <1>1, <2>3 DEF IInv, GoneFit, TypeOK, Tracked
    <3> QED BY <2>1, <2>3, <3>1
  <2> QED BY <2>2, <2>3 DEF GoneIsQuiet, Lost
<1>7. NoBirthAfterUnload
  BY <1>1 DEF NoBirthAfterUnload, CallFits, Publishing
<1>8. AbortedGetsNoHandle
  BY <1>1 DEF AbortedGetsNoHandle, CallFits
<1>9. WaitersHaveAReason
  BY DEF IInv
<1> QED BY <1>1, <1>3, <1>4, <1>5, <1>6, <1>7, <1>8, <1>9 DEF LifecycleInv

\* agent-loop/src/index.ts: however creations, resumes, configured calls, their
\* aborts, the vetoes of listeners, the driver's replays and the unloads of both
\* fibers interleave, the registries agree with what observers were told, a
\* teardown that has ended and an unload that has ended leave nothing behind, a
\* failed call keeps nothing, and nothing is born after its owner went.
THEOREM LifecycleIsSafe == Spec => []LifecycleInv
<1>1. IInv /\ [Next]_vars => IInv'
  BY StepKeeps
<1> QED BY InitKeeps, <1>1, InvariantTells, PTL DEF Spec

\* publish() and the teardowns of agent-loop/src/index.ts: whoever watches the
\* registries of core/session and core/agent sees one life of the id after the
\* other, each told in order and each agent/disposed told of an announced agent.
THEOREM LifecycleImplementsOneLife == Spec => ImplementsOneLife
<1>1. Init => Life!Free
  BY DEF Init, Life!Free
<1>2. IInv /\ [Next]_vars => IInv' /\ [Life!Next]_<<told, who>>
  BY StepKeeps DEF Told
<1> QED BY InitKeeps, <1>1, <1>2, PTL DEF Spec, ImplementsOneLife, Life!Spec
=====
