--------------------------- MODULE AgentLifecycle ---------------------------
(***************************************************************************)
(* How agents come and go (core/agent-loop/src/index.ts, with the          *)
(* registries of core/agent and core/session).  Every call of Calls wants  *)
(* an agent under the SAME session id.  It is created, resumed or          *)
(* configured, set up while nobody sees it, published, and torn down by    *)
(* whoever comes first: its caller's signal, its owner fiber, the factory  *)
(* fiber, a listener's veto or the holder of its handle.                   *)
(*                                                                         *)
(* One action is what runs between two awaits.  Publication is synchronous *)
(* but calls listeners: between its steps only what a listener can do may  *)
(* happen.                                                                 *)
(***************************************************************************)
EXTENDS Naturals, Sequences, FiniteSets

CONSTANTS Calls,
          Creators, Resumers, Configurers,   \* bounds: who makes which call
          None,             \* the source's undefined
          MaxActivities     \* bound: driver runs, of all agents together

ASSUME NoneAssumption == None \notin Calls
ASSUME RolesAssumption == Creators \cup Resumers \cup Configurers \subseteq Calls
ASSUME ActivitiesAssumption == MaxActivities \in Nat
ASSUME FiniteAssumption == IsFiniteSet(Calls)

VARIABLES
    pc,            \* where the create/resume wrapper of a call is
    kind,          \* which operation the call is
    loaded,        \* the persisted session a resume reserved
    prepared,      \* prepare() has built the agent and registered its teardown
    aborted,       \* the signal fused of caller, owner, factory and teardown
    callerAborted, \* the caller's own signal
    disposing,     \* the memoized teardown
    waitingOn,     \* the activity its whenIdle() awaits
    activity,      \* activityDone: which driver run was begun last, or 0
    begun,         \* how many were begun
    phase,         \* the driver; "stuck": running with no driver behind it
    reason,        \* the cause on the activity's abort signal
    latched,       \* wakeRequested
    sessions, agents,   \* the one id's entry in each registry
    told, who,     \* history: the last lifecycle notification, and of whom
    owner,         \* the fiber that makes the calls
    joins,         \* the teardowns that the owner's unload has started
    factory,       \* the factory's fiber
    initiators     \* the registry's initiator boundary

wrapper == <<pc, kind, loaded>>
driver == <<activity, begun, phase, reason, latched>>
teardown == <<aborted, disposing, waitingOn>>
registries == <<sessions, agents, told, who>>
fibers == <<owner, joins, factory, initiators>>
vars == <<wrapper, prepared, callerAborted, driver, teardown, registries,
          fibers>>

Init ==
    /\ pc = [c \in Calls |-> "new"]
    /\ kind = [c \in Calls |-> "none"]
    /\ loaded = [c \in Calls |-> "none"]
    /\ prepared = [c \in Calls |-> FALSE]
    /\ aborted = [c \in Calls |-> FALSE]
    /\ callerAborted = [c \in Calls |-> FALSE]
    /\ disposing = [c \in Calls |-> "no"]
    /\ waitingOn = [c \in Calls |-> 0]
    /\ activity = [c \in Calls |-> 0] /\ begun = 0
    /\ phase = [c \in Calls |-> "idle"]
    /\ reason = [c \in Calls |-> "none"]
    /\ latched = [c \in Calls |-> FALSE]
    /\ sessions = None /\ agents = None /\ told = "free" /\ who = None
    /\ owner = "active" /\ joins = {}
    /\ factory = "active" /\ initiators = "active"

\* Between the two detaches of a teardown.
Leaving(c) == disposing[c] \in {"leaving", "fleeing"}

\* Between two awaits nobody is inside publish() or detaching.
Quiet == \A c \in Calls : pc[c] \notin {"session", "agent", "start"} /\ ~Leaving(c)

\* The teardown has ended, or thrown.
Finished(c) == disposing[c] \in {"done", "lost"}

\* The teardowns that FactoryOwnership tracks.
Tracked(c) == prepared[c] /\ ~Finished(c)

\* The wrapper's promise is pending.
InProgress(c) == pc[c] \notin {"new", "published", "failed"}

\* A configured agent is owned by the factory's own fiber.
Configured(c) == kind[c] \in {"configured", "fallback"}

OwnerActive(c) == IF Configured(c) THEN factory = "active" ELSE owner = "active"

FactoryActive == factory = "active"

TornDownFactory == factory \in {"tearing", "gone"}

OwnerRan(c) == ~Configured(c) /\ owner \in {"cleaned", "gone"}

\* Mutant: the race listens to the caller alone.
CallerOnly(c) == callerAborted[c]

\* The signal a resume races its load against.
LoadAborted(c) == callerAborted[c] \/ OwnerRan(c) \/ TornDownFactory

-----------------------------------------------------------------------------
(* Teardown and the driver it has to outlive.                              *)

\* dispose() of every call of S, up to its first await: abort, cancel with
\* the cause "disposed" (a signal that has fired keeps its first cause), and
\* look at the activity to wait for.  A second call joins the first.
Dispose(S) ==
    LET first == {c \in S : prepared[c] /\ disposing[c] = "no"} IN
    /\ aborted' = [c \in Calls |-> aborted[c] \/ c \in first]
    /\ disposing' = [c \in Calls |->
                        IF c \in first THEN "draining" ELSE disposing[c]]
    /\ waitingOn' = [c \in Calls |->
                        IF c \in first THEN activity[c] ELSE waitingOn[c]]
    /\ reason' = [c \in Calls |->
                     IF c \in first /\ phase[c] # "idle" /\ reason[c] = "none"
                     THEN "disposed" ELSE reason[c]]
    /\ latched' = [c \in Calls |-> latched[c] /\ c \notin first]
    /\ UNCHANGED <<activity, begun, phase>>

\* Bound: another driver may begin; every latched wake has its place.
Room == begun + Cardinality({c \in Calls : latched[c]}) < MaxActivities

\* wakeDriver from idle: the phase is running before withInitiator is asked,
\* and withInitiator throws once the initiators are closing.
StartDriver(c) ==
    /\ begun' = begun + 1
    /\ activity' = [activity EXCEPT ![c] = begun']
    /\ phase' = [phase EXCEPT ![c] = IF initiators = "active" THEN "running" ELSE "stuck"]
    /\ reason' = [reason EXCEPT ![c] = "none"]
    /\ latched' = [latched EXCEPT ![c] = FALSE]

\* A waking send to an agent the registry lists.  A live driver claims the
\* message itself; an aborted one replays it, unless the cause was disposal.
Send(c) ==
    /\ agents = c /\ disposing[c] \in {"no", "draining"} /\ Room
    /\ IF phase[c] = "idle"
       THEN StartDriver(c)
       ELSE /\ reason[c] = "user" /\ ~latched[c]
            /\ latched' = [latched EXCEPT ![c] = TRUE]
            /\ UNCHANGED <<activity, begun, phase, reason>>
    /\ UNCHANGED <<wrapper, prepared, callerAborted, teardown, registries, fibers>>

UserCancel(c, keepInbox) ==
    /\ phase[c] # "idle"
    /\ reason' = [reason EXCEPT ![c] = IF @ = "none" THEN "user" ELSE @]
    /\ latched' = [latched EXCEPT ![c] = @ /\ keepInbox]
    /\ UNCHANGED <<activity, begun, phase, wrapper, prepared, callerAborted, teardown,
                   registries, fibers>>

\* The driver's last step: it publishes idle, and a listener may send again ...
Converge(c, again) ==
    /\ Quiet /\ phase[c] = "running" /\ ~latched[c]
    /\ again => agents = c /\ Room
    /\ IF again
       THEN StartDriver(c)
       ELSE /\ phase' = [phase EXCEPT ![c] = "idle"]
            /\ reason' = [reason EXCEPT ![c] = "none"]
            /\ UNCHANGED <<activity, begun, latched>>
    /\ UNCHANGED <<wrapper, prepared, callerAborted, teardown, registries,
                   fibers>>

\* ... or it replays the latched wake.  When that throws, the throw rejects
\* the activity that ends, and with it a teardown that awaits it.
Replay(c) ==
    /\ Quiet /\ phase[c] = "running" /\ latched[c]
    /\ StartDriver(c)
    /\ disposing' = [disposing EXCEPT ![c] =
                        IF @ = "draining" /\ waitingOn[c] = activity[c]
                              /\ initiators = "closing"
                        THEN "broken" ELSE @]
    /\ UNCHANGED <<wrapper, prepared, callerAborted, aborted, waitingOn, registries,
                   fibers>>

\* The activity whenIdle() awaits has settled.
Settled(c) == waitingOn[c] < activity[c] \/ phase[c] = "idle"

\* Mutant: whenIdle() awaits the activity it first saw, and no other.
AwaitedOnce(c) == TRUE

\* whenIdle() looks again after every activity it awaited.
NoneSince(c) == waitingOn[c] = activity[c]

Drain(c) ==
    /\ Quiet /\ disposing[c] = "draining" /\ Settled(c)
    /\ IF NoneSince(c)
       THEN disposing' = [disposing EXCEPT ![c] = "unwinding"] /\ UNCHANGED waitingOn
       ELSE waitingOn' = [waitingOn EXCEPT ![c] = activity[c]] /\ UNCHANGED disposing
    /\ UNCHANGED <<wrapper, prepared, callerAborted, driver, aborted, registries,
                   fibers>>

-----------------------------------------------------------------------------
(* The registries.                                                         *)

Tell(edge, c) == told' = edge /\ who' = c

\* Mutants: an entry that was never announced is disposed of aloud; and a
\* detach removes whatever entry holds the id.
AnnouncedOrNot(c) == TRUE

WhoeverHasIt(c) == {agents}

\* Only an announced creation is paired with a disposal.
WasAnnounced(c) == who = c /\ told \in {"agent created", "session start"}

\* The entry a detach removes is the one it entered.
OwnEntry(c) == {agents} \cap {c}

\* The scope is unwound, or the drain threw: the agent leaves the registry,
\* and its listeners are told while the session is still there.
DetachAgent(c) ==
    /\ Quiet /\ disposing[c] \in {"unwinding", "broken"}
    /\ agents' = IF OwnEntry(c) = {} THEN agents ELSE None
    /\ IF OwnEntry(c) # {} /\ WasAnnounced(c)
       THEN Tell("agent disposed", c)
       ELSE UNCHANGED <<told, who>>
    /\ disposing' = [disposing EXCEPT ![c] = IF @ = "broken" THEN "fleeing" ELSE "leaving"]
    /\ UNCHANGED <<wrapper, prepared, callerAborted, driver, aborted, waitingOn,
                   sessions, fibers>>

\* Mutant: the session's disposal goes unnoticed.
NoticeAgentOnly(c) == pc

\* A configured call that waits for the id sees the last entry leave.
NoticeRelease(c) ==
    [d \in Calls |-> IF pc[d] = "waiting" /\ sessions = c THEN "released" ELSE pc[d]]

\* Then the session leaves, and the teardown has ended.
DetachSession(c) ==
    /\ Leaving(c)
    /\ sessions' = IF sessions = c THEN None ELSE sessions
    /\ IF sessions = c THEN Tell("free", None) ELSE UNCHANGED <<told, who>>
    /\ pc' = NoticeRelease(c)
    /\ disposing' = [disposing EXCEPT ![c] = IF @ = "fleeing" THEN "lost" ELSE "done"]
    /\ UNCHANGED <<kind, loaded, prepared, callerAborted, driver, aborted,
                   waitingOn, agents, fibers>>

-----------------------------------------------------------------------------
(* The create and resume wrappers, up to setup.                            *)

\* Mutant: nobody looks at the factory again after the load.
UncheckedRoute(c) == OwnerActive(c) /\ ~callerAborted[c]

\* What prepare() needs: its owner, the factory and a caller that still asks.
StillWanted(c) == OwnerActive(c) /\ FactoryActive /\ ~callerAborted[c]

\* prepare() registers the teardown and setup begins, or it throws and what
\* was reserved is released.
Prepare(c) ==
    /\ prepared' = [prepared EXCEPT ![c] = StillWanted(c)]
    /\ pc' = [pc EXCEPT ![c] = IF StillWanted(c) THEN "setup" ELSE "failed"]
    /\ loaded' = [loaded EXCEPT ![c] = IF @ = "held" /\ ~StillWanted(c)
                                       THEN "released" ELSE @]

\* A call reaches the factory while the registry still has one.
Callable(c) == Quiet /\ pc[c] = "new" /\ FactoryActive /\ OwnerActive(c)

Create(c) ==
    /\ Callable(c) /\ c \in Creators /\ sessions = None
    /\ kind' = [kind EXCEPT ![c] = "create"]
    /\ Prepare(c)
    /\ UNCHANGED <<callerAborted, driver, teardown, registries, fibers>>

\* The persistence is asked for the session; the answer is raced.
BeginLoad(c) ==
    /\ pc' = [pc EXCEPT ![c] = "loading"]
    /\ loaded' = [loaded EXCEPT ![c] = "pending"]

Resume(c) ==
    /\ Callable(c) /\ c \in Resumers
    /\ kind' = [kind EXCEPT ![c] = "resume"]
    /\ BeginLoad(c)
    /\ UNCHANGED <<prepared, callerAborted, driver, teardown, registries, fibers>>

\* A configured call first waits until a same-id predecessor has left.
Configure(c) ==
    /\ Callable(c) /\ c \in Configurers
    /\ kind' = [kind EXCEPT ![c] = "configured"]
    /\ IF agents = None /\ sessions = None
       THEN BeginLoad(c)
       ELSE pc' = [pc EXCEPT ![c] = "waiting"] /\ UNCHANGED loaded
    /\ UNCHANGED <<prepared, callerAborted, driver, teardown, registries, fibers>>

StopWaiting(c) ==
    /\ Quiet
    /\ \/ pc[c] = "released"
       \/ pc[c] = "waiting" /\ TornDownFactory
    /\ IF FactoryActive
       THEN BeginLoad(c)
       ELSE pc' = [pc EXCEPT ![c] = "failed"] /\ UNCHANGED loaded
    /\ UNCHANGED <<kind, prepared, callerAborted, driver, teardown, registries, fibers>>

\* Mutant: a session that arrives for nobody stays reserved.
KeepAbandoned(c) == "held"

\* raceAbortCall releases a value that arrives after the race was lost.
LateArrival(c) == IF pc[c] = "loading" THEN "held" ELSE "released"

\* The persistence answers, in time or too late for the wrapper to care.
LoadArrives(c) ==
    /\ Quiet /\ loaded[c] = "pending"
    /\ loaded' = [loaded EXCEPT ![c] = LateArrival(c)]
    /\ pc' = [pc EXCEPT ![c] = IF @ = "loading" THEN "loaded" ELSE @]
    /\ UNCHANGED <<kind, prepared, callerAborted, driver, teardown, registries, fibers>>

\* It rejects: a configured call goes on to ask whether the session exists.
LoadFails(c) ==
    /\ Quiet /\ loaded[c] = "pending"
    /\ loaded' = [loaded EXCEPT ![c] = "none"]
    /\ pc' = [pc EXCEPT ![c] = IF @ # "loading" THEN @
                               ELSE IF Configured(c) /\ FactoryActive THEN "listing"
                               ELSE "failed"]
    /\ UNCHANGED <<kind, prepared, callerAborted, driver, teardown, registries, fibers>>

\* The race is lost: the wrapper throws and no longer waits for the answer.
LoadAbandoned(c) ==
    /\ Quiet /\ pc[c] = "loading" /\ LoadAborted(c)
    /\ pc' = [pc EXCEPT ![c] = "failed"]
    /\ UNCHANGED <<kind, loaded, prepared, callerAborted, driver, teardown,
                   registries, fibers>>

Continue(c) ==
    /\ Quiet /\ pc[c] = "loaded"
    /\ Prepare(c)
    /\ UNCHANGED <<kind, callerAborted, driver, teardown, registries, fibers>>

-----------------------------------------------------------------------------
(* Publication.                                                            *)

\* The wrapper's catch: the teardown is started and awaited; create(), which
\* is synchronous, starts it and throws.
Throw(c) ==
    /\ Dispose({c})
    /\ pc' = [pc EXCEPT ![c] = IF kind[c] = "fallback" THEN "failed" ELSE "failing"]

\* Both entries are made and session/created is on its way; a second
\* lifecycle of the id throws.
Enter(c) ==
    IF sessions # None
    THEN Throw(c) /\ UNCHANGED registries
    ELSE /\ sessions' = c /\ agents' = c
         /\ Tell("session created", c)
         /\ pc' = [pc EXCEPT ![c] = "session"]
         /\ UNCHANGED <<driver, teardown>>

\* Setup resolved, and nothing has aborted it.
Publish(c) ==
    /\ Quiet /\ pc[c] = "setup" /\ ~aborted[c]
    /\ Enter(c)
    /\ UNCHANGED <<kind, loaded, prepared, callerAborted, fibers>>

\* Setup rejected, or the fused signal fired first.
SetupFails(c) ==
    /\ Quiet /\ pc[c] = "setup"
    /\ Throw(c)
    /\ UNCHANGED <<kind, loaded, prepared, callerAborted, registries, fibers>>

\* Nothing is on disk under the id: the configured agent is created at once,
\* unless the id is taken or the factory is going.
Fallback(c) ==
    /\ Quiet /\ pc[c] = "listing"
    /\ IF FactoryActive /\ OwnerActive(c) /\ sessions = None
       THEN /\ kind' = [kind EXCEPT ![c] = "fallback"]
            /\ prepared' = [prepared EXCEPT ![c] = TRUE]
            /\ Enter(c)
       ELSE /\ pc' = [pc EXCEPT ![c] = "failed"]
            /\ UNCHANGED <<kind, prepared, driver, teardown, registries>>
    /\ UNCHANGED <<loaded, callerAborted, fibers>>

\* It is there after all, or cannot be listed: the failure is reported.
FallbackFails(c) ==
    /\ Quiet /\ pc[c] = "listing"
    /\ pc' = [pc EXCEPT ![c] = "failed"]
    /\ UNCHANGED <<kind, loaded, prepared, callerAborted, driver, teardown,
                   registries, fibers>>

\* Mutant: publication goes on under a signal that has fired.
NeverMind(c) == TRUE

\* assertLive, after every round of listeners.
Live(c) == ~aborted[c]

\* The listeners of one announcement are through; the next one is made.
Announce(c, here, edge) ==
    /\ pc[c] = here /\ Live(c)
    /\ Tell(edge, c)
    /\ pc' = [pc EXCEPT ![c] = IF here = "session" THEN "agent" ELSE "start"]
    /\ UNCHANGED <<kind, loaded, prepared, callerAborted, driver, teardown,
                   sessions, agents, fibers>>

AnnounceAgent(c) == Announce(c, "session", "agent created")

StartSession(c) == Announce(c, "agent", "session start")

\* A created listener vetoes, or a listener aborted the caller's signal.
Veto(c) ==
    /\ pc[c] \in {"session", "agent", "start"}
    /\ pc[c] = "start" => ~Live(c)
    /\ Throw(c)
    /\ UNCHANGED <<kind, loaded, prepared, callerAborted, registries, fibers>>

Release(c) == [loaded EXCEPT ![c] = IF @ = "held" THEN "released" ELSE @]

\* The handle is returned; what the resume reserved is released.
Return(c) ==
    /\ pc[c] = "start" /\ Live(c)
    /\ pc' = [pc EXCEPT ![c] = "published"]
    /\ loaded' = Release(c)
    /\ UNCHANGED <<kind, prepared, callerAborted, driver, teardown, registries, fibers>>

\* The teardown a failing wrapper awaited has ended.
Reject(c) ==
    /\ Quiet /\ pc[c] = "failing" /\ Finished(c)
    /\ pc' = [pc EXCEPT ![c] = "failed"]
    /\ loaded' = Release(c)
    /\ UNCHANGED <<kind, prepared, callerAborted, driver, teardown, registries, fibers>>

-----------------------------------------------------------------------------
(* Those who tear down.                                                    *)

CallerAborts(c) ==
    /\ ~callerAborted[c] /\ ~Configured(c) /\ InProgress(c)
    /\ callerAborted' = [callerAborted EXCEPT ![c] = TRUE]
    /\ aborted' = [aborted EXCEPT ![c] = @ \/ prepared[c]]
    /\ UNCHANGED <<wrapper, prepared, driver, disposing, waitingOn, registries, fibers>>

\* The holder of the handle disposes it.
HandleDispose(c) ==
    /\ pc[c] = "published" /\ ~Configured(c) /\ disposing[c] = "no"
    /\ Dispose({c})
    /\ UNCHANGED <<wrapper, prepared, callerAborted, registries, fibers>>

OwnerUnloads ==
    /\ owner = "active"
    /\ owner' = "unloading"
    /\ UNCHANGED <<wrapper, prepared, callerAborted, driver, teardown, registries,
                   joins, factory, initiators>>

Owned == {c \in Calls : prepared[c] /\ ~Configured(c)}

\* Its cleanup starts the teardowns that do not run yet ...
OwnerCleans ==
    /\ Quiet /\ owner = "unloading"
    /\ owner' = "cleaned"
    /\ joins' = {c \in Owned : disposing[c] = "no"}
    /\ Dispose(Owned)
    /\ UNCHANGED <<wrapper, prepared, callerAborted, registries, factory, initiators>>

\* Mutant: the unload starts the teardowns and does not wait for them.
AwaitNone == {}

\* ... and awaits these, and none that somebody else had started.
Awaited == joins

OwnerGone ==
    /\ Quiet /\ owner = "cleaned" /\ \A c \in Awaited : Finished(c)
    /\ owner' = "gone"
    /\ UNCHANGED <<wrapper, prepared, callerAborted, driver, teardown, registries,
                   joins, factory, initiators>>

FactoryUnloads ==
    /\ FactoryActive
    /\ factory' = "unloading"
    /\ UNCHANGED <<wrapper, prepared, callerAborted, driver, teardown, registries,
                   owner, joins, initiators>>

\* FactoryOwnership.dispose: every tracked teardown is started or joined.
FactoryTears ==
    /\ Quiet /\ factory = "unloading"
    /\ factory' = "tearing"
    /\ Dispose(Calls)
    /\ UNCHANGED <<wrapper, prepared, callerAborted, registries, owner, joins, initiators>>

\* Mutant: the factory does not wait for the wrappers it started.
AgentsOnly == \A c \in Calls : ~Tracked(c)

\* Teardowns and wrappers have settled.
AllSettled ==
    \A c \in Calls : ~Tracked(c) /\ ~InProgress(c)

\* One teardown that throws ends the wait for all of them.
FactoryGone ==
    /\ Quiet /\ factory = "tearing"
    /\ AllSettled \/ \E c \in Calls : disposing[c] = "lost"
    /\ factory' = "gone"
    /\ UNCHANGED <<wrapper, prepared, callerAborted, driver, teardown, registries,
                   owner, joins, initiators>>

\* The registry's own fiber, or one above it, begins to unload.
CloseInitiators ==
    /\ initiators = "active" /\ factory # "gone"
    /\ initiators' = "closing"
    /\ UNCHANGED <<wrapper, prepared, callerAborted, driver, teardown, registries,
                   owner, joins, factory>>

-----------------------------------------------------------------------------
WrapperStep(c) ==
    \/ Create(c) \/ Resume(c) \/ Configure(c) \/ StopWaiting(c)
    \/ LoadArrives(c) \/ LoadFails(c) \/ LoadAbandoned(c) \/ Continue(c)
    \/ SetupFails(c) \/ Publish(c) \/ Fallback(c) \/ FallbackFails(c)
    \/ AnnounceAgent(c) \/ StartSession(c) \/ Veto(c) \/ Return(c) \/ Reject(c)

DriverStep(c) ==
    \/ Send(c)
    \/ \E keepInbox \in BOOLEAN : UserCancel(c, keepInbox)
    \/ \E again \in BOOLEAN : Converge(c, again)
    \/ Replay(c)

TeardownStep(c) ==
    \/ Drain(c) \/ DetachAgent(c) \/ DetachSession(c)
    \/ CallerAborts(c) \/ HandleDispose(c)

Next ==
    \/ \E c \in Calls : WrapperStep(c) \/ DriverStep(c) \/ TeardownStep(c)
    \/ OwnerUnloads \/ OwnerCleans \/ OwnerGone
    \/ FactoryUnloads \/ FactoryTears \/ FactoryGone \/ CloseInitiators

\* Promises settle and microtasks run; a turn that is aborted converges, one that
\* nobody aborted may go on for ever; what depends on the registry unloads with
\* it.  Nothing is assumed of setup, of any caller, or of the persistence's
\* prepare(); its list(), which nothing races, is assumed to answer.
Settles(c) ==
    \/ StopWaiting(c) \/ LoadAbandoned(c) \/ Continue(c)
    \/ Fallback(c) \/ FallbackFails(c)
    \/ aborted[c] /\ SetupFails(c)
    \/ AnnounceAgent(c) \/ StartSession(c) \/ Veto(c) \/ Return(c) \/ Reject(c)

Fairness ==
    /\ \A c \in Calls :
         /\ WF_vars(Settles(c))
         /\ WF_vars(reason[c] # "none" /\ (Converge(c, FALSE) \/ Replay(c)))
         /\ WF_vars(Drain(c) \/ DetachAgent(c) \/ DetachSession(c))
    /\ WF_vars(OwnerCleans \/ OwnerGone)
    /\ WF_vars(FactoryTears \/ FactoryGone \/ (initiators = "closing" /\ FactoryUnloads))

Spec == Init /\ [][Next]_vars /\ Fairness

-----------------------------------------------------------------------------
(* Properties.                                                             *)

TypeOK ==
    /\ pc \in [Calls -> {"new", "waiting", "released", "loading", "loaded", "listing",
                         "setup", "session", "agent", "start", "published",
                         "failing", "failed"}]
    /\ kind \in [Calls -> {"none", "create", "resume", "configured", "fallback"}]
    /\ loaded \in [Calls -> {"none", "pending", "held", "released"}]
    /\ prepared \in [Calls -> BOOLEAN] /\ aborted \in [Calls -> BOOLEAN]
    /\ callerAborted \in [Calls -> BOOLEAN] /\ latched \in [Calls -> BOOLEAN]
    /\ disposing \in [Calls -> {"no", "draining", "unwinding", "broken", "leaving", "fleeing",
                             "done", "lost"}]
    /\ activity \in [Calls -> 0 .. MaxActivities] /\ begun \in 0 .. MaxActivities
    /\ waitingOn \in [Calls -> 0 .. MaxActivities]
    /\ phase \in [Calls -> {"idle", "running", "stuck"}]
    /\ reason \in [Calls -> {"none", "user", "disposed"}]
    /\ sessions \in Calls \cup {None} /\ agents \in Calls \cup {None}
    /\ told \in {"free", "session created", "agent created", "session start",
                 "agent disposed"}
    /\ who \in Calls \cup {None}
    /\ owner \in {"active", "unloading", "cleaned", "gone"} /\ joins \subseteq Calls
    /\ factory \in {"active", "unloading", "tearing", "gone"}
    /\ initiators \in {"active", "closing"}

\* The registries hold the call observers know to be live, and both the same.
RegistriesAgree ==
    /\ Quiet => agents = sessions
    /\ sessions = who
    /\ agents # None => agents = who /\ told # "agent disposed"

\* A teardown that has ended leaves no driver and no entry behind; the driver
\* may have been started again while it was awaited.  (Sends while the scope is
\* unwound, index.ts:509, are left out: the registry lists the agent until
\* DetachAgent, and index.ts:502-504 calls such a send the sender's bug.)
DoneIsQuiet ==
    \A c \in Calls : disposing[c] \in {"unwinding", "leaving", "done"} => phase[c] = "idle"

\* A failed call keeps nothing: no entry once its teardown is over, and no
\* session reserved, even when the session arrives after the failure.
FailureKeepsNothing ==
    \A c \in Calls : pc[c] = "failed" /\ (prepared[c] => Finished(c)) =>
        sessions # c /\ agents # c /\ loaded[c] # "held"

\* Who waits for the id waits for an entry that is still there.
WaitersHaveAReason ==
    \A c \in Calls : pc[c] = "waiting" => sessions # None

NothingOf(c) == sessions # c /\ agents # c /\ phase[c] = "idle"

\* README.md:15 of agent-loop: when the factory's unload has ended no wrapper
\* is still running and no agent is left; and an owner's unload that started
\* a teardown ends after it.  (A teardown that threw is excepted.)
GoneIsQuiet ==
    (\A c \in Calls : disposing[c] \notin {"fleeing", "lost"}) =>
        /\ factory = "gone" => \A c \in Calls : NothingOf(c) /\ ~InProgress(c)
        /\ owner = "gone" => \A c \in joins : NothingOf(c)

\* Once the factory or the owner tears down, nothing of the call is announced
\* any more, whatever its load, its setup or its listeners were doing.
NoBirthAfterUnload ==
    \A c \in Calls : TornDownFactory \/ OwnerRan(c) =>
        pc[c] \notin {"session", "agent", "start"}

\* A caller whose signal fired before the handle was returned gets none.
AbortedGetsNoHandle == \A c \in Calls : callerAborted[c] => pc[c] # "published"

\* The lifecycle hazards together: an id whose entries, observers, drivers,
\* reservations and waiters agree at every moment of racing teardowns.
LifecycleInv ==
    /\ TypeOK
    /\ RegistriesAgree
    /\ DoneIsQuiet
    /\ FailureKeepsNothing
    /\ WaitersHaveAReason
    /\ GoneIsQuiet
    /\ NoBirthAfterUnload
    /\ AbortedGetsNoHandle

\* What observers of the id are told is what OneLife promises.
Life == INSTANCE OneLife
ImplementsOneLife == Life!Spec

\* An unload, a teardown or the end of an aborted call is under way.
Ending ==
    \/ factory \notin {"active", "gone"} \/ owner \notin {"active", "gone"}
    \/ \E c \in Calls : \/ disposing[c] # "no" /\ ~Finished(c)
                        \/ callerAborted[c] /\ InProgress(c)

\* The teardown of c waits for a driver that began after its cancel, by a send
\* while it drained or by the replay behind a user's cancel: it has a signal of
\* its own, which nobody fires.
HeldUp(c) == disposing[c] = "draining" /\ phase[c] = "running" /\ reason[c] = "none"

\* While initiators are accepted, whatever is ending ends: the factory's and
\* the owner's unload, every teardown and every aborted call, although neither
\* the persistence nor setup may ever answer.  One thing may hold them up: a
\* turn that began after the teardown's cancel.  (Each of them begins once, so
\* none can go on for ever behind the others.)
UnloadsEnd ==
    []<>(initiators = "closing" \/ ~Ending \/ \E c \in Calls : HeldUp(c))

\* core/agent-loop/README.md:15: "Caller unload, handle disposal, or provider
\* unload converge on one memoized quiescence boundary."  (Not so: the owner's
\* cleanup returns at once when the teardown already runs.)
OwnersConverge == owner = "gone" => \A c \in Owned : NothingOf(c)

=============================================================================
