-------------------------- MODULE SessionPersistence --------------------------
(***************************************************************************)
(* The persistence coordinator (session/session-persistence/src/           *)
(* coordinator.ts) and its pool of prepared sessions (preparations.ts), for *)
(* one session id: clients that prepare it for a resume, load it or inspect *)
(* it, live sessions that own its log one after the other, and a plugin     *)
(* that appends through the public service.  Everything that touches the   *)
(* store goes through one chain of operations; the phase of the prepared    *)
(* entry, publication and disposal do not.  WriteBehind has the inside of   *)
(* a session's writes, SessionRecovery that of a repair: here a log of odd *)
(* length has an open turn, and the repair adds the event that closes it.  *)
(***************************************************************************)
EXTENDS Integers, Sequences, SequencesExt, FiniteSets

CONSTANTS Clients,
          MaxSessions,   \* bound: sessions that are in memory or have been live
          MaxLog,        \* bound: events of the log
          BatchSize      \* what a public append brings: a whole turn, or half of one

ASSUME PersistenceBounds ==
    MaxSessions \in Nat /\ MaxLog \in Nat /\ BatchSize \in 1..2 /\ IsFiniteSet(Clients)

Sessions == 1..MaxSessions
Nobody == 0              \* no owner; the author of repairs and of public appends

VARIABLES
    store,     \* the stored log: the author of each event
    chain,     \* the operations of the id that have not ended, in order
    begun,     \* the first of them has passed its checks
    state,     \* the backend's bookkeeping, or NoState
    entry,     \* the prepared entry, or NoEntry
    log,       \* what each session holds
    life,      \* of each session: where it is
    init,      \* of each attached session: its initialization
    sent,      \* of each session: how much of its log is in the store or a write
    client     \* of each client: its call, or NoClient

memory   == <<chain, begun, state, entry>>
sessions == <<log, life, init, sent>>
vars == <<store, memory, sessions, client>>

NoState == [owner |-> -1, cursor |-> 0]
NoEntry == [phase |-> "none", key |-> 0, session |-> 0, base |-> <<>>]
NoClient == [pc |-> "idle", kind |-> "none", key |-> 0, view |-> <<>>]

Kinds == {"prepare", "load", "inspect", "append"}

TypeOK ==
    /\ store \in Seq(0..MaxSessions)
    /\ \A i \in DOMAIN chain : chain[i].op \in {"load", "commit", "check", "append", "seed", "public",
                                               "created", "retire"}
    /\ begun \in BOOLEAN /\ (begun => chain # <<>>)
    /\ state.owner \in -1..MaxSessions /\ state.cursor \in 0..(MaxLog + 2)
    /\ entry.phase \in {"none", "loading", "ready", "committing", "reserved"}
    /\ \A s \in Sessions : log[s] \in Seq(0..MaxSessions)
    /\ life \in [Sessions -> {"unborn", "prepared", "live", "retiring", "stuck", "gone"}]
    /\ init \in [Sessions -> {"none", "pending", "ready", "failed"}]
    /\ sent \in [Sessions -> 0..(MaxLog + 2)]
    /\ \A c \in Clients : client[c].pc \in {"idle", "start", "awaiting", "committing", "committed",
                                            "checking", "checked", "reserved"}

Init ==
    /\ store \in {<<>>, <<Nobody>>, <<Nobody, Nobody>>}
    /\ chain = <<>> /\ begun = FALSE /\ state = NoState /\ entry = NoEntry
    /\ log = [s \in Sessions |-> <<>>] /\ life = [s \in Sessions |-> "unborn"]
    /\ init = [s \in Sessions |-> "none"] /\ sent = [s \in Sessions |-> 0]
    /\ client = [c \in Clients |-> NoClient]

-----------------------------------------------------------------------------
Live == {s \in Sessions : life[s] = "live"}
Retiring == {s \in Sessions : life[s] = "retiring"}

Operation(op, who, from, to) == [op |-> op, who |-> who, from |-> from, to |-> to]
Chained(operation) == chain' = Append(chain, operation)
NextIs(op) == chain # <<>> /\ Head(chain).op = op
Served == chain' = Tail(chain) /\ begun' = FALSE

Closers(events) == IF Len(events) % 2 = 1 THEN <<Nobody>> ELSE <<>>

Goto(c, pc) == client' = [client EXCEPT ![c].pc = pc]

\* The call has ended, with a result or an error.
End(c) == client' = [client EXCEPT ![c] = NoClient]

\* An unpublished Session that nothing refers to any more is as good as unborn.
Forgotten(s) == IF s # 0 /\ life[s] = "prepared" THEN "unborn" ELSE life[s]

RemoveEntry ==
    /\ entry' = NoEntry
    /\ life' = [s \in Sessions |-> IF s = entry.session THEN Forgotten(s) ELSE life[s]]
    /\ log' = [s \in Sessions |-> IF s = entry.session /\ life[s] = "prepared" THEN <<>> ELSE log[s]]

Unborn == {s \in Sessions : life[s] = "unborn"}
Fresh == CHOOSE s \in Unborn : \A t \in Unborn : s <= t

KeysInUse == {entry.key} \cup {client[c].key : c \in Clients}
                 \cup {chain[i].who : i \in {j \in DOMAIN chain : chain[j].op = "load"}}

\* The identity of a new entry: one that nobody refers to, as there always is.
FreshKey == CHOOSE k \in 1..(Cardinality(Clients) + Len(chain) + 2) : k \notin KeysInUse

-----------------------------------------------------------------------------
(***************************************************************************)
(* Clients: prepare, load, inspect and append.                             *)
(***************************************************************************)
\* Who appends through the public service is the only writer: it does not call
\* while the session is resumed or live.
OnlyWriter(c, kind) ==
    LET active == {d \in Clients \ {c} : client[d].pc # "idle"}
    IN  CASE kind = "append"  -> /\ \A d \in active : client[d].kind # "prepare"
                                 /\ \A s \in Sessions : life[s] \in {"unborn", "prepared", "gone"}
          [] kind = "prepare" -> \A d \in active : client[d].kind # "append"
          [] OTHER -> TRUE

Call(c, kind) ==
    /\ client[c].pc = "idle" /\ OnlyWriter(c, kind) /\ kind # "append"
    /\ client' = [client EXCEPT ![c] = [NoClient EXCEPT !.pc = "start", !.kind = kind]]
    /\ UNCHANGED <<store, memory, sessions>>

KnownLengths == {Len(store), Len(store) - 1} \ {-1}

\* A public append of what follows the log as the caller knows it, with or
\* without the event that a repair has added.
CallAppend(c, from) ==
    /\ client[c].pc = "idle" /\ OnlyWriter(c, "append")
    /\ from + BatchSize <= MaxLog
    /\ client' = [client EXCEPT ![c] = [NoClient EXCEPT !.pc = "committing", !.kind = "append"]]
    /\ Chained(Operation("public", c, from, from + BatchSize))
    /\ UNCHANGED <<store, begun, state, entry, sessions>>

\* The head of the retry loop: behind a retirement, a live session answers for
\* the id or refuses it; else the call joins the entry, or makes one.
Enter(c) ==
    /\ client[c].pc = "start" /\ Retiring = {}
    /\ \/ /\ Live # {}
          /\ End(c)
          /\ UNCHANGED <<chain, entry>>
       \/ /\ Live = {} /\ entry # NoEntry
          /\ client' = [client EXCEPT ![c].pc = "awaiting", ![c].key = entry.key,
                                      ![c].view = entry.base]
          /\ UNCHANGED <<chain, entry>>
       \/ /\ Live = {} /\ entry = NoEntry
          /\ entry' = [NoEntry EXCEPT !.phase = "loading", !.key = FreshKey]
          /\ Chained(Operation("load", FreshKey, 0, 0))
          /\ client' = [client EXCEPT ![c].pc = "awaiting", ![c].key = FreshKey]
    /\ UNCHANGED <<store, begun, state, sessions>>

Mine(c) == entry.key = client[c].key

\* reserve waits while another reservation holds the entry.
Reserve(c) ==
    /\ client[c].pc = "awaiting" /\ client[c].kind # "inspect"
    /\ \/ ~Mine(c) /\ Goto(c, "start") /\ UNCHANGED <<chain, entry>>
       \/ /\ Mine(c) /\ entry.phase = "ready"
          /\ entry' = [entry EXCEPT !.phase = "committing"]
          /\ Chained(Operation("commit", c, 0, 0)) /\ Goto(c, "committing")
    /\ UNCHANGED <<store, begun, state, sessions>>

\* reserve after its commit; an aborted caller gives the entry back.
Reserved(c) ==
    /\ client[c].pc = "committed"
    /\ \/ /\ Mine(c)
          /\ entry' = [entry EXCEPT !.phase = "reserved"] /\ Goto(c, "reserved")
       \/ /\ Mine(c) /\ client[c].kind = "prepare"
          /\ entry' = [entry EXCEPT !.phase = "ready"] /\ End(c)
       \/ ~Mine(c) /\ Goto(c, "start") /\ UNCHANGED entry
    /\ UNCHANGED <<store, chain, begun, state, sessions>>

\* load only wants the committed view.
DiscardLoaded(c) ==
    /\ client[c].pc = "reserved" /\ client[c].kind = "load"
    /\ End(c) /\ RemoveEntry
    /\ UNCHANGED <<store, chain, begun, state, init, sent>>

InspectLoaded(c) ==
    /\ client[c].pc = "awaiting" /\ client[c].kind = "inspect"
    /\ ~(Mine(c) /\ entry.phase = "loading")
    /\ IF Live # {} THEN End(c) /\ UNCHANGED chain
                    ELSE Goto(c, "checking") /\ Chained(Operation("check", c, 0, 0))
    /\ UNCHANGED <<store, begun, state, entry, sessions>>

\* A stale view is read again, unless a reservation retains its entry.
InspectStale(c) ==
    /\ client[c].pc = "checked"
    /\ IF Live # {} \/ (Mine(c) /\ entry.phase \in {"committing", "reserved"})
       THEN End(c) /\ UNCHANGED <<entry, life, log>>
       ELSE /\ Goto(c, "start")
            /\ IF Mine(c) /\ entry.phase = "ready" THEN RemoveEntry
                                                   ELSE UNCHANGED <<entry, life, log>>
    /\ UNCHANGED <<store, chain, begun, state, init, sent>>

\* Another id's entry pushes a ready one out of the pool.
Evict ==
    /\ entry.phase = "ready" /\ RemoveEntry
    /\ UNCHANGED <<store, chain, begun, state, init, sent, client>>

-----------------------------------------------------------------------------
(***************************************************************************)
(* A resume: what the holder of a preparation does with it.                *)
(***************************************************************************)
Holds(c) == client[c].pc = "reserved" /\ client[c].kind = "prepare"

\* Setup may append to the Session before it is published.
Setup(c) ==
    /\ Holds(c) /\ log[entry.session] = entry.base /\ Len(entry.base) < MaxLog
    /\ log' = [log EXCEPT ![entry.session] = Append(@, entry.session)]
    /\ UNCHANGED <<store, memory, life, init, sent, client>>

\* attachPrepared's assertions.
Attachable ==
    /\ state.owner = Nobody /\ state.cursor = Len(entry.base)
    /\ Live = {}

\* session/created of the prepared Session: it becomes the owner at once, and
\* only what setup has added is written.
Publish(c) ==
    /\ Holds(c)
    /\ LET s == entry.session
       IN  IF Attachable
           THEN /\ life' = [life EXCEPT ![s] = "live"]
                /\ state' = [state EXCEPT !.owner = s] /\ entry' = NoEntry
                /\ sent' = [sent EXCEPT ![s] = Len(log[s])]
                /\ IF Len(log[s]) > state.cursor
                   THEN /\ init' = [init EXCEPT ![s] = "pending"]
                        /\ Chained(Operation("seed", s, state.cursor, Len(log[s])))
                   ELSE init' = [init EXCEPT ![s] = "ready"] /\ UNCHANGED chain
                /\ End(c)
                /\ UNCHANGED <<store, begun, log>>
           ELSE /\ RemoveEntry /\ End(c)
                /\ UNCHANGED <<store, chain, begun, state, init, sent>>

\* Mutant: a Session that setup has changed goes back to the pool.
ReusableAlways == TRUE

\* A preparation given back unused may serve the next resume.
Reusable == log[entry.session] = entry.base

Release(c) ==
    /\ Holds(c) /\ End(c)
    /\ IF Reusable THEN entry' = [entry EXCEPT !.phase = "ready"] /\ UNCHANGED <<life, log>>
                   ELSE RemoveEntry
    /\ UNCHANGED <<store, chain, begun, state, init, sent>>

-----------------------------------------------------------------------------
(***************************************************************************)
(* Live sessions.                                                          *)
(***************************************************************************)
\* A new session under the id.  Prepared state vetoes it.
CreateSession ==
    /\ Live = {} /\ Unborn # {} /\ entry = NoEntry
    /\ \A c \in Clients : client[c].kind = "append" => client[c].pc # "committing"
    /\ life' = [life EXCEPT ![Fresh] = "live"] /\ init' = [init EXCEPT ![Fresh] = "pending"]
    /\ sent' = [sent EXCEPT ![Fresh] = 0]
    /\ Chained(Operation("created", Fresh, 0, 0))
    /\ UNCHANGED <<store, begun, state, entry, log, client>>

LogEvent(s) ==
    /\ life[s] = "live" /\ Len(log[s]) < MaxLog
    /\ log' = [log EXCEPT ![s] = Append(@, s)]
    /\ UNCHANGED <<store, memory, life, init, sent, client>>

Writing(s) == \E i \in DOMAIN chain : chain[i].op = "append" /\ chain[i].who = s

Unsent(s) == sent[s] < Len(log[s])

Write(s) ==
    /\ life[s] \in {"live", "retiring"} /\ init[s] = "ready" /\ Unsent(s) /\ ~Writing(s)
    /\ Chained(Operation("append", s, sent[s], Len(log[s])))
    /\ sent' = [sent EXCEPT ![s] = Len(log[s])]
    /\ UNCHANGED <<store, begun, state, entry, log, life, init, client>>

\* retire: the id is taken until the last events are written.
Dispose(s) ==
    /\ life[s] = "live" /\ life' = [life EXCEPT ![s] = "retiring"]
    /\ UNCHANGED <<store, memory, log, init, sent, client>>

\* Its flush is through.
Drained(s) ==
    /\ life[s] = "retiring" /\ init[s] = "ready" /\ ~Unsent(s) /\ ~Writing(s)
    /\ ~\E i \in DOMAIN chain : chain[i] = Operation("retire", s, 0, 0)
    /\ Chained(Operation("retire", s, 0, 0))
    /\ UNCHANGED <<store, begun, state, entry, sessions, client>>

\* Its flush fails with its initialization.
RetireFails(s) ==
    /\ life[s] = "retiring" /\ init[s] = "failed"
    /\ life' = [life EXCEPT ![s] = "stuck"]
    /\ UNCHANGED <<store, memory, log, init, sent, client>>

-----------------------------------------------------------------------------
(***************************************************************************)
(* The chain: one operation at a time.                                     *)
(***************************************************************************)
Who == Head(chain).who

\* prepareCore, and what the entry makes of its result.
Load ==
    /\ NextIs("load") /\ Served
    /\ \/ /\ entry.key = Who /\ store # <<>> /\ Unborn # {}
          /\ entry' = [entry EXCEPT !.phase = "ready", !.session = Fresh, !.base = store]
          /\ life' = [life EXCEPT ![Fresh] = "prepared"]
          /\ log' = [log EXCEPT ![Fresh] = store \o Closers(store)]
          /\ client' = [c \in Clients |-> IF client[c].key = Who THEN [client[c] EXCEPT !.view = store]
                                                                 ELSE client[c]]
       \/ /\ entry.key = Who
          /\ entry' = NoEntry
          /\ client' = [c \in Clients |->
                           IF client[c].key = Who /\ client[c].pc = "awaiting"
                           THEN NoClient
                           ELSE client[c]]
          /\ UNCHANGED <<life, log>>
       \/ entry.key # Who /\ UNCHANGED <<entry, life, log, client>>
    /\ UNCHANGED <<store, state, init, sent>>

Repaired(base) == base \o Closers(base)

\* Mutant: a commit that fails keeps its entry.
HoldOn == UNCHANGED <<entry, life, log>>

\* A commit that fails takes its entry along.
GiveUp == RemoveEntry

\* commitPrepared for the holder of the committing entry.  The revision check
\* refuses a stale source; a repair changes the revision, so it is read again.
Commit ==
    /\ NextIs("commit") /\ Served
    /\ \/ /\ state.owner > Nobody \/ ~(client[Who].key = entry.key)
          /\ IF state.owner > Nobody THEN End(Who) ELSE Goto(Who, "start")
          /\ IF client[Who].key = entry.key THEN GiveUp ELSE UNCHANGED <<entry, life, log>>
          /\ UNCHANGED <<store, state>>
       \/ /\ state.owner <= Nobody /\ client[Who].key = entry.key
          /\ IF entry.base = store /\ Closers(store) = <<>>
             THEN /\ state' = [owner |-> Nobody, cursor |-> Len(store)]
                  /\ Goto(Who, "committed") /\ UNCHANGED <<store, entry, life, log>>
             ELSE /\ store' = IF entry.base = store THEN Repaired(store) ELSE store
                  /\ RemoveEntry /\ Goto(Who, "start") /\ UNCHANGED state
    /\ UNCHANGED <<init, sent>>

\* isPreparedSourceCurrent for inspect.
Check ==
    /\ NextIs("check") /\ Served
    /\ IF client[Who].view = store THEN End(Who) ELSE Goto(Who, "checked")
    /\ UNCHANGED <<store, state, entry, sessions>>

-----------------------------------------------------------------------------
(***************************************************************************)
(* The chain: appends.                                                     *)
(***************************************************************************)
Appends == {"append", "seed", "public"}

\* Mutant: a reserved entry does not stop a write.
WritableAlways == TRUE

\* assertWritable.
Writable == entry.phase \notin {"committing", "reserved"}

\* A live batch drops what the initialization has stored.
First == IF Head(chain).op = "append" /\ Head(chain).from < state.cursor
         THEN state.cursor ELSE Head(chain).from

\* The events are not written: they stay queued, or the caller is told.
Refused ==
    /\ Served
    /\ LET op == Head(chain)
       IN  /\ sent' = IF op.op = "append" THEN [sent EXCEPT ![op.who] = op.from] ELSE sent
           /\ life' = IF op.op = "append" /\ life[op.who] = "retiring"
                      THEN [life EXCEPT ![op.who] = "stuck"] ELSE life
           /\ init' = IF op.op = "seed" THEN [init EXCEPT ![op.who] = "failed"] ELSE init
           /\ IF op.op = "public" THEN End(op.who) ELSE UNCHANGED client
    /\ UNCHANGED <<store, state, entry, log>>

\* assertWritable, the contiguity check, or a log to adopt that is not there.
Refusable ==
    \/ ~Writable
    \/ state # NoState /\ First # state.cursor
    \/ state = NoState /\ store = <<>>

\* appendCore, before the store is asked.  An append to an id the backend does not
\* track adopts it first, repair included.
BeginAppend ==
    /\ chain # <<>> /\ Head(chain).op \in Appends /\ ~begun
    /\ \/ /\ Writable /\ state # NoState /\ First = state.cursor
          /\ begun' = TRUE
          /\ UNCHANGED <<store, chain, state, entry, sessions, client>>
       \/ Refusable /\ Refused
       \/ /\ Writable /\ state = NoState /\ store # <<>>
          /\ store' = Repaired(store)
          /\ state' = [owner |-> Nobody, cursor |-> Len(store')]
          /\ IF entry.phase = "ready" THEN RemoveEntry ELSE UNCHANGED <<entry, life, log>>
          /\ UNCHANGED <<chain, begun, init, sent, client>>

\* The author of an operation's events.
Written ==
    LET op == Head(chain)
        batch == IF op.op = "public" THEN [i \in 1..op.to |-> Nobody] ELSE log[op.who]
    IN  SubSeq(batch, First + 1, op.to)

EndAppend ==
    /\ begun
    /\ \/ Refused
       \/ /\ Served
          /\ store' = store \o Written
          /\ state' = [state EXCEPT !.cursor = @ + Len(Written)]
          /\ RemoveEntry    \* invalidate
          /\ LET op == Head(chain)
             IN  /\ init' = IF op.op = "seed" THEN [init EXCEPT ![op.who] = "ready"] ELSE init
                 /\ IF op.op = "public" THEN End(op.who) ELSE UNCHANGED client
          /\ UNCHANGED <<sent>>

-----------------------------------------------------------------------------
(***************************************************************************)
(* The chain: the two ends of a live session.                              *)
(***************************************************************************)
\* A session that never wrote, and will not, leaves its id to the next.
Abandoned == state.owner > Nobody /\ state.cursor = 0
                 /\ ~Unsent(state.owner) /\ ~Writing(state.owner)

\* onCreated for a new session: the id has to be free, or abandoned.
Created ==
    /\ NextIs("created") /\ Served
    /\ IF store = <<>> /\ (state = NoState \/ Abandoned)
       THEN state' = [owner |-> Who, cursor |-> 0] /\ init' = [init EXCEPT ![Who] = "ready"]
       ELSE UNCHANGED state /\ init' = [init EXCEPT ![Who] = "failed"]
    /\ UNCHANGED <<store, entry, log, life, sent, client>>

Retired ==
    /\ NextIs("retire") /\ Served
    /\ life' = [life EXCEPT ![Who] = "gone"]
    /\ state' = IF state.owner = Who THEN NoState ELSE state
    /\ UNCHANGED <<store, entry, log, init, sent, client>>

-----------------------------------------------------------------------------
Progress(c) ==
    Enter(c) \/ Reserve(c) \/ Reserved(c) \/ DiscardLoaded(c) \/ InspectLoaded(c) \/ InspectStale(c)

Holder(c) == Setup(c) \/ Publish(c) \/ Release(c)

Session(s) == LogEvent(s) \/ Write(s) \/ Dispose(s) \/ Drained(s) \/ RetireFails(s)

Chain == Load \/ Commit \/ Check \/ BeginAppend \/ EndAppend \/ Created \/ Retired

Next ==
    \/ \E c \in Clients : \/ \E kind \in Kinds : Call(c, kind)
                         \/ \E from \in KnownLengths : CallAppend(c, from)
                         \/ Progress(c) \/ Holder(c)
    \/ \E s \in Sessions : Session(s)
    \/ CreateSession \/ Evict \/ Chain

Spec == Init /\ [][Next]_vars

-----------------------------------------------------------------------------
\* The bookkeeping is the store's, and the store is a prefix of what its live
\* owner holds: no event of another session gets between.
CursorIsStored ==
    state # NoState => state.cursor = Len(store)

OwnerHasStore ==
    state.owner > Nobody => IsPrefix(store, log[state.owner])

\* A preparation that is held is current and exclusive, so that publishing it
\* cannot fail and cannot lose what was written meanwhile.
ReservedIsCurrent ==
    entry.phase = "reserved" =>
        /\ entry.base = store /\ Attachable
        /\ IsPrefix(store, log[entry.session])
        /\ Cardinality({c \in Clients : client[c].pc = "reserved"}) = 1

\* What waits in the pool for reuse is the log as it is stored.
ReadyIsPristine ==
    entry.phase = "ready" => log[entry.session] = entry.base \o Closers(entry.base)

\* Whoever waits has somebody to wait for: a load, the chain, or another call
\* that holds the entry.
Queued(op, who) == \E i \in DOMAIN chain : chain[i].op = op /\ chain[i].who = who

WaitersAreServed ==
    \A c \in Clients :
        /\ client[c].pc = "awaiting" /\ Mine(c) /\ entry.phase = "loading" => Queued("load", entry.key)
        /\ client[c].pc = "awaiting" /\ Mine(c) /\ entry.phase \in {"committing", "reserved"} =>
              \E d \in Clients \ {c} :
                  client[d].key = entry.key /\ client[d].pc \in {"committing", "committed", "reserved"}
        /\ client[c].pc = "committing" => Queued("commit", c) \/ Queued("public", c)
        /\ client[c].pc = "checking" => Queued("check", c)

\* session-persistence/README.md:17: "Append-only; first event seq == stored
\* next-seq after any repair".  (Not so when the repair is that of a log which a
\* public append has left with an open turn: until the call that repaired it has
\* read it again, the cursor is the old one.)
AppendsContinue == begun => First = Len(store)

PersistenceInv ==
    TypeOK /\ WaitersAreServed /\ CursorIsStored /\ OwnerHasStore /\ ReservedIsCurrent /\ ReadyIsPristine
===============================================================================
