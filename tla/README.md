# Only-U, checked: TLA+ models of the agent harness, its sessions and the cleaning flow

Only-U is a repair stick for Windows machines. Its repository holds three
programs in one tree:

* **DSH** (`src/dsh`), an agent harness in TypeScript: sessions with a durable
  event log, an agent loop that turns queued messages into turns and steps, a
  scheduler for tool calls, persistence, background jobs, subagents, approvals;
* **dsh-TUI** (`src/dsh-tui`), the terminal front end that hosts it;
* **Only-U itself** (`src/plugins`, `src/portable`, `src/scripts`): the plugins
  and PowerShell scripts that diagnose a machine and, after the user agrees,
  delete temporary files.

This directory models the parts of them whose correctness depends on the order
in which things happen. Everything here is translated from the code; where a
comment and the code differ, the code is modelled and the comment is checked
against it.

## 1. Inventory

| Component | State it keeps | Operations | What makes it hard | What makes it correct |
|---|---|---|---|---|
| Agent driver (`agent-loop/src/agent.ts`) | phase (idle, maintenance, running), turn and step, abort signal, wake latch | `send`, `cancel`, `runMaintenance`, `kick`, `turn`, `preStep`, `step` | callers reach it at every await and, synchronously, from listeners of the events it publishes itself | the log stays well formed; a wake is served or withdrawn; no model work after an abort; the recorded ending is the true one |
| Inbox (`agent/src/inbox.ts`) | two ordered lists of messages, both durable | append, prepend, remove, replace, claim, clear | edited by hosts while the driver claims from it | a message is in one place; one ordinary message per turn |
| Tool-call scheduler (`agent-loop/src/tool-calls.ts`) | slots, pool, next call to start and to commit, recorded failure | `executeToolCalls`, `runGroup`, `startCall`, `commitReady`, skip | bodies overlap, settle in any order, reject; cancellation lands inside every await | results in model order; every call answered; barriers alone; pool bounded; nothing left running |
| Session log (`session/src`) | event log, its fold (the trace), append in progress | `append`, `validateEvent`, `repair` | an append made while another is published throws | the grammar of turns, steps and calls |
| Dialog queue of the TUI (`dsh-tui/.../dialogs.ts`) | queue, active dialog, timers, owners | ask, decide, cancel, abort, settleAll | the panel on screen lags behind the store; one Enter may fire twice | an answer is the user's, for that dialog; nobody waits unseen |
| Approval (`user-approval`, `dsh-tui/.../approvals.ts`) | queue, active ask, audit pair in the log | request, park, decide, withdraw | an abort races the answer; rendering lags | only a decision made on that ask allows it; an abort wins over a late answer |
| Cleaning flow (`only-u-bundle`, `only-u-clean`, `clean.ps1`) | running script, plan, files on disk | `/clean`, `ops_clean`, preview run, deleting run | the file system changes under it; scripts time out half way; two flows overlap | nothing is deleted without the user's agreement; what is reported is what happened |
| Agent lifecycle (`agent-loop/src/index.ts`, `agent/src/index.ts`, `session/src/index.ts`) | registries of sessions and agents, factory ownership, initiators, one memoized teardown per agent | create, resume, configured start, publish, dispose, whenIdle, unloads | five parties tear an agent down, in any order, while it is loaded, set up, announced, running or torn down; listeners call back in the middle | one life of an id at a time; nothing survives its teardown or is born after it; every unload ends |
| Repair and replay (`session/src/repair.ts`, `agent/src/consumed-work.ts`, `session-checkpoint-policy`) | a log read back after a crash | checkpoint, repair, inbox and turn replay | the crash may fall between any two appends, also those of the repair | the repaired log is legal and stays so; what was shown to the model or run is not forgotten; no message vanishes |
| Session persistence (`session-persistence*`) | write queue and timer per session, initialization, retirement; per id a chain of operations, a cursor, a pool of prepared sessions | enqueue, flush, write, retry, close; prepare, load, inspect, append | background batching against barriers, failures, crash and reload; reservations against repairs, appends and live sessions | what is durable is a prefix of the log, an acknowledged flush is kept, a reservation is current and exclusive |
| Jobs, schedule, goal rounds, subagents, teams, llm retry, compaction, commands | their own registries | start, settle, cancel, continue, notify | each follows turn ends or timers, and races cancellation | one notification per job, one continuation per turn, budgets kept |
| Probes, reports, launchers, image baking, gateway, web client | files, sockets | sequential I/O and rendering | little ordering of their own | outside this project |

**How they interact.** A front end calls `agent.send`; the inbox publishes the
insertion as a session event; `send` wakes the driver; the driver claims a batch,
assembles a prompt, appends `step/start`, streams from the model and hands tool
calls to the scheduler; tools ask the approval service, which appends an audit
pair and lets the TUI park the question; everything that happens is an append,
and the session's invariant companion checks each of them. The `/clean` command
never goes through the agent: it asks with TUI dialogs and runs the script
itself. The `ops_clean` tool goes through the agent and the approval service, and
runs a second copy of the same script.

**Concurrency.** There is one JavaScript thread. Code interleaves at awaits, in
the gap a promise continuation needs, and by re-entrance from listeners. The
models take these as the only places where an actor can act: a `pc` names them,
and an action is the code between two of them. Scripts are processes of their own
and interleave with everything.

## 2. Modules

| Module | Models | Composed with |
|---|---|---|
| `SessionLog` | `validateEvent` and `applyTransition` of `session/src/invariant.ts`: which turn, step, assistant and tool events a log accepts, and its fold | instantiated by `AgentLoop` and `ToolCalls` as `Log` |
| `Inbox` | the splices of `agent/src/inbox.ts` as operators on a record of two sequences | extended by `AgentLoop` |
| `AgentLoop` | one agent: callers, `turn`, `preStep`, `step`, `kick` | over `Inbox` and `SessionLog` |
| `ToolCalls` | one batch of `executeToolCalls` | over `SessionLog` |
| `AskOnce` | abstract: a question is settled once, by a choice made on it or by being withdrawn | refined by `TuiDialogs` |
| `TuiDialogs` | `TuiDialogStore` and the panel on the screen | implements `AskOnce` |
| `SessionRecovery` | a driver in outline, its checkpoints, crashes, `interruptedTurnClosers`, the replay of inbox and turn counter, `foldConsumedWork` | over `Inbox` and `SessionLog` |
| `DurableLog` | abstract: the store is a prefix of the log, an acknowledged flush survives | refined by `WriteBehind` |
| `WriteBehind` | one live session's writes: the coordinator's attachment, `write-behind.ts`, the JSONL append | implements `DurableLog` |
| `SessionPersistence` | one id in the coordinator: the chain, the cursor, the prepared entry, clients, live sessions | — |
| `OneLife` | abstract: the notifications one id's observers hear | refined by `AgentLifecycle` |
| `AgentLifecycle` | the agent factory and both registries for one id: create, resume, configured starts, publication, teardown, unloads | implements `OneLife` |
| `ApprovalPrompts` | `ApprovalService.request` and `decide` racing the TUI's `ApprovalStore`, and a panel that lags behind it | — |
| `CleanFlow` | `/clean`, `ops_clean`, the two copies of `clean.ps1`, the disk | — |
| `AgentLoopProofs`, `ToolCallsProofs`, `TuiDialogsProofs`, `WriteBehindProofs`, `AgentLifecycleProofs`, `SessionPersistenceProofs`, `SessionRecoveryProofs` | theorems and proofs | extend the module they are named after |
| `ApprovalProofs` | theorems and proofs about consent: where it is asked for, and where it is used | extends `ApprovalPrompts` and `CleanFlow`, which have no variable in common (`CleanFlow` therefore says `CleanInit`, `CleanNext`, `CleanSpec`); has the lemmas of `TuiDialogsProofs` as `Dialogs` |
| `MCAgentLoop`, `MCToolCalls`, `MCTuiDialogs`, `MCApprovalPrompts`, `MCCleanFlow`, `MCSessionRecovery`, `MCSessionWrites` (of `WriteBehind`), `MCSessionPersistence`, `MCAgentLifecycle` | instances for TLC; the `.cfg` files give the constants | extend the module they are named after |

Every operator whose comment starts with *Mutant* is a plausible bug in the
operator that follows it. It is used by no action; substituting it for its
neighbour must break a named property (`mutants` in `PROJECT.json`).

### AgentLoop

State and code: `kind`, `turn`, `step`, `abort`, `wakeRequested` are the union
`Phase` (agent.ts:38-46); `inbox` is the pair of lists; `trace` is the fold
that the session's invariant companion keeps, and `rejected` records that an
event was offered which it forbids. `pc` names the point where the driver is
suspended: an await (`assemble`, `request`, `stream`, `recover`, `tools`,
`stopping`), the gap before a continuation runs (`again`, `exit`), a window in
which listeners may call anything (`starting`: agent/status, `reporting`:
agent/error), or a window in which a session event is being published
(`opened`, `stepped`, `raised`, `closed`).

* In a publication window an append throws, so of the callers only a cancel that
  appends nothing goes through (`Callable` and the guard of `Cancel`).
* A call whose listeners may call back waits on `stack` for them to return, with the
  locals it will need; only the innermost one can go on. `send` waits behind the
  notification of its insertion: in between, listeners may send, cancel, remove,
  replace, prepend or start maintenance, and what `send` read before the insertion
  (`afterAbort`) is kept. `cancel` waits behind each of the two splices of `clear()`
  (`clearing`, `cleared`), whose listeners run before the latch is reset and the
  signal fires (`Interrupt`). `wakeDriver` waits behind the publication of
  `running` (`kick`), and `kick`'s `finally` behind that of idle (`replay`).
* What the driver awaits resumes when no call waits (`Unnested`). A driver begun
  inside a listener runs its synchronous pieces to its first await before the calls
  below it go on (`Resumes`).
* Discarded messages are told one by one; here the listeners of one splice run in one
  window. Each call in it sees the inbox without them all, as in the code, where the
  splice comes first.
* A pre-step hook may rewrite the batch; here it enters as a whole or is dropped
  as a whole. The batch that assembly failed on is dropped (`fate`).
* That turn/start or turn/end themselves fail to append is excluded: they are
  legal by `LogGrammar` and the windows of other appends are excluded by `pc`.
* Tools are one suspension (`tools`): `ToolCalls` is what happens inside. Context
  that tools add for the next step arrives as an `inject`.
* A failed step is closed from any of its suspensions by `FailStep`; a cancelled
  stream may leave an assistant message first. Chunks of the stream change
  nothing in the fold and are left out.
* `whenIdle`, disposal and initiators are in `AgentLifecycle`, where a driver is
  only running, stuck or idle.

The variables under *History* are read by no guard.

### ToolCalls

`first..last` is the group, `toStart` is `nextToStart`, `started` and `committed`
are the counters of calls and results in the log, `call` holds each slot's state,
`inFlight` the bodies not yet taken from the race, `failed` the recorded
scheduler failure, `aborted` the group's own copy of the signal. The scheduler is
sequential between awaits; in the awaits bodies settle (`BodySettles`) and a
cancel may land. A call's mode is chosen freely when it is read (`Classify`,
`StartCall`), because the registry may change between the two.

### AskOnce, TuiDialogs, ApprovalPrompts

`AskOnce` keeps only `result` and `chosen`, the choices the user made, each on
the question the panel showed. The dialog store, which keys its answers, is held
against it with `queue` and `active` hidden. The approval store has no key and does
not implement it (section 5).

In `TuiDialogs`, `shown` lags behind `active`: `Render` is React's redraw, and
`Press` is a key handler of whatever is shown, which may fire after its dialog
was settled. A caller's signal, a timer and a plugin's end are all `Withdraw`.
`SettleAll` empties the store; a later session is a fresh one, which is the same
state.

`ApprovalPrompts` joins the service and the store. `Request` enters the promise
chain; the store's `Answerer` runs a microtask later; the signal may fire before,
between and after (`Abort`: both listeners run in the same dispatch). `told` is
what listeners were last told to draw, which is not always what is active. A `Press` is
a handler of whatever is `shown`, however old, and may be the second one of one Enter;
`decide` settles whatever is active by then.

### SessionRecovery

The driver of `AgentLoop` in outline, with what a crash can tell apart: the log as
a sequence of events with their grammar part (`SessionLog`) and the parts that
recovery reads (splices of the inbox, the calls an answer asks for, the reason of a
turn's end). `stored` is the durable part of the log. The driver waits for it
(`Checkpointed`, `MayRun`) where `session-checkpoint-policy` awaits a flush: before a
step, before a model request, before a tool body.

* What the driver appends between two awaits is one action; a crash may keep any
  prefix of it, and a prefix of what was not yet written, because a write may
  have landed without its end being seen.
* A plain log is cut at a line; a compressed one keeps a torn frame, of which some
  events can still be read (`damaged`, `torn`). Opening truncates it, appends what it
  held and the closers, and loads again (`Truncate`, `AppendRepair`, `Resume`); a crash
  may fall between these too.
* `Persist` is a step only while somebody awaits it. A write that covers less is one
  that ended earlier, and one that nobody awaits leaves a crash less to take away:
  crash states are the same.
* A rejected step ("blocked") is not told from a failed one. A batch that a hook
  rewrites to nothing ends its turn as completed, before the first step or behind one
  that had given the turn its ending, and its prompt is accounted for by that alone
  (`Explained`). Of a batch that a hook shortens, the last messages are dropped.

### WriteBehind and DurableLog

Events are their numbers in the log; the live log is `1..appended`. `attached`, `init` and
`seed` are what the coordinator knows of the session; `pending`, `timer`, `deadlineExpired`,
`automaticPaused`, `batch`, `active` and `barrier` are the fields and await points of
`SessionWriteBehind`. A write ends in three steps, as its promise chain does: it
settles (`WriteEnds`), its `finally` runs (`Finally`), and then whoever awaited it goes on
(`Continue`, `ContinueBarrier`); in between, events are logged and flushes called. Timers
and I/O are later tasks and wait until no continuation is left (`Quiet`).

* Failing I/O is rolled back by the store (`appendLines`); a rollback that fails as well,
  a close that fails after a successful fsync and a failing fsync of a directory are
  taken not to happen. A new log's first batch is published with its file or not
  at all.
* `Disposed` drops what a failed flush left in the queue, as the code does, and a reload
  attaches again with the log so far as seed. A retirement is a disposal whose flush
  succeeds: one that fails keeps the live entry (coordinator.ts:1154-1160), the id stays
  taken and nothing attaches again, which is `SessionPersistence`'s `"stuck"`.
* `DurableLog` keeps the log, the store and what was asked of and acknowledged by
  flushes. Its `Crash` may keep more than what was known to be stored, never less.

### SessionPersistence

One id. `chain` is the promise chain of `serialize`, its operations named for the code
that runs in them; `state` is the coordinator's cursor and owner; `entry` is the entry of
`SessionPreparations`; a client is a call of `prepare`, `load`, `inspect` or the public
`append` with the point it awaits. The store's content is the author of every event, so
that two sessions' events cannot be mistaken for one another's. A log of odd
length has an open turn, and the repair adds the one event that closes it.

* `OnlyWriter` is an assumption on the plugins that append through the public service:
  they do not while the session is being resumed or is live. Their idea of the log's
  length may be one repair old (`KnownLengths`).
* A retirement whose flush failed keeps the id taken, as in the code (`"stuck"`).
* The pool evicts a ready entry at any time (other ids are not modelled). `Keys` are
  reused identities of entries.
* `create` of the public service, seeds of forks, adoption by a reloaded plugin,
  listings and raw artifacts are left out.

### AgentLifecycle and OneLife

Each member of `Calls` is one call for the same id. `pc` is where its wrapper awaits, or
which announcement of its publication is being heard: publication is synchronous,
so in these windows only what a listener can do is enabled (`Quiet`). `disposing` is
the memoized teardown, from the drain of the driver to the two detaches, and
`"broken"`, `"fleeing"`, `"lost"` the same when the drain throws. `waitingOn` against `activity`
is `whenIdle`'s loop.

* One owner fiber makes all calls that are not configured; configured ones belong to
  the factory's own fiber. The same-id predecessor a configured start waits for is
  one of the other calls.
* A driver begun while initiators are closing never runs: its phase is set before
  `withInitiator` throws (`"stuck"`), or, replayed from an ending one, the throw rejects
  that one's activity and a teardown that awaits it.
* Sends while the scope is being unwound (index.ts:509, with the agent still in its
  registry), and the one microtask between `whenIdle` and the unwinding, are left out: a
  driver begun there would break `DoneIsQuiet`, and the code calls such a send its
  sender's bug (index.ts:502-504). `persistence.list` is taken to answer: nothing races it.
* `OneLife` has only the last notification and whose life it is.

### CleanFlow

A request is a `/clean` or an `ops_clean`. Its script lists the categories in
turn (`ListCategory`), or plans a category and removes its files one by one
(`PlanCategory`, `RemoveFile`) and then empty directories (`FinishCategory`).
Between any two of these steps files appear, are rewritten and turn old.

* A script reads its cutoff once, at its start. `TurnOld` is therefore a step
  only while no script runs: a file that turns old later is unknown to it.
* Of the categories, `temp` stands for those with an age gate, `cache` for those
  without.
* The scan's cap exists only in the portable script (`Found`), as does the
  exception for `dsh-*` directories (`SparesHostDirs`).
* The command's timer kills its script at once. The tool starts `taskkill`,
  answers, and the script runs on until `KillLands`.
* Without a dialog service the command previews and stops, without an approval
  service the tool is refused: both are `Refuse`, right after the preview.
* The tool does not look at its preview's exit code (`AfterPreview`).
* The recycle bin's accounting, log files, the start-up preview and the status
  line it feeds are left out.

## 3. Runs

| Run | Instance | What it shows |
|---|---|---|
| `agent_loop` | 2 messages, 2 tool steps, calls nested 3 deep | the log's grammar, the driver's position in it, custody of messages, one ordinary message a turn, replay of latched wakes, the effect of an abort, the sticky ceiling; a cancelled activity ends; a promised wake is served, withdrawn or cancelled |
| `tool_calls` | 4 calls, pool of 2 | order and completeness of results, barriers, the pool, drained failures, no start after a cancel, the batch ends |
| `tui_dialogs` | 3 dialogs, 2 answers | places, nobody unseen, refinement of `AskOnce`, and, if the user answers what is shown, every dialog settles |
| `approvals` | 3 asks, keys on any prompt drawn | places, nobody unseen; nothing is granted after an abort; a key reaches an ask that is not on the screen only while an announced change is undrawn; every dispatched request is decided |
| `clean_flow` | one command, one tool call, one temp and one cache file | removal needs agreement, answers that speak of no cleaning are true, also of interrupted runs, scripts stop with their answer, every request is answered |
| `session_recovery` | 2 messages, 2 turns of 2 steps, tools in the first, 2 crashes | repaired logs are legal, complete and final; effects stay and are remembered; no message vanishes |
| `session_writes` | 4 events | order and single writer, refinement of `DurableLog` through failures, reload and crash; every event is stored unless a write failed |
| `session_persistence` | 2 clients, 2 sessions, 4 events, public appends of whole turns | cursor, owner, reservation, pool and waiters agree |
| `agent_lifecycle` | 2 calls, 2 driver runs | registries and teardowns agree, refinement of `OneLife`, every unload ends unless a turn begun after its cancel holds it up |
| `session_appends`, `agent_owner_unload`, `clean_stamp` | small | statements of the repository that the code does not keep (section 5) |

**Bounds.** `Messages`: every message is sent at most once, so two give one that is
served or claimed while the other comes behind an abort, from a listener or in the
gap before idle, and a second turn on the same driver; there is no symmetry, because
the run has liveness properties. Three messages, which add a claim of two at once,
were checked without the liveness properties. `MaxNested` bounds calls within listeners
of one another: three have a send within the listeners of a cancel within those of
another call. `MaxToolSteps` bounds how often the model asks for
tools in a turn: two make a step that follows a step that followed the ceiling.
`NumCalls = 4`, `MaxParallel = 2`: a group that fills the pool twice next to a
barrier on either side. Three questions: one active, one to be taken out of the
middle of the queue, one behind it. One temp file and one cache file, each
appearing and removed once: every property speaks about one file and one or two
requests. `MaxEvents = 4`: one event stored, one in a batch, one queued behind it
and one that arrives while a barrier goes on. `MaxCrashes = 2`: a crash, and one in the
repair it causes; `MaxSteps = 2`: tool results are followed by a step that claims; tools
in one turn only, because the second would repeat the first. Two sessions: an owner
and its successor; two clients: a reservation and whoever waits for it or
breaks it. Two calls for an id: one that has it or is leaving and one that wants it,
each of them a create, a resume or a configured start; two driver runs: a
replay behind the run a teardown awaits.

**Symmetry** is used in `session_recovery` and `session_persistence`, which
have no liveness property; messages and clients are interchangeable.

**Deadlock** is checked except where the system comes to rest: in `tool_calls` a batch
returns, in `clean_flow` all requests are answered, in `agent_lifecycle` everything has
unloaded, and in the three runs of sessions the bounds on events, turns and crashes
are used up.

**Fairness.** In `AgentLoop`: what is awaited settles and what is ready runs
(weak fairness of `CallersGoOn`, the calls that wait for listeners, of
`FinishMaintenance` and of the driver as a whole). The event loop guarantees the latter; the former is what providers and
tools promise, and it is an assumption. No caller has to call. In `ToolCalls`:
bodies settle, the scheduler runs, nobody has to cancel. In the two stores:
promises settle, what listeners were told is drawn, and the user answers what
stays on the screen; no timer is needed. In `CleanFlow`: timers fire, a handler
that was answered goes on, and a question is answered or withdrawn. Scripts get
no fairness at all: they may hang anywhere. In `WriteBehind`: timers fire, I/O ends
one way or the other, continuations run; nobody has to flush. In `AgentLifecycle`:
settled promises are acted on, a driver whose own signal has fired converges, listeners
return, and a fiber whose dependency goes unloads; nothing is assumed of setup (unless
its signal fired), of callers, of the persistence's `prepare`, which may never answer, or
of a driver that nobody aborted: it is a model turn. `UnloadsEnd` therefore excepts a
teardown that such a driver holds up (`HeldUp`). Each of the bounded driver runs may be
one; how often sends may begin another is the bound's choice, and no part of the claim.
`SessionRecovery` and `SessionPersistence` have safety properties only; that nobody is
forgotten there is the invariant `WaitersAreServed`.

## 4. Proofs

All theorems hold for every value of the constants under the named assumptions
of the modules.

* **`AgentLoopProofs!TypeCorrect`**: `Spec => []TypeOK`. `TypeOK` is inductive: it
  ties the phase to `pc` (a driver runs exactly in the running phase).
* **`AgentLoopProofs!LogIsWellFormed`**: `Spec => [](PositionMatchesLog /\ LogGrammar)`.
  The grammar alone is not inductive: whether an event is legal depends on the
  turn and step the log has open, and the driver numbers its events from its own
  counters. `PositionMatchesLog` says, for each `pc`, which boundary is open and
  that both sides would give the next one the same number; with `TypeOK` it is
  inductive (`LogInv`). One lemma per event says when it is legal and what it does
  to the fold.
* **`AgentLoopProofs!MessagesHaveOneOwner`**: `Spec => []Custody`, from `HoldsOnce`: the
  inbox holds the pending messages, the batch the claimed ones, and only a step being
  assembled has a batch. The module starts with what every operation, being a splice, does to the
  set of messages of an inbox without repetition (`SpliceOnce`); what is added is
  not there yet, because a message that is sent, put in front or put in another's place
  is new.
* **`AgentLoopProofs!TurnsServeOneMessage`, `AbortsAreRecorded`, `CeilingIsSticky`,
  `AbortStopsModelWork`**: an open turn has claimed at most one queued message, none before
  its first step, and its ending so far is one its steps gave it, `max-tokens` if one hit the
  ceiling (`EndingSoFar`); each of the ways to close it then records the right ending
  (`ClosedRightly`).
* **`AgentLoopProofs!PromisesAreServed`, `DrainedAgentsAreServed`**: a promised message that is
  pending implies a driver about to open its turn, a latch, or a replay under way, and no
  disposed signal (`PromisesAreKept`); a waking message left behind by a drained activity is
  late wherever nothing will look at the inbox again (`DrainedIsLate`). A cancel that waits
  for the listeners of what it discards will erase the latch when it goes on: so neither a
  promised message nor one that is not late is in a list that it has emptied, and what its
  listeners send is not promised anything (`Promises`). That holds for a stack of any depth:
  what a call does to the waking messages and to the calls below it are facts about pushing
  and popping (`PushFacts`, `PopFacts`). Both parts are only inductive with custody,
  which says that what is added to the inbox was never sent before.
* **`ToolCallsProofs`**: all safety of the scheduler, from one inductive invariant
  (`SlotsAgreeWithLog`). `SlotsFit` divides the message into committed, started and planned
  calls by the two counters, `LogIsCurrent` says that the fold holds exactly the started and
  uncommitted ones (`Pending`), so that every result is for a pending call, and `PoolFits`
  that when the pool is filled the next slot to commit still runs or none is left. From
  that last fact follow the source's comment about groups and, as an exclusive group is one
  call long, lone barriers. A cancel reaches `aborted` before the pool is filled again
  (`SignalIsRead`). The pool's bound is a fact about `inFlight`, of which the running
  bodies are a part.
* **`TuiDialogsProofs!DialogsInvariant`**: `DialogInv` is the conjunction of
  `TypeOK`, `OnePlace`, `NobodyWaitsUnseen` and `PanelIsCurrent`. A withdrawn
  dialog leaves the queue only because it occurs there once (`UnqueuedPlaces`), and
  advancing loses nobody (`AdvanceKeepsPlaces`).
* **`TuiDialogsProofs!StoreImplementsAskOnce`**: the refinement, step by step. The
  case that matters is a key on an old panel: `PanelIsCurrent` says that its dialog
  no longer waits, so the step is a choice that changes no result.
* **`ApprovalProofs!ApprovalsInvariant`, `NoLateGrants`, `AnnouncedPromptsDecide`**: the
  store keeps places as `TuiDialogs` does, so the lemmas about them are reused
  (`Dialogs == INSTANCE TuiDialogsProofs WITH Answers <- Choices, chosen <- {}`). The invariant
  adds that an ask is new until the answerer parks it (`NewUntilParked`); that the listeners
  know the active ask, or were not told that the last one was withdrawn (`ToldIsActive`), so
  that a key on the prompt they draw settles that ask or none; and that an open request
  whose signal has fired has its outcome already (`SignalsSettle`), because the service's own
  listener does not wait for the store: an answer that arrives later finds it settled.
* **`ApprovalProofs!CleanInvariant`, `RepliesAreKept`**: `CleanInv` adds to the
  checked invariants that a script always has a handler that waits for it or has
  told it to stop (`ScriptsHaveHandlers`) and where agreed requests can be
  (`AgreedRequests`). Proved request by request: a handler moves only its own.

* **`WriteBehindProofs!WritesInOrder`**: `Spec => [](TypeOK /\ QueueInOrder /\ OneWrite)`.
  `QueueInOrder` says that the batch is the log's stretch `n..e` and the queue `e+1..k`, where
  `n` is at most one more than what the store has (or gets from the initialization); after
  a failure the batch is back in the queue, so `e = n - 1`. Which steps may start a write,
  and that a settled one is stored or back in the queue, is `OneWrite`. One lemma per
  action.
* **`WriteBehindProofs!WritesAreSafe`**: `Spec => []WriteInv`, the above with two more parts.
  The filter of `appendLiveBatch` is written as a suffix (`Fresh`) and, as in the code, as
  the events the cursor has not passed (`Filtered`); the two agree (`FilterIsSuffix`)
  because the batch is consecutive and starts where the store ends or before. Nothing is
  stranded (`NothingStranded`) because a queue with no write under way has a timer, a
  pending initialization, a flush, or a failure that kept it.
* **`WriteBehindProofs!WritesImplementDurableLog`**: the refinement. What is not obvious is an
  acknowledgement, which needs that an empty queue without a write means that the
  store has everything up to the flush call, and a crash, which needs that what is in
  flight continues the store.

* **`AgentLifecycleProofs!LifecycleIsSafe`, `LifecycleImplementsOneLife`**: publication and the two
  detaches exclude each other and themselves (`OneAtATime`), so between awaits the registries
  agree, and in each window it is known what they hold and what was told (`EntriesFit`).
  `CallFits` is what a call has at its stage; its heart is that whoever gives up a prepared
  call has aborted its signal, so that a publication that finds the signal clear has a
  living factory and owner. `GoneFit` says that nothing is unfinished behind an unload that
  has ended, and `Budget` keeps the bound on drivers typed. One lemma per action; a step that
  touches one call and no entry needs only that call looked at (`OneCallStep`). The
  calls are assumed to be finitely many (`FiniteAssumption`), for the bound's counting.

* **`SessionPersistenceProofs!PersistenceIsSafe`**: `BatchSize = 2 => (Spec => []PersistenceInv)`.
  `BatchSize = 2` says that a public append brings whole turns; with half turns the run
  `session_appends` shows the invariant false (section 5), so the hypothesis is needed.
  The inductive invariant says what each waiting operation of the chain may count on
  (`OpsFit`) and that the one that has begun continues the store (`BegunFits`); that a
  client that waits has its operation in the chain (`ClientsFit`); that an entry excludes
  attached sessions, has the only prepared one and, when ready, the log as it
  is stored with its closers (`EntryFits`); that at most one client holds an entry, and
  that between the load and the publication of what it holds nothing was written
  (`HolderFits`); that public appends and attached sessions exclude each other
  (`PublicIsAlone`); and that the owner's log continues the store (`OwnerFits`).

* **`SessionRecoveryProofs!RecoveryIsSafe`, `EffectsSurvive`, `EffectsAreKnown`,
  `MessagesAreAccounted`**. A log is `Good`
  when each of its events may follow the ones before it (`MayFollow`: the grammar allows it,
  and it starts an asked call, answers the first unanswered one, splices within the
  inbox, and so on). `Good` is kept by every beginning of a log, which `RecoveryInv` is not:
  that is what a crash needs. By induction over a good log its folds agree (`Fit`): the
  grammar's position, the repair's scan and the turn counter name the same open turn and
  step, the calls the scan has open are those the grammar awaits, a step's results are the
  front of what was asked for, and no message is in the replayed inbox twice or after it
  entered a step. From this the closers that the repair computes may follow what is left
  (`ClosersClose`). The inductive invariant `IInv` says that the log, with what was torn off and
  what the repair has drafted, is good (`LogsAreGood`); that the driver and its calls are where
  the log has come to (`DriverFits`); that the claimed messages wait nowhere (`BatchFits`); that
  what was run or prompted is in the durable part (`EffectsAreStored`), which no crash cuts;
  and that what a repair calls not started is of a step that is over, whose calls can
  no longer run (`ReportsAreRight`). The steps the scheduler left with open calls (`broken`)
  may end without results, and nothing else may. Each call of a step is one of two, as in the
  model. For `NothingVanishes` the accounts of `foldConsumedWork` are one more fold of a good log
  (`AccountsFit`): its open turn is the grammar's, and every message that is known and not
  pending left the inbox at some event (`LeavesAt`) that is accounted for (`AccountedAt`): a
  later turn/end says so, a caller's splice replaced or dropped it, its turn
  completed, or the turn still open has claimed it. Only a caller's splice or one within an open
  turn takes something out; at rest no turn is open, so one of the others holds. TLC
  has checked `IInv` in every state of the instance of `session_recovery`, and `Fit` and
  `AccountsFit` of the log with what was torn off on that instance with one crash.

Only model-checked is liveness: every invariant, and every property that says what a step may
not do, of a run that passes is a theorem. Liveness under
fairness and `ENABLED` are out of the prover's reach. The library's induction theorems take an
operator as a parameter, so a recursive function over the numbers is unfolded by set induction
where it is needed (`SetInduction`: a set of numbers without a least element is empty). In
`SessionRecoveryProofs` every fold of the log has its group of lemmas for it (`TraceUnfolds`,
`OpenedUnfolds`, ...): what the fold is, for every finite log, one event further.

## 5. Where code and text disagree

Three have a run:

* **An append at an old cursor** (`session_appends`). `commitPrepared` appends the closers of
  an interrupted turn and returns; the cursor of an ownerless state, kept from an
  earlier public append, moves only when the loader has read the log again. A public
  append in between passes the contiguity check and writes a sequence number for the
  second time. It takes a plugin that appends half a turn: `session_persistence` has
  whole turns and finds cursor and store in agreement.
* **Unloads do not all converge** (`agent_owner_unload`). The owner's cleanup returns at once
  when the teardown already runs, so it ends before the agent is at rest.
* **The stamp under a cleaning** (`clean_stamp`). `footerLines` (stamp.js:15) tells the user that
  no file has been deleted by now. Every stamp has it, and so have the answers of a
  deleting run that succeeded, failed or was stopped half way (index.js:499-512).
  `QuietRepliesAreTrue` is what can be relied on: an answer that speaks of no cleaning.

The others are invariants, or for `PromptsDecide` a property, that a `.cfg` of the module
named may list; TLC then shows the run:

* `AgentLoop!LiveDriversClaim`: between the driver's last look at the inbox and the
  publication of idle, a wake is neither claimed nor latched; the message waits in the
  inbox of an idle agent. `DrainedMeansServed` is the true statement. The same happens, by
  the code, when a turn has nothing to say (agent.ts:276 returns without looking).
* `ApprovalPrompts!PromptsDecide`: "the user decided on the current approval; settles it"
  (approvals.ts:166). `decide` takes no key and settles whatever is active. A prompt that is
  still drawn when the store has moved on, because a signal fired or because one Enter
  came as the CR+LF pair against which dialogs.ts:213-217 keys its answers, decides
  the next ask. `DrawnPromptsDecide` bounds the damage: it takes an announced
  change that is not drawn yet.
* `ApprovalPrompts!AbortedAsksLeave`: `park` registers for a signal that may have fired already.
* `CleanFlow!HostDirStays`: the tool's copy of the script lacks the exception for the host's
  own directory.
* `CleanFlow!PreviewedOnly`: the deleting run scans again.

A wake can also be lost in `AgentLoop`, which `PromisedWakes` without the conjunct
`~Clearing` of `Promises` shows: `cancel` discards the inbox, a listener of the discard sends
a waking message behind an activity already aborted, or behind maintenance, the wake is latched, and `cancel`
goes on to reset the latch (agent.ts:137). The message stays in the inbox of an idle
agent, where agent-loop/README.md:70 says that waking input that lands after the abort
is latched and replayed.

A teardown may wait for a model turn, where agent.ts:174-176 says that it waits on none:
what is never latched is a wake behind a *disposed* signal; a wake that was latched behind
a user's cancel is replayed, and a send while the teardown drains begins a driver, in
both cases under a fresh signal that nobody fires (agent.ts:183-191). The teardown goes
round once more (`HeldUp` in `AgentLifecycle`).

Seen while modelling: a listener of `agent/status` that
cancels makes the new driver leave before it opens its turn (agent.ts:252); when
the active approval is aborted with nobody behind it, listeners are not told
(approvals.ts:159); a signal that fires between the grant and the start of the
tool's script stops nothing (only-u-clean/index.js:107); a wake that finds the initiators
closing leaves its agent running with no driver behind it, and the teardown that waits
for that driver waits for ever (agent.ts:192), which is why `UnloadsEnd` is stated for open
initiators only.

## 6. Plan

Built: the modules of section 2. Next, in this order, with what each is for:

1. **Delivery**, abstract: a message is sent, served once or withdrawn. `AgentLoop`
   and `SessionRecovery` refine it.
2. **Jobs, goal rounds, schedule, subagents**: one notification, continuation or
   delivery per event, in the face of cancellation.
3. **SessionPersistence over WriteBehind**: the writes of a live session as that module's
   steps instead of one; `create`, forks' seeds and adoption by a reload.
4. **CleanFlow over AskOnce**: the question of a request as an instance of the
   abstract queue instead of a free choice.

## 7. Not modelled, and why

Rendering, formatting, prompt assembly and schemas keep no protocol state.
Launchers, image baking, probes and report writing are sequential input and
output. The gateway, the web client and the transports are not part of the
stick's core. The other components of section 1 without a module are planned
above; `PROJECT.json` lists each with its reason. Vendored code is outside.

## 8. Running

`tlc -config MCAgentLoop.cfg MCAgentLoop` (any `.cfg` with the module whose name it
starts with; `MCSessionAppends` runs on `MCSessionPersistence`, `MCOwnersConverge` on
`MCAgentLifecycle`, `MCCleanStamp` on `MCCleanFlow`), and `tlapm AgentLoopProofs.tla` for a proof module.
