------------------------------ MODULE WriteBehind ------------------------------
(***************************************************************************)
(* The write path of one live session: the coordinator that attaches to it *)
(* (packages/session/session-persistence/src/coordinator.ts), the queue    *)
(* that batches its events (write-behind.ts) and the append of the JSONL   *)
(* store they end in.  Promise continuations are steps of their own: other *)
(* code that was waiting for the same write may enqueue or flush between   *)
(* a write's end, its finally and what runs after it.  Timers and the end  *)
(* of I/O are later tasks, which run only when no continuation is left.    *)
(***************************************************************************)
EXTENDS Naturals, Sequences, FiniteSets

CONSTANT MaxEvents      \* bound: length of the session's log

ASSUME MaxEventsAssumption == MaxEvents \in Nat

VARIABLES
    appended,        \* length of the live log; an event is its number in it
    file,            \* the events in the store
    \* The coordinator's attachment to the session.
    attached,        \* "absent", "open", or "closing" while it is disposed of
    init, seed,      \* its initialization, which stores the log's first `seed` events
    flushing,        \* flush calls that wait for the initialization
    \* The controller.
    pending, timer, deadlineExpired, automaticPaused,
    active, batch,   \* the write in progress
    background,      \* started by the timer, not by a barrier
    failed,          \* how the last write ended
    resume,          \* continueAutomatic is due
    barrier,         \* where drainBarrier awaits
    asked, acked     \* history: the log's length at the latest flush call, and
                     \* at the latest call that resolved

session    == <<attached, init, seed, flushing>>
schedule   == <<timer, deadlineExpired, automaticPaused>>
write      == <<active, batch, background, failed>>
controller == <<pending, schedule, write, resume, barrier>>
history    == <<asked, acked>>
vars == <<appended, file, session, controller, history>>

Numbers(a, b) == [i \in 1..(b + 1 - a) |-> a + i - 1]

TypeOK ==
    /\ appended \in 0..MaxEvents
    /\ file \in Seq(1..MaxEvents)
    /\ attached \in {"absent", "open", "closing"}
    /\ init \in {"pending", "ready", "failed"} /\ seed \in 0..MaxEvents
    /\ flushing \in BOOLEAN
    /\ pending \in Seq(1..MaxEvents) /\ batch \in Seq(1..MaxEvents)
    /\ timer \in BOOLEAN /\ deadlineExpired \in BOOLEAN /\ automaticPaused \in BOOLEAN
    /\ active \in {"none", "writing", "settled"}
    /\ background \in BOOLEAN /\ failed \in BOOLEAN /\ resume \in BOOLEAN
    /\ barrier \in {"none", "overlap", "overlapped", "write", "written"}
    /\ asked \in 0..MaxEvents /\ acked \in 0..MaxEvents

FreshController ==
    /\ pending' = <<>> /\ timer' = FALSE
    /\ deadlineExpired' = FALSE /\ automaticPaused' = FALSE
    /\ active' = "none" /\ batch' = <<>> /\ background' = FALSE /\ failed' = FALSE
    /\ resume' = FALSE /\ barrier' = "none"

\* A session is new, or a fork that starts with a seed.
Init ==
    /\ appended \in {0, 1} /\ appended <= MaxEvents
    /\ file = <<>>
    /\ attached = "absent" /\ init = "pending" /\ seed = 0 /\ flushing = FALSE
    /\ pending = <<>> /\ timer = FALSE
    /\ deadlineExpired = FALSE /\ automaticPaused = FALSE
    /\ active = "none" /\ batch = <<>> /\ background = FALSE /\ failed = FALSE
    /\ resume = FALSE /\ barrier = "none"
    /\ asked = 0 /\ acked = 0

\* No continuation is left to run: a timer may fire and I/O may end.
Quiet == active # "settled" /\ ~resume /\ barrier \notin {"overlapped", "written"}

-----------------------------------------------------------------------------
(***************************************************************************)
(* The controller's pieces.                                                *)
(***************************************************************************)
\* enqueue starts the fixed window of an idle queue, and of a paused one.
Arms == automaticPaused \/ pending = <<>>

Enqueue(e) ==
    /\ pending' = Append(pending, e)
    /\ IF barrier = "none" /\ Arms
       THEN /\ timer' = TRUE /\ automaticPaused' = FALSE
            /\ deadlineExpired' = (deadlineExpired /\ ~automaticPaused)
       ELSE UNCHANGED schedule
    /\ UNCHANGED <<write, resume, barrier>>

\* startWrite: everything pending is one batch.
StartWrite(automatic) ==
    /\ batch' = pending /\ pending' = <<>>
    /\ active' = "writing" /\ background' = automatic /\ failed' = FALSE
    /\ timer' = FALSE /\ deadlineExpired' = FALSE

CancelTimer == timer' = FALSE /\ deadlineExpired' = FALSE

\* The loop of drainBarrier: write while there is something, else resolve.  The
\* timer is off in a barrier.
Drain ==
    IF pending # <<>>
    THEN StartWrite(FALSE) /\ barrier' = "write" /\ UNCHANGED acked
    ELSE CancelTimer /\ barrier' = "none" /\ acked' = asked /\ UNCHANGED <<pending, write>>

-----------------------------------------------------------------------------
(***************************************************************************)
(* The session and the coordinator.                                        *)
(***************************************************************************)
\* initFor on session/created, on a reload of the plugin, and on resume: what
\* the log holds by now is the seed that initialization stores.
Attach ==
    /\ attached = "absent"
    /\ attached' = "open" /\ init' = "pending" /\ seed' = appended
    /\ UNCHANGED <<appended, file, flushing, controller, history>>

\* session/event: the event is logged and enqueued.  The first event a reloaded
\* coordinator hears of attaches it, and is part of the seed as well.
LogEvent ==
    /\ appended < MaxEvents
    /\ appended' = appended + 1
    /\ \/ attached = "open" /\ Enqueue(appended + 1) /\ UNCHANGED session
       \/ /\ attached = "absent"
          /\ attached' = "open" /\ init' = "pending" /\ seed' = appended + 1
          /\ Enqueue(appended + 1) /\ UNCHANGED flushing
       \/ attached # "open" /\ UNCHANGED <<session, controller>>
    /\ UNCHANGED <<file, history>>

\* What initialization has to store: the seed beyond the stored prefix.
SeedSuffix == Numbers(Len(file) + 1, seed)

\* onCreated ends; it fails on a collision or when the store does.
InitDone ==
    /\ attached # "absent" /\ init = "pending" /\ Quiet
    /\ \/ init' = "ready" /\ file' = file \o SeedSuffix
       \/ init' = "failed" /\ UNCHANGED file
    /\ UNCHANGED <<appended, attached, seed, flushing, controller, history>>

\* session/flush, retirement and disposal: the wait for init is a yield even
\* when init is done.
Flush ==
    /\ attached = "open"
    /\ flushing' = TRUE /\ asked' = appended
    /\ CancelTimer
    /\ UNCHANGED <<appended, file, attached, init, seed, pending, automaticPaused, write, resume,
                   barrier, acked>>

\* Disposal closes the admission of events and flushes.
Dispose ==
    /\ attached = "open"
    /\ attached' = "closing" /\ flushing' = TRUE /\ asked' = appended
    /\ CancelTimer
    /\ UNCHANGED <<appended, file, init, seed, pending, automaticPaused, write, resume, barrier,
                   acked>>

Overlaps == active # "none"

\* SessionWriteBehind.flush, once init is settled.
BeginBarrier ==
    /\ flushing /\ init # "pending"
    /\ flushing' = FALSE
    /\ \/ /\ init = "failed"
          /\ CancelTimer
          /\ UNCHANGED <<pending, automaticPaused, write, resume, barrier, acked>>
       \/ /\ init = "ready" /\ barrier # "none"
          /\ UNCHANGED <<controller, acked>>
       \/ /\ init = "ready" /\ barrier = "none" /\ Overlaps
          /\ barrier' = "overlap" /\ automaticPaused' = FALSE
          /\ CancelTimer
          /\ UNCHANGED <<pending, write, resume, acked>>
       \/ /\ init = "ready" /\ barrier = "none" /\ ~Overlaps
          /\ Drain /\ automaticPaused' = FALSE
          /\ UNCHANGED resume
    /\ UNCHANGED <<appended, file, attached, init, seed, asked>>

\* The disposal's flush has settled and so has the last write: the controller
\* goes, with whatever a failed flush left in it.
Disposed ==
    /\ attached = "closing" /\ Quiet
    /\ ~flushing /\ init # "pending" /\ active = "none" /\ barrier = "none"
    /\ attached' = "absent" /\ init' = "pending" /\ seed' = 0
    /\ FreshController
    /\ UNCHANGED <<appended, file, flushing, history>>

-----------------------------------------------------------------------------
(***************************************************************************)
(* The controller's own tasks.                                             *)
(***************************************************************************)
\* Mutant: a deadline that passes during a write is forgotten.
ForgetDeadline == FALSE

NoteDeadline == TRUE

\* onDeadline.
Deadline ==
    /\ timer /\ Quiet
    /\ \/ active = "none" /\ StartWrite(TRUE)
       \/ /\ active # "none"
          /\ timer' = FALSE /\ deadlineExpired' = NoteDeadline
          /\ UNCHANGED <<pending, write>>
    /\ UNCHANGED <<appended, file, session, automaticPaused, resume, barrier, history>>

\* Mutant: events the initialization has stored are appended again.
WholeBatch == batch

\* appendLiveBatch: events the initialization has stored are filtered out.  A
\* batch is in order (QueueInOrder), so what goes is its beginning.
Stored == {i \in DOMAIN batch : batch[i] <= Len(file)}
Fresh == SubSeq(batch, Cardinality(Stored) + 1, Len(batch))

\* appendCore: the batch continues the stored log.
Contiguous == \A i \in DOMAIN Fresh : Fresh[i] = Len(file) + i

\* Mutant: what arrived during the failed write goes before the failed batch.
RequeueLast == pending \o batch

\* A failed batch is retained in front of what arrived since.
Requeued == batch \o pending

\* The append ends.  One that fails is rolled back by the store.
WriteEnds ==
    /\ active = "writing" /\ init # "pending" /\ Quiet
    /\ active' = "settled"
    /\ \/ /\ init = "ready" /\ Contiguous
          /\ file' = file \o Fresh /\ failed' = FALSE
          /\ UNCHANGED <<pending, schedule>>
       \/ /\ pending' = Requeued /\ failed' = TRUE
          /\ CancelTimer /\ automaticPaused' = TRUE
          /\ UNCHANGED file
    /\ UNCHANGED <<appended, session, batch, background, resume, barrier, history>>

\* The write's finally; then whoever awaited it is due.
Finally ==
    /\ active = "settled"
    /\ active' = "none" /\ batch' = <<>>
    /\ resume' = (background /\ ~failed)
    /\ barrier' = CASE barrier = "overlap" -> "overlapped"
                    [] barrier = "write" -> "written"
                    [] OTHER -> barrier
    /\ UNCHANGED <<appended, file, session, pending, schedule, background, failed, history>>

\* continueAutomatic.
Continue ==
    /\ resume /\ resume' = FALSE
    /\ IF barrier = "none" /\ pending # <<>> /\ deadlineExpired
       THEN StartWrite(TRUE)
       ELSE UNCHANGED <<pending, timer, deadlineExpired, write>>
    /\ UNCHANGED <<appended, file, session, automaticPaused, barrier, history>>

\* drainBarrier goes on: past the write it overlapped with, however that ended,
\* or past one of its own, unless that failed.
ContinueBarrier ==
    /\ \/ barrier = "overlapped" /\ automaticPaused' = FALSE /\ Drain
       \/ barrier = "written" /\ ~failed /\ Drain /\ UNCHANGED automaticPaused
       \/ /\ barrier = "written" /\ failed /\ barrier' = "none"
          /\ UNCHANGED <<pending, schedule, write, acked>>
    /\ UNCHANGED <<appended, file, session, resume, asked>>

-----------------------------------------------------------------------------
\* The bytes on their way to the store.
InFlight ==
    IF attached = "absent" THEN <<>>
    ELSE IF init = "pending" THEN SeedSuffix
    ELSE IF init = "ready" /\ active = "writing" THEN Fresh
    ELSE <<>>

\* The process dies.  Of an append in flight any number of whole records may be
\* readable afterwards; the first batch is published with its file or not at
\* all.  The session is opened again from the store.
Crash ==
    /\ \E n \in 0..Len(InFlight) :
          /\ file = <<>> => n \in {0, Len(InFlight)}
          /\ file' = file \o SubSeq(InFlight, 1, n)
    /\ appended' = Len(file')
    /\ attached' = "absent" /\ init' = "pending" /\ seed' = 0 /\ flushing' = FALSE
    /\ FreshController
    /\ asked' = acked /\ UNCHANGED acked

Tasks ==
    \/ InitDone \/ BeginBarrier \/ Disposed \/ Deadline \/ WriteEnds
    \/ Finally \/ Continue \/ ContinueBarrier

Next == Attach \/ LogEvent \/ Flush \/ Dispose \/ Tasks \/ Crash

Spec == Init /\ [][Next]_vars

\* Timers fire, I/O ends, continuations run.
FairSpec ==
    /\ Spec
    /\ WF_vars(InitDone) /\ WF_vars(BeginBarrier) /\ WF_vars(Disposed)
    /\ WF_vars(Deadline) /\ WF_vars(WriteEnds)
    /\ WF_vars(Finally) /\ WF_vars(Continue) /\ WF_vars(ContinueBarrier)

-----------------------------------------------------------------------------
\* What the store has, or is to get from the initialization.
Covered == IF init = "ready" THEN Len(file) ELSE seed

\* No event is missing, doubled or out of order between the store and the log:
\* the batch is a stretch of the log that begins where the store ends or before
\* (the initialization may have stored what is queued), and the queue follows it.
\* A failed batch is back in the queue.  What is logged while the coordinator
\* goes is left to the next one.
InOrder(n, e, k) ==
    /\ n \in 1..(Covered + 1) /\ e \in (n - 1)..k /\ k \in asked..appended
    /\ IF failed THEN e = n - 1 ELSE batch = Numbers(n, e)
    /\ pending = Numbers(e + 1, k)
    /\ attached = "open" => k = appended

QueueInOrder ==
    /\ file = Numbers(1, Len(file))
    /\ Len(file) <= appended
    /\ acked <= Len(file) /\ asked <= appended
    /\ attached # "absent" =>
          \E n \in 1..(Covered + 1), e \in 0..appended, k \in 0..appended : InOrder(n, e, k)

\* One write at a time: a batch is settled, stored or requeued, before another
\* can start, whoever starts it.
OneWrite ==
    /\ active = "none" => batch = <<>>
    /\ active = "writing" => ~failed
    /\ active = "settled" /\ ~failed => init = "ready" /\ Stored = DOMAIN batch
    /\ barrier \in {"overlapped", "written"} => active = "none"
    /\ resume => active = "none" \/ (active = "writing" /\ barrier = "write")
    /\ barrier # "none" => init = "ready"
    /\ attached = "absent" => /\ pending = <<>> /\ active = "none" /\ barrier = "none"
                              /\ init = "pending" /\ ~resume /\ ~flushing /\ ~timer
    /\ attached # "absent" /\ init = "pending" => Len(file) <= seed
    /\ seed <= appended

\* The batch as the code's filter goes through it.
Filtered ==
    LET kept[i \in 0..Len(batch)] ==
            IF i = 0 THEN <<>>
            ELSE IF batch[i] > Len(file) THEN Append(kept[i - 1], batch[i])
            ELSE kept[i - 1]
    IN  kept[Len(batch)]

\* The beginning that is left out is what the code's filter leaves out.
FilterIsSuffix == Fresh = Filtered

\* A queue that nothing works on waits for its timer, for a flush, or was left
\* there by a failure.
NothingStranded ==
    attached = "open" /\ pending # <<>> =>
        \/ timer \/ automaticPaused \/ flushing \/ barrier # "none" \/ init = "failed"
        \/ deadlineExpired /\ (active # "none" \/ resume)

WriteInv == TypeOK /\ QueueInOrder /\ OneWrite /\ FilterIsSuffix /\ NothingStranded

\* The store is what DurableLog promises.
Abstract == INSTANCE DurableLog WITH log <- Numbers(1, appended), durable <- file
ImplementsDurableLog == Abstract!Spec

\* An event of an open session is stored in the end, unless a write failed.
EventsAreStored ==
    \A n \in 1..MaxEvents :
        attached = "open" /\ appended >= n
            ~> Len(file) >= n \/ automaticPaused \/ init = "failed" \/ attached # "open"
===============================================================================
