-------------------------------- MODULE Inbox --------------------------------
(***************************************************************************)
(* The durable inbox of an agent (packages/core/agent/src/inbox.ts): two   *)
(* lists of pending messages, one served an item per turn, the other       *)
(* drained at every step boundary.  Every mutation of the source is one    *)
(* splice, which is also the durable event it appends, so every operation  *)
(* here is a Splice as well and the log replays to the same lists.         *)
(***************************************************************************)
EXTENDS Naturals, Sequences, Functions

CONSTANT Messages       \* identities of user messages

Targets == {"next-turn", "next-step"}

Inboxes == [Targets -> Seq(Messages)]

EmptyInbox == [target \in Targets |-> <<>>]

Pending(inbox) == Range(inbox["next-turn"]) \cup Range(inbox["next-step"])

\* Mutant: steering does not count as pending work.
HasQueuedTurn(inbox) == inbox["next-turn"] # <<>>

HasPending(inbox) == inbox["next-turn"] # <<>> \/ inbox["next-step"] # <<>>

-----------------------------------------------------------------------------
\* Remove `count` messages after the first `start` and put `inserted` there.
Splice(inbox, target, start, count, inserted) ==
    [inbox EXCEPT ![target] =
        SubSeq(@, 1, start) \o inserted \o SubSeq(@, start + count + 1, Len(@))]

\* validate: what a splice inserts is not pending in what it leaves behind.
Unpending(inbox, target, start, count, message) ==
    message \notin Pending(Splice(inbox, target, start, count, <<>>))

Add(inbox, target, message) ==
    Splice(inbox, target, Len(inbox[target]), 0, <<message>>)

Prepend(inbox, target, message) == Splice(inbox, target, 0, 0, <<message>>)

RemoveAtIndex(inbox, target, index) == Splice(inbox, target, index - 1, 1, <<>>)

ReplaceAtIndex(inbox, target, index, message) ==
    Splice(inbox, target, index - 1, 1, <<message>>)

\* clear empties both lists, one after the other, each by a splice of its own.
Emptied(inbox, target) == Splice(inbox, target, 0, Len(inbox[target]), <<>>)

-----------------------------------------------------------------------------
\* Mutant: every boundary consumes a queued turn.
QueuedTurnAlways(inbox, target) == IF inbox["next-turn"] # <<>> THEN 1 ELSE 0

\* claim: all step input, and one queued turn when the boundary opens a turn.
QueuedTurn(inbox, target) ==
    IF target = "next-turn" /\ inbox["next-turn"] # <<>> THEN 1 ELSE 0

Claimed(inbox, target) ==
    inbox["next-step"] \o SubSeq(inbox["next-turn"], 1, QueuedTurn(inbox, target))

\* Mutant: the queued turn stays in its list.
AfterClaimKeepingTurn(inbox, target) ==
    Splice(inbox, "next-step", 0, Len(inbox["next-step"]), <<>>)

AfterClaim(inbox, target) ==
    LET noSteps == Splice(inbox, "next-step", 0, Len(inbox["next-step"]), <<>>)
    IN  Splice(noSteps, "next-turn", 0, QueuedTurn(inbox, target), <<>>)
=============================================================================
