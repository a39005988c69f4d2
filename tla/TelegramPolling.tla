-------------------------- MODULE TelegramPolling --------------------------
(***************************************************************************)
(* The other way in, for a machine with no public URL: one loop asks        *)
(* Telegram for every update from its offset on, handles them one by one,   *)
(* and stores the checkpoint after each.  Asking from an offset is also     *)
(* what tells Telegram to forget everything below it, so the checkpoint is  *)
(* the fetch cursor and what stops a message being lost.                    *)
(***************************************************************************)
EXTENDS Naturals, Sequences, FiniteSets

CONSTANTS
    Last,           \* bound: Telegram receives the updates 1..Last
    Texts,          \* the updates with a message to act on
    MaxFailures     \* bound: failed checkpoints and restarts, together

ASSUME PollingAssumption == Last \in Nat /\ Texts \subseteq 1..Last /\ MaxFailures \in Nat

VARIABLES
    sent,       \* the newest update Telegram has received
    forgotten,  \* Telegram gives out no update up to this one any more
    batch,      \* updates the loop has fetched and not gone past
    offset,     \* the loop's offset
    saved,      \* the stored checkpoint
    checking,   \* whether the head of the batch is handled and its checkpoint is due
    handled,    \* the updates a handler came to an end on, in that order
    repeatable, \* updates at the head of the batch when a checkpoint failed or the
                \* process stopped
    failures

vars == <<sent, forgotten, batch, offset, saved, checking, handled, repeatable, failures>>

Items(seq) == {seq[i] : i \in DOMAIN seq}

Init ==
    /\ sent = 0 /\ forgotten = 0
    /\ batch = <<>> /\ offset = 0 /\ saved = 0 /\ checking = FALSE
    /\ handled = <<>>
    /\ repeatable = {} /\ failures = 0

Arrive ==
    /\ sent < Last
    /\ sent' = sent + 1
    /\ UNCHANGED <<forgotten, batch, offset, saved, checking, handled, repeatable, failures>>

\* getUpdates: Telegram forgets what is below the offset and answers with the rest.  An
\* answer lost on the way leaves the loop where it was.
From(n) == [i \in 1..(sent - n) |-> n + i]
Poll ==
    /\ batch = <<>>
    /\ LET below == IF offset > 0 THEN offset - 1 ELSE 0
           gone == IF below > forgotten THEN below ELSE forgotten
       IN  /\ forgotten' = gone
           /\ gone < sent /\ batch' \in {From(gone), <<>>}
    /\ UNCHANGED <<sent, offset, saved, checking, handled, repeatable, failures>>

\* The handler runs to its end; its error is not looked at.  (An update below the
\* offset would be passed over, but none is ever fetched.)
Process ==
    /\ batch # <<>> /\ ~checking
    /\ checking' = TRUE
    /\ handled' = IF Head(batch) \in Texts THEN Append(handled, Head(batch)) ELSE handled
    /\ UNCHANGED <<sent, forgotten, batch, offset, saved, repeatable, failures>>

\* The checkpoint is stored and the loop moves on (mutated: the offset is stored and
\* not moved).
CheckpointStoredOnly ==
    /\ checking
    /\ checking' = FALSE
    /\ saved' = Head(batch) + 1
    /\ batch' = Tail(batch)
    /\ UNCHANGED <<sent, forgotten, offset, handled, repeatable, failures>>
Checkpoint ==
    /\ checking
    /\ checking' = FALSE
    /\ saved' = Head(batch) + 1 /\ offset' = Head(batch) + 1
    /\ batch' = Tail(batch)
    /\ UNCHANGED <<sent, forgotten, handled, repeatable, failures>>

\* An error from the store, which may have stored it all the same: the rest of the
\* batch is dropped and fetched again from the offset as it was (mutated: the loop goes
\* on from the end of the batch).
Failing == failures < MaxFailures /\ failures' = failures + 1
Interrupted == IF batch = <<>> THEN repeatable ELSE repeatable \cup {Head(batch)}
CheckpointFailsPastBatch ==
    /\ checking /\ Failing
    /\ checking' = FALSE
    /\ saved' \in {saved, Head(batch) + 1}
    /\ batch' = <<>> /\ offset' = batch[Len(batch)] + 1
    /\ repeatable' = Interrupted
    /\ UNCHANGED <<sent, forgotten, handled>>
CheckpointFails ==
    /\ checking /\ Failing
    /\ checking' = FALSE
    /\ saved' \in {saved, Head(batch) + 1}
    /\ batch' = <<>>
    /\ repeatable' = Interrupted
    /\ UNCHANGED <<sent, forgotten, offset, handled>>

\* The process stops and starts again from the checkpoint.
Restart ==
    /\ Failing
    /\ batch' = <<>> /\ offset' = saved /\ checking' = FALSE
    /\ repeatable' = Interrupted
    /\ UNCHANGED <<sent, forgotten, saved, handled>>

LoopStep == Poll \/ Process \/ Checkpoint \/ CheckpointFails

Next == Arrive \/ LoopStep \/ Restart

\* The loop never stops for good.
Spec == Init /\ [][Next]_vars /\ WF_vars(LoopStep)

-----------------------------------------------------------------------------
TypeOK ==
    /\ sent \in 0..Last /\ forgotten \in 0..Last /\ forgotten <= sent
    /\ batch \in Seq(1..Last)
    /\ offset \in 0..(Last + 1) /\ saved \in 0..(Last + 1) /\ offset <= saved
    /\ checking \in BOOLEAN /\ (checking => batch # <<>>)
    /\ handled \in Seq(Texts)
    /\ repeatable \subseteq 1..Last
    /\ failures \in 0..MaxFailures

\* No message is out of reach, forgotten by Telegram or below the checkpoint, before its
\* handler came to an end: a stop of the process or of the store loses none.
NothingIsForgottenUnhandled ==
    \A u \in Texts :
        (u <= forgotten \/ u < offset \/ u < saved) => u \in Items(handled)

\* Messages are handled in the order they were sent, and one is handled again only if
\* the process stopped, or the checkpoint failed, while it was the next to go past.
HandledInOrder ==
    \A i, j \in DOMAIN handled : i < j =>
        /\ handled[i] <= handled[j]
        /\ handled[i] = handled[j] => handled[i] \in repeatable

\* Every message Telegram receives is in the end handled.
EveryMessageIsHandled == \A u \in Texts : (sent >= u) ~> (u \in Items(handled))
=============================================================================
