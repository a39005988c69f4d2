----------------------- MODULE TelegramPollingProofs -----------------------
(***************************************************************************)
(* What holds of the polling loop for any number of updates, whichever of   *)
(* them carry a message, and of failed checkpoints and restarts: the head   *)
(* of the batch is always the update the loop's offset names, so a          *)
(* checkpoint never passes one that was not handled.                        *)
(***************************************************************************)
EXTENDS TelegramPolling, SequenceTheorems, TLAPS

\* The update the loop would handle next.
NextDue == IF offset = 0 THEN 1 ELSE offset

\* What the proofs use of the bounds.
LEMMA Bounds == /\ Last \in Nat /\ MaxFailures \in Nat /\ Texts \subseteq Nat
                /\ \A u \in Texts : 1 <= u /\ u <= Last
  BY PollingAssumption

\* What a batch gains and loses at its ends.
LEMMA BatchMoves ==
    ASSUME NEW S, NEW seq \in Seq(S)
    PROVE  /\ Len(seq) \in Nat
           /\ seq # <<>> => /\ Len(seq) >= 1 /\ Head(seq) = seq[1] /\ Head(seq) \in S
                            /\ Tail(seq) \in Seq(S) /\ Len(Tail(seq)) = Len(seq) - 1
                            /\ \A i \in 1..(Len(seq) - 1) : Tail(seq)[i] = seq[i + 1]
           /\ \A u \in S : /\ Append(seq, u) \in Seq(S)
                           /\ DOMAIN Append(seq, u) = 1..(Len(seq) + 1)
                           /\ Items(Append(seq, u)) = Items(seq) \cup {u}
                           /\ \A i \in 1..Len(seq) : Append(seq, u)[i] = seq[i]
                           /\ Append(seq, u)[Len(seq) + 1] = u
           /\ DOMAIN seq = 1..Len(seq) /\ Items(seq) \subseteq S
<1>1. Len(seq) \in Nat /\ DOMAIN seq = 1..Len(seq) /\ Items(seq) \subseteq S
  BY LenProperties DEF Items
<1>2. ASSUME seq # <<>>
      PROVE  /\ Len(seq) >= 1 /\ Head(seq) = seq[1] /\ Head(seq) \in S
             /\ Tail(seq) \in Seq(S) /\ Len(Tail(seq)) = Len(seq) - 1
             /\ \A i \in 1..(Len(seq) - 1) : Tail(seq)[i] = seq[i + 1]
  BY <1>1, <1>2, HeadTailProperties, EmptySeq
<1>3. ASSUME NEW u \in S
      PROVE  /\ Append(seq, u) \in Seq(S)
             /\ DOMAIN Append(seq, u) = 1..(Len(seq) + 1)
             /\ Items(Append(seq, u)) = Items(seq) \cup {u}
             /\ \A i \in 1..Len(seq) : Append(seq, u)[i] = seq[i]
             /\ Append(seq, u)[Len(seq) + 1] = u
  <2>1. /\ Append(seq, u) \in Seq(S) /\ Len(Append(seq, u)) = Len(seq) + 1
        /\ \A i \in 1..Len(seq) : Append(seq, u)[i] = seq[i]
        /\ Append(seq, u)[Len(seq) + 1] = u
    BY AppendProperties
  <2>2. DOMAIN Append(seq, u) = 1..(Len(seq) + 1)
    BY <2>1, LenProperties
  <2> QED
    BY <1>1, <2>1, <2>2 DEF Items
<1> QED
  BY <1>1, <1>2, <1>3

-----------------------------------------------------------------------------
\* The batch runs on from the update next due; Telegram has forgotten nothing from there on;
\* every message before the checkpoint is handled, and the head of the batch when its
\* checkpoint is due; what was handled came in order up to it.
Stored == \A u \in Texts : u < saved => u \in Items(handled)
Orderly ==
    \A i, j \in DOMAIN handled : i < j =>
        handled[i] <= handled[j] /\ (handled[i] = handled[j] => handled[i] \in repeatable)
Due ==
    /\ \A i \in 1..Len(batch) : batch[i] = NextDue + i - 1
    /\ forgotten < NextDue
    /\ checking /\ NextDue \in Texts => NextDue \in Items(handled)
    /\ \A u \in Items(handled) :
           u <= NextDue /\ (u = NextDue => checking \/ NextDue \in repeatable)
PollInv == Due /\ Stored /\ Orderly

\* A loop that starts has passed nothing over.
LEMMA PollingInit == Init => TypeOK /\ PollInv
<1> SUFFICES ASSUME Init PROVE TypeOK /\ PollInv
  OBVIOUS
<1>1. <<>> \in Seq(1..Last) /\ <<>> \in Seq(Texts) /\ Len(<<>>) = 0 /\ Items(<<>>) = {} /\ DOMAIN <<>> = {}
  BY EmptySeq DEF Items
<1>2. TypeOK
  <2>1. sent = 0 /\ forgotten = 0 /\ offset = 0 /\ saved = 0 /\ failures = 0
    BY DEF Init
  <2>2. 0 \in 0..Last /\ 0 \in 0..(Last + 1) /\ 0 \in 0..MaxFailures
    BY Bounds
  <2>3. batch \in Seq(1..Last) /\ handled \in Seq(Texts)
    BY <1>1 DEF Init
  <2>4. checking = FALSE /\ repeatable = {}
    BY DEF Init
  <2>5. forgotten <= sent /\ offset <= saved
    BY <2>1
  <2> QED
    BY <2>1, <2>2, <2>3, <2>4, <2>5 DEF TypeOK
<1>3. NextDue = 1
  BY DEF Init, NextDue
<1>4. Stored /\ Orderly
  BY <1>1, Bounds DEF Init, Stored, Orderly
<1>5. Due
  BY <1>1, <1>3 DEF Init, Due
<1> QED
  BY <1>2, <1>4, <1>5 DEF PollInv

\* What the type invariant says of the head of the batch.
LEMMA HeadIsDue ==
    ASSUME TypeOK, PollInv, batch # <<>>
    PROVE  /\ Head(batch) = NextDue /\ NextDue \in 1..Last
           /\ Tail(batch) \in Seq(1..Last)
           /\ Len(batch) \in Nat /\ Len(Tail(batch)) = Len(batch) - 1
           /\ \A i \in 1..(Len(batch) - 1) : Tail(batch)[i] = NextDue + i
<1>1. batch \in Seq(1..Last)
  BY DEF TypeOK
<1>2. /\ Len(batch) \in Nat /\ Len(batch) >= 1 /\ Head(batch) = batch[1] /\ Head(batch) \in 1..Last
      /\ Tail(batch) \in Seq(1..Last) /\ Len(Tail(batch)) = Len(batch) - 1
      /\ \A i \in 1..(Len(batch) - 1) : Tail(batch)[i] = batch[i + 1]
  BY <1>1, BatchMoves, ZenonT(90)
<1>3. NextDue \in Nat
  BY DEF TypeOK, NextDue
<1>4. \A i \in 1..Len(batch) : batch[i] = NextDue + i - 1
  BY DEF PollInv, Due
<1>5. batch[1] = NextDue + 1 - 1
  BY <1>2, <1>4
<1>6. \A i \in 1..(Len(batch) - 1) : batch[i + 1] = NextDue + (i + 1) - 1
  BY <1>2, <1>4
<1> QED
  BY <1>2, <1>3, <1>5, <1>6

\* A poll fetches what lies at the offset and after, in order.
LEMMA PollKeeps == ASSUME TypeOK, PollInv, Poll PROVE TypeOK' /\ PollInv'
<1> DEFINE below == IF offset > 0 THEN offset - 1 ELSE 0
<1>1. /\ offset \in Nat /\ forgotten \in Nat /\ sent \in Nat /\ sent <= Last
      /\ below = NextDue - 1 /\ below \in Nat /\ forgotten <= below
  BY Bounds DEF TypeOK, PollInv, Due, NextDue
<1>2. forgotten' = below /\ below < sent /\ batch' \in {From(below), <<>>}
  BY <1>1 DEF Poll
<1>3. /\ From(below) \in Seq(1..Last) /\ DOMAIN From(below) = 1..(sent - below)
      /\ \A i \in 1..(sent - below) : From(below)[i] = below + i
  <2>1. sent - below \in Nat /\ \A i \in 1..(sent - below) : below + i \in 1..Last
    BY <1>1, <1>2, Bounds
  <2>2. From(below) \in [1..(sent - below) -> 1..Last]
    BY <2>1 DEF From
  <2>3. From(below) \in Seq(1..Last)
    <3> DEFINE k == sent - below
    <3>1. k \in Nat /\ From(below) \in [1..k -> 1..Last]
      BY <2>1, <2>2
    <3> HIDE DEF k, below
    <3>2. From(below) \in UNION {[1..m -> 1..Last] : m \in Nat}
      BY <3>1, Zenon
    <3> QED
      BY <3>2, SeqDef, Zenon
  <2> QED
    BY <2>2, <2>3 DEF From
<1>4. batch' \in Seq(1..Last) /\ \A i \in 1..Len(batch') : batch'[i] = below + i
  <2>1. Len(From(below)) = sent - below
    BY <1>1, <1>2, <1>3, LenProperties
  <2>2. <<>> \in Seq(1..Last) /\ Len(<<>>) = 0
    BY EmptySeq
  <2>3. CASE batch' = <<>>
    BY <2>2, <2>3
  <2>4. CASE batch' = From(below)
    BY <1>3, <2>1, <2>4
  <2> QED
    BY <1>2, <2>3, <2>4
<1>5. UNCHANGED <<sent, offset, saved, checking, handled, repeatable, failures>> /\ ~checking
  BY DEF Poll, TypeOK
<1>6. TypeOK'
  BY <1>1, <1>2, <1>4, <1>5, Bounds DEF TypeOK
<1>7. NextDue' = NextDue
  BY <1>5 DEF NextDue
<1>8. \A i \in 1..Len(batch') : batch'[i] = NextDue + i - 1
  <2>1. Len(batch') \in Nat
    BY <1>4, LenProperties
  <2> QED
    BY <1>1, <1>4, <2>1 DEF NextDue
<1>9. forgotten' < NextDue
  BY <1>1, <1>2 DEF NextDue
<1> QED
  BY <1>5, <1>6, <1>7, <1>8, <1>9 DEF PollInv, Due, Stored, Orderly

\* Handling the first of the batch keeps the rest ahead.
LEMMA ProcessKeeps == ASSUME TypeOK, PollInv, Process PROVE TypeOK' /\ PollInv'
<1>1. /\ Head(batch) = NextDue /\ NextDue \in 1..Last /\ ~checking /\ checking' = TRUE
      /\ UNCHANGED <<sent, forgotten, batch, offset, saved, repeatable, failures>>
      /\ handled \in Seq(Texts) /\ NextDue' = NextDue /\ batch # <<>>
  BY HeadIsDue DEF Process, TypeOK, NextDue
<1>2. CASE NextDue \notin Texts
  <2>1. handled' = handled
    BY <1>1, <1>2 DEF Process
  <2> QED
    BY <1>1, <1>2, <2>1 DEF TypeOK, PollInv, Due, Stored, Orderly
<1>3. CASE NextDue \in Texts
  <2>1. handled' = Append(handled, NextDue)
    BY <1>1, <1>3 DEF Process
  <2>2. /\ handled' \in Seq(Texts) /\ DOMAIN handled' = 1..(Len(handled) + 1)
        /\ Items(handled') = Items(handled) \cup {NextDue}
        /\ \A i \in 1..Len(handled) : handled'[i] = handled[i]
        /\ handled'[Len(handled) + 1] = NextDue
        /\ Len(handled) \in Nat /\ DOMAIN handled = 1..Len(handled)
    BY <1>1, <1>3, <2>1, BatchMoves
  <2>3. TypeOK'
    BY <1>1, <2>2 DEF TypeOK
  <2>4. Orderly'
    <3> SUFFICES ASSUME NEW i \in 1..(Len(handled) + 1), NEW j \in 1..(Len(handled) + 1), i < j
                 PROVE  /\ handled'[i] <= handled'[j]
                        /\ handled'[i] = handled'[j] => handled'[i] \in repeatable
      BY <1>1, <2>2 DEF Orderly
    <3>1. i \in 1..Len(handled) /\ handled'[i] = handled[i] /\ handled[i] \in Items(handled)
      BY <2>2 DEF Items
    <3>2. CASE j = Len(handled) + 1
      BY <1>1, <2>2, <3>1, <3>2 DEF PollInv, Due
    <3>3. CASE j # Len(handled) + 1
      <4>1. j \in 1..Len(handled) /\ handled'[j] = handled[j]
        BY <2>2, <3>3
      <4> QED
        BY <2>2, <3>1, <4>1 DEF PollInv, Orderly
    <3> QED
      BY <3>2, <3>3
  <2>5. Due' /\ Stored'
    BY <1>1, <2>2 DEF PollInv, Due, Stored
  <2> QED
    BY <2>3, <2>4, <2>5 DEF PollInv
<1> QED
  BY <1>2, <1>3

\* What a checkpoint at the head of the batch stands for.
LEMMA HeadIsHandled ==
    ASSUME TypeOK, PollInv, checking
    PROVE  \A u \in Texts : u < NextDue + 1 => u \in Items(handled)
<1> SUFFICES ASSUME NEW u \in Texts, u < NextDue + 1 PROVE u \in Items(handled)
  OBVIOUS
<1>1. u \in Nat /\ u >= 1 /\ offset \in Nat /\ saved \in Nat /\ offset <= saved
  BY Bounds DEF TypeOK
<1>2. CASE u = NextDue
  BY <1>2 DEF PollInv, Due
<1>3. CASE u # NextDue
  <2>1. u < saved
    BY <1>1, <1>3 DEF NextDue
  <2> QED
    BY <2>1 DEF PollInv, Stored
<1> QED
  BY <1>2, <1>3

\* The checkpoint moves behind what was handled.
LEMMA CheckpointKeeps == ASSUME TypeOK, PollInv, Checkpoint PROVE TypeOK' /\ PollInv'
<1>1. /\ checking /\ batch # <<>> /\ checking' = FALSE
      /\ UNCHANGED <<sent, forgotten, handled, repeatable, failures>>
      /\ batch' = Tail(batch) /\ saved' = Head(batch) + 1 /\ offset' = Head(batch) + 1
  BY DEF Checkpoint, TypeOK
<1>2. /\ Head(batch) = NextDue /\ NextDue \in 1..Last
      /\ batch' \in Seq(1..Last)
      /\ Len(batch') = Len(batch) - 1 /\ Len(batch) \in Nat
      /\ \A i \in 1..(Len(batch) - 1) : batch'[i] = NextDue + i
  BY <1>1, HeadIsDue
<1>3. NextDue' = NextDue + 1 /\ NextDue \in Nat /\ Last \in Nat
  BY <1>1, <1>2, Bounds DEF NextDue
<1>4. TypeOK'
  <2>1. offset' \in 0..(Last + 1) /\ saved' = offset' /\ offset' <= saved'
    BY <1>1, <1>2, <1>3
  <2>2. saved' \in 0..(Last + 1)
    BY <2>1
  <2> QED
    BY <1>1, <1>2, <2>1, <2>2 DEF TypeOK
<1>5. Stored'
  BY <1>1, <1>2, HeadIsHandled DEF Stored
<1>6. \A u \in Items(handled) : u \in Nat /\ u < NextDue + 1
  <2>1. Items(handled) \subseteq Texts
    BY BatchMoves DEF TypeOK
  <2>2. \A u \in Items(handled) : u \in Nat
    BY <2>1, Bounds
  <2>3. \A u \in Items(handled) : u <= NextDue
    BY DEF PollInv, Due
  <2> QED
    BY <1>3, <2>2, <2>3
<1>7. \A i \in 1..Len(batch') : batch'[i] = NextDue' + i - 1
  BY <1>2, <1>3
<1>8. forgotten' < NextDue' /\ \A u \in Items(handled') : u < NextDue'
  BY <1>1, <1>3, <1>6 DEF TypeOK, PollInv, Due
<1>9. \A u \in Items(handled') : u <= NextDue' /\ u # NextDue'
  BY <1>1, <1>3, <1>6
<1>10. Due'
  BY <1>1, <1>7, <1>8, <1>9 DEF Due
<1> QED
  BY <1>1, <1>4, <1>5, <1>10 DEF PollInv, Orderly

\* A failed checkpoint and a restart drop the batch and leave the loop at its offset or at
\* the checkpoint.
LEMMA Falls ==
    ASSUME TypeOK, PollInv, Failing,
           batch' = <<>>, checking' = FALSE, repeatable' = Interrupted,
           UNCHANGED <<sent, forgotten, handled>>,
           \/ offset' = offset /\ saved' = saved
           \/ checking /\ offset' = offset /\ saved' = Head(batch) + 1
           \/ offset' = saved /\ saved' = saved
    PROVE  TypeOK' /\ PollInv'
<1>1. /\ offset \in Nat /\ saved \in Nat /\ offset <= saved /\ saved <= Last + 1 /\ Last \in Nat
      /\ checking => batch # <<>>
      /\ forgotten \in Nat
  BY Bounds DEF TypeOK
<1>2. batch # <<>> => Head(batch) = NextDue /\ NextDue \in 1..Last
  BY HeadIsDue
<1>3. /\ NextDue \in Nat /\ NextDue' \in Nat /\ NextDue <= NextDue'
      /\ offset' \in 0..(Last + 1) /\ saved' \in 0..(Last + 1) /\ offset' <= saved'
  <2>1. CASE offset' = offset /\ saved' = saved
    BY <1>1, <2>1 DEF NextDue
  <2>2. CASE checking /\ offset' = offset /\ saved' = Head(batch) + 1
    <3>1. Head(batch) = NextDue /\ NextDue \in 1..Last
      BY <1>1, <1>2, <2>2
    <3> QED
      BY <1>1, <2>2, <3>1 DEF NextDue
  <2>3. CASE offset' = saved /\ saved' = saved
    BY <1>1, <2>3 DEF NextDue
  <2> QED
    BY <2>1, <2>2, <2>3
<1>4. /\ repeatable \subseteq repeatable' /\ repeatable' \subseteq 1..Last
      /\ batch # <<>> => NextDue \in repeatable'
  BY <1>2 DEF Interrupted, TypeOK
<1>5. failures' \in 0..MaxFailures
  BY Bounds DEF Failing, TypeOK
<1>6. <<>> \in Seq(1..Last) /\ Len(<<>>) = 0
  BY EmptySeq
<1>7. TypeOK'
  BY <1>3, <1>4, <1>5, <1>6 DEF TypeOK
<1>8. Stored'
  <2>1. ASSUME saved' = saved PROVE Stored'
    BY <2>1 DEF PollInv, Stored
  <2>2. ASSUME checking, saved' = Head(batch) + 1 PROVE Stored'
    BY <1>1, <1>2, <2>2, HeadIsHandled DEF Stored
  <2> QED
    BY <2>1, <2>2
<1>9. Orderly'
  BY <1>4 DEF PollInv, Orderly
<1>10. Due'
  <2>1. forgotten' < NextDue'
    BY <1>1, <1>3 DEF PollInv, Due
  <2>2. ASSUME NEW u \in Items(handled)
        PROVE  u <= NextDue' /\ (u = NextDue' => NextDue' \in repeatable')
    <3>1. u \in Nat /\ u <= NextDue /\ (u = NextDue => checking \/ NextDue \in repeatable)
      <4>1. u \in Texts
        BY BatchMoves DEF TypeOK
      <4> QED
        BY <4>1, Bounds DEF PollInv, Due
    <3>2. u = NextDue => NextDue \in repeatable'
      BY <1>1, <1>4, <3>1
    <3>3. u = NextDue' => u = NextDue
      BY <1>3, <3>1
    <3> QED
      BY <1>3, <3>1, <3>2, <3>3
  <2> QED
    BY <1>6, <2>1, <2>2 DEF Due
<1> QED
  BY <1>7, <1>8, <1>9, <1>10 DEF PollInv

\* Every step of the loop keeps the account of what was handled.
LEMMA PollingStep == TypeOK /\ PollInv /\ [Next]_vars => TypeOK' /\ PollInv'
<1> SUFFICES ASSUME TypeOK, PollInv, [Next]_vars PROVE TypeOK' /\ PollInv'
  OBVIOUS
<1>1. CASE UNCHANGED vars
  BY <1>1 DEF vars, TypeOK, PollInv, Due, Stored, Orderly, NextDue
<1>2. CASE Arrive
  BY <1>2, Bounds DEF Arrive, TypeOK, PollInv, Due, Stored, Orderly, NextDue
<1>3. CASE CheckpointFails
  <2>1. saved' = saved \/ saved' = Head(batch) + 1
    BY <1>3 DEF CheckpointFails
  <2> QED
    BY <1>3, <2>1, Falls DEF CheckpointFails
<1>4. CASE Restart
  BY <1>4, Falls DEF Restart
<1> QED
  BY <1>1, <1>2, <1>3, <1>4, PollKeeps, ProcessKeeps, CheckpointKeeps DEF Next, LoopStep

\* The type invariant, for any number of updates and of failures.
THEOREM PollingTypeCorrect == Spec => []TypeOK
<1> QED
  BY PollingInit, PollingStep, PTL DEF Spec

\* No message is forgotten by Telegram, or passed by the offset or the checkpoint, before its
\* handler came to an end, however checkpoints fail and the process restarts.
THEOREM NoMessageIsPassedOver == Spec => []NothingIsForgottenUnhandled
<1>1. TypeOK /\ PollInv => NothingIsForgottenUnhandled
  <2> SUFFICES ASSUME TypeOK, PollInv, NEW u \in Texts,
                      u <= forgotten \/ u < offset \/ u < saved
               PROVE  u \in Items(handled)
    BY DEF NothingIsForgottenUnhandled
  <2>1. /\ u \in Nat /\ u >= 1 /\ offset \in Nat /\ saved \in Nat /\ offset <= saved
        /\ forgotten \in Nat /\ forgotten < NextDue
    BY Bounds DEF TypeOK, PollInv, Due
  <2>2. u < saved
    BY <2>1 DEF NextDue
  <2> QED
    BY <2>2 DEF PollInv, Stored
<1> QED
  BY PollingInit, PollingStep, <1>1, PTL DEF Spec

\* Messages are handled in order, and one twice only after its checkpoint failed or the
\* process stopped at it.
THEOREM MessagesAreHandledInOrder == Spec => []HandledInOrder
<1>1. PollInv => HandledInOrder
  BY DEF PollInv, Orderly, HandledInOrder
<1> QED
  BY PollingInit, PollingStep, <1>1, PTL DEF Spec
=============================================================================
