----------------------- MODULE TelegramIntakeProofs -----------------------
(***************************************************************************)
(* What holds of the webhook intake for any people, updates, workers and    *)
(* queue lengths: whoever a message is of, one worker has it, in its queue  *)
(* or in its hands, and the map points to that worker.                      *)
(***************************************************************************)
EXTENDS TelegramIntake, SequenceTheorems, WellFoundedInduction, TLAPS

\* Telegram always has an oldest update to post.
LEMMA BelowIsLess ==
    ASSUME NEW x \in Nat, NEW y \in Nat, y < x
    PROVE  <<y, x>> \in OpToRel(<, Nat)
  BY DEF OpToRel

\* Next1 is the least of its set.
LEMMA OldestUpdate ==
    ASSUME NEW s, s \subseteq Nat, s # {}
    PROVE  Next1(s) \in s /\ \A v \in s : Next1(s) <= v
<1>1. \E x \in s : \A y \in s : ~(<<y, x>> \in OpToRel(<, Nat))
  BY NatLessThanWellFounded, WFMin, Zenon
<1>2. PICK x \in s : \A y \in s : ~(<<y, x>> \in OpToRel(<, Nat))
  BY <1>1
<1>3. \A y \in s : ~(y < x)
  BY <1>2, BelowIsLess
<1>4. \A y \in s : x <= y
  BY <1>3
<1> QED
  BY <1>4 DEF Next1

\* What sending on a channel and receiving from it do to the messages in it.
LEMMA ChannelMoves ==
    ASSUME NEW S, NEW seq \in Seq(S)
    PROVE  /\ Len(seq) \in Nat /\ Items(seq) \subseteq S
           /\ seq # <<>> => /\ Head(seq) \in Items(seq) /\ Head(seq) \in S
                            /\ Tail(seq) \in Seq(S) /\ Len(Tail(seq)) = Len(seq) - 1
                            /\ Items(Tail(seq)) \subseteq Items(seq)
           /\ \A u \in S : /\ Append(seq, u) \in Seq(S) /\ Len(Append(seq, u)) = Len(seq) + 1
                           /\ Items(Append(seq, u)) = Items(seq) \cup {u}
                           /\ <<u>> \in Seq(S) /\ Len(<<u>>) = 1 /\ Items(<<u>>) = {u}
           /\ Items(<<>>) = {}
<1>1. Len(seq) \in Nat /\ DOMAIN seq = 1..Len(seq) /\ Items(seq) \subseteq S
  BY LenProperties DEF Items
<1>2. ASSUME seq # <<>>
      PROVE  /\ Head(seq) \in Items(seq) /\ Head(seq) \in S
             /\ Tail(seq) \in Seq(S) /\ Len(Tail(seq)) = Len(seq) - 1
             /\ Items(Tail(seq)) \subseteq Items(seq)
  <2>1. /\ Head(seq) \in S /\ Tail(seq) \in Seq(S) /\ Len(Tail(seq)) = Len(seq) - 1
        /\ \A i \in 1..Len(Tail(seq)) : Tail(seq)[i] = seq[i + 1]
    BY <1>2, HeadTailProperties
  <2>2. Len(seq) >= 1 /\ Head(seq) = seq[1]
    BY <1>1, <1>2, EmptySeq
  <2>3. DOMAIN Tail(seq) = 1..(Len(seq) - 1)
    BY <2>1, LenProperties
  <2>4. Items(Tail(seq)) \subseteq Items(seq)
    BY <1>1, <2>1, <2>2, <2>3 DEF Items
  <2> QED
    BY <1>1, <2>1, <2>2, <2>4 DEF Items
<1>3. ASSUME NEW u \in S
      PROVE  /\ Append(seq, u) \in Seq(S) /\ Len(Append(seq, u)) = Len(seq) + 1
             /\ Items(Append(seq, u)) = Items(seq) \cup {u}
             /\ <<u>> \in Seq(S) /\ Len(<<u>>) = 1 /\ Items(<<u>>) = {u}
  <2>1. /\ Append(seq, u) \in Seq(S) /\ Len(Append(seq, u)) = Len(seq) + 1
        /\ \A i \in 1..Len(seq) : Append(seq, u)[i] = seq[i]
        /\ Append(seq, u)[Len(seq) + 1] = u
    BY AppendProperties
  <2>2. DOMAIN Append(seq, u) = 1..(Len(seq) + 1)
    BY <2>1, LenProperties
  <2>3. Items(Append(seq, u)) = Items(seq) \cup {u}
    BY <1>1, <2>1, <2>2 DEF Items
  <2>4. <<u>> \in Seq(S) /\ Len(<<u>>) = 1 /\ DOMAIN <<u>> = 1..1 /\ <<u>>[1] = u
    OBVIOUS
  <2>5. Items(<<u>>) = {u}
    BY <2>4 DEF Items
  <2> QED
    BY <2>1, <2>3, <2>4, <2>5
<1>4. Items(<<>>) = {}
  BY DEF Items
<1> QED
  BY <1>1, <1>2, <1>3, <1>4

-----------------------------------------------------------------------------
\* Whoever a message in a queue or in a worker's hands is from, the map points to the
\* worker that has it, and it points to live workers only.
Tended ==
    /\ routing # None => Sender[routing] # None
    /\ \A p \in People : queues[p] # None => doing[queues[p]] # "gone"
    /\ \A w \in Workers : \A u \in Items(channel[w]) : Sender[u] # None /\ queues[Sender[u]] = w
    /\ \A w \in Workers : Handling(w) =>
           Sender[message[w]] # None /\ queues[Sender[message[w]]] = w

\* What the proofs use of the bounds and of the updates.
LEMMA Constants ==
    /\ Updates \subseteq Nat
    /\ None \notin People /\ None \notin Workers /\ None \notin Updates
    /\ QueueDepth \in Nat /\ QueueDepth > 0 /\ PersonDepth \in Nat /\ PersonDepth > 0
    /\ MaxRestarts \in Nat
    /\ \A u \in Updates : Sender[u] # None => Sender[u] \in People
  BY IntakeAssumption

\* A process that starts tends every queue: there is none.
LEMMA IntakeInit == Init => TypeOK /\ Tended
<1> SUFFICES ASSUME Init PROVE TypeOK /\ Tended
  OBVIOUS
<1>1. \A w \in Workers : channel[w] = <<>> /\ doing[w] = "gone" /\ message[w] = None
  BY DEF Init
<1>2. Items(<<>>) = {} /\ <<>> \in Seq(Updates) /\ Len(<<>>) = 0
  BY ChannelMoves, EmptySeq
<1>3. TypeOK
  BY <1>1, <1>2, Constants DEF Init, TypeOK, Handling
<1> QED
  BY <1>1, <1>2, <1>3 DEF Init, Tended, Handling

\* A delivery touches the delivery channel only.
LEMMA PostKeeps == ASSUME TypeOK, Tended, NEW heard \in BOOLEAN, Post(heard) PROVE TypeOK' /\ Tended'
<1>1. Next1(owed) \in Updates
  BY Constants, OldestUpdate DEF TypeOK, Post
<1>2. deliveries' \in Seq(Updates) /\ Len(deliveries') <= QueueDepth
  BY <1>1, Constants, ChannelMoves DEF TypeOK, Post
<1>3. TypeOK'
  BY <1>2 DEF TypeOK, Post, workerVars, Handling
<1> QED
  BY <1>3 DEF Post, workerVars, Tended, Handling

\* The router's taking of a delivery touches no worker.
LEMMA TakeKeeps == ASSUME TypeOK, Tended, Take PROVE TypeOK' /\ Tended'
<1>1. /\ Head(deliveries) \in Updates /\ Head(deliveries) \in Nat
      /\ deliveries' \in Seq(Updates) /\ Len(deliveries') <= QueueDepth
  <2>1. /\ deliveries \in Seq(Updates) /\ deliveries # <<>> /\ deliveries' = Tail(deliveries)
        /\ Len(deliveries) <= QueueDepth
    BY DEF TypeOK, Take
  <2>2. /\ Head(deliveries) \in Updates /\ Tail(deliveries) \in Seq(Updates)
        /\ Len(Tail(deliveries)) = Len(deliveries) - 1 /\ Len(deliveries) \in Nat
    BY <2>1, ChannelMoves
  <2>3. Head(deliveries) \in Nat /\ QueueDepth \in Nat
    BY <2>2, Constants
  <2> QED
    BY <2>1, <2>2, <2>3
<1>2. /\ offset' \in Nat /\ saved' \in Nat /\ saved' <= offset'
      /\ routing' \in Updates \cup {None} /\ (routing' # None => Sender[routing'] # None)
  BY <1>1 DEF TypeOK, Take, Repeat
<1>3. TypeOK'
  BY <1>1, <1>2 DEF TypeOK, Take, workerVars, Handling
<1> QED
  BY <1>2, <1>3 DEF Take, workerVars, Tended, Handling

\* Routing gives an update to the worker its person has, or to a new one.
LEMMA DispatchKeeps == ASSUME TypeOK, Tended, Dispatch PROVE TypeOK' /\ Tended'
<1> DEFINE p == Sender[routing]  w == queues[p]
<1>1. routing \in Updates /\ p \in People /\ w \in Workers \cup {None} /\ None \notin Workers
  BY Constants DEF TypeOK, Tended, Dispatch
<1>2. ASSUME w = None, Start(p, routing) PROVE TypeOK' /\ Tended'
  <2> DEFINE v == NewWorker
  <2>1. /\ v \in Workers /\ doing[v] = "gone"
        /\ queues' = [queues EXCEPT ![p] = v]
        /\ channel' = [channel EXCEPT ![v] = <<routing>>]
        /\ doing' = [doing EXCEPT ![v] = "poll"]
    <3>1. \E x \in Workers : x \notin Alive
      BY <1>2 DEF Start, Alive
    <3>2. v \in Workers /\ v \notin Alive
      BY <3>1 DEF NewWorker
    <3> QED
      BY <1>2, <3>2 DEF Start, Alive
  <2>2. \A q \in People : queues[q] # v
    BY <2>1, Constants DEF Tended
  <2> HIDE DEF v
  <2>3. <<routing>> \in Seq(Updates) /\ Len(<<routing>>) = 1 /\ Items(<<routing>>) = {routing}
    BY <1>1, ChannelMoves, EmptySeq
  <2>4. TypeOK'
    BY <1>1, <2>1, <2>2, <2>3, Constants DEF TypeOK, Dispatch, Handling
  <2>5. \A x \in Workers : \A u \in Items(channel'[x]) : Sender[u] # None /\ queues'[Sender[u]] = x
    BY <1>1, <1>2, <2>1, <2>3, Constants DEF TypeOK, Tended
  <2>6. \A q \in People : queues'[q] # None => doing'[queues'[q]] # "gone"
    BY <1>1, <2>1, Constants DEF TypeOK, Tended
  <2>7. \A x \in Workers : Handling(x)' =>
            Sender[message'[x]] # None /\ queues'[Sender[message'[x]]] = x
    BY <1>1, <1>2, <2>1, Constants DEF TypeOK, Tended, Handling, Dispatch
  <2> QED
    BY <2>4, <2>5, <2>6, <2>7 DEF Dispatch, Tended
<1>3. ASSUME w # None, Join(w, routing) PROVE TypeOK' /\ Tended'
  <2>1. /\ channel[w] \in Seq(Updates)
        /\ Append(channel[w], routing) \in Seq(Updates)
        /\ Len(Append(channel[w], routing)) <= PersonDepth
        /\ Items(Append(channel[w], routing)) = Items(channel[w]) \cup {routing}
    <3>1. channel[w] \in Seq(Updates) /\ Len(channel[w]) < PersonDepth
      BY <1>1, <1>3 DEF TypeOK, Join
    <3>2. /\ Append(channel[w], routing) \in Seq(Updates)
          /\ Len(Append(channel[w], routing)) = Len(channel[w]) + 1 /\ Len(channel[w]) \in Nat
          /\ Items(Append(channel[w], routing)) = Items(channel[w]) \cup {routing}
      <4> DEFINE box == channel[w]
      <4>1. routing \in Updates /\ box \in Seq(Updates)
        BY <1>1, <3>1
      <4> HIDE DEF box
      <4>2. /\ Append(box, routing) \in Seq(Updates)
            /\ Len(Append(box, routing)) = Len(box) + 1 /\ Len(box) \in Nat
            /\ Items(Append(box, routing)) = Items(box) \cup {routing}
        BY <4>1, ChannelMoves, ZenonT(60)
      <4> QED
        BY <4>2 DEF box
    <3>3. PersonDepth \in Nat
      BY Constants
    <3> QED
      BY <3>1, <3>2, <3>3
  <2>2. TypeOK'
    BY <1>1, <1>3, <2>1 DEF TypeOK, Dispatch, Join, Handling
  <2>3. \A x \in Workers : \A u \in Items(channel'[x]) : Sender[u] # None /\ queues'[Sender[u]] = x
    <3>1. \A x \in Workers : Items(channel'[x]) =
              IF x = w THEN Items(channel[w]) \cup {routing} ELSE Items(channel[x])
      BY <1>1, <1>3, <2>1 DEF TypeOK, Join
    <3> QED
      BY <1>1, <1>3, <3>1 DEF Tended, Join, Dispatch
  <2> QED
    BY <1>3, <2>2, <2>3 DEF Dispatch, Join, Tended, Handling
<1>4. ASSUME UNCHANGED <<queues, channel, doing>> PROVE TypeOK' /\ Tended'
  <2>1. TypeOK'
    BY <1>4 DEF TypeOK, Dispatch, Handling
  <2> QED
    BY <1>4, <2>1 DEF Dispatch, Tended, Handling
<1> QED
  BY <1>2, <1>3, <1>4 DEF Dispatch

\* A worker that takes the next update keeps its person.
LEMMA ReceiveKeeps ==
    ASSUME TypeOK, Tended, NEW w \in Workers, Receive(w) PROVE TypeOK' /\ Tended'
<1> DEFINE u == Head(channel[w])
<1>1. /\ u \in Updates /\ u \in Items(channel[w]) /\ u # None
      /\ Tail(channel[w]) \in Seq(Updates) /\ Len(Tail(channel[w])) <= PersonDepth
      /\ Items(Tail(channel[w])) \subseteq Items(channel[w])
  BY Constants, ChannelMoves DEF TypeOK, Receive
<1>2. handled' \in Seq(Updates)
  BY <1>1, ChannelMoves DEF TypeOK, Receive
<1>3. TypeOK'
  BY <1>1, <1>2 DEF TypeOK, Receive, WorkerKeeps, Handling
<1>4. \A x \in Workers : Items(channel'[x]) \subseteq Items(channel[x])
  BY <1>1 DEF TypeOK, Receive
<1>5. \A x \in Workers : Handling(x)' =>
          Sender[message'[x]] # None /\ queues'[Sender[message'[x]]] = x
  BY <1>1 DEF TypeOK, Tended, Receive, Handling
<1> QED
  BY <1>3, <1>4, <1>5 DEF TypeOK, Tended, Receive, WorkerKeeps

\* A worker that finds its queue empty still has its person.
LEMMA IdleKeeps ==
    ASSUME TypeOK, Tended, NEW w \in Workers, Finish(w) \/ FindNothing(w) PROVE TypeOK' /\ Tended'
<1>1. TypeOK'
  BY DEF TypeOK, Finish, FindNothing, WorkerKeeps, Handling
<1>2. \A x \in Workers : Handling(x)' => Handling(x) /\ message'[x] = message[x]
  BY DEF TypeOK, Finish, FindNothing, Handling
<1> QED
  BY <1>1, <1>2 DEF TypeOK, Tended, Finish, FindNothing, WorkerKeeps

\* A worker leaves its person only when its queue is empty.
LEMMA RetireKeeps ==
    ASSUME TypeOK, Tended, NEW w \in Workers, Retire(w) PROVE TypeOK' /\ Tended'
<1>1. CASE channel[w] # <<>>
  <2>1. TypeOK'
    BY <1>1 DEF TypeOK, Retire, WorkerKeeps, Handling
  <2> QED
    BY <1>1, <2>1 DEF TypeOK, Tended, Retire, WorkerKeeps, Handling
<1>2. CASE channel[w] = <<>>
  <2>1. /\ queues' = [p \in People |-> IF queues[p] = w THEN None ELSE queues[p]]
        /\ doing' = [doing EXCEPT ![w] = "gone"] /\ UNCHANGED <<channel, message>>
        /\ ~Handling(w)
    BY <1>2 DEF Retire, Leave, Handling
  <2>2. TypeOK'
    BY <1>2, <2>1 DEF TypeOK, Retire, WorkerKeeps, Handling
  <2>3. Items(channel[w]) = {}
    BY <1>2, ChannelMoves DEF TypeOK
  <2>4. \A x \in Workers : \A u \in Items(channel'[x]) :
            Sender[u] # None /\ queues'[Sender[u]] = x
    <3> SUFFICES ASSUME NEW x \in Workers, NEW u \in Items(channel[x])
                 PROVE  Sender[u] # None /\ queues'[Sender[u]] = x
      BY <2>1
    <3>1. x # w /\ Sender[u] # None /\ queues[Sender[u]] = x
      BY <2>3 DEF Tended
    <3>2. u \in Updates
      BY ChannelMoves DEF TypeOK
    <3> QED
      BY <2>1, <3>1, <3>2, Constants
  <2>5. \A x \in Workers : Handling(x)' =>
            Sender[message'[x]] # None /\ queues'[Sender[message'[x]]] = x
    BY <2>1, Constants DEF TypeOK, Tended, Handling
  <2>6. \A q \in People : queues'[q] # None => doing'[queues'[q]] # "gone"
    BY <2>1 DEF TypeOK, Tended
  <2> QED
    BY <2>1, <2>2, <2>4, <2>5, <2>6 DEF Tended, Retire, WorkerKeeps
<1> QED
  BY <1>1, <1>2

\* A restart leaves no worker and no queue.
LEMMA RestartKeeps == ASSUME TypeOK, Tended, Restart PROVE TypeOK' /\ Tended'
<1>1. \A w \in Workers : channel'[w] = <<>> /\ doing'[w] = "gone" /\ message'[w] = None
  BY DEF Restart
<1>2. Items(<<>>) = {} /\ <<>> \in Seq(Updates) /\ Len(<<>>) = 0
  BY ChannelMoves, EmptySeq
<1>3. TypeOK'
  BY <1>1, <1>2, Constants DEF Restart, TypeOK, Handling
<1> QED
  BY <1>1, <1>2, <1>3 DEF Restart, Tended, Handling

\* Every step keeps the process well formed and every queue tended.
LEMMA IntakeStep == TypeOK /\ Tended /\ [Next]_vars => TypeOK' /\ Tended'
<1> SUFFICES ASSUME TypeOK, Tended, [Next]_vars PROVE TypeOK' /\ Tended'
  OBVIOUS
<1>1. CASE UNCHANGED vars
  <2>1. TypeOK'
    BY <1>1 DEF vars, TypeOK, Handling
  <2> QED
    BY <1>1, <2>1 DEF vars, Tended, Handling
<1> QED
  BY <1>1, PostKeeps, TakeKeeps, DispatchKeeps, ReceiveKeeps, IdleKeeps, RetireKeeps, RestartKeeps
     DEF Next, WorkerStep

\* The type invariant, for any people, updates and workers.
THEOREM IntakeTypeCorrect == Spec => []TypeOK
<1> QED
  BY IntakeInit, IntakeStep, PTL DEF Spec

\* One person has one run at a time, however messages, repeated deliveries, retirements of
\* workers and restarts interleave.
THEOREM OneRunAtATime == Spec => []OneRunPerPerson
<1>1. TypeOK /\ Tended => OneRunPerPerson
  BY ZenonT(60) DEF TypeOK, Tended, OneRunPerPerson
<1> QED
  BY IntakeInit, IntakeStep, <1>1, PTL DEF Spec

\* No message sits in a queue that nobody reads: a queue with a message in it has a live
\* worker, the one its sender's next message would go to.
THEOREM NoQueueIsOrphaned == Spec => []NothingIsStranded
<1>1. TypeOK /\ Tended => NothingIsStranded
  <2> SUFFICES ASSUME TypeOK, Tended, NEW w \in Workers, channel[w] # <<>>
               PROVE  doing[w] # "gone" /\ \A u \in Items(channel[w]) : queues[Sender[u]] = w
    BY DEF NothingIsStranded
  <2>1. Head(channel[w]) \in Items(channel[w]) /\ Head(channel[w]) \in Updates
    BY ChannelMoves DEF TypeOK
  <2>2. Sender[Head(channel[w])] \in People /\ queues[Sender[Head(channel[w])]] = w /\ w # None
    BY <2>1, Constants DEF Tended
  <2> QED
    BY <2>2 DEF Tended
<1> QED
  BY IntakeInit, IntakeStep, <1>1, PTL DEF Spec

-----------------------------------------------------------------------------
\* Each element of a sequence is related to each later one: what sending and receiving
\* keep of that.
Chained(seq, R) == \A i, j \in DOMAIN seq : i < j => <<seq[i], seq[j]>> \in R

\* An order that only grows keeps what was in order under it.
LEMMA ChainWidens ==
    ASSUME NEW seq, NEW R, NEW Q, Chained(seq, R), R \subseteq Q
    PROVE  Chained(seq, Q)
BY DEF Chained

\* What sending and receiving keep of an order among the messages of a channel.
LEMMA ChainMoves ==
    ASSUME NEW S, NEW R, NEW seq \in Seq(S), Chained(seq, R)
    PROVE  /\ seq # <<>> => /\ Chained(Tail(seq), R)
                            /\ \A v \in Items(Tail(seq)) : <<Head(seq), v>> \in R
           /\ \A u \in S : (\A v \in Items(seq) : <<v, u>> \in R) => Chained(Append(seq, u), R)
           /\ \A u \in S : Chained(<<u>>, R)
           /\ Chained(<<>>, R)
           /\ \A Q : R \subseteq Q => Chained(seq, Q)
<1>1. Len(seq) \in Nat /\ DOMAIN seq = 1..Len(seq)
  BY LenProperties
<1>2. ASSUME seq # <<>>
      PROVE  Chained(Tail(seq), R) /\ \A v \in Items(Tail(seq)) : <<Head(seq), v>> \in R
  <2>1. /\ Tail(seq) \in Seq(S) /\ Len(Tail(seq)) = Len(seq) - 1
        /\ \A i \in 1..Len(Tail(seq)) : Tail(seq)[i] = seq[i + 1]
    BY <1>2, HeadTailProperties
  <2>2. DOMAIN Tail(seq) = 1..(Len(seq) - 1) /\ Head(seq) = seq[1] /\ 1 \in DOMAIN seq
    BY <1>1, <1>2, <2>1, LenProperties, EmptySeq
  <2>3. \A i \in DOMAIN Tail(seq) : i + 1 \in DOMAIN seq /\ 1 < i + 1 /\ Tail(seq)[i] = seq[i + 1]
    BY <1>1, <2>1, <2>2
  <2>4. \A i, j \in DOMAIN Tail(seq) : i < j => i + 1 < j + 1
    BY <1>1, <2>2
  <2>5. Chained(Tail(seq), R)
    BY <2>3, <2>4 DEF Chained
  <2> QED
    BY <2>2, <2>3, <2>5 DEF Chained, Items
<1>3. ASSUME NEW u \in S, \A v \in Items(seq) : <<v, u>> \in R
      PROVE  Chained(Append(seq, u), R)
  <2>1. /\ Append(seq, u) \in Seq(S) /\ Len(Append(seq, u)) = Len(seq) + 1
        /\ \A i \in 1..Len(seq) : Append(seq, u)[i] = seq[i]
        /\ Append(seq, u)[Len(seq) + 1] = u
    BY AppendProperties
  <2>2. DOMAIN Append(seq, u) = 1..(Len(seq) + 1)
    BY <2>1, LenProperties
  <2>3. SUFFICES ASSUME NEW i \in 1..(Len(seq) + 1), NEW j \in 1..(Len(seq) + 1), i < j
                 PROVE  <<Append(seq, u)[i], Append(seq, u)[j]>> \in R
    BY <2>2 DEF Chained
  <2>4. i \in 1..Len(seq) /\ Append(seq, u)[i] = seq[i] /\ seq[i] \in Items(seq)
    BY <1>1, <2>1, <2>3 DEF Items
  <2>5. CASE j = Len(seq) + 1
    BY <1>3, <2>1, <2>4, <2>5
  <2>6. CASE j # Len(seq) + 1
    <3>1. j \in 1..Len(seq) /\ Append(seq, u)[j] = seq[j]
      BY <1>1, <2>1, <2>6
    <3> QED
      BY <1>1, <2>3, <2>4, <3>1 DEF Chained
  <2> QED
    BY <2>5, <2>6
<1>4. ASSUME NEW u \in S PROVE Chained(<<u>>, R)
  <2>1. DOMAIN <<u>> = {1}
    OBVIOUS
  <2> QED
    BY <2>1 DEF Chained
<1>5. Chained(<<>>, R)
  BY DEF Chained
<1>6. \A Q : R \subseteq Q => Chained(seq, Q)
  BY DEF Chained
<1> QED
  BY <1>2, <1>3, <1>4, <1>5, <1>6

\* An update may come twice only if its checkpoint could not be stored and the process
\* was started again; otherwise a later message of a person has a larger number.
Excused(u) == u \in unsaved /\ restarts > 0
Rising == {p \in Updates \X Updates : p[1] <= p[2]}
Before == {p \in Updates \X Updates : p[1] <= p[2] /\ (p[1] = p[2] => Excused(p[1]))}
BeforeOfOne == {p \in Updates \X Updates : Sender[p[1]] = Sender[p[2]] => p \in Before}

\* What the router has given to a worker, and what it has taken at all.
Placed == Items(handled) \cup UNION {Items(channel[w]) : w \in Workers}
Taken == Placed \cup ({routing} \ {None})

Ordered ==
    /\ \A u \in Taken \cup Items(deliveries) : \A v \in owed : u <= v
    /\ \A u \in Taken : \A v \in Items(deliveries) : u <= v
    /\ Chained(deliveries, Rising)
    /\ routing # None => \A u \in Placed : <<u, routing>> \in Before
    /\ \A w \in Workers : Chained(channel[w], Before)
    /\ \A u \in Items(handled) : \A w \in Workers : \A v \in Items(channel[w]) :
           <<u, v>> \in BeforeOfOne
    /\ Chained(handled, BeforeOfOne)
    /\ \A u \in Taken : (u < offset \/ restarts > 0) /\ (u < saved \/ u \in unsaved)

\* Only updates are ever taken up.
LEMMA TakenAreUpdates ==
    ASSUME TypeOK
    PROVE  /\ Items(handled) \subseteq Updates /\ Items(deliveries) \subseteq Updates
           /\ \A w \in Workers : Items(channel[w]) \subseteq Updates /\ Items(channel[w]) \subseteq Placed
           /\ Placed \subseteq Updates /\ Placed \subseteq Taken /\ Taken \subseteq Updates
           /\ Updates \subseteq Nat /\ Items(handled) \subseteq Placed
<1>1. Items(handled) \subseteq Updates /\ Items(deliveries) \subseteq Updates
  BY ChannelMoves DEF TypeOK
<1>2. \A w \in Workers : Items(channel[w]) \subseteq Updates
  BY ChannelMoves DEF TypeOK
<1> QED
  BY <1>1, <1>2, Constants DEF TypeOK, Placed, Taken

\* Nothing is out of order at the start.
LEMMA OrderInit == Init => Ordered
<1> SUFFICES ASSUME Init PROVE Ordered
  OBVIOUS
<1>1. handled = <<>> /\ deliveries = <<>> /\ routing = None
      /\ \A w \in Workers : channel[w] = <<>>
  BY DEF Init
<1>2. Items(<<>>) = {} /\ \A R : Chained(<<>>, R)
  BY DEF Items, Chained
<1>3. Placed = {} /\ Taken = {}
  BY <1>1, <1>2 DEF Placed, Taken
<1> QED
  BY <1>1, <1>2, <1>3 DEF Ordered

\* What was related stays so: no update loses its excuse.
LEMMA BeforeGrows ==
    ASSUME unsaved \subseteq unsaved', restarts > 0 => restarts' > 0
    PROVE  Before \subseteq Before' /\ BeforeOfOne \subseteq BeforeOfOne'
<1>1. Before \subseteq Before'
  BY DEF Before, Excused
<1> QED
  BY <1>1 DEF BeforeOfOne

\* A delivery is queued behind the ones before it.
LEMMA PostOrders == ASSUME TypeOK, Ordered, NEW heard \in BOOLEAN, Post(heard) PROVE Ordered'
<1> DEFINE x == Next1(owed)
<1>1. x \in owed /\ x \in Updates /\ \A v \in owed : x <= v
  BY Constants, OldestUpdate DEF TypeOK, Post
<1>2. deliveries \in Seq(Updates) /\ deliveries' = Append(deliveries, x)
  BY DEF TypeOK, Post
<1> HIDE DEF x
<1>3. Items(deliveries') = Items(deliveries) \cup {x} /\ owed' \subseteq owed
  <2>1. owed' \subseteq owed
    BY DEF Post
  <2>2. Items(Append(deliveries, x)) = Items(deliveries) \cup {x}
    BY <1>1, <1>2, ChannelMoves, ZenonT(60)
  <2> QED
    BY <1>2, <2>1, <2>2
<1>4. \A u \in Items(deliveries) : <<u, x>> \in Rising
  BY <1>1, TakenAreUpdates DEF Rising, Ordered
<1>5. Chained(deliveries', Rising)
  BY <1>1, <1>2, <1>4, ChainMoves DEF Ordered
<1>6. UNCHANGED <<Placed, Taken, Before, BeforeOfOne>>
  BY DEF Post, workerVars, Placed, Taken, Before, BeforeOfOne, Excused
<1> QED
  BY <1>1, <1>3, <1>5, <1>6 DEF Ordered, Post, workerVars, Rising

\* The router takes deliveries in their order and passes over repeated ones.
LEMMA TakeOrders == ASSUME TypeOK, Ordered, Take PROVE Ordered'
<1> DEFINE x == Head(deliveries)
<1>1. deliveries \in Seq(Updates) /\ deliveries # <<>> /\ deliveries' = Tail(deliveries)
  BY DEF TypeOK, Take
<1>2. /\ x \in Updates /\ x \in Items(deliveries) /\ Items(deliveries') \subseteq Items(deliveries)
      /\ Chained(deliveries', Rising) /\ \A v \in Items(deliveries') : <<x, v>> \in Rising
  BY <1>1, ChannelMoves, ChainMoves DEF Ordered
<1>3. \A v \in Items(deliveries') : x <= v
  BY <1>2 DEF Rising
<1>4. Placed' = Placed /\ Taken = Placed /\ owed' = owed
  BY DEF Take, workerVars, Placed, Taken
<1>5. CASE Repeat(x)
  <2>1. UNCHANGED <<Taken, Before, BeforeOfOne, routing, offset, saved, unsaved, restarts>>
    BY <1>4, <1>5 DEF Take, Taken, Before, BeforeOfOne, Excused
  <2> QED
    BY <1>2, <1>4, <2>1 DEF Ordered, Take, workerVars, Rising
<1>6. CASE ~Repeat(x)
  <2>1. /\ offset' = x + 1 /\ unsaved \subseteq unsaved' /\ restarts' = restarts
        /\ routing' \in {None, x} /\ saved' \in {saved, x + 1}
        /\ x < saved' \/ x \in unsaved'
    <3>1. x \in Nat
      BY <1>2, Constants
    <3>2. /\ offset' = x + 1 /\ restarts' = restarts /\ routing' \in {None, x}
          /\ \/ saved' = x + 1 /\ unsaved' = unsaved
             \/ unsaved' = unsaved \cup {x} /\ saved' = saved
      BY <1>6 DEF Take
    <3>3. x < x + 1
      BY <3>1
    <3> QED
      BY <3>2, <3>3
  <2>2. x \in Nat /\ offset \in Nat /\ saved \in Nat /\ saved <= offset /\ x >= offset
    <3>1. x \in Nat
      BY <1>2, Constants
    <3>2. offset \in Nat /\ saved \in Nat /\ saved <= offset
      BY DEF TypeOK
    <3>3. ~(x < offset)
      BY <1>6 DEF Repeat
    <3> HIDE DEF x
    <3> QED
      BY <3>1, <3>2, <3>3
  <2>3. Before \subseteq Before' /\ BeforeOfOne \subseteq BeforeOfOne'
    BY <2>1, BeforeGrows
  <2>4. \A u \in Placed : <<u, x>> \in Before'
    <3> SUFFICES ASSUME NEW u \in Placed PROVE <<u, x>> \in Before'
      OBVIOUS
    <3>1. u \in Updates /\ u <= x /\ u \in Nat
      BY <1>2, <1>4, TakenAreUpdates DEF Ordered
    <3>2. u = x => Excused(u)'
      BY <1>4, <2>1, <2>2 DEF Ordered, Excused
    <3> QED
      BY <1>2, <3>1, <3>2 DEF Before
  <2>5. Taken' \subseteq Taken \cup {x}
    BY <1>4, <2>1 DEF Taken
  <2>6. \A u \in Taken' : (u < offset' \/ restarts' > 0) /\ (u < saved' \/ u \in unsaved')
    <3> SUFFICES ASSUME NEW u \in Taken'
                 PROVE  (u < offset' \/ restarts' > 0) /\ (u < saved' \/ u \in unsaved')
      OBVIOUS
    <3>1. CASE u = x
      BY <2>1, <2>2, <3>1
    <3>2. CASE u \in Taken
      <4>1. u \in Nat
        BY <3>2, TakenAreUpdates
      <4>2. (u < offset \/ restarts > 0) /\ (u < saved \/ u \in unsaved)
        BY <3>2 DEF Ordered
      <4> QED
        BY <2>1, <2>2, <4>1, <4>2
    <3> QED
      BY <2>5, <3>1, <3>2
  <2>7. \A u \in Taken' : \A v \in Items(deliveries') : u <= v
    BY <1>2, <1>3, <2>5 DEF Ordered
  <2>8. \A u \in Taken' \cup Items(deliveries') : \A v \in owed' : u <= v
    BY <1>2, <1>4, <2>5 DEF Ordered
  <2>9. routing' # None => \A u \in Placed' : <<u, routing'>> \in Before'
    BY <1>4, <2>1, <2>4
  <2>10. \A w \in Workers : Chained(channel'[w], Before')
    <3>1. \A w \in Workers : channel'[w] = channel[w] /\ channel[w] \in Seq(Updates)
                              /\ Chained(channel[w], Before)
      BY DEF Ordered, TypeOK, Take, workerVars
    <3> SUFFICES ASSUME NEW w \in Workers PROVE Chained(channel'[w], Before')
      OBVIOUS
    <3>2. channel'[w] = channel[w] /\ Chained(channel[w], Before) /\ Before \subseteq Before'
      BY <2>3, <3>1
    <3>3. Chained(channel[w], Before')
      BY <3>2, ChainWidens
    <3> QED
      BY <3>2, <3>3
  <2>11. Chained(handled', BeforeOfOne')
    <3>1. handled' = handled /\ Chained(handled, BeforeOfOne)
      BY DEF Ordered, Take, workerVars
    <3>2. Chained(handled, BeforeOfOne')
      BY <2>3, <3>1, ChainWidens
    <3> QED
      BY <3>1, <3>2
  <2>12. \A u \in Items(handled') : \A w \in Workers : \A v \in Items(channel'[w]) :
             <<u, v>> \in BeforeOfOne'
    BY <2>3 DEF Ordered, Take, workerVars
  <2>13. Chained(deliveries', Rising')
    BY <1>2 DEF Rising
  <2> QED
    BY <2>6, <2>7, <2>8, <2>9, <2>10, <2>11, <2>12, <2>13 DEF Ordered
<1> QED
  BY <1>5, <1>6

\* An update joins its person's queue behind the person's earlier ones.
LEMMA DispatchOrders == ASSUME TypeOK, Tended, Ordered, Dispatch PROVE Ordered'
<1> DEFINE x == routing
<1>1. /\ x \in Updates /\ x # None /\ x \in Taken /\ x \notin {None}
      /\ UNCHANGED <<owed, deliveries, offset, saved, handled, unsaved, restarts>> /\ routing' = None
  BY DEF TypeOK, Dispatch, Taken
<1>2. Before' = Before /\ BeforeOfOne' = BeforeOfOne /\ Rising' = Rising
  BY <1>1 DEF Before, BeforeOfOne, Rising, Excused
<1>3. \A u \in Placed : <<u, x>> \in Before
  BY <1>1 DEF Ordered
<1>4. ASSUME NEW v \in Workers,
             \A w \in Workers : w # v => channel'[w] = channel[w],
             \/ channel'[v] = <<x>> \/ channel'[v] = Append(channel[v], x)
             \/ channel'[v] = channel[v]
      PROVE  Ordered'
  <2>1. /\ Items(channel'[v]) \subseteq Items(channel[v]) \cup {x}
        /\ Chained(channel'[v], Before)
    <3>1. channel[v] \in Seq(Updates) /\ Chained(channel[v], Before)
      BY DEF TypeOK, Ordered
    <3>2. \A u \in Items(channel[v]) : <<u, x>> \in Before
      BY <1>3, TakenAreUpdates
    <3>3. CASE channel'[v] = <<x>>
      <4>1. Items(<<x>>) = {x}
        BY <1>1, <3>1, ChannelMoves, ZenonT(60)
      <4>2. Chained(<<x>>, Before)
        BY <1>1, <3>1, ChainMoves, ZenonT(60)
      <4> QED
        BY <3>3, <4>1, <4>2
    <3>4. CASE channel'[v] = Append(channel[v], x)
      <4>1. Chained(Append(channel[v], x), Before)
        BY <1>1, <3>1, <3>2, ChainMoves, ZenonT(60)
      <4>2. Items(Append(channel[v], x)) = Items(channel[v]) \cup {x}
        BY <1>1, <3>1, ChannelMoves, ZenonT(60)
      <4> QED
        BY <3>4, <4>1, <4>2
    <3> QED
      BY <1>4, <3>1, <3>3, <3>4
  <2>2. \A w \in Workers : /\ Items(channel'[w]) \subseteq Items(channel[w]) \cup {x}
                           /\ Chained(channel'[w], Before)
    BY <1>4, <2>1 DEF Ordered
  <2>3. Placed' \subseteq Placed \cup {x} /\ Taken' \subseteq Taken
    BY <1>1, <2>2 DEF Placed, Taken
  <2>4. \A u \in Items(handled) : <<u, x>> \in BeforeOfOne
    BY <1>1, <1>3, TakenAreUpdates DEF BeforeOfOne
  <2>5. \A u \in Items(handled) : \A w \in Workers : \A y \in Items(channel'[w]) :
            <<u, y>> \in BeforeOfOne
    BY <2>2, <2>4 DEF Ordered
  <2> QED
    BY <1>1, <1>2, <2>2, <2>3, <2>5 DEF Ordered
<1>5. ASSUME channel' = channel PROVE Ordered'
  <2>1. Placed' = Placed /\ Taken' \subseteq Taken
    BY <1>1, <1>5 DEF Placed, Taken
  <2> QED
    BY <1>1, <1>2, <1>5, <2>1 DEF Ordered
<1>6. ASSUME Start(Sender[x], x) PROVE Ordered'
  <2>1. NewWorker \in Workers
    <3>1. \E w \in Workers : w \notin Alive
      BY <1>6 DEF Start, Alive
    <3> QED
      BY <3>1 DEF NewWorker
  <2>2. channel' = [channel EXCEPT ![NewWorker] = <<x>>]
    BY <1>6 DEF Start
  <2>3. channel'[NewWorker] = <<x>> /\ \A w \in Workers : w # NewWorker => channel'[w] = channel[w]
    BY <2>1, <2>2 DEF TypeOK
  <2> QED
    BY <1>4, <2>1, <2>3
<1>7. ASSUME NEW v \in Workers \cup {None}, v # None, Join(v, x) PROVE Ordered'
  <2>1. /\ v \in Workers /\ channel'[v] = Append(channel[v], x)
        /\ \A w \in Workers : w # v => channel'[w] = channel[w]
    BY <1>7 DEF TypeOK, Join
  <2> QED
    BY <1>4, <2>1
<1>8. queues[Sender[x]] \in Workers \cup {None}
  BY <1>1, Constants DEF TypeOK, Tended
<1> QED
  BY <1>5, <1>6, <1>7, <1>8 DEF Dispatch

\* A worker takes the oldest update of its queue.
LEMMA ReceiveOrders ==
    ASSUME TypeOK, Tended, Ordered, NEW w \in Workers, Receive(w) PROVE Ordered'
<1> DEFINE x == Head(channel[w])
<1>1. /\ channel[w] \in Seq(Updates) /\ channel[w] # <<>> /\ handled \in Seq(Updates)
      /\ channel'[w] = Tail(channel[w]) /\ handled' = Append(handled, x)
      /\ \A v \in Workers : v # w => channel'[v] = channel[v]
      /\ UNCHANGED <<owed, deliveries, offset, saved, routing, unsaved, restarts>>
  BY DEF TypeOK, Receive, WorkerKeeps
<1>2. /\ x \in Items(channel[w]) /\ x \in Updates
      /\ Items(channel'[w]) \subseteq Items(channel[w])
      /\ Chained(channel'[w], Before) /\ \A v \in Items(channel'[w]) : <<x, v>> \in Before
  <2>1. Chained(channel[w], Before)
    BY DEF Ordered
  <2>2. /\ x \in Items(channel[w]) /\ x \in Updates
        /\ Items(Tail(channel[w])) \subseteq Items(channel[w])
    BY <1>1, ChannelMoves
  <2>3. /\ Chained(Tail(channel[w]), Before)
        /\ \A v \in Items(Tail(channel[w])) : <<x, v>> \in Before
    BY <1>1, <2>1, ChainMoves
  <2> QED
    BY <1>1, <2>2, <2>3
<1>3. Items(handled') = Items(handled) \cup {x}
  <2> HIDE DEF x
  <2>1. Items(Append(handled, x)) = Items(handled) \cup {x}
    BY <1>1, <1>2, ChannelMoves, ZenonT(60)
  <2> QED
    BY <1>1, <2>1
<1> HIDE DEF x
<1>4. Before' = Before /\ BeforeOfOne' = BeforeOfOne /\ Rising' = Rising
  BY <1>1 DEF Before, BeforeOfOne, Rising, Excused
<1>5. /\ \A v \in Workers : /\ Items(channel'[v]) \subseteq Items(channel[v])
                            /\ Chained(channel'[v], Before)
  BY <1>1, <1>2 DEF Ordered
<1>6. Placed' \subseteq Placed /\ Taken' \subseteq Taken
  <2>1. routing' = routing
    BY <1>1
  <2>2. x \in Placed /\ Items(handled) \subseteq Placed /\ \A v \in Workers : Items(channel[v]) \subseteq Placed
    BY <1>2, TakenAreUpdates
  <2>3. Placed' \subseteq Placed
    <3> SUFFICES ASSUME NEW u \in Placed' PROVE u \in Placed
      OBVIOUS
    <3>1. CASE u \in Items(handled')
      BY <1>3, <2>2, <3>1
    <3>2. ASSUME NEW v \in Workers, u \in Items(channel'[v]) PROVE u \in Placed
      BY <1>5, <2>2, <3>2
    <3> QED
      BY <3>1, <3>2 DEF Placed
  <2> QED
    BY <2>1, <2>3 DEF Taken
<1>7. \A u \in Items(handled) : <<u, x>> \in BeforeOfOne
  BY <1>2 DEF Ordered
<1>8. Chained(handled', BeforeOfOne)
  BY <1>1, <1>2, <1>7, ChainMoves DEF Ordered
<1>9. \A v \in Workers : \A y \in Items(channel'[v]) : <<x, y>> \in BeforeOfOne
  <2> SUFFICES ASSUME NEW v \in Workers, NEW y \in Items(channel'[v]), Sender[x] = Sender[y]
               PROVE  <<x, y>> \in Before
    BY <1>2, <1>5, TakenAreUpdates DEF BeforeOfOne
  <2>1. v = w
    BY <1>2, <1>5 DEF Tended
  <2> QED
    BY <1>2, <2>1
<1> QED
  BY <1>1, <1>3, <1>4, <1>5, <1>6, <1>7, <1>8, <1>9 DEF Ordered

\* A restart forgets what was on its way and goes on from the checkpoint.
LEMMA RestartOrders == ASSUME TypeOK, Ordered, Restart PROVE Ordered'
<1>1. /\ \A w \in Workers : channel'[w] = <<>>
      /\ routing' = None /\ deliveries' = <<>> /\ UNCHANGED <<owed, saved, handled, unsaved>>
      /\ restarts' = restarts + 1
  BY DEF Restart
<1>2. Items(<<>>) = {} /\ \A R : Chained(<<>>, R)
  BY DEF Items, Chained
<1>3. Placed' = Items(handled) /\ Taken' = Items(handled)
  BY <1>1, <1>2 DEF Placed, Taken
<1>4. Taken' \subseteq Taken
  BY <1>3, TakenAreUpdates
<1>5. restarts' > 0 /\ (restarts > 0 => restarts' > 0)
  BY <1>1, Constants DEF TypeOK
<1>6. Chained(handled', BeforeOfOne')
  BY <1>1, <1>5, BeforeGrows, ChainMoves DEF Ordered, TypeOK
<1> QED
  BY <1>1, <1>2, <1>4, <1>5, <1>6 DEF Ordered

\* Every step keeps the updates on their way in their order.
LEMMA OrderStep == TypeOK /\ Tended /\ Ordered /\ [Next]_vars => Ordered'
<1> SUFFICES ASSUME TypeOK, Tended, Ordered, [Next]_vars PROVE Ordered'
  OBVIOUS
<1>1. ASSUME UNCHANGED <<owed, deliveries, offset, saved, routing, channel, handled, unsaved, restarts>>
      PROVE  Ordered'
  <2>1. UNCHANGED <<Placed, Taken, Before, BeforeOfOne, Rising>>
    BY <1>1 DEF Placed, Taken, Before, BeforeOfOne, Rising, Excused
  <2> QED
    BY <1>1, <2>1 DEF Ordered
<1>2. CASE UNCHANGED vars
  BY <1>1, <1>2 DEF vars
<1>3. ASSUME NEW w \in Workers, Finish(w) \/ FindNothing(w) \/ Retire(w) PROVE Ordered'
  BY <1>1, <1>3 DEF Finish, FindNothing, Retire, Leave, WorkerKeeps
<1> QED
  BY <1>2, <1>3, PostOrders, TakeOrders, DispatchOrders, ReceiveOrders, RestartOrders
     DEF Next, WorkerStep

\* One person's messages are taken up in the order they were sent, over restarts and
\* repeated deliveries too.
THEOREM MessagesKeepTheirOrder == Spec => []ArrivalOrder
<1>1. Ordered => ArrivalOrder
  BY DEF Ordered, ArrivalOrder, Chained, BeforeOfOne, Before
<1> QED
  BY IntakeInit, IntakeStep, OrderInit, OrderStep, <1>1, PTL DEF Spec

\* A handler runs twice on one update only if its checkpoint could not be stored and the
\* process was started again.
THEOREM RepeatsAreExcused == Spec => []RunsTwiceOnlyUnsaved
<1>1. TypeOK /\ Ordered => RunsTwiceOnlyUnsaved
  <2> SUFFICES ASSUME TypeOK, Ordered, NEW i \in DOMAIN handled, NEW j \in DOMAIN handled,
                      i < j, handled[i] = handled[j]
               PROVE  Excused(handled[i])
    <3>1. DOMAIN handled \subseteq Nat
      BY LenProperties DEF TypeOK
    <3> QED
      BY <3>1 DEF RunsTwiceOnlyUnsaved, Excused
  <2> QED
    BY DEF Ordered, Chained, BeforeOfOne, Before
<1> QED
  BY IntakeInit, IntakeStep, OrderInit, OrderStep, <1>1, PTL DEF Spec
=============================================================================
