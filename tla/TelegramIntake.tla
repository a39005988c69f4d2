--------------------------- MODULE TelegramIntake ---------------------------
(***************************************************************************)
(* How a Telegram update reaches its handler when updates are posted to a   *)
(* webhook: the HTTP handler puts it in a bounded queue and answers; one    *)
(* router goroutine takes it out, moves the checkpoint and hands it to the  *)
(* worker of the person it is from; the worker handles one message at a     *)
(* time and retires when it finds no more.  The process may stop and start  *)
(* again at any moment, with only the checkpoint kept; Telegram repeats a   *)
(* delivery whose answer it did not get, and holds the next one until then. *)
(***************************************************************************)
EXTENDS Naturals, Sequences, FiniteSets

CONSTANTS
    Updates,        \* update ids
    People,
    None,           \* no message, no worker
    Sender,         \* Sender[u]: who sent it, None for an update with no text in it
    Workers,        \* names for goroutines, enough for all that are alive at once
    QueueDepth,     \* webhookQueueDepth
    PersonDepth,    \* personQueueDepth
    MaxRestarts     \* bound: restarts of the process

ASSUME IntakeAssumption ==
    /\ Updates \subseteq Nat /\ IsFiniteSet(Updates)
    /\ None \notin People \cup Workers \cup Updates
    /\ Sender \in [Updates -> People \cup {None}]
    /\ QueueDepth \in Nat \ {0} /\ PersonDepth \in Nat \ {0} /\ MaxRestarts \in Nat

VARIABLES
    owed,       \* updates Telegram holds that were not answered 200
    deliveries, \* the channel between the HTTP handler and the router
    offset,     \* webhookRouter.offset
    saved,      \* the stored checkpoint
    routing,    \* the message the router holds between its checkpoint and dispatch
    queues,     \* personWorkers.queues: the worker whose channel a person's messages join
    channel,    \* the channel of each worker
    doing,      \* where each worker is: "gone", "poll", "retire" or "handle"
    message,    \* the message each worker is handling
    handled,    \* every update a handler was started on, in that order
    told,       \* updates turned away with the busy reply
    lost,       \* updates in memory when the process stopped
    unsaved,    \* updates whose checkpoint could not be stored
    restarts

vars == <<owed, deliveries, offset, saved, routing, queues, channel, doing, message,
          handled, told, lost, unsaved, restarts>>

workerVars == <<queues, channel, doing, message, handled>>

Alive == {w \in Workers : doing[w] # "gone"}
Handling(w) == doing[w] = "handle"
Items(seq) == {seq[i] : i \in DOMAIN seq}
Next1(s) == CHOOSE u \in s : \A v \in s : u <= v

Init ==
    /\ owed = Updates
    /\ deliveries = <<>>
    /\ offset = 0 /\ saved = 0
    /\ routing = None
    /\ queues = [p \in People |-> None]
    /\ channel = [w \in Workers |-> <<>>]
    /\ doing = [w \in Workers |-> "gone"]
    /\ message = [w \in Workers |-> None]
    /\ handled = <<>>
    /\ told = {} /\ lost = {} /\ unsaved = {}
    /\ restarts = 0

-----------------------------------------------------------------------------
\* Telegram posts the oldest update it holds, over its one connection.  A full queue
\* answers 503, which changes nothing; an answer of 200 may be lost on its way.
Post(heard) ==
    /\ owed # {}
    /\ Len(deliveries) < QueueDepth
    /\ deliveries' = Append(deliveries, Next1(owed))
    /\ owed' = IF heard THEN owed \ {Next1(owed)} ELSE owed
    /\ UNCHANGED <<offset, saved, routing, workerVars, told, lost, unsaved, restarts>>

\* The router takes a delivery.  A repeat is dropped; anything else moves the offset,
\* whether or not the checkpoint can be stored, and goes on if it has a text
\* (mutated: no delivery counts as a repeat).
NeverRepeat(u) == u \notin Updates
Repeat(u) == u < offset

Take ==
    /\ routing = None /\ deliveries # <<>>
    /\ deliveries' = Tail(deliveries)
    /\ LET u == Head(deliveries)
       IN  IF Repeat(u)
           THEN UNCHANGED <<offset, saved, routing, unsaved>>
           ELSE /\ offset' = u + 1
                /\ \/ saved' = u + 1 /\ UNCHANGED unsaved
                   \/ unsaved' = unsaved \cup {u} /\ UNCHANGED saved
                /\ routing' = IF Sender[u] = None THEN None ELSE u
    /\ UNCHANGED <<owed, workerVars, told, lost, restarts>>

\* The message joins its person's queue, whose worker is started if there is none, or
\* is turned away if the queue is full (mutated: every message starts a worker of its
\* own).
NewWorker == CHOOSE w \in Workers : w \notin Alive
Start(p, u) ==
    /\ Alive # Workers
    /\ queues' = [queues EXCEPT ![p] = NewWorker]
    /\ channel' = [channel EXCEPT ![NewWorker] = <<u>>]
    /\ doing' = [doing EXCEPT ![NewWorker] = "poll"]
Join(w, u) ==
    /\ Len(channel[w]) < PersonDepth
    /\ channel' = [channel EXCEPT ![w] = Append(@, u)]
    /\ UNCHANGED <<queues, doing>>
Full(w) == Len(channel[w]) = PersonDepth

DispatchToNewWorker ==
    /\ routing # None
    /\ routing' = None
    /\ Start(Sender[routing], routing)
    /\ UNCHANGED <<owed, deliveries, offset, saved, message, handled, told, lost, unsaved, restarts>>
Dispatch ==
    /\ routing # None
    /\ routing' = None
    /\ LET w == queues[Sender[routing]]
       IN  \/ w = None /\ Start(Sender[routing], routing) /\ UNCHANGED told
           \/ w # None /\ Join(w, routing) /\ UNCHANGED told
           \/ /\ w # None /\ Full(w)
              /\ told' = told \cup {routing}
              /\ UNCHANGED <<queues, channel, doing>>
    /\ UNCHANGED <<owed, deliveries, offset, saved, message, handled, lost, unsaved, restarts>>

WorkerKeeps == UNCHANGED <<owed, deliveries, offset, saved, routing, told, lost, unsaved, restarts>>

\* The worker's select: a message if there is one, else the way out (mutated: a worker
\* that takes its last message leaves the map at once).
ReceiveAndDelist(w) ==
    /\ doing[w] = "poll" /\ channel[w] # <<>>
    /\ doing' = [doing EXCEPT ![w] = "handle"]
    /\ message' = [message EXCEPT ![w] = Head(channel[w])]
    /\ channel' = [channel EXCEPT ![w] = Tail(@)]
    /\ queues' = [p \in People |-> IF queues[p] = w /\ Len(channel[w]) = 1 THEN None ELSE queues[p]]
    /\ handled' = Append(handled, Head(channel[w]))
    /\ WorkerKeeps
Receive(w) ==
    /\ doing[w] = "poll" /\ channel[w] # <<>>
    /\ doing' = [doing EXCEPT ![w] = "handle"]
    /\ message' = [message EXCEPT ![w] = Head(channel[w])]
    /\ channel' = [channel EXCEPT ![w] = Tail(@)]
    /\ handled' = Append(handled, Head(channel[w]))
    /\ WorkerKeeps /\ UNCHANGED queues

Finish(w) ==
    /\ Handling(w)
    /\ doing' = [doing EXCEPT ![w] = "poll"]
    /\ message' = [message EXCEPT ![w] = None]
    /\ WorkerKeeps /\ UNCHANGED <<queues, channel, handled>>

FindNothing(w) ==
    /\ doing[w] = "poll" /\ channel[w] = <<>>
    /\ doing' = [doing EXCEPT ![w] = "retire"]
    /\ WorkerKeeps /\ UNCHANGED <<queues, channel, message, handled>>

\* Under the lock dispatch takes, the worker looks again before it retires (mutated:
\* it does not; it leaves its queue in the map).
Leave(w) ==
    /\ queues' = [p \in People |-> IF queues[p] = w THEN None ELSE queues[p]]
    /\ doing' = [doing EXCEPT ![w] = "gone"]
    /\ UNCHANGED channel
RetireUnchecked(w) ==
    /\ doing[w] = "retire"
    /\ Leave(w)
    /\ WorkerKeeps /\ UNCHANGED <<message, handled>>
RetireUnlisted(w) ==
    /\ doing[w] = "retire"
    /\ doing' = [doing EXCEPT ![w] = IF channel[w] # <<>> THEN "poll" ELSE "gone"]
    /\ WorkerKeeps /\ UNCHANGED <<queues, channel, message, handled>>
Retire(w) ==
    /\ doing[w] = "retire"
    /\ IF channel[w] # <<>>
       THEN doing' = [doing EXCEPT ![w] = "poll"] /\ UNCHANGED <<queues, channel>>
       ELSE Leave(w)
    /\ WorkerKeeps /\ UNCHANGED <<message, handled>>

\* The process stops, and another starts from the checkpoint.
Restart ==
    /\ restarts < MaxRestarts
    /\ restarts' = restarts + 1
    /\ lost' = lost \cup Items(deliveries) \cup ({routing} \ {None})
                    \cup UNION {Items(channel[w]) : w \in Workers}
    /\ deliveries' = <<>>
    /\ offset' = saved
    /\ routing' = None
    /\ queues' = [p \in People |-> None]
    /\ channel' = [w \in Workers |-> <<>>]
    /\ doing' = [w \in Workers |-> "gone"]
    /\ message' = [w \in Workers |-> None]
    /\ UNCHANGED <<owed, saved, handled, told, unsaved>>

WorkerStep(w) == Receive(w) \/ Finish(w) \/ FindNothing(w) \/ Retire(w)

Next ==
    \/ \E heard \in BOOLEAN : Post(heard)
    \/ Take \/ Dispatch
    \/ \E w \in Workers : WorkerStep(w)
    \/ Restart

\* Every goroutine runs on, and Telegram keeps trying until a try gets through.
Spec ==
    /\ Init /\ [][Next]_vars
    /\ WF_vars(Take) /\ WF_vars(Dispatch)
    /\ \A w \in Workers : WF_vars(WorkerStep(w))
    /\ SF_vars(Post(TRUE))

-----------------------------------------------------------------------------
TypeOK ==
    /\ owed \subseteq Updates
    /\ deliveries \in Seq(Updates) /\ Len(deliveries) <= QueueDepth
    /\ offset \in Nat /\ saved \in Nat /\ saved <= offset
    /\ routing \in Updates \cup {None}
    /\ queues \in [People -> Workers \cup {None}]
    /\ channel \in [Workers -> Seq(Updates)]
    /\ doing \in [Workers -> {"gone", "poll", "retire", "handle"}]
    /\ message \in [Workers -> Updates \cup {None}]
    /\ \A w \in Workers : Len(channel[w]) <= PersonDepth /\ (Handling(w) <=> message[w] # None)
    /\ handled \in Seq(Updates) /\ restarts \in 0..MaxRestarts

\* One person has one run at a time: no two workers handle messages of one person
\* (telegram_dispatch.go: "that person has exactly one worker").
OneRunPerPerson ==
    \A v, w \in Workers :
        (Handling(v) /\ Handling(w) /\ Sender[message[v]] = Sender[message[w]]) => v = w

\* One person's messages are taken up in the order they were sent, over restarts and
\* repeated deliveries too.
ArrivalOrder ==
    \A i, j \in DOMAIN handled :
        (i < j /\ Sender[handled[i]] = Sender[handled[j]]) => handled[i] <= handled[j]

\* A message never sits in a queue nobody reads, however its arrival falls against
\* the retirement of the worker: the channel it is in is read by a live worker, and
\* the one person the map points to it is its sender.
NothingIsStranded ==
    \A w \in Workers : channel[w] # <<>> =>
        /\ doing[w] # "gone"
        /\ \A u \in Items(channel[w]) : queues[Sender[u]] = w

\* A handler runs twice on one update only if its checkpoint could not be stored and
\* the process was started again: a delivery Telegram merely repeats runs once.
RunsTwiceOnlyUnsaved ==
    \A i, j \in DOMAIN handled :
        (i # j /\ handled[i] = handled[j]) => handled[i] \in unsaved /\ restarts > 0

\* Every update with a text is in the end taken up, turned away with an answer, or was
\* in the memory of a process that stopped: a full webhook queue delays an update
\* rather than losing it, and no worker stalls another person's.
EveryUpdateEnds ==
    <>(\A u \in Updates : Sender[u] # None => u \in Items(handled) \cup told \cup lost)
=============================================================================
