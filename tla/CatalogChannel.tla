-------------------------- MODULE CatalogChannel --------------------------
(***************************************************************************)
(* The buyer's one session with the shop's catalog tools, shared by every   *)
(* run.  A call reads the session without the lock and uses it; when that   *)
(* fails, for whatever reason, it takes the lock, closes the session the    *)
(* client holds, dials another within five seconds counted from before the  *)
(* lock, and calls once more on whatever session the client holds by then.  *)
(* The shop may restart, and drops a session that was idle too long; the    *)
(* network between them may fail any call and any dial.                     *)
(***************************************************************************)
EXTENDS Integers, Sequences

CONSTANTS
    Callers,
    MaxSessions,    \* bound: the sessions of one history
    None

ASSUME ChannelAssumption == MaxSessions \in Nat \ {0} /\ None \notin Callers

VARIABLES
    sessions,   \* every session dialled: not yet closed by the client (open), known to the shop
    current,    \* the one the client holds
    lock,
    call,       \* call[c]: its step, try and session, whether its caller's time is up, and
                \* whether it waited in the reconnection
    up,         \* the shop answers
    disturbed   \* history: disturbed[c]: another call, a restart or the caller's own limit
                \* came in between, or the network failed the call's dial or its second try

channelVars == <<sessions, current, lock, call, up, disturbed>>

UnderWay(c) == call[c].step \in {"calling", "reconnect", "dialling", "retry"}
AllBut(c) == Callers \ {c}

\* The client starts with a session.
ChannelInit ==
    /\ sessions = <<[open |-> TRUE, known |-> TRUE]>> /\ current = 1 /\ lock = None
    /\ call = [c \in Callers |-> [step |-> "idle", try |-> 1, on |-> 1, late |-> FALSE,
                                  waited |-> FALSE]]
    /\ up = TRUE /\ disturbed = [c \in Callers |-> FALSE]

-----------------------------------------------------------------------------
Moves(c, state) == call' = [call EXCEPT ![c] = state]

\* The first failure reconnects, the second is final (mutated: the first is).
AfterFailureGivesUp(c, state) == [state EXCEPT !.step = "failed"]
AfterFailure(c, state) ==
    IF state.try = 1 THEN [state EXCEPT !.step = "reconnect", !.waited = lock # None]
    ELSE [state EXCEPT !.step = "failed"]

\* A call on the session held now; a session the client closed takes no new call.
Calls(c, state) ==
    Moves(c, IF sessions[current].open THEN [state EXCEPT !.step = "calling", !.on = current]
             ELSE AfterFailure(c, state))

Begin(c) ==
    /\ ~UnderWay(c)
    /\ Calls(c, [call[c] EXCEPT !.try = 1, !.late = FALSE, !.waited = FALSE])
    /\ disturbed' = [d \in Callers |-> IF d = c THEN ~up \/ \E o \in AllBut(c) : UnderWay(o)
                                       ELSE TRUE]
    /\ UNCHANGED <<sessions, current, lock, up>>

\* The shop answers, with what was asked for or with a tool's error, which is an answer too.
Answered(c) ==
    /\ call[c].step = "calling" /\ up /\ sessions[call[c].on].known
    /\ Moves(c, [call[c] EXCEPT !.step = "answered"])
    /\ UNCHANGED <<sessions, current, lock, up, disturbed>>

\* The call can only fail: the shop is away or has forgotten the session, the client closed
\* it meanwhile, or the caller's own time is up.
Doomed(c) ==
    \/ ~up \/ call[c].late
    \/ ~sessions[call[c].on].known \/ ~sessions[call[c].on].open

\* It fails for that, or because the network does.
Fails(c) ==
    /\ call[c].step = "calling"
    /\ Moves(c, AfterFailure(c, call[c]))
    /\ disturbed' = [disturbed EXCEPT ![c] = @ \/ (call[c].try = 2 /\ ~Doomed(c))]
    /\ UNCHANGED <<sessions, current, lock, up>>

\* The session held is closed under the lock (mutated: there is none), which waits for the
\* calls still on it.
FreeAlways == TRUE
Free == lock = None

Drops(c) ==
    /\ call[c].step = "reconnect" /\ Free
    /\ lock' = c
    /\ sessions' = [sessions EXCEPT ![current].open = FALSE]
    /\ call' = [d \in Callers |->
          IF d = c
          THEN [call[c] EXCEPT !.step = "dialling",
                               !.waited = @ \/ \E o \in AllBut(c) :
                                                  call[o].step = "calling" /\ call[o].on = current]
          ELSE IF call[d].step = "reconnect" THEN [call[d] EXCEPT !.waited = TRUE] ELSE call[d]]
    /\ UNCHANGED <<current, up, disturbed>>

\* A dial that succeeds replaces the session, whatever is left of its caller's own time.
Dials(c) ==
    /\ call[c].step = "dialling" /\ up /\ Len(sessions) < MaxSessions
    /\ sessions' = Append(sessions, [open |-> TRUE, known |-> TRUE])
    /\ current' = Len(sessions) + 1 /\ lock' = None
    /\ Moves(c, [call[c] EXCEPT !.step = "retry"])
    /\ UNCHANGED <<up, disturbed>>

\* The shop is away, the five seconds went in waiting, or the network is slow or failing:
\* the closed session is kept.
DialFails(c) ==
    /\ call[c].step = "dialling"
    /\ lock' = None
    /\ Moves(c, [call[c] EXCEPT !.step = "failed"])
    /\ disturbed' = [disturbed EXCEPT ![c] = @ \/ (up /\ ~call[c].waited)]
    /\ UNCHANGED <<sessions, current, up>>

Retries(c) ==
    /\ call[c].step = "retry"
    /\ Calls(c, [call[c] EXCEPT !.try = 2])
    /\ UNCHANGED <<sessions, current, lock, up, disturbed>>

Expires(c) ==
    /\ UnderWay(c) /\ ~call[c].late
    /\ Moves(c, [call[c] EXCEPT !.late = TRUE])
    /\ disturbed' = [disturbed EXCEPT ![c] = TRUE]
    /\ UNCHANGED <<sessions, current, lock, up>>

-----------------------------------------------------------------------------
Forgotten == [s \in DOMAIN sessions |-> [sessions[s] EXCEPT !.known = FALSE]]

\* The shop goes away, with every session it knew, and comes back.
ShopRestarts ==
    /\ up' = ~up /\ sessions' = Forgotten
    /\ disturbed' = [c \in Callers |-> TRUE]
    /\ UNCHANGED <<current, lock, call>>

\* A session nobody uses for long is dropped.
IdlesOut ==
    /\ \A c \in Callers : ~UnderWay(c)
    /\ sessions' = Forgotten
    /\ UNCHANGED <<current, lock, call, up, disturbed>>

\* The program ends: the session held is closed without the lock.
Close ==
    /\ sessions' = [sessions EXCEPT ![current].open = FALSE]
    /\ disturbed' = [c \in Callers |-> TRUE]
    /\ UNCHANGED <<current, lock, call, up>>

ChannelNext ==
    \/ ShopRestarts \/ IdlesOut \/ Close
    \/ \E c \in Callers :
        \/ Begin(c) \/ Answered(c) \/ Fails(c) \/ Drops(c) \/ Dials(c) \/ DialFails(c)
        \/ Retries(c) \/ Expires(c)

ChannelSpec == ChannelInit /\ [][ChannelNext]_channelVars

-----------------------------------------------------------------------------
\* Type invariant.
ChannelTypeOK ==
    /\ sessions \in Seq([open : BOOLEAN, known : BOOLEAN])
    /\ current \in 1..Len(sessions) /\ lock \in Callers \cup {None}
    /\ call \in [Callers -> [step : {"idle", "calling", "reconnect", "dialling", "retry",
                                     "answered", "failed"},
                             try : {1, 2}, on : 1..Len(sessions), late : BOOLEAN,
                             waited : BOOLEAN]]
    /\ up \in BOOLEAN /\ disturbed \in [Callers -> BOOLEAN]

\* However many callers reconnect at once, no session but the one held is left open, and
\* none is while one is being dialled.
OneOpenSession ==
    \A s \in DOMAIN sessions :
        sessions[s].open => s = current /\ \A c \in Callers : call[c].step # "dialling"

\* A call nothing came in between of is answered, whatever earlier calls, restarts and
\* failed dials left behind, and though the network failed it once: a failure of the first
\* try is what the second is for.
AloneIsServed == \A c \in Callers : call[c].step = "failed" => disturbed[c]
=============================================================================
