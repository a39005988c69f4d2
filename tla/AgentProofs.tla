---------------------------- MODULE AgentProofs ----------------------------
(***************************************************************************)
(* What holds of the buyer's agent and of what it works through, for any   *)
(* number of callers, models, runs and goods: the tool channel it shares with *)
(* the other agents, the chain of models it asks, and its runs.            *)
(***************************************************************************)
EXTENDS CatalogChannel, ModelChain, ShopRun,
        SequenceTheorems, WellFoundedInduction, TLAPS

(***************************************************************************)
(* The tool channel (module CatalogChannel): no session is leaked, and a call *)
(* that nothing came in between of is answered.                            *)
(***************************************************************************)

SessionRow == [open : BOOLEAN, known : BOOLEAN]
CallSteps == {"idle", "calling", "reconnect", "dialling", "retry", "answered", "failed"}
StateOn(n) == [step : CallSteps, try : {1, 2}, on : 1..n, late : BOOLEAN, waited : BOOLEAN]

\* Updating one session, or all, or dialling another, leaves a sequence of sessions.
LEMMA SessionsKeepShape ==
    ASSUME NEW seq \in Seq(SessionRow), NEW i \in 1..Len(seq)
    PROVE  /\ Len(seq) \in Nat /\ DOMAIN seq = 1..Len(seq)
           /\ \A j \in 1..Len(seq) : seq[j] \in SessionRow
           /\ LET closed == [seq EXCEPT ![i].open = FALSE]
              IN  /\ closed \in Seq(SessionRow) /\ Len(closed) = Len(seq)
                  /\ \A j \in 1..Len(seq) : closed[j] = IF j = i THEN [seq[i] EXCEPT !.open = FALSE]
                                                        ELSE seq[j]
           /\ LET grown == Append(seq, [open |-> TRUE, known |-> TRUE])
              IN  /\ grown \in Seq(SessionRow) /\ Len(grown) = Len(seq) + 1
                  /\ \A j \in 1..Len(seq) : grown[j] = seq[j]
                  /\ grown[Len(seq) + 1] = [open |-> TRUE, known |-> TRUE]
           /\ LET old == [s \in DOMAIN seq |-> [seq[s] EXCEPT !.known = FALSE]]
              IN  /\ old \in Seq(SessionRow) /\ Len(old) = Len(seq)
                  /\ \A j \in 1..Len(seq) : old[j] = [seq[j] EXCEPT !.known = FALSE]
<1>1. /\ Len(seq) \in Nat /\ DOMAIN seq = 1..Len(seq)
      /\ \A j \in 1..Len(seq) : seq[j] \in SessionRow
  OBVIOUS
<1>2. LET closed == [seq EXCEPT ![i].open = FALSE]
      IN  /\ closed \in Seq(SessionRow) /\ Len(closed) = Len(seq)
          /\ \A j \in 1..Len(seq) : closed[j] = IF j = i THEN [seq[i] EXCEPT !.open = FALSE]
                                                ELSE seq[j]
  <2>1. [seq[i] EXCEPT !.open = FALSE] \in SessionRow
    BY <1>1 DEF SessionRow
  <2> QED
    BY <1>1, <2>1, ExceptSeq
<1>3. LET grown == Append(seq, [open |-> TRUE, known |-> TRUE])
      IN  /\ grown \in Seq(SessionRow) /\ Len(grown) = Len(seq) + 1
          /\ \A j \in 1..Len(seq) : grown[j] = seq[j]
          /\ grown[Len(seq) + 1] = [open |-> TRUE, known |-> TRUE]
  <2>1. [open |-> TRUE, known |-> TRUE] \in SessionRow
    BY DEF SessionRow
  <2> QED
    BY <1>1, <2>1
<1>4. LET old == [s \in DOMAIN seq |-> [seq[s] EXCEPT !.known = FALSE]]
      IN  /\ old \in Seq(SessionRow) /\ Len(old) = Len(seq)
          /\ \A j \in 1..Len(seq) : old[j] = [seq[j] EXCEPT !.known = FALSE]
  <2> DEFINE old == [s \in DOMAIN seq |-> [seq[s] EXCEPT !.known = FALSE]]
  <2>1. \A j \in 1..Len(seq) : [seq[j] EXCEPT !.known = FALSE] \in SessionRow
    BY <1>1 DEF SessionRow
  <2>2. old \in [1..Len(seq) -> SessionRow] /\ DOMAIN old = 1..Len(seq)
    BY <1>1, <2>1
  <2>3. old \in Seq(SessionRow)
    BY <1>1, <2>2, SeqDef
  <2>4. Len(old) = Len(seq)
    BY <1>1, <2>2, <2>3, LenProperties
  <2> QED
    BY <1>1, <2>3, <2>4
<1> QED
  BY <1>1, <1>2, <1>3, <1>4

-----------------------------------------------------------------------------
\* A client that has dialled nothing is well formed.
LEMMA ChannelTypeInit == ChannelInit => ChannelTypeOK
  BY ChannelAssumption DEF ChannelInit, ChannelTypeOK

\* A caller's state stays one, whatever becomes of its call, and after more dials too.
LEMMA StatesStay ==
    ASSUME ChannelTypeOK, NEW c \in Callers
    PROVE  /\ call \in [Callers -> StateOn(Len(sessions))]
           /\ call[c] \in StateOn(Len(sessions))
           /\ \A state \in StateOn(Len(sessions)) :
                /\ AfterFailure(c, state) \in StateOn(Len(sessions))
                /\ [state EXCEPT !.step = "calling", !.on = current] \in StateOn(Len(sessions))
  BY DEF ChannelTypeOK, StateOn, CallSteps, AfterFailure

\* Every step of a caller, the lock or the shop keeps the client well formed.
LEMMA ChannelTypeStep == ChannelTypeOK /\ [ChannelNext]_channelVars => ChannelTypeOK'
<1> SUFFICES ASSUME ChannelTypeOK, [ChannelNext]_channelVars PROVE ChannelTypeOK'
  OBVIOUS
<1> DEFINE n == Len(sessions)
<1>0. /\ sessions \in Seq(SessionRow) /\ n \in Nat /\ current \in 1..n
      /\ call \in [Callers -> StateOn(n)] /\ disturbed \in [Callers -> BOOLEAN]
      /\ lock \in Callers \cup {None} /\ up \in BOOLEAN
  BY DEF ChannelTypeOK, SessionRow, StateOn, CallSteps
<1>s. \A c \in Callers : call[c] \in StateOn(n)
  BY <1>0
<1>g. (/\ sessions' \in Seq(SessionRow) /\ current' \in 1..Len(sessions')
       /\ lock' \in Callers \cup {None}
       /\ call' \in [Callers -> StateOn(Len(sessions'))]
       /\ up' \in BOOLEAN /\ disturbed' \in [Callers -> BOOLEAN])
      => ChannelTypeOK'
  BY DEF ChannelTypeOK, SessionRow, StateOn, CallSteps
<1>1. CASE UNCHANGED channelVars
  BY <1>0, <1>g, <1>1 DEF channelVars
<1>2. CASE ShopRestarts
  BY <1>0, <1>g, <1>2, SessionsKeepShape DEF ShopRestarts, Forgotten
<1>3. CASE IdlesOut
  BY <1>0, <1>g, <1>3, SessionsKeepShape DEF IdlesOut, Forgotten
<1>4. CASE Close
  BY <1>0, <1>g, <1>4, SessionsKeepShape DEF Close
<1>5. ASSUME NEW c \in Callers, NEW state \in StateOn(n), Calls(c, state)
      PROVE  call' \in [Callers -> StateOn(n)]
  BY <1>0, <1>5, StatesStay DEF Calls, Moves
<1>6. ASSUME NEW c \in Callers, Begin(c)
      PROVE  call' \in [Callers -> StateOn(n)] /\ disturbed' \in [Callers -> BOOLEAN]
  <2>1. [call[c] EXCEPT !.try = 1, !.late = FALSE, !.waited = FALSE] \in StateOn(n)
    BY <1>s DEF StateOn
  <2> QED
    BY <1>0, <1>5, <1>6, <2>1 DEF Begin
<1>7. ASSUME NEW c \in Callers, Answered(c) \/ Fails(c)
      PROVE  call' \in [Callers -> StateOn(n)] /\ disturbed' \in [Callers -> BOOLEAN]
  <2>1. [call[c] EXCEPT !.step = "answered"] \in StateOn(n) /\ AfterFailure(c, call[c]) \in StateOn(n)
    BY <1>0, StatesStay DEF StateOn, CallSteps
  <2> QED
    BY <1>0, <1>7, <2>1 DEF Answered, Fails, Moves
<1>8. ASSUME NEW c \in Callers, Drops(c)
      PROVE  /\ sessions' \in Seq(SessionRow) /\ Len(sessions') = n
             /\ call' \in [Callers -> StateOn(n)]
  <2>1. sessions' \in Seq(SessionRow) /\ Len(sessions') = n
    BY <1>0, <1>8, SessionsKeepShape DEF Drops
  <2>2. \A d \in Callers :
           /\ [call[d] EXCEPT !.waited = TRUE] \in StateOn(n)
           /\ \A b \in BOOLEAN :
                [call[d] EXCEPT !.step = "dialling", !.waited = @ \/ b] \in StateOn(n)
    BY <1>s DEF StateOn, CallSteps
  <2> QED
    BY <1>0, <1>8, <2>1, <2>2 DEF Drops
<1>9. ASSUME NEW c \in Callers, Dials(c)
      PROVE  /\ sessions' \in Seq(SessionRow) /\ Len(sessions') = n + 1
             /\ call' \in [Callers -> StateOn(n + 1)]
  <2>1. sessions' \in Seq(SessionRow) /\ Len(sessions') = n + 1
    BY <1>0, <1>9, SessionsKeepShape DEF Dials
  <2>2. [call[c] EXCEPT !.step = "retry"] \in StateOn(n)
    BY <1>s DEF StateOn, CallSteps
  <2>3. call' \in [Callers -> StateOn(n)]
    BY <1>0, <1>9, <2>2 DEF Dials, Moves
  <2>4. StateOn(n) \subseteq StateOn(n + 1)
    BY <1>0 DEF StateOn
  <2> QED
    BY <2>1, <2>3, <2>4
<1>10. ASSUME NEW c \in Callers, DialFails(c)
       PROVE  call' \in [Callers -> StateOn(n)] /\ disturbed' \in [Callers -> BOOLEAN]
  BY <1>0, <1>10 DEF DialFails, Moves, StateOn, CallSteps
<1>11. ASSUME NEW c \in Callers, Retries(c)
       PROVE  call' \in [Callers -> StateOn(n)]
  <2>1. [call[c] EXCEPT !.try = 2] \in StateOn(n)
    BY <1>s DEF StateOn
  <2> QED
    BY <1>5, <1>11, <2>1 DEF Retries
<1>12. ASSUME NEW c \in Callers, Expires(c)
       PROVE  call' \in [Callers -> StateOn(n)] /\ disturbed' \in [Callers -> BOOLEAN]
  BY <1>0, <1>12 DEF Expires, Moves, StateOn
<1>13. ASSUME NEW c \in Callers, Begin(c) \/ Answered(c) \/ Fails(c) \/ Retries(c) \/ Expires(c)
       PROVE  ChannelTypeOK'
  BY <1>0, <1>g, <1>6, <1>7, <1>11, <1>12, <1>13
     DEF Begin, Answered, Fails, Retries, Expires
<1>14. ASSUME NEW c \in Callers, Drops(c) PROVE ChannelTypeOK'
  BY <1>0, <1>g, <1>8, <1>14 DEF Drops
<1>15. ASSUME NEW c \in Callers, Dials(c) PROVE ChannelTypeOK'
  BY <1>0, <1>g, <1>9, <1>15 DEF Dials
<1>16. ASSUME NEW c \in Callers, DialFails(c) PROVE ChannelTypeOK'
  BY <1>0, <1>g, <1>10, <1>16 DEF DialFails
<1> QED
  BY <1>1, <1>2, <1>3, <1>4, <1>13, <1>14, <1>15, <1>16 DEF ChannelNext

\* The type invariant, for any number of callers.
THEOREM ChannelTypeCorrect == ChannelSpec => []ChannelTypeOK
<1> QED
  BY ChannelTypeInit, ChannelTypeStep, PTL DEF ChannelSpec

-----------------------------------------------------------------------------
\* The lock is held by whoever dials, and while it is held no session is open.
LockInv ==
    /\ \A c \in Callers : call[c].step = "dialling" <=> lock = c
    /\ \A s \in 1..Len(sessions) : sessions[s].open => s = current /\ lock = None

\* Nobody holds the lock of a new client.
LEMMA LockInit == ChannelInit => LockInv
  BY ChannelAssumption DEF ChannelInit, LockInv

\* What an action that leaves sessions and lock alone may do to a call.
LEMMA CallMoves ==
    ASSUME ChannelTypeOK, LockInv, NEW c \in Callers, NEW state,
           Moves(c, state), state.step # "dialling", call[c].step # "dialling",
           UNCHANGED <<sessions, current, lock>>
    PROVE  LockInv'
<1>1. DOMAIN call = Callers
  BY DEF ChannelTypeOK
<1>2. \A d \in Callers : call'[d] = IF d = c THEN state ELSE call[d]
  BY <1>1 DEF Moves
<1>3. lock # c
  BY DEF LockInv
<1> QED
  BY <1>2, <1>3 DEF LockInv

\* One caller at a time reconnects, and only it opens a session.
LEMMA LockStep == ChannelTypeOK /\ LockInv /\ [ChannelNext]_channelVars => LockInv'
<1> SUFFICES ASSUME ChannelTypeOK, LockInv, [ChannelNext]_channelVars PROVE LockInv'
  OBVIOUS
<1>0. /\ sessions \in Seq(SessionRow) /\ current \in 1..Len(sessions) /\ Len(sessions) \in Nat
      /\ \A c \in Callers : call[c] \in StateOn(Len(sessions))
      /\ DOMAIN call = Callers
      /\ None \notin Callers
  <2>1. sessions \in Seq(SessionRow) /\ current \in 1..Len(sessions) /\ DOMAIN call = Callers
    BY DEF ChannelTypeOK, SessionRow
  <2>2. Len(sessions) \in Nat
    BY <2>1, LenProperties
  <2> QED
    BY <2>1, <2>2, StatesStay, ChannelAssumption
<1>1. CASE UNCHANGED channelVars
  BY <1>1 DEF channelVars, LockInv
<1>2. CASE ShopRestarts \/ IdlesOut
  <2>1. /\ Len(sessions') = Len(sessions)
        /\ \A s \in 1..Len(sessions) : sessions'[s].open = sessions[s].open
    <3>1. sessions' = [s \in DOMAIN sessions |-> [sessions[s] EXCEPT !.known = FALSE]]
      BY <1>2 DEF ShopRestarts, IdlesOut, Forgotten
    <3>2. \A s \in 1..Len(sessions) : [sessions[s] EXCEPT !.known = FALSE].open = sessions[s].open
      BY <1>0 DEF SessionRow
    <3> QED
      BY <1>0, <3>1, <3>2, SessionsKeepShape
  <2> QED
    BY <1>0, <1>2, <2>1 DEF LockInv, ShopRestarts, IdlesOut
<1>3. CASE Close
  <2>1. /\ Len(sessions') = Len(sessions)
        /\ \A s \in 1..Len(sessions) : sessions'[s].open => sessions[s].open
    <3>1. sessions' = [sessions EXCEPT ![current].open = FALSE]
      BY <1>3 DEF Close
    <3>2. [sessions[current] EXCEPT !.open = FALSE].open = FALSE
      BY <1>0 DEF SessionRow
    <3> QED
      BY <1>0, <3>1, <3>2, SessionsKeepShape
  <2> QED
    BY <1>0, <1>3, <2>1 DEF LockInv, Close
<1>4. ASSUME NEW c \in Callers, NEW state \in StateOn(Len(sessions)),
             state.step # "dialling", call[c].step # "dialling",
             Calls(c, state), UNCHANGED <<sessions, current, lock>>
      PROVE  LockInv'
  <2>1. AfterFailure(c, state).step # "dialling" /\ [state EXCEPT !.step = "calling", !.on = current].step # "dialling"
    BY <1>4 DEF AfterFailure, StateOn
  <2> QED
    BY <1>4, <2>1, CallMoves DEF Calls
<1>5. ASSUME NEW c \in Callers, Begin(c) PROVE LockInv'
  <2> DEFINE fresh == [call[c] EXCEPT !.try = 1, !.late = FALSE, !.waited = FALSE]
  <2>1. fresh \in StateOn(Len(sessions)) /\ fresh.step # "dialling" /\ call[c].step # "dialling"
    BY <1>0, <1>5 DEF Begin, UnderWay, StateOn
  <2> QED
    BY <1>4, <1>5, <2>1 DEF Begin
<1>6. ASSUME NEW c \in Callers, Answered(c) \/ Fails(c) PROVE LockInv'
  <2>1. /\ [call[c] EXCEPT !.step = "answered"].step # "dialling"
        /\ AfterFailure(c, call[c]).step # "dialling" /\ call[c].step # "dialling"
    BY <1>0, <1>6 DEF Answered, Fails, AfterFailure, StateOn
  <2> QED
    BY <1>6, <2>1, CallMoves DEF Answered, Fails
<1>7. ASSUME NEW c \in Callers, Retries(c) PROVE LockInv'
  <2> DEFINE again == [call[c] EXCEPT !.try = 2]
  <2>1. again \in StateOn(Len(sessions)) /\ again.step # "dialling" /\ call[c].step # "dialling"
    BY <1>0, <1>7 DEF Retries, StateOn
  <2> QED
    BY <1>4, <1>7, <2>1 DEF Retries
<1>8. ASSUME NEW c \in Callers, Expires(c) PROVE LockInv'
  BY <1>0, <1>8 DEF Expires, Moves, LockInv, StateOn
<1>9. ASSUME NEW c \in Callers, Drops(c) PROVE LockInv'
  <2>1. /\ Len(sessions') = Len(sessions)
        /\ \A s \in 1..Len(sessions) : s # current => sessions'[s] = sessions[s]
        /\ ~sessions'[current].open
    <3>1. sessions' = [sessions EXCEPT ![current].open = FALSE]
      BY <1>9 DEF Drops
    <3>2. [sessions[current] EXCEPT !.open = FALSE].open = FALSE
      BY <1>0 DEF SessionRow
    <3> QED
      BY <1>0, <3>1, <3>2, SessionsKeepShape
  <2>2. lock = None /\ lock' = c /\ current' = current
    BY <1>9 DEF Drops, Free
  <2>3. \A d \in Callers : call'[d].step = IF d = c THEN "dialling" ELSE call[d].step
    BY <1>0, <1>9 DEF Drops, StateOn
  <2>4. \A d \in Callers : call'[d].step = "dialling" <=> lock' = d
    BY <1>0, <2>2, <2>3 DEF LockInv
  <2>5. \A s \in 1..Len(sessions') : ~sessions'[s].open
    BY <1>0, <2>1, <2>2 DEF LockInv
  <2> QED
    BY <2>4, <2>5 DEF LockInv
<1>10. ASSUME NEW c \in Callers, Dials(c) PROVE LockInv'
  <2>1. /\ Len(sessions') = Len(sessions) + 1
        /\ \A s \in 1..Len(sessions) : sessions'[s] = sessions[s]
    BY <1>0, <1>10, SessionsKeepShape DEF Dials
  <2>2. lock = c /\ lock' = None /\ current' = Len(sessions) + 1
    BY <1>10 DEF Dials, LockInv
  <2>3. \A s \in 1..Len(sessions) : ~sessions'[s].open
    BY <1>0, <2>1, <2>2 DEF LockInv
  <2>4. \A d \in Callers : call'[d].step # "dialling"
    BY <1>0, <1>10, <2>2 DEF Dials, Moves, LockInv, StateOn
  <2> QED
    BY <1>0, <2>1, <2>2, <2>3, <2>4 DEF LockInv
<1>11. ASSUME NEW c \in Callers, DialFails(c) PROVE LockInv'
  <2>1. lock = c /\ lock' = None
    BY <1>11 DEF DialFails, LockInv
  <2>2. \A d \in Callers : call'[d].step # "dialling"
    BY <1>0, <1>11, <2>1 DEF DialFails, Moves, LockInv, StateOn
  <2> QED
    BY <1>0, <1>11, <2>1, <2>2 DEF DialFails, LockInv
<1> QED
  BY <1>1, <1>2, <1>3, <1>5, <1>6, <1>7, <1>8, <1>9, <1>10, <1>11 DEF ChannelNext

\* No reconnection leaks a session: none but the one held is open, and none is while one
\* is being dialled.
THEOREM NoSessionIsLeaked == ChannelSpec => []OneOpenSession
<1>1. ChannelTypeOK /\ LockInv => OneOpenSession
  BY ChannelAssumption DEF ChannelTypeOK, LockInv, OneOpenSession
<1> QED
  BY ChannelTypeInit, ChannelTypeStep, LockInit, LockStep, <1>1, PTL DEF ChannelSpec

-----------------------------------------------------------------------------
\* A call under way that nothing came in between of is the only one, with time left and a
\* shop that answers; it reconnects at most once, and onto a session both sides know.
Usable(s) == sessions[s].open /\ sessions[s].known
Alone(c) ==
    /\ call[c].step = "failed" => disturbed[c]
    /\ UnderWay(c) /\ ~disturbed[c] =>
        /\ up /\ ~call[c].late /\ ~call[c].waited
        /\ \A o \in AllBut(c) : ~UnderWay(o)
        /\ call[c].step \in {"reconnect", "dialling"} => call[c].try = 1
        /\ call[c].step = "retry" => Usable(current)
        /\ call[c].step = "calling" /\ call[c].try = 2 => Usable(call[c].on)
AloneInv == \A c \in Callers : Alone(c)

\* A client nobody calls owes nobody an answer.
LEMMA AloneInit == ChannelInit => AloneInv
<1>1. ASSUME ChannelInit, NEW c \in Callers PROVE call[c].step = "idle"
  <2>1. call[c] = [step |-> "idle", try |-> 1, on |-> 1, late |-> FALSE, waited |-> FALSE]
    BY <1>1 DEF ChannelInit
  <2> QED
    BY <2>1
<1>2. (\A c \in Callers : call[c].step = "idle") => AloneInv
  BY DEF AloneInv, Alone, UnderWay
<1> QED
  BY <1>1, <1>2

\* While one call moves, every other call under way counts it as a disturbance.
LEMMA OthersAreDisturbed ==
    ASSUME AloneInv, NEW c \in Callers, UnderWay(c), NEW d \in Callers, d # c,
           call'[d].step = call[d].step, disturbed'[d] = disturbed[d]
    PROVE  Alone(d)'
<1>1. Alone(d) /\ c \in AllBut(d)
  BY DEF AloneInv, AllBut
<1>2. UnderWay(d)' <=> UnderWay(d)
  BY DEF UnderWay
<1> QED
  BY <1>1, <1>2 DEF Alone

\* What becomes of a call that goes back to the session held, or fails on it for the first time.
LEMMA CalledAlone ==
    ASSUME ChannelTypeOK, LockInv, NEW c \in Callers, NEW state \in StateOn(Len(sessions)),
           Calls(c, state), UNCHANGED <<sessions, current, lock, up>>,
           call[c].step # "dialling",
           disturbed' \in [Callers -> BOOLEAN],
           ~disturbed'[c] =>
               /\ up /\ ~state.late /\ ~state.waited
               /\ \A o \in AllBut(c) : ~UnderWay(o)
               /\ state.try = 2 => Usable(current)
    PROVE  Alone(c)'
<1>0. call' = [call EXCEPT ![c] = call'[c]] /\ DOMAIN call = Callers
  BY DEF Calls, Moves, ChannelTypeOK
<1>1. \A o \in AllBut(c) : UnderWay(o)' <=> UnderWay(o)
  BY <1>0 DEF UnderWay, AllBut
<1>2. CASE disturbed'[c]
  BY <1>2 DEF Alone
<1>3. CASE ~disturbed'[c] /\ sessions[current].open
  <2>1. call'[c] = [state EXCEPT !.step = "calling", !.on = current]
    BY <1>0, <1>3 DEF Calls, Moves
  <2>2. /\ call'[c].step = "calling" /\ call'[c].on = current
        /\ call'[c].try = state.try /\ call'[c].late = state.late /\ call'[c].waited = state.waited
    BY <2>1 DEF StateOn
  <2>3. state.try = 2 => Usable(current)'
    BY <1>3 DEF Usable
  <2> QED
    BY <1>1, <1>3, <2>2, <2>3 DEF Alone, Usable
<1>4. CASE ~disturbed'[c] /\ ~sessions[current].open
  <2>1. state.try = 1
    BY <1>4 DEF Usable, StateOn
  <2>2. lock = None
    BY <1>4 DEF LockInv, UnderWay, AllBut, ChannelTypeOK
  <2>3. call'[c] = [state EXCEPT !.step = "reconnect", !.waited = FALSE]
    BY <1>0, <1>4, <2>1, <2>2 DEF Calls, Moves, AfterFailure
  <2>4. /\ call'[c].step = "reconnect" /\ call'[c].try = 1
        /\ call'[c].late = state.late /\ ~call'[c].waited
    BY <2>1, <2>3 DEF StateOn
  <2> QED
    BY <1>1, <1>4, <2>4 DEF Alone
<1> QED
  BY <1>2, <1>3, <1>4

\* What a call beside which nothing happened has found stays so until it is answered.
LEMMA AloneStep ==
    ChannelTypeOK /\ LockInv /\ AloneInv /\ [ChannelNext]_channelVars => AloneInv'
<1> SUFFICES ASSUME ChannelTypeOK, LockInv, AloneInv, [ChannelNext]_channelVars
             PROVE  AloneInv'
  OBVIOUS
<1> DEFINE n == Len(sessions)
<1>0. /\ sessions \in Seq(SessionRow) /\ current \in 1..n /\ n \in Nat
      /\ \A c \in Callers : call[c] \in StateOn(n)
      /\ DOMAIN call = Callers /\ disturbed \in [Callers -> BOOLEAN]
      /\ None \notin Callers
  <2>1. sessions \in Seq(SessionRow) /\ current \in 1..n /\ DOMAIN call = Callers
        /\ disturbed \in [Callers -> BOOLEAN]
    BY DEF ChannelTypeOK, SessionRow
  <2>2. n \in Nat
    BY <2>1, LenProperties
  <2> QED
    BY <2>1, <2>2, StatesStay, ChannelAssumption
<1>1. CASE UNCHANGED channelVars
  BY <1>1 DEF channelVars, AloneInv, Alone, UnderWay, Usable
<1>2. CASE ShopRestarts \/ Close
  BY <1>2 DEF ShopRestarts, Close, AloneInv, Alone
<1>3. CASE IdlesOut
  BY <1>3 DEF IdlesOut, AloneInv, Alone, UnderWay
<1>4. ASSUME NEW c \in Callers, Begin(c) PROVE AloneInv'
  <2> DEFINE fresh == [call[c] EXCEPT !.try = 1, !.late = FALSE, !.waited = FALSE]
  <2>1. fresh \in StateOn(n) /\ fresh.try = 1 /\ ~fresh.late /\ ~fresh.waited
    BY <1>0 DEF StateOn
  <2>2. disturbed' \in [Callers -> BOOLEAN] /\ (~disturbed'[c] => up /\ \A o \in AllBut(c) : ~UnderWay(o))
    BY <1>4 DEF Begin, ChannelTypeOK
  <2>3. Calls(c, fresh) /\ call[c].step # "dialling" /\ UNCHANGED <<sessions, current, lock, up>>
    BY <1>4 DEF Begin, UnderWay
  <2>4. Alone(c)'
    <3> HIDE DEF fresh
    <3>1. fresh.try # 2
      BY <2>1
    <3> QED
      BY <2>1, <2>2, <2>3, <3>1, CalledAlone
  <2>5. \A d \in AllBut(c) : disturbed'[d]
    BY <1>4 DEF Begin, AllBut
  <2> QED
    BY <2>4, <2>5 DEF AloneInv, Alone, AllBut
<1>5. ASSUME NEW c \in Callers, Answered(c) PROVE AloneInv'
  <2>1. /\ call'[c].step = "answered" /\ UnderWay(c)
        /\ \A d \in Callers : d # c => call'[d] = call[d] /\ disturbed'[d] = disturbed[d]
    BY <1>0, <1>5 DEF Answered, Moves, UnderWay, StateOn
  <2>2. Alone(c)'
    BY <2>1 DEF Alone, UnderWay
  <2> QED
    BY <2>1, <2>2, OthersAreDisturbed DEF AloneInv
<1>6. ASSUME NEW c \in Callers, Fails(c) PROVE AloneInv'
  <2>1. /\ UnderWay(c) /\ call'[c] = AfterFailure(c, call[c])
        /\ \A d \in Callers : d # c => call'[d] = call[d] /\ disturbed'[d] = disturbed[d]
        /\ disturbed'[c] = (disturbed[c] \/ (call[c].try = 2 /\ ~Doomed(c)))
    BY <1>0, <1>6 DEF Fails, Moves, UnderWay
  <2>2. ASSUME ~disturbed'[c] PROVE Alone(c)'
    <3>1. /\ up /\ ~call[c].late /\ ~call[c].waited
          /\ \A o \in AllBut(c) : ~UnderWay(o)
          /\ call[c].try = 2 => Usable(call[c].on)
      BY <1>6, <2>1, <2>2 DEF AloneInv, Alone, Fails
    <3>2. call[c].try = 1
      <4>1. call[c].try # 2
        BY <2>1, <2>2, <3>1 DEF Usable, Doomed
      <4> QED
        BY <1>0, <4>1 DEF StateOn
    <3>3. lock = None
      BY <1>6, <3>1 DEF LockInv, UnderWay, AllBut, ChannelTypeOK, Fails
    <3>4. call'[c] = [call[c] EXCEPT !.step = "reconnect", !.waited = FALSE]
      BY <2>1, <3>2, <3>3 DEF AfterFailure
    <3>5. /\ call'[c].step = "reconnect" /\ call'[c].try = 1
          /\ ~call'[c].late /\ ~call'[c].waited
      BY <1>0, <3>1, <3>2, <3>4 DEF StateOn
    <3>6. up' /\ \A o \in AllBut(c) : ~UnderWay(o)'
      BY <1>6, <2>1, <3>1 DEF Fails, UnderWay, AllBut
    <3> QED
      BY <3>5, <3>6 DEF Alone
  <2>3. Alone(c)'
    BY <2>2 DEF Alone
  <2> QED
    BY <2>1, <2>3, OthersAreDisturbed DEF AloneInv
<1>7. ASSUME NEW c \in Callers, Drops(c) PROVE AloneInv'
  <2>1. /\ UnderWay(c)
        /\ \A d \in Callers : d # c => call'[d].step = call[d].step /\ disturbed'[d] = disturbed[d]
    BY <1>0, <1>7 DEF Drops, UnderWay, StateOn
  <2>2. ASSUME ~disturbed'[c] PROVE Alone(c)'
    <3>1. /\ up /\ ~call[c].late /\ ~call[c].waited /\ call[c].try = 1
          /\ \A o \in AllBut(c) : ~UnderWay(o)
      BY <1>7, <2>1, <2>2 DEF AloneInv, Alone, Drops
    <3>2. \A o \in AllBut(c) : call[o].step # "calling"
      BY <3>1 DEF UnderWay
    <3>3. call'[c] = [call[c] EXCEPT !.step = "dialling", !.waited = FALSE]
      BY <1>0, <1>7, <3>1, <3>2 DEF Drops, StateOn
    <3>4. /\ call'[c].step = "dialling" /\ call'[c].try = 1
          /\ ~call'[c].late /\ ~call'[c].waited
      BY <1>0, <3>1, <3>3 DEF StateOn
    <3>5. up' /\ \A o \in AllBut(c) : ~UnderWay(o)'
      BY <1>7, <2>1, <3>1 DEF Drops, UnderWay, AllBut
    <3> QED
      BY <3>4, <3>5 DEF Alone
  <2>3. Alone(c)'
    BY <1>0, <1>7, <2>2 DEF Drops, Alone
  <2> QED
    BY <2>1, <2>3, OthersAreDisturbed DEF AloneInv
<1>8. ASSUME NEW c \in Callers, Dials(c) PROVE AloneInv'
  <2>1. /\ UnderWay(c) /\ call'[c] = [call[c] EXCEPT !.step = "retry"]
        /\ \A d \in Callers : d # c => call'[d] = call[d] /\ disturbed'[d] = disturbed[d]
    BY <1>0, <1>8 DEF Dials, Moves, UnderWay
  <2>2. Usable(current)'
    BY <1>0, <1>8, SessionsKeepShape DEF Dials, Usable
  <2>3. ASSUME ~disturbed'[c] PROVE Alone(c)'
    <3>1. /\ up /\ ~call[c].late /\ ~call[c].waited
          /\ \A o \in AllBut(c) : ~UnderWay(o)
      BY <1>8, <2>1, <2>3 DEF AloneInv, Alone, Dials
    <3>2. call'[c].step = "retry" /\ ~call'[c].late /\ ~call'[c].waited
      BY <1>0, <2>1, <3>1 DEF StateOn
    <3>3. up' /\ \A o \in AllBut(c) : ~UnderWay(o)'
      BY <1>8, <2>1, <3>1 DEF Dials, UnderWay, AllBut
    <3> QED
      BY <2>2, <3>2, <3>3 DEF Alone
  <2>4. Alone(c)'
    BY <1>0, <1>8, <2>3 DEF Dials, Alone
  <2> QED
    BY <2>1, <2>4, OthersAreDisturbed DEF AloneInv
<1>9. ASSUME NEW c \in Callers, DialFails(c) PROVE AloneInv'
  <2>1. /\ UnderWay(c)
        /\ disturbed'[c] = (disturbed[c] \/ (up /\ ~call[c].waited))
        /\ \A d \in Callers : d # c => call'[d] = call[d] /\ disturbed'[d] = disturbed[d]
    BY <1>0, <1>9 DEF DialFails, Moves, UnderWay
  <2>2. ~disturbed[c] => up /\ ~call[c].waited
    BY <2>1 DEF AloneInv, Alone
  <2>3. disturbed'[c]
    BY <1>0, <2>1, <2>2
  <2> QED
    BY <2>1, <2>3, OthersAreDisturbed DEF AloneInv, Alone
<1>10. ASSUME NEW c \in Callers, Retries(c) PROVE AloneInv'
  <2> DEFINE again == [call[c] EXCEPT !.try = 2]
  <2>1. /\ again \in StateOn(n) /\ again.late = call[c].late
        /\ again.waited = call[c].waited
    BY <1>0 DEF StateOn
  <2>2. ~disturbed[c] =>
          /\ up /\ ~call[c].late /\ ~call[c].waited /\ Usable(current)
          /\ \A o \in AllBut(c) : ~UnderWay(o)
    BY <1>10 DEF Retries, AloneInv, Alone, UnderWay
  <2>3. /\ Calls(c, again) /\ call[c].step # "dialling"
        /\ UNCHANGED <<sessions, current, lock, up, disturbed>> /\ UnderWay(c)
    BY <1>10 DEF Retries, UnderWay
  <2>4. Alone(c)'
    BY <1>0, <2>1, <2>2, <2>3, CalledAlone
  <2>5. \A d \in Callers : d # c => call'[d] = call[d] /\ disturbed'[d] = disturbed[d]
    BY <1>0, <2>3 DEF Calls, Moves
  <2> QED
    BY <2>3, <2>4, <2>5, OthersAreDisturbed DEF AloneInv
<1>11. ASSUME NEW c \in Callers, Expires(c) PROVE AloneInv'
  <2>1. /\ UnderWay(c) /\ disturbed'[c]
        /\ \A d \in Callers : d # c => call'[d] = call[d] /\ disturbed'[d] = disturbed[d]
    BY <1>0, <1>11 DEF Expires, Moves
  <2> QED
    BY <2>1, OthersAreDisturbed DEF AloneInv, Alone
<1> QED
  BY <1>1, <1>2, <1>3, <1>4, <1>5, <1>6, <1>7, <1>8, <1>9, <1>10, <1>11 DEF ChannelNext

\* A call nothing came in between of is answered, whatever earlier calls, restarts of the
\* shop and failed dials left behind, and though the network failed its first try.
THEOREM AloneCallIsServed == ChannelSpec => []AloneIsServed
<1>1. AloneInv => AloneIsServed
  BY DEF AloneInv, Alone, AloneIsServed
<1> QED
  BY ChannelTypeInit, ChannelTypeStep, LockInit, LockStep, AloneInit, AloneStep, <1>1, PTL DEF ChannelSpec

-----------------------------------------------------------------------------
(***************************************************************************)
(* The chain of models (module ModelChain): a call that got an answer of use  *)
(* returns one, and a model that said its allowance is spent is left alone. *)
(***************************************************************************)
\* The rows a call, and what it has been told, range over.
AskRow(c) ==
    [step : {"idle", "asking", "pausing", "answered", "failed"}, list : SUBSET DOMAIN Chain,
     tries : 0..MaxAttempts, timer : (0..ProviderTimeout) \cup (0..MaxWait),
     left : 0..Patience[c], held : Outcomes \cup {Nothing}, result : Outcomes \cup {Nothing}]
ToldRow == [spent : SUBSET Models, allSpent : BOOLEAN, got : SUBSET {"calls", "shape", "nothing"}]

\* A call in the chain has a model to ask, and a try left when it pauses; one not yet made
\* has been told nothing.
UnderWayWell(c) ==
    /\ Waiting(c) => ask[c].list # {}
    /\ Pausing(c) => ask[c].tries < MaxAttempts
    /\ ask[c].step = "idle" => ask[c].held = Nothing /\ told[c].spent = {} /\ told[c].got = {}

\* A shaped call goes on only as long as it got nothing it can carry, and what it holds from
\* a first ask is an answer without the shape.
Gathered(c) ==
    KindOf[c] = "shaped" =>
        /\ ask[c].held \in {"prose", "empty", Nothing}
        /\ Waiting(c) => /\ "calls" \notin told[c].got /\ "shape" \notin told[c].got
                         /\ ask[c].held = Nothing => told[c].got = {}
        /\ (Ended(c) /\ told[c].got # {}) =>
                /\ ask[c].step = "answered"
                /\ "calls" \in told[c].got => ask[c].result = "calls"
                /\ "shape" \in told[c].got => ask[c].result \in {"calls", "shape"}

\* A model that told a call its allowance was spent stays benched for longer than the call
\* has left, so that the call meets it again only when it finds every model benched.
Spared(c) ==
    Waiting(c) =>
        /\ \A m \in told[c].spent : bench[m] > ask[c].left
        /\ told[c].allSpent \/ \A i \in ask[c].list : Chain[i] \notin told[c].spent

\* The inductive invariant, call by call.
Sound(c) == ask[c] \in AskRow(c) /\ told[c] \in ToldRow
            /\ UnderWayWell(c) /\ Gathered(c) /\ Spared(c)
ChainInv ==
    /\ bench \in [Models -> 0..Cooldown] /\ DOMAIN ask = Asks /\ DOMAIN told = Asks
    /\ \A c \in Asks : Sound(c)

\* Among places there is a first one.
LEMMA BelowIsLess ==
    ASSUME NEW x \in Nat, NEW y \in Nat, y < x
    PROVE  <<y, x>> \in OpToRel(<, Nat)
  BY DEF OpToRel

\* A set of places that is not empty has its first place among them.
LEMMA FirstPlace ==
    ASSUME NEW places, places \subseteq Nat, places # {}
    PROVE  Min(places) \in places
<1>1. \E x \in places : \A y \in places : ~(<<y, x>> \in OpToRel(<, Nat))
  BY NatLessThanWellFounded, WFMin, Zenon
<1>2. PICK x \in places : \A y \in places : ~(<<y, x>> \in OpToRel(<, Nat))
  BY <1>1
<1>3. \A y \in places : ~(y < x)
  BY <1>2, BelowIsLess
<1>4. \A y \in places : x <= y
  BY <1>3
<1> QED
  BY <1>4 DEF Min

\* What the assumptions on the chain and its budgets come to.
LEMMA ChainFacts ==
    /\ DOMAIN Chain # {} /\ DOMAIN Chain \subseteq Nat
    /\ \A i \in DOMAIN Chain : Chain[i] \in Models
    /\ \A m \in Models : \E i \in DOMAIN Chain : Chain[i] = m
    /\ \A i, j \in DOMAIN Chain : Chain[i] = Chain[j] => i = j
    /\ ProviderTimeout \in Nat /\ MaxWait \in Nat /\ Cooldown \in Nat /\ MaxAttempts \in Nat
    /\ ProviderTimeout > 0 /\ MaxWait > 0 /\ Cooldown > 0 /\ MaxAttempts > 0
    /\ \A c \in Asks : Patience[c] \in Nat /\ Patience[c] < Cooldown
<1>1. Chain \in Seq(Range(Chain)) /\ Chain # <<>>
  BY ChainAssumption
<1>2. DOMAIN Chain # {} /\ DOMAIN Chain \subseteq Nat
  BY <1>1
<1> QED
  BY <1>2, ChainAssumption, BenchAssumption DEF Models, Range, IsInjective

\* Unless every model is benched, none of those to call is.
LEMMA CallableFacts ==
    ASSUME bench \in [Models -> 0..Cooldown]
    PROVE  /\ Callable \subseteq DOMAIN Chain /\ Callable # {}
           /\ (\A m \in Models : bench[m] > 0) \/ \A i \in Callable : bench[Chain[i]] = 0
<1> DEFINE ready == {i \in DOMAIN Chain : bench[Chain[i]] = 0}
<1>1. CASE ready = {}
  <2>1. \A i \in DOMAIN Chain : bench[Chain[i]] # 0
    BY <1>1
  <2>2. \A m \in Models : bench[m] > 0
    BY <2>1, ChainFacts
  <2> QED
    BY <1>1, <2>2, ChainFacts DEF Callable
<1>2. CASE ready # {}
  BY <1>2 DEF Callable
<1> QED
  BY <1>1, <1>2

-----------------------------------------------------------------------------
\* A step of one call's leaves what is kept of the others alone.
StepOf(c) ==
    /\ DOMAIN ask' = Asks /\ DOMAIN told' = Asks
    /\ \A d \in Asks : d # c => ask'[d] = ask[d] /\ told'[d] = told[d]

\* What one call does leaves every other as sound as it was, the bench only growing longer.
LEMMA OthersStaySound ==
    ASSUME ChainInv, NEW c \in Asks, StepOf(c), bench' \in [Models -> 0..Cooldown],
           \A m \in Models : bench'[m] >= bench[m], Sound(c)'
    PROVE  ChainInv'
<1>2. ASSUME NEW d \in Asks, d # c PROVE Sound(d)'
  <2>1. ask'[d] = ask[d] /\ told'[d] = told[d] /\ Sound(d)
    BY <1>2 DEF ChainInv, StepOf
  <2>2. ask[d] \in AskRow(d)' /\ told[d] \in ToldRow'
    BY <2>1 DEF Sound, AskRow, ToldRow, Models
  <2>3. UnderWayWell(d)' /\ Gathered(d)'
    BY <2>1 DEF Sound, UnderWayWell, Gathered, Waiting, Asking, Pausing, Ended
  <2>4. ASSUME Waiting(d), NEW m \in told[d].spent PROVE bench'[m] > ask[d].left
    <3>1. ask[d].left \in Nat /\ m \in Models /\ bench[m] > ask[d].left
      BY <2>1, <2>4, ChainFacts DEF Sound, Spared, AskRow, ToldRow
    <3> QED
      BY <3>1, ChainFacts DEF ChainInv
  <2>5. Spared(d)'
    BY <2>1, <2>4 DEF Sound, Spared, Waiting, Asking, Pausing
  <2> QED
    BY <2>1, <2>2, <2>3, <2>5 DEF Sound
<1> QED
  BY <1>2 DEF ChainInv, StepOf

\* The rows a call may take.
LEMMA RowsOfACall ==
    ASSUME NEW c \in Asks, NEW row \in AskRow(c), NEW places \in SUBSET DOMAIN Chain
    PROVE  /\ Aimed(row, places) \in AskRow(c)
           /\ Aimed(row, places).step = "asking" /\ Aimed(row, places).list = places
           /\ Aimed(row, places).left = row.left /\ Aimed(row, places).held = row.held
           /\ Unanswered(row) \in AskRow(c)
           /\ row.held = Nothing => Unanswered(row).step = "failed"
           /\ row.held # Nothing => Unanswered(row).step = "answered"
                                    /\ Unanswered(row).result = row.held
           /\ Unanswered(row).held = row.held
<1> DEFINE timers == (0..ProviderTimeout) \cup (0..MaxWait)
<1>1. ProviderTimeout \in timers /\ 0 \in timers /\ 1 \in 0..MaxAttempts
  BY ChainFacts
<1>2. Aimed(row, places) \in AskRow(c)
  BY <1>1 DEF AskRow, Aimed
<1>3. Unanswered(row) \in AskRow(c)
  <2> HIDE DEF timers
  <2>1. CASE row.held = Nothing
    BY <1>1, <2>1 DEF AskRow, Unanswered, timers
  <2>2. CASE row.held # Nothing
    BY <1>1, <2>2 DEF AskRow, Unanswered, timers
  <2> QED
    BY <2>1, <2>2
<1> QED
  BY <1>2, <1>3 DEF AskRow, Aimed, Unanswered

\* A call that starts down the chain meets no model that told it its allowance was spent.
LEMMA StartsSound ==
    ASSUME ChainInv, NEW c \in Asks, NEW row \in AskRow(c),
           NEW got \in SUBSET {"calls", "shape", "nothing"}, Starts(c, row, got),
           bench' = bench,
           KindOf[c] = "shaped" =>
               /\ row.held \in {"prose", "empty", Nothing}
               /\ "calls" \notin got /\ "shape" \notin got /\ (row.held = Nothing => got = {}),
           \A m \in told[c].spent : bench[m] > row.left
    PROVE  ChainInv'
<1> DEFINE all == \A m \in Models : bench[m] > 0
<1>1. told[c] \in ToldRow /\ bench \in [Models -> 0..Cooldown] /\ DOMAIN ask = Asks /\ DOMAIN told = Asks
  BY DEF ChainInv, Sound
<1>2. /\ ask'[c] = Aimed(row, Callable)
      /\ told'[c] = [told[c] EXCEPT !.got = got, !.allSpent = @ \/ all]
      /\ StepOf(c)
  BY <1>1 DEF Starts, Becomes, Notes, StepOf
<1>3. /\ told'[c] \in ToldRow /\ told'[c].got = got /\ told'[c].spent = told[c].spent
      /\ all => told'[c].allSpent
      /\ told[c].allSpent => told'[c].allSpent
  <2>1. CASE told[c].allSpent \/ all
    <3>1. told'[c] = [told[c] EXCEPT !.got = got, !.allSpent = TRUE]
      BY <1>1, <1>2, <2>1 DEF ToldRow
    <3> QED
      BY <1>1, <3>1 DEF ToldRow
  <2>2. CASE ~(told[c].allSpent \/ all)
    <3>1. told'[c] = [told[c] EXCEPT !.got = got, !.allSpent = FALSE]
      BY <1>1, <1>2, <2>2 DEF ToldRow
    <3> QED
      BY <1>1, <2>2, <3>1 DEF ToldRow
  <2> QED
    BY <2>1, <2>2
<1>4. /\ ask'[c] \in AskRow(c) /\ ask'[c].step = "asking" /\ ask'[c].list = Callable
      /\ ask'[c].left = row.left /\ ask'[c].held = row.held /\ Callable # {}
  BY <1>1, <1>2, RowsOfACall, CallableFacts
<1>5. UnderWayWell(c)' /\ Gathered(c)'
  BY <1>3, <1>4 DEF UnderWayWell, Gathered, Waiting, Asking, Pausing, Ended
<1>6. ASSUME ~all, NEW i \in Callable PROVE Chain[i] \notin told[c].spent
  <2>1. bench[Chain[i]] = 0 /\ row.left \in Nat
    BY <1>1, <1>6, CallableFacts, ChainFacts DEF AskRow
  <2> QED
    BY <2>1
<1>7. Spared(c)'
  BY <1>3, <1>4, <1>6 DEF Spared
<1>8. Sound(c)'
  BY <1>3, <1>4, <1>5, <1>7 DEF Sound
<1> QED
  BY <1>1, <1>2, <1>8, ChainFacts, OthersStaySound
\* A call that ends without an answer ends with the one it holds, if it has one.
LEMMA UnansweredIsSound ==
    ASSUME ChainInv, NEW c \in Asks, Waiting(c), StepOf(c), ask'[c] = Unanswered(ask[c]),
           told'[c] \in ToldRow, told'[c].got = told[c].got, bench' \in [Models -> 0..Cooldown],
           \A m \in Models : bench'[m] >= bench[m]
    PROVE  ChainInv'
<1>1. ask[c] \in AskRow(c) /\ Gathered(c)
  BY DEF ChainInv, Sound
<1>2. /\ ask'[c] \in AskRow(c) /\ ask'[c].held = ask[c].held
      /\ ask'[c].step \in {"answered", "failed"}
      /\ ask[c].held = Nothing => ask'[c].step = "failed"
      /\ ask[c].held # Nothing => ask'[c].step = "answered" /\ ask'[c].result = ask[c].held
  BY <1>1, RowsOfACall
<1>3. ~Waiting(c)' /\ ask'[c].step # "idle"
  BY <1>2 DEF Waiting, Asking, Pausing
<1>4. UnderWayWell(c)' /\ Spared(c)'
  BY <1>3 DEF UnderWayWell, Spared, Waiting
<1>5. Gathered(c)'
  BY <1>1, <1>2, <1>3 DEF Gathered, Ended
<1>6. Sound(c)'
  BY <1>2, <1>4, <1>5 DEF Sound
<1> QED
  BY <1>6, OthersStaySound

\* A call that leaves a model behind, benched if its allowance was spent, meets it no more.
LEMMA LeavesIsSound ==
    ASSUME ChainInv, NEW c \in Asks, Asking(c), NEW spent \in SUBSET {Asked(c)}, Leaves(c, spent),
           bench' \in [Models -> 0..Cooldown], \A m \in Models : bench'[m] >= bench[m],
           \A m \in spent : bench'[m] = Cooldown
    PROVE  ChainInv'
<1> DEFINE rest == ask[c].list \ {Place(c)}
<1>1. /\ ask[c] \in AskRow(c) /\ told[c] \in ToldRow /\ UnderWayWell(c) /\ Gathered(c) /\ Spared(c)
      /\ DOMAIN ask = Asks /\ DOMAIN told = Asks /\ Waiting(c)
  BY DEF ChainInv, Sound, Waiting
<1>2. Place(c) \in ask[c].list /\ ask[c].list \subseteq DOMAIN Chain /\ Asked(c) \in Models
  <2>1. ask[c].list \subseteq DOMAIN Chain /\ ask[c].list # {}
    BY <1>1 DEF AskRow, UnderWayWell
  <2>2. Place(c) \in ask[c].list
    BY <2>1, ChainFacts, FirstPlace DEF Place
  <2> QED
    BY <2>1, <2>2, ChainFacts DEF Asked
<1>3. /\ ask'[c] = IF rest = {} THEN Unanswered(ask[c]) ELSE Aimed(ask[c], rest)
      /\ told'[c] = [told[c] EXCEPT !.spent = @ \cup spent] /\ StepOf(c)
  BY <1>1 DEF Leaves, Becomes, Notes, StepOf
<1>4. /\ told'[c] \in ToldRow /\ told'[c].spent = told[c].spent \cup spent
      /\ told'[c].got = told[c].got /\ told'[c].allSpent = told[c].allSpent
  BY <1>1, <1>2, <1>3 DEF ToldRow
<1>5. CASE rest = {}
  BY <1>1, <1>3, <1>4, <1>5, UnansweredIsSound
<1>6. CASE rest # {}
  <2>1. /\ ask'[c] \in AskRow(c) /\ ask'[c].step = "asking" /\ ask'[c].list = rest
        /\ ask'[c].left = ask[c].left /\ ask'[c].held = ask[c].held
    <3> HIDE DEF rest
    <3>1. rest \in SUBSET DOMAIN Chain
      BY <1>2 DEF rest
    <3> QED
      BY <1>1, <1>3, <1>6, <3>1, RowsOfACall
  <2>2. UnderWayWell(c)' /\ Gathered(c)'
    BY <1>1, <1>4, <1>6, <2>1 DEF UnderWayWell, Gathered, Waiting, Asking, Pausing, Ended
  <2>3. ASSUME NEW m \in told[c].spent \cup spent PROVE bench'[m] > ask[c].left
    <3>1. ask[c].left \in Nat /\ ask[c].left <= Patience[c]
      BY <1>1, ChainFacts DEF AskRow
    <3>2. CASE m \in spent
      <4>1. bench'[m] = Cooldown
        BY <3>2
      <4> QED
        BY <3>1, <4>1, ChainFacts
    <3>3. CASE m \in told[c].spent
      <4>1. bench[m] > ask[c].left /\ m \in Models
        BY <1>1, <3>3 DEF Spared, ToldRow
      <4>2. bench'[m] >= bench[m] /\ bench[m] \in Nat /\ bench'[m] \in Nat
        BY <4>1, ChainFacts DEF ChainInv
      <4> QED
        BY <3>1, <4>1, <4>2
    <3> QED
      BY <2>3, <3>2, <3>3
  <2>4. ASSUME ~told[c].allSpent, NEW i \in rest PROVE Chain[i] \notin told[c].spent \cup spent
    <3>1. i \in ask[c].list /\ i # Place(c)
      OBVIOUS
    <3>2. Chain[i] \notin told[c].spent
      BY <1>1, <2>4, <3>1 DEF Spared
    <3>3. Chain[i] # Asked(c)
      BY <1>2, <3>1, ChainFacts DEF Asked
    <3> QED
      BY <3>2, <3>3
  <2>5. Spared(c)'
    BY <1>4, <2>1, <2>3, <2>4 DEF Spared
  <2>6. Sound(c)'
    BY <1>4, <2>1, <2>2, <2>5 DEF Sound
  <2> QED
    BY <1>3, <2>6, OthersStaySound
<1> QED
  BY <1>5, <1>6

\* A call that pauses, or asks the same model again, has told and heard nothing new.
LEMMA WaitingOnIsSound ==
    ASSUME ChainInv, NEW c \in Asks, Waiting(c), StepOf(c), told'[c] = told[c], bench' = bench,
           ask'[c] \in AskRow(c), ask'[c].step \in {"asking", "pausing"},
           ask'[c].list = ask[c].list, ask'[c].left = ask[c].left, ask'[c].held = ask[c].held,
           ask'[c].step = "pausing" => ask'[c].tries < MaxAttempts
    PROVE  ChainInv'
<1>1. told[c] \in ToldRow /\ UnderWayWell(c) /\ Gathered(c) /\ Spared(c)
      /\ bench \in [Models -> 0..Cooldown]
  BY DEF ChainInv, Sound
<1>2. UnderWayWell(c)' /\ Gathered(c)'
  BY <1>1 DEF UnderWayWell, Gathered, Waiting, Asking, Pausing, Ended
<1>3. Spared(c)'
  BY <1>1 DEF Spared
<1>4. Sound(c)'
  BY <1>1, <1>2, <1>3 DEF Sound
<1>5. \A m \in Models : bench[m] >= bench[m]
  BY <1>1, ChainFacts
<1> QED
  BY <1>1, <1>4, <1>5, OthersStaySound

\* A hiccup keeps the model's turn, or passes it on once its tries are used up.
LEMMA HiccupIsSound ==
    ASSUME ChainInv, NEW c \in Asks, Hiccup(c) \/ Retry(c)
    PROVE  ChainInv'
<1>1. /\ ask[c] \in AskRow(c) /\ told[c] \in ToldRow /\ UnderWayWell(c)
      /\ DOMAIN ask = Asks /\ DOMAIN told = Asks /\ bench \in [Models -> 0..Cooldown]
  BY DEF ChainInv, Sound
<1>2. ask[c].tries \in Nat /\ ask[c].tries <= MaxAttempts
  <2>1. ask[c].tries \in 0..MaxAttempts
    BY <1>1 DEF AskRow
  <2> QED
    BY <2>1, ChainFacts
<1>3. CASE Hiccup(c) /\ Pauses(c) /\ ask[c].tries < MaxAttempts
  <2>1. PICK wait \in 1..MaxWait : ask' = [ask EXCEPT ![c] = [ask[c] EXCEPT !.step = "pausing", !.timer = wait]]
    BY <1>3 DEF Pauses, Becomes
  <2>2. wait \in (0..ProviderTimeout) \cup (0..MaxWait)
    BY ChainFacts
  <2>3. /\ ask'[c] \in AskRow(c) /\ ask'[c].step = "pausing" /\ ask'[c].list = ask[c].list
        /\ ask'[c].left = ask[c].left /\ ask'[c].held = ask[c].held
        /\ ask'[c].tries = ask[c].tries
    BY <1>1, <2>1, <2>2 DEF AskRow
  <2>4. Waiting(c) /\ StepOf(c) /\ told' = told /\ bench' = bench
    BY <1>1, <1>3, <2>1 DEF Hiccup, Waiting, StepOf, Pauses
  <2> QED
    BY <1>3, <2>3, <2>4, WaitingOnIsSound
<1>4. CASE Hiccup(c) /\ Leaves(c, {})
  <2>1. \A m \in Models : bench[m] >= bench[m]
    BY <1>1, ChainFacts
  <2> QED
    BY <1>1, <1>4, <2>1, LeavesIsSound DEF Hiccup
<1>5. CASE Retry(c)
  <2>1. ask[c].tries < MaxAttempts /\ Waiting(c)
    BY <1>1, <1>5 DEF Retry, UnderWayWell, Waiting
  <2>2. ask[c].tries + 1 \in 0..MaxAttempts /\ ProviderTimeout \in (0..ProviderTimeout) \cup (0..MaxWait)
    BY <1>2, <2>1, ChainFacts
  <2>3. ask' = [ask EXCEPT ![c] = [ask[c] EXCEPT !.step = "asking", !.tries = @ + 1, !.timer = ProviderTimeout]]
    BY <1>5 DEF Retry, Becomes
  <2>4. /\ ask'[c] \in AskRow(c) /\ ask'[c].step = "asking" /\ ask'[c].list = ask[c].list
        /\ ask'[c].left = ask[c].left /\ ask'[c].held = ask[c].held
    BY <1>1, <2>2, <2>3 DEF AskRow
  <2>5. StepOf(c) /\ told' = told /\ bench' = bench
    BY <1>1, <1>5, <2>3 DEF Retry, StepOf
  <2> QED
    BY <2>1, <2>4, <2>5, WaitingOnIsSound
<1> QED
  BY <1>3, <1>4, <1>5 DEF Hiccup

\* A call begins with the models not benched, or with all of them.
LEMMA BeginIsSound == ASSUME ChainInv, NEW c \in Asks, BeginAsk(c) PROVE ChainInv'
<1> DEFINE row == [ask[c] EXCEPT !.left = Patience[c]]
<1>1. ask[c] \in AskRow(c) /\ UnderWayWell(c)
  BY DEF ChainInv, Sound
<1>2. Patience[c] \in 0..Patience[c]
  BY ChainFacts
<1>3. row \in AskRow(c) /\ row.held = Nothing
  BY <1>1, <1>2 DEF AskRow, BeginAsk, UnderWayWell
<1>4. told[c].spent = {} /\ Starts(c, row, {}) /\ bench' = bench
  BY <1>1 DEF BeginAsk, UnderWayWell
<1> QED
  BY <1>3, <1>4, StartsSound

\* A refusal benches the model for longer than any call has left.
LEMMA RefuseIsSound == ASSUME ChainInv, NEW c \in Asks, Refuse(c) PROVE ChainInv'
<1>1. bench \in [Models -> 0..Cooldown] /\ Asking(c)
  BY DEF ChainInv, Refuse
<1>2. CASE Leaves(c, {}) /\ bench' = bench
  <2>1. \A m \in Models : bench[m] >= bench[m]
    BY <1>1, ChainFacts
  <2> QED
    BY <1>1, <1>2, <2>1, LeavesIsSound
<1>3. CASE Leaves(c, {Asked(c)}) /\ bench' = Benched(c)
  <2>1. Asked(c) \in Models
    <3>1. ask[c].list \subseteq DOMAIN Chain /\ ask[c].list # {}
      BY <1>1 DEF ChainInv, Sound, AskRow, UnderWayWell, Waiting
    <3> QED
      BY <3>1, ChainFacts, FirstPlace DEF Asked, Place
  <2>2. \A m \in Models : bench'[m] = IF m = Asked(c) THEN Cooldown ELSE bench[m]
    BY <1>1, <1>3 DEF Benched
  <2>3. Cooldown \in 0..Cooldown
    BY ChainFacts
  <2>4. bench' \in [Models -> 0..Cooldown]
    BY <1>1, <1>3, <2>3 DEF Benched
  <2>5. \A m \in Models : bench'[m] >= bench[m]
    BY <1>1, <2>2, ChainFacts
  <2> QED
    BY <1>1, <1>3, <2>1, <2>2, <2>4, <2>5, LeavesIsSound
<1> QED
  BY <1>2, <1>3 DEF Refuse

\* A call out of time leaves the chain with what it holds.
LEMMA TimeUpIsSound == ASSUME ChainInv, NEW c \in Asks, TimeUp(c) PROVE ChainInv'
<1>1. /\ bench \in [Models -> 0..Cooldown] /\ told[c] \in ToldRow
      /\ DOMAIN ask = Asks /\ DOMAIN told = Asks
  BY DEF ChainInv, Sound
<1>2. /\ ask'[c] = Unanswered(ask[c]) /\ StepOf(c) /\ told'[c] = told[c]
      /\ bench' = bench /\ Waiting(c)
  BY <1>1 DEF TimeUp, Becomes, StepOf
<1>3. \A m \in Models : bench[m] >= bench[m]
  BY <1>1, ChainFacts
<1> QED
  BY <1>1, <1>2, <1>3, UnansweredIsSound

\* What a message comes to, against what there was in it.
LEMMA WhatAMessageComesTo ==
    ASSUME NEW msg \in Messages
    PROVE  /\ Adapt(msg, "shaped") \in Outcomes /\ AdaptComplete(msg) \in Outcomes
           /\ Adapt(msg, "free") \in Outcomes
           /\ Carried(msg) \in SUBSET {"calls", "shape", "nothing"}
           /\ "calls" \in Carried(msg) => Adapt(msg, "shaped") = "calls"
           /\ "shape" \in Carried(msg) => Adapt(msg, "shaped") \in {"calls", "shape"}
<1>1. /\ msg.tools \in BOOLEAN /\ msg.answer \in BOOLEAN /\ msg.parses \in BOOLEAN
      /\ msg.text \in {"none", "prose", "json"}
  BY DEF Messages
<1>2. LET said == [none |-> "empty", prose |-> "prose", json |-> "shape"][msg.text]
      IN  said \in Outcomes /\ (msg.text = "json" => said = "shape")
  BY <1>1 DEF Outcomes
<1>3. Adapt(msg, "shaped") \in Outcomes /\ Adapt(msg, "free") \in Outcomes
  BY <1>1, <1>2 DEF Adapt, Outcomes
<1>4. AdaptComplete(msg) \in Outcomes
  BY <1>1 DEF AdaptComplete, Outcomes
<1>5. Carried(msg) \in SUBSET {"calls", "shape", "nothing"}
  BY <1>1 DEF Carried
<1>6. "calls" \in Carried(msg) => Adapt(msg, "shaped") = "calls"
  BY <1>1 DEF Carried, Adapt
<1>7. "shape" \in Carried(msg) => Adapt(msg, "shaped") \in {"calls", "shape"}
  BY <1>1, <1>2 DEF Carried, Adapt
<1> QED
  BY <1>3, <1>4, <1>5, <1>6, <1>7

\* A message ends the call, or is held while a better one is asked for.
LEMMA ReplyIsSound == ASSUME ChainInv, NEW c \in Asks, Reply(c) PROVE ChainInv'
<1>1. /\ ask[c] \in AskRow(c) /\ told[c] \in ToldRow /\ Gathered(c) /\ Spared(c)
      /\ bench \in [Models -> 0..Cooldown] /\ DOMAIN ask = Asks /\ DOMAIN told = Asks
      /\ Waiting(c) /\ bench' = bench /\ \A m \in Models : bench[m] >= bench[m]
  <2>1. bench \in [Models -> 0..Cooldown]
    BY DEF ChainInv
  <2>2. \A m \in Models : bench[m] \in 0..Cooldown
    BY <2>1
  <2>3. \A m \in Models : bench[m] >= bench[m]
    BY <2>2
  <2> QED
    BY <2>3 DEF ChainInv, Sound, Reply, Waiting
<1> DEFINE outcomeOf(msg) == IF KindOf[c] = "complete" THEN AdaptComplete(msg)
                             ELSE Adapt(msg, KindOf[c])
           final(msg) == [ask[c] EXCEPT !.step = "answered", !.timer = 0, !.result = outcomeOf(msg)]
           gotWith(msg) == told[c].got \cup Carried(msg)
<1>2. PICK msg \in Messages :
        \/ /\ KindOf[c] = "shaped" /\ outcomeOf(msg) \in {"prose", "empty"}
           /\ Starts(c, [ask[c] EXCEPT !.held = outcomeOf(msg)], gotWith(msg))
        \/ /\ Becomes(c, IF KindOf[c] = "complete" /\ outcomeOf(msg) = "broken"
                         THEN [final(msg) EXCEPT !.step = "failed", !.result = Nothing]
                         ELSE final(msg))
           /\ Notes(c, [told[c] EXCEPT !.got = gotWith(msg)])
  BY DEF Reply
<1>3. outcomeOf(msg) \in Outcomes /\ gotWith(msg) \in SUBSET {"calls", "shape", "nothing"}
  BY <1>1, WhatAMessageComesTo, ChainAssumption DEF ToldRow
<1>4. /\ "calls" \in Carried(msg) /\ KindOf[c] = "shaped" => outcomeOf(msg) = "calls"
      /\ "shape" \in Carried(msg) /\ KindOf[c] = "shaped" => outcomeOf(msg) \in {"calls", "shape"}
  BY WhatAMessageComesTo
<1> HIDE DEF outcomeOf
<1>5. CASE /\ KindOf[c] = "shaped" /\ outcomeOf(msg) \in {"prose", "empty"}
           /\ Starts(c, [ask[c] EXCEPT !.held = outcomeOf(msg)], gotWith(msg))
  <2> DEFINE row == [ask[c] EXCEPT !.held = outcomeOf(msg)]
  <2>1. row \in AskRow(c) /\ row.held = outcomeOf(msg) /\ row.left = ask[c].left
    BY <1>1, <1>3 DEF AskRow
  <2>2. outcomeOf(msg) # Nothing
    BY <1>3, ChainAssumption
  <2>3. "calls" \notin gotWith(msg) /\ "shape" \notin gotWith(msg)
    BY <1>1, <1>4, <1>5 DEF Gathered
  <2>4. \A m \in told[c].spent : bench[m] > row.left
    BY <1>1, <2>1 DEF Spared
  <2> QED
    BY <1>1, <1>3, <1>5, <2>1, <2>2, <2>3, <2>4, StartsSound
<1>6. CASE /\ Becomes(c, IF KindOf[c] = "complete" /\ outcomeOf(msg) = "broken"
                         THEN [final(msg) EXCEPT !.step = "failed", !.result = Nothing]
                         ELSE final(msg))
           /\ Notes(c, [told[c] EXCEPT !.got = gotWith(msg)])
  <2>1. 0 \in (0..ProviderTimeout) \cup (0..MaxWait)
    BY ChainFacts
  <2>2. /\ final(msg) \in AskRow(c)
        /\ [final(msg) EXCEPT !.step = "failed", !.result = Nothing] \in AskRow(c)
    BY <1>1, <1>3, <2>1 DEF AskRow
  <2>3. /\ ask'[c] \in AskRow(c) /\ ask'[c].step \in {"answered", "failed"}
        /\ ask'[c].held = ask[c].held
        /\ KindOf[c] = "shaped" => ask'[c].step = "answered" /\ ask'[c].result = outcomeOf(msg)
    BY <1>1, <1>6, <2>2 DEF AskRow, Becomes
  <2>4. told'[c] \in ToldRow /\ told'[c].got = gotWith(msg) /\ StepOf(c)
    BY <1>1, <1>3, <1>6 DEF ToldRow, Notes, Becomes, StepOf
  <2>5. ~Waiting(c)' /\ ask'[c].step # "idle"
    BY <2>3 DEF Waiting, Asking, Pausing
  <2>6. UnderWayWell(c)' /\ Spared(c)'
    BY <2>5 DEF UnderWayWell, Spared, Waiting
  <2>7. Gathered(c)'
    <3> HIDE DEF final
    <3> QED
      BY <1>1, <1>4, <2>3, <2>4, <2>5 DEF Gathered, Ended
  <2>8. Sound(c)'
    BY <2>3, <2>4, <2>6, <2>7 DEF Sound
  <2> QED
    BY <1>1, <2>4, <2>8, OthersStaySound
<1> QED
  BY <1>2, <1>5, <1>6

\* Time takes as much of every call's patience as of every bench.
LEMMA TickIsSound == ASSUME ChainInv, Tick PROVE ChainInv'
<1>1. /\ bench \in [Models -> 0..Cooldown]
      /\ \A c \in Asks : ask[c] \in AskRow(c) /\ told[c] \in ToldRow
      /\ \A c \in Asks : UnderWayWell(c) /\ Gathered(c) /\ Spared(c)
      /\ told' = told /\ DOMAIN ask' = Asks /\ DOMAIN told = Asks
  BY DEF ChainInv, Sound, Tick
<1>2. bench' \in [Models -> 0..Cooldown]
  <2>1. \A m \in Models : Passes(bench[m]) \in 0..Cooldown
    BY <1>1, ChainFacts DEF Passes
  <2> QED
    BY <2>1 DEF Tick
<1>3. ASSUME NEW c \in Asks PROVE Sound(c)'
  <2>1. CASE ~Waiting(c)
    <3>1. ask'[c] = ask[c]
      BY <2>1 DEF Tick
    <3> QED
      BY <1>1, <2>1, <3>1
      DEF Sound, UnderWayWell, Gathered, Spared, Waiting, Asking, Pausing, Ended, AskRow, ToldRow, Models
  <2>2. CASE Waiting(c)
    <3>1. ask'[c] = [ask[c] EXCEPT !.left = @ - 1, !.timer = @ - 1]
      BY <2>2 DEF Tick
    <3>2. /\ ask[c].left \in 0..Patience[c]
          /\ ask[c].timer \in (0..ProviderTimeout) \cup (0..MaxWait)
      BY <1>1 DEF AskRow
    <3>3. ask[c].left > 0 /\ ask[c].timer > 0
      BY <2>2 DEF Tick
    <3>4. /\ ask[c].left - 1 \in 0..Patience[c]
          /\ ask[c].timer - 1 \in (0..ProviderTimeout) \cup (0..MaxWait)
      BY <3>2, <3>3, ChainFacts
    <3>5. /\ ask'[c] \in AskRow(c) /\ ask'[c].step = ask[c].step /\ ask'[c].list = ask[c].list
          /\ ask'[c].tries = ask[c].tries /\ ask'[c].held = ask[c].held
          /\ ask'[c].left = ask[c].left - 1 /\ ask'[c].result = ask[c].result
      BY <1>1, <3>1, <3>4 DEF AskRow
    <3>6. UnderWayWell(c)' /\ Gathered(c)'
      BY <1>1, <3>5 DEF UnderWayWell, Gathered, Waiting, Asking, Pausing, Ended
    <3>7. ASSUME NEW m \in told[c].spent PROVE bench'[m] > ask'[c].left
      <4>1. m \in Models /\ bench[m] > ask[c].left
        BY <1>1, <2>2 DEF ToldRow, Spared
      <4>2. bench'[m] = Passes(bench[m])
        BY <4>1 DEF Tick
      <4>3. bench[m] \in Nat /\ ask[c].left \in Nat /\ ask'[c].left = ask[c].left - 1
        BY <1>1, <3>2, <3>5, <4>1, ChainFacts
      <4> QED
        BY <3>3, <4>1, <4>2, <4>3 DEF Passes
    <3>8. Spared(c)'
      BY <1>1, <2>2, <3>5, <3>7 DEF Spared
    <3> QED
      BY <1>1, <3>5, <3>6, <3>8 DEF Sound
  <2> QED
    BY <2>1, <2>2
<1> QED
  BY <1>1, <1>2, <1>3 DEF ChainInv

\* No call has been made: nothing is told, held or benched.
LEMMA ChainInitHolds == ChainInit => ChainInv
<1> SUFFICES ASSUME ChainInit PROVE ChainInv
  OBVIOUS
<1>1. bench \in [Models -> 0..Cooldown]
  <2>1. 0 \in 0..Cooldown
    BY ChainFacts
  <2> QED
    BY <2>1 DEF ChainInit
<1>2. ASSUME NEW c \in Asks PROVE Sound(c)
  <2>1. /\ ask[c] = [step |-> "idle", list |-> {}, tries |-> 0, timer |-> 0, left |-> 0,
                     held |-> Nothing, result |-> Nothing]
        /\ told[c] = [spent |-> {}, allSpent |-> FALSE, got |-> {}]
    BY DEF ChainInit
  <2>2. 0 \in 0..MaxAttempts /\ 0 \in 0..Patience[c] /\ 0 \in (0..ProviderTimeout) \cup (0..MaxWait)
    BY ChainFacts
  <2>3. ask[c] \in AskRow(c) /\ told[c] \in ToldRow
    BY <2>1, <2>2 DEF AskRow, ToldRow
  <2> QED
    BY <2>1, <2>3 DEF Sound, UnderWayWell, Gathered, Spared, Waiting, Asking, Pausing, Ended
<1> QED
  BY <1>1, <1>2 DEF ChainInit, ChainInv

\* Every step of the chain keeps the invariant.
LEMMA ChainStep == ChainInv /\ [ChainNext]_chainVars => ChainInv'
<1> SUFFICES ASSUME ChainInv, [ChainNext]_chainVars PROVE ChainInv'
  OBVIOUS
<1>1. CASE UNCHANGED chainVars
  BY <1>1 DEF chainVars, ChainInv, Sound, UnderWayWell, Gathered, Spared, Waiting, Asking,
              Pausing, Ended, AskRow, ToldRow, Models
<1>2. CASE Tick
  BY <1>2, TickIsSound
<1>3. ASSUME NEW c \in Asks,
             BeginAsk(c) \/ Reply(c) \/ Hiccup(c) \/ Retry(c) \/ Refuse(c) \/ TimeUp(c)
      PROVE  ChainInv'
  BY <1>3, BeginIsSound, ReplyIsSound, HiccupIsSound, RefuseIsSound, TimeUpIsSound
<1> QED
  BY <1>1, <1>2, <1>3 DEF ChainNext

\* For any chain, callers and time limits, no call makes more attempts than it may, and one
\* under way has a model to ask.
THEOREM ChainTypeCorrect == ChainSpec => []ChainTypeOK
<1>1. ChainInv => ChainTypeOK
  BY DEF ChainInv, Sound, AskRow, UnderWayWell, ChainTypeOK
<1> QED
  BY ChainInitHolds, ChainStep, <1>1, PTL DEF ChainSpec

\* A shaped call that got an answer does not fail, and ends with one of use if it got one,
\* however its two walks down the chain went.
THEOREM BestAnswerSurvives == ChainSpec => []BestAnswerIsKept
<1>1. ChainInv => BestAnswerIsKept
  BY DEF ChainInv, Sound, Gathered, BestAnswerIsKept
<1> QED
  BY ChainInitHolds, ChainStep, <1>1, PTL DEF ChainSpec

\* A call never asks a model again that told it its allowance is spent, whatever other calls
\* do to the bench meanwhile, unless every model was benched when it set out.
THEOREM SpentModelsAreSpared == ChainSpec => []SpentIsLeftAlone
<1>1. ChainInv => SpentIsLeftAlone
  BY DEF ChainInv, Sound, Spared, SpentIsLeftAlone
<1> QED
  BY ChainInitHolds, ChainStep, <1>1, PTL DEF ChainSpec

-----------------------------------------------------------------------------
(***************************************************************************)
(* The agent's runs (module ShopRun): what is bought is what a session of  *)
(* the run's own priced, at an amount the shop accepted if its yes was     *)
(* heard, within the buyer's means, and something it was shown.            *)
(***************************************************************************)
\* The nodes of the graph, and the rows a run ranges over.
Working == {"ask_shop", "choose_option", "fetch_offer", "decide_offer", "finalize"} \cup Routes
RunRow(r) ==
    [step : Working \cup {"idle", "remember", "spend", "done", "failed"},
     wallet : Wallets[r] \cup {Nil}, options : SUBSET Products, pick : Products \cup {Nil},
     offer : OfferRow \cup {Nil}, route : Routes \cup {Nil}, outcome : OutcomeRow \cup {Nil},
     result : EndRow \cup {Nil}]

\* An amount the person of these money facts can pay and has allowed.
Within(amount, wallet) ==
    amount <= wallet.balance /\ (Ceiling(wallet) > 0 => amount <= Ceiling(wallet))

\* A run that has no price yet.
Unpriced(r) ==
    run[r].offer = Nil /\ run[r].route = Nil /\ deal[r] = Nil /\ heard[r] = Nil

\* The service's facts are those of a run under way, and what it, the run and the shop hold
\* of one product goes together.
Shaped(r) ==
    /\ run[r] \in RunRow(r)
    /\ facts[r] \in FactsRow(r) \cup {Nil} /\ deal[r] \in DealRow \cup {Nil}
    /\ seen[r] \in SUBSET Products /\ heard[r] \in Runs \cup {Nil}
    /\ facts[r] # Nil <=> Step(r) \in Working
    /\ Step(r) \in Working \cup {"idle"} => run[r].result = Nil
    /\ Step(r) \in Working => Kind[r] # "command" /\ run[r].wallet = facts[r].wallet
    /\ Step(r) \in {"idle", "ask_shop", "choose_option", "fetch_offer"} => Unpriced(r)
    /\ Step(r) \in {"ask_shop", "choose_option", "fetch_offer"} => facts[r].settled = 0

\* What a run holds, remembers and chose was shown to it.
Showed(r) ==
    /\ run[r].options \subseteq seen[r]
    /\ Step(r) \in Working => facts[r].prior \subseteq seen[r] /\ facts[r].shown \subseteq seen[r]
    /\ Step(r) \in {"fetch_offer", "decide_offer", "finalize"} \cup Routes => run[r].pick \in seen[r]

\* From its quote to its end a run is about one product, and its basket is dated by itself.
Priced(r) ==
    /\ run[r].offer # Nil => /\ run[r].offer \in OfferRow /\ run[r].offer.product = run[r].pick
                             /\ deal[r] # Nil
    /\ Step(r) \in {"decide_offer", "finalize"} \cup Routes =>
        /\ facts[r].priced # Nil /\ facts[r].priced.product = run[r].pick
        /\ facts[r].priced.quoted = r
        /\ deal[r] # Nil /\ deal[r].product = run[r].pick
    /\ Step(r) \in {"decide_offer"} \cup Routes => run[r].offer # Nil
    /\ Step(r) \in {"decide_offer", "accept", "ask_human", "decline"} =>
        /\ heard[r] = Nil /\ facts[r].settled = 0
        /\ r \notin crossed => deal[r].ask = run[r].offer.final
    /\ Step(r) = "decide_offer" => run[r].route = Nil
    /\ Step(r) \in Routes => run[r].route = Step(r)
    /\ Step(r) = "accept" => Within(run[r].offer.final, run[r].wallet)

\* A yes that was heard is the shop's last word in its session, and its amount is the one the
\* run goes on with; the session is the run's own unless its agent named another.
Heard(r) ==
    /\ heard[r] # Nil => /\ deal[heard[r]] # Nil /\ deal[heard[r]].status = "accepted"
                         /\ heard[r] = r \/ heard[r] \in crossed
    /\ Step(r) = "negotiate" =>
        facts[r].settled = IF heard[r] = Nil THEN 0 ELSE deal[heard[r]].ask
    /\ Step(r) = "finalize" =>
        /\ run[r].outcome # Nil
        /\ facts[r].settled > 0 => heard[r] # Nil /\ facts[r].settled = deal[heard[r]].ask
        /\ (facts[r].settled = 0 /\ heard[r] # Nil) => run[r].outcome.amount = deal[heard[r]].ask
        /\ run[r].route = "accept" => facts[r].settled = 0
        /\ (run[r].route = "accept" /\ r \notin crossed) =>
            Within(run[r].outcome.amount, run[r].wallet)

\* What an agent's run ends with is its own deal, at a yes it heard.
Ends(r) ==
    /\ Step(r) \in {"remember", "spend"} => run[r].result # Nil
    /\ Step(r) = "remember" => Kind[r] = "chat"
    /\ Step(r) = "spend" => Kind[r] # "public" /\ run[r].result.action \in {"buy", "ask_human"}
    /\ (Kind[r] # "command" /\ run[r].result # Nil) =>
        /\ run[r].result.action \in {"buy", "ask_human"} => run[r].result.product # Nil
        /\ run[r].result.product # Nil =>
            /\ run[r].result.product \in seen[r] /\ run[r].result.dated = r
            /\ deal[r] # Nil /\ deal[r].product = run[r].result.product
        /\ (run[r].result.action = "buy" /\ heard[r] # Nil) =>
            run[r].result.amount = deal[heard[r]].ask
        /\ (run[r].result.action = "buy" /\ run[r].route = "accept" /\ r \notin crossed) =>
            run[r].wallet # Nil /\ Within(run[r].result.amount, run[r].wallet)

\* What a command bought is a deal the shop has closed with its person.
Commanded(r) ==
    (Kind[r] = "command" /\ run[r].result # Nil) =>
        LET s == run[r].result.dated
        IN  /\ run[r].result.action = "buy" /\ s \in Runs /\ deal[s] # Nil /\ run[r].route = Nil
            /\ deal[s].product = run[r].result.product /\ deal[s].status = "accepted"
            /\ deal[s].ask = run[r].result.amount

\* The inductive invariant, run by run.
Fit(r) == Shaped(r) /\ Showed(r) /\ Priced(r) /\ Heard(r) /\ Ends(r)

\* One chat remembers for one person, who was shown all of it.
ChatInv ==
    \A q \in Runs : OfPerson(q) =>
        memory \subseteq seen[q] /\ \A r \in Runs : OfPerson(r) => seen[q] = seen[r]

\* A purchase is what some run of the person's ended with.
Bought ==
    \A p \in asked \cup sold : \E r \in Runs :
        /\ Step(r) = "done" /\ OfPerson(r) /\ run[r].result # Nil
        /\ run[r].result.action \in {"buy", "ask_human"} /\ p = Purchase(r)

ShopInv ==
    /\ DOMAIN run = Runs /\ DOMAIN facts = Runs /\ DOMAIN deal = Runs /\ DOMAIN heard = Runs
    /\ \A r \in Runs : Fit(r) /\ Commanded(r)
    /\ memory \subseteq Products /\ ChatInv /\ Bought

-----------------------------------------------------------------------------
\* An open session moves on: it keeps its product.
Moved(s) ==
    /\ deal[s] # Nil /\ deal[s].status = "countered"
    /\ deal'[s] \in DealRow /\ deal'[s].product = deal[s].product

\* A session nobody has moved, or one whose run no longer counts on its ask.
MovesOn(s) ==
    deal'[s] = deal[s] \/ (Moved(s) /\ (s \in crossed' \/ Step(s) \in {"negotiate", "done"}))

\* A step of r's opens its own session or moves it on, and moves no other on but as above.
OpensOrMoves(r) ==
    /\ DOMAIN deal' = Runs /\ crossed \subseteq crossed'
    /\ deal'[r] = deal[r] \/ (deal[r] = Nil /\ deal'[r] \in DealRow) \/ Moved(r)
    /\ \A s \in Runs : s # r => MovesOn(s)

\* A step of one run's leaves what is kept of the others alone.
Frame(r) ==
    /\ OpensOrMoves(r)
    /\ DOMAIN run' = Runs /\ DOMAIN facts' = Runs /\ DOMAIN heard' = Runs
    /\ \A q \in Runs : q # r => run'[q] = run[q] /\ facts'[q] = facts[q] /\ heard'[q] = heard[q]

\* A step that does nothing at the shop.
LEMMA StillMoves ==
    ASSUME ShopInv, NEW r \in Runs, UNCHANGED <<deal, crossed>> PROVE OpensOrMoves(r)
  BY DEF ShopInv, OpensOrMoves, MovesOn

\* Whatever a step does at the shop, what was accepted stays, and what a run holds keeps its
\* product.
LEMMA DealsAfter ==
    ASSUME ShopInv, NEW r \in Runs, OpensOrMoves(r)
    PROVE  /\ deal'[r] \in DealRow \cup {Nil}
           /\ deal[r] # Nil => deal'[r] # Nil /\ deal'[r].product = deal[r].product
           /\ \A t \in Runs : (deal[t] # Nil /\ deal[t].status = "accepted") => deal'[t] = deal[t]
           /\ heard[r] # Nil => deal'[heard[r]] = deal[heard[r]]
           /\ crossed \subseteq crossed'
<1>1. deal[r] \in DealRow \cup {Nil} /\ heard[r] \in Runs \cup {Nil}
  BY DEF ShopInv, Fit, Shaped
<1>2. \A t \in Runs : (deal[t] # Nil /\ deal[t].status = "accepted") => deal'[t] = deal[t]
  BY DEF OpensOrMoves, MovesOn, Moved
<1>3. heard[r] # Nil => deal'[heard[r]] = deal[heard[r]]
  BY <1>1, <1>2 DEF ShopInv, Fit, Heard
<1> QED
  BY <1>1, <1>2, <1>3, ShopAssumption DEF OpensOrMoves, Moved

\* What is known of a yes that was heard.
LEMMA HeardFacts ==
    ASSUME ShopInv, NEW r \in Runs, heard[r] # Nil
    PROVE  /\ heard[r] \in Runs /\ deal[heard[r]] # Nil /\ deal[heard[r]].status = "accepted"
           /\ deal[heard[r]].ask \in Nat \ {0}
           /\ heard[r] = r \/ heard[r] \in crossed
<1>1. heard[r] \in Runs
  BY DEF ShopInv, Fit, Shaped
<1>2. /\ deal[heard[r]] # Nil /\ deal[heard[r]].status = "accepted"
      /\ heard[r] = r \/ heard[r] \in crossed
  BY DEF ShopInv, Fit, Heard
<1>3. deal[heard[r]] \in DealRow
  BY <1>1, <1>2 DEF ShopInv, Fit, Shaped
<1> QED
  BY <1>1, <1>2, <1>3 DEF DealRow

\* A run nobody touches stays as fit as it was, however much more its caller is shown and
\* whoever acts in its session.
LEMMA FitStays ==
    ASSUME ShopInv, NEW q \in Runs, run'[q] = run[q], facts'[q] = facts[q], MovesOn(q),
           crossed \subseteq crossed',
           \A t \in Runs : (deal[t] # Nil /\ deal[t].status = "accepted") => deal'[t] = deal[t],
           heard'[q] = heard[q], seen[q] \subseteq seen'[q], seen'[q] \subseteq Products
    PROVE  Fit(q)'
<1>1. Step(q)' = Step(q) /\ Fit(q)
  BY DEF Step, ShopInv
<1>2. /\ deal'[q] \in DealRow \cup {Nil} /\ (deal[q] = Nil => deal'[q] = Nil)
      /\ deal[q] # Nil => deal'[q] # Nil /\ deal'[q].product = deal[q].product
  BY <1>1, ShopAssumption DEF Fit, Shaped, MovesOn, Moved
<1>3. heard[q] # Nil => deal'[heard[q]] = deal[heard[q]]
  BY HeardFacts
<1>4. Shaped(q)'
  BY <1>1, <1>2 DEF Fit, Shaped, RunRow, FactsRow, DealRow, Unpriced, Working, OfferRow, OutcomeRow,
              EndRow, GoodsRow
<1>5. Showed(q)'
  BY <1>1 DEF Fit, Showed
<1>6. Priced(q)'
  <2>1. (Step(q) \in {"decide_offer", "accept", "ask_human", "decline"} /\ q \notin crossed')
        => deal'[q] = deal[q]
    BY DEF MovesOn
  <2> QED
    BY <1>1, <1>2, <2>1 DEF Fit, Priced, Within, Ceiling, OfferRow
<1>7. Heard(q)'
  BY <1>1, <1>3 DEF Fit, Heard, Within, Ceiling
<1>8. Ends(q)'
  BY <1>1, <1>2, <1>3 DEF Fit, Ends, Within, Ceiling
<1> QED
  BY <1>4, <1>5, <1>6, <1>7, <1>8 DEF Fit

\* The runs a step is not of stay fit.
LEMMA OthersFit ==
    ASSUME ShopInv, NEW r \in Runs, Frame(r),
           \A q \in Runs : seen[q] \subseteq seen'[q] /\ seen'[q] \subseteq Products
    PROVE  \A q \in Runs : q # r => Fit(q)'
<1>1. \A t \in Runs : (deal[t] # Nil /\ deal[t].status = "accepted") => deal'[t] = deal[t]
  BY DealsAfter DEF Frame
<1>2. ASSUME NEW q \in Runs, q # r PROVE Fit(q)'
  BY <1>1, <1>2, FitStays DEF Frame, OpensOrMoves
<1> QED
  BY <1>2

\* A step of one run's changes no purchase, and no deal a command has closed.
LEMMA OthersKept ==
    ASSUME ShopInv, NEW r \in Runs, Frame(r), Step(r) # "done", UNCHANGED <<asked, sold>>
    PROVE  Bought' /\ \A q \in Runs : q # r => Commanded(q)'
<1>1. \A t \in Runs : (deal[t] # Nil /\ deal[t].status = "accepted") => deal'[t] = deal[t]
  BY DealsAfter DEF Frame
<1>2. ASSUME NEW q \in Runs, q # r PROVE Commanded(q)'
  <2>1. run'[q] = run[q] /\ Commanded(q)
    BY <1>2 DEF Frame, ShopInv
  <2> QED
    BY <1>1, <2>1 DEF Commanded
<1>3. ASSUME NEW q \in Runs, Step(q) = "done" PROVE run'[q] = run[q]
  BY <1>3 DEF Frame
<1> QED
  BY <1>2, <1>3 DEF ShopInv, Bought, Step, Purchase

\* The step of a run that is neither done nor a command touches nobody else's purchase or
\* memory; its caller may be shown more, the person everywhere at once.
LEMMA ShownStep ==
    ASSUME ShopInv, NEW r \in Runs, Frame(r), Step(r) # "done", Kind[r] # "command",
           UNCHANGED <<memory, asked, sold>>, Fit(r)', ChatInv',
           \A q \in Runs : seen[q] \subseteq seen'[q] /\ seen'[q] \subseteq Products
    PROVE  ShopInv'
<1>1. \A q \in Runs : q # r => Fit(q)'
  BY OthersFit
<1>2. Commanded(r)'
  BY DEF Commanded
<1>3. Bought' /\ \A q \in Runs : q # r => Commanded(q)'
  BY OthersKept
<1> QED
  BY <1>1, <1>2, <1>3 DEF ShopInv, Frame, OpensOrMoves

\* The same for a step that shows nobody anything.
LEMMA WorkStep ==
    ASSUME ShopInv, NEW r \in Runs, Frame(r), Step(r) # "done", Kind[r] # "command",
           UNCHANGED <<memory, asked, sold, seen>>, Fit(r)'
    PROVE  ShopInv'
<1>1. ChatInv' /\ \A q \in Runs : seen[q] \subseteq seen'[q] /\ seen'[q] \subseteq Products
  BY DEF ShopInv, ChatInv, Fit, Shaped
<1> QED
  BY <1>1, ShownStep

\* A run that ends as it may stays fit.
LEMMA FinishFits ==
    ASSUME ShopInv, NEW r \in Runs, Step(r) \in Working, NEW result \in EndRow, Finish(r, result),
           OpensOrMoves(r), heard' = heard, seen[r] \subseteq seen'[r], seen'[r] \subseteq Products,
           result.action \in {"buy", "ask_human"} => result.product # Nil,
           result.product # Nil => /\ result.product \in seen'[r] /\ result.dated = r
                                   /\ deal'[r] # Nil /\ deal'[r].product = result.product,
           (result.action = "buy" /\ heard[r] # Nil) => result.amount = deal[heard[r]].ask,
           (result.action = "buy" /\ run[r].route = "accept" /\ r \notin crossed) =>
               Within(result.amount, run[r].wallet)
    PROVE  Fit(r)' /\ Frame(r)
<1>1. /\ run[r] \in RunRow(r) /\ facts[r] \in FactsRow(r) /\ facts[r] # Nil
      /\ Kind[r] # "command" /\ run[r].wallet = facts[r].wallet
      /\ facts[r].shown \subseteq seen[r] /\ heard[r] \in Runs \cup {Nil}
      /\ DOMAIN run = Runs /\ DOMAIN facts = Runs /\ DOMAIN heard = Runs
  BY DEF ShopInv, Fit, Shaped, Showed
<1>2. facts[r].shown \in SUBSET Products /\ run[r].wallet \in Wallets[r] /\ run[r].wallet # Nil
      /\ result # Nil
  BY <1>1, ShopAssumption DEF FactsRow
<1> DEFINE step == IF Kind[r] = "chat" THEN "remember" ELSE "done"
           options == IF Kind[r] = "chat" THEN facts[r].shown ELSE {}
<1>3. /\ run'[r] = [run[r] EXCEPT !.step = step, !.options = options, !.pick = Nil, !.offer = Nil,
                                  !.outcome = Nil, !.result = result]
      /\ facts'[r] = Nil
      /\ DOMAIN run' = Runs /\ DOMAIN facts' = Runs
      /\ \A q \in Runs : q # r => run'[q] = run[q] /\ facts'[q] = facts[q]
  BY <1>1 DEF Finish, Goes
<1>4. /\ run'[r] \in RunRow(r) /\ Step(r)' = step /\ run'[r].options = options
      /\ run'[r].offer = Nil /\ run'[r].result = result /\ run'[r].route = run[r].route
      /\ run'[r].wallet = run[r].wallet
  <2>1. step \in Working \cup {"idle", "remember", "spend", "done", "failed"}
        /\ options \in SUBSET Products
    BY <1>2
  <2> QED
    BY <1>1, <1>3, <2>1, ZenonT(60) DEF RunRow, Step
<1>5. step \in {"remember", "done"} /\ (step = "remember" => Kind[r] = "chat")
  OBVIOUS
<1>11. /\ deal'[r] \in DealRow \cup {Nil} /\ (heard[r] # Nil => deal'[heard[r]] = deal[heard[r]])
       /\ crossed \subseteq crossed'
  BY DealsAfter
<1>6. Shaped(r)'
  BY <1>1, <1>3, <1>4, <1>5, <1>11
  DEF Shaped, RunRow, FactsRow, DealRow, Working, Routes, OfferRow, OutcomeRow, EndRow, GoodsRow
<1>7. Showed(r)'
  BY <1>1, <1>3, <1>4, <1>5 DEF Showed, Working, Routes
<1>8. Priced(r)'
  BY <1>4, <1>5 DEF Priced, Routes
<1>9. Heard(r)'
  BY <1>4, <1>5, <1>11, HeardFacts DEF Heard
<1>10. Ends(r)'
  BY <1>1, <1>2, <1>4, <1>5, <1>11 DEF Ends, EndRow, Within, Ceiling
<1> QED
  BY <1>1, <1>3, <1>6, <1>7, <1>8, <1>9, <1>10 DEF Fit, Frame

\* What is known of a run under way.
LEMMA UnderWayFacts ==
    ASSUME ShopInv, NEW r \in Runs, Step(r) \in Working
    PROVE  /\ run[r] \in RunRow(r) /\ facts[r] \in FactsRow(r) /\ facts[r] # Nil
           /\ Kind[r] # "command" /\ run[r].wallet = facts[r].wallet /\ run[r].result = Nil
           /\ run[r].options \subseteq seen[r] /\ facts[r].prior \subseteq seen[r]
           /\ facts[r].shown \subseteq seen[r] /\ seen[r] \subseteq Products
           /\ heard[r] \in Runs \cup {Nil} /\ facts[r].settled \in Nat /\ deal[r] \in DealRow \cup {Nil}
           /\ facts[r].wallet \in WalletRow /\ Step(r) = run[r].step
           /\ DOMAIN run = Runs /\ DOMAIN facts = Runs /\ DOMAIN deal = Runs /\ DOMAIN heard = Runs
           /\ Step(r) \notin {"idle", "remember", "spend", "done", "failed"}
<1>1. /\ run[r] \in RunRow(r) /\ facts[r] \in FactsRow(r) /\ facts[r] # Nil
      /\ Kind[r] # "command" /\ run[r].wallet = facts[r].wallet /\ run[r].result = Nil
      /\ heard[r] \in Runs \cup {Nil} /\ deal[r] \in DealRow \cup {Nil} /\ seen[r] \subseteq Products
  BY DEF ShopInv, Fit, Shaped
<1>2. /\ run[r].options \subseteq seen[r] /\ facts[r].prior \subseteq seen[r]
      /\ facts[r].shown \subseteq seen[r]
  BY DEF ShopInv, Fit, Showed
<1>3. facts[r].wallet \in WalletRow /\ facts[r].settled \in Nat
  BY <1>1, ShopAssumption DEF FactsRow
<1>4. DOMAIN run = Runs /\ DOMAIN facts = Runs /\ DOMAIN deal = Runs /\ DOMAIN heard = Runs
  BY DEF ShopInv
<1>5. Step(r) \notin {"idle", "remember", "spend", "done", "failed"}
  BY DEF Working, Routes
<1> QED
  BY <1>1, <1>2, <1>3, <1>4, <1>5 DEF Step

\* What is known of a run that has been quoted.
LEMMA QuotedFacts ==
    ASSUME ShopInv, NEW r \in Runs, Step(r) \in {"decide_offer", "finalize"} \cup Routes
    PROVE  /\ Step(r) \in Working
           /\ run[r].pick \in seen[r] /\ run[r].pick \in Products
           /\ facts[r].priced \in GoodsRow /\ facts[r].priced.product = run[r].pick
           /\ facts[r].priced.quoted = r
           /\ deal[r] \in DealRow /\ deal[r] # Nil /\ deal[r].product = run[r].pick
           /\ Step(r) # "finalize" => run[r].offer \in OfferRow /\ run[r].offer.product = run[r].pick
                                      /\ run[r].offer # Nil
<1>1. Step(r) \in Working
  BY DEF Working
<1>2. Showed(r) /\ Priced(r)
  BY DEF ShopInv, Fit
<1>3. run[r].pick \in seen[r] /\ seen[r] \subseteq Products
  BY <1>1, <1>2, UnderWayFacts DEF Showed
<1>4. /\ facts[r].priced # Nil /\ facts[r].priced.product = run[r].pick
      /\ facts[r].priced.quoted = r
      /\ deal[r] # Nil /\ deal[r].product = run[r].pick
  BY <1>2 DEF Priced
<1>5. facts[r].priced \in GoodsRow
  BY <1>1, <1>4, UnderWayFacts DEF FactsRow
<1>6. Step(r) # "finalize" => run[r].offer \in OfferRow /\ run[r].offer.product = run[r].pick
                              /\ run[r].offer # Nil
  BY <1>2 DEF Priced
<1> QED
  BY <1>1, <1>3, <1>4, <1>5, <1>6, UnderWayFacts

\* A run that fails is lost, or goes to the person at its quote.
LEMMA BreaksFits ==
    ASSUME ShopInv, NEW r \in Runs, Step(r) \in Working,
           Breaks(r) \/ Lost(r), OpensOrMoves(r), UNCHANGED <<seen, heard>>
    PROVE  Fit(r)' /\ Frame(r)
<1>1. ASSUME Lost(r) PROVE Fit(r)' /\ Frame(r)
  <2> DEFINE result == ResultRow("failed", Nil, 0, Nil, FALSE)
  <2>1. result \in EndRow /\ result.action = "failed" /\ result.product = Nil
    BY DEF EndRow, ResultRow
  <2>2. Finish(r, result)
    BY <1>1 DEF Lost
  <2> HIDE DEF result
  <2> QED
    BY <2>1, <2>2, FinishFits, UnderWayFacts
<1>2. CASE Step(r) \in Routes /\ Escalates(r)
  <2> DEFINE offer == run[r].offer
             result == ResultRow("ask_human", offer.product, offer.final, r, TRUE)
  <2>1. offer \in OfferRow /\ offer.product = run[r].pick /\ run[r].pick \in seen[r]
        /\ run[r].pick \in Products /\ deal[r] # Nil /\ deal[r].product = run[r].pick
    BY <1>2, QuotedFacts DEF Routes
  <2>2. result \in EndRow
    BY <2>1 DEF EndRow, OfferRow, ResultRow, Actions
  <2>3. result.action = "ask_human" /\ result.product = run[r].pick /\ result.dated = r
    BY <2>1 DEF ResultRow
  <2>4. Finish(r, result)
    BY <1>2 DEF Escalates
  <2>5. result.product # Nil /\ deal'[r] # Nil /\ deal'[r].product = result.product
    <3>1. deal'[r] # Nil /\ deal'[r].product = deal[r].product
      BY <2>1, DealsAfter
    <3> QED
      BY <2>1, <2>3, <3>1, ShopAssumption, ZenonT(60)
  <2> HIDE DEF result
  <2> QED
    BY <1>2, <2>1, <2>2, <2>3, <2>4, <2>5, FinishFits, UnderWayFacts
<1> QED
  BY <1>1, <1>2 DEF Breaks

\* The shop closes a session only once, and keeps to its product.
LEMMA ClosesRow ==
    ASSUME ShopInv, NEW s \in Runs, deal[s] # Nil, NEW status \in {"accepted", "declined"},
           NEW amount \in Nat \ {0}, Closes(s, status, amount)
    PROVE  /\ Moved(s) /\ deal'[s] # Nil
           /\ deal'[s].status = status /\ deal'[s].ask = amount
           /\ DOMAIN deal' = Runs /\ \A q \in Runs : q # s => deal'[q] = deal[q]
<1>1. deal[s] \in DealRow /\ DOMAIN deal = Runs /\ deal[s].status = "countered"
  BY DEF ShopInv, Fit, Shaped, Closes
<1>2. /\ deal'[s] = [deal[s] EXCEPT !.status = status, !.ask = amount]
      /\ DOMAIN deal' = Runs /\ \A q \in Runs : q # s => deal'[q] = deal[q]
  BY <1>1 DEF Closes
<1>3. deal'[s] \in DealRow /\ deal'[s].product = deal[s].product
      /\ deal'[s].status = status /\ deal'[s].ask = amount
  BY <1>1, <1>2 DEF DealRow
<1> QED
  BY <1>1, <1>2, <1>3, ShopAssumption DEF Moved

\* A run's own row, once it is taken up by a new state.
LEMMA GoesTo ==
    ASSUME ShopInv, NEW r \in Runs, NEW state, Goes(r, state)
    PROVE  /\ run'[r] = state /\ Step(r)' = state.step /\ DOMAIN run' = Runs
           /\ \A q \in Runs : q # r => run'[q] = run[q]
  BY DEF ShopInv, Goes, Step

\* A run's next row is shaped as the facts, the deal and what was shown are.
LEMMA NextIsShaped ==
    ASSUME NEW r \in Runs, run'[r] \in RunRow(r), facts'[r] \in FactsRow(r) \cup {Nil},
           deal'[r] \in DealRow \cup {Nil}, seen'[r] \in SUBSET Products,
           heard'[r] \in Runs \cup {Nil},
           facts'[r] # Nil <=> run'[r].step \in Working,
           run'[r].step \in Working \cup {"idle"} => run'[r].result = Nil,
           run'[r].step \in Working => Kind[r] # "command" /\ run'[r].wallet = facts'[r].wallet,
           run'[r].step \in {"idle", "ask_shop", "choose_option", "fetch_offer"} =>
               run'[r].offer = Nil /\ run'[r].route = Nil /\ deal'[r] = Nil /\ heard'[r] = Nil,
           run'[r].step \in {"ask_shop", "choose_option", "fetch_offer"} => facts'[r].settled = 0
    PROVE  Shaped(r)'
<1>1. /\ run'[r] \in RunRow(r)' /\ facts'[r] \in FactsRow(r)' \cup {Nil} /\ deal'[r] \in DealRow' \cup {Nil}
      /\ Working' = Working
  BY DEF RunRow, FactsRow, DealRow, Working, Routes, OfferRow, OutcomeRow, EndRow, GoodsRow, Actions
<1> QED
  BY <1>1 DEF Shaped, Step, Unpriced

-----------------------------------------------------------------------------
\* A message turned away ends with nothing.
LEMMA TurnedAwayHolds == ASSUME ShopInv, NEW r \in Runs, TurnedAway(r) PROVE ShopInv'
<1>1. /\ run[r] \in RunRow(r) /\ run[r].result = Nil /\ facts[r] = Nil /\ Unpriced(r)
      /\ run[r].options \subseteq seen[r] /\ Kind[r] = "chat"
  BY DEF ShopInv, Fit, Shaped, Showed, TurnedAway, Working, Routes
<1>2. /\ run'[r] = [run[r] EXCEPT !.step = "failed"] /\ Frame(r)
      /\ UNCHANGED <<facts, deal, memory, asked, sold, seen, heard, crossed>>
  BY GoesTo, StillMoves DEF TurnedAway, Frame, ShopInv
<1>3. /\ run'[r] \in RunRow(r) /\ Step(r)' = "failed" /\ run'[r].result = Nil
      /\ run'[r].offer = Nil /\ run'[r].options = run[r].options
  BY <1>1, <1>2 DEF RunRow, Step, Unpriced
<1>4. Shaped(r)'
  BY <1>1, <1>2, <1>3, NextIsShaped DEF ShopInv, Fit, Shaped, Step, Working, Routes
<1>5. Fit(r)'
  BY <1>1, <1>2, <1>3, <1>4 DEF Fit, Showed, Priced, Heard, Ends, Working, Routes, Unpriced
<1> QED
  BY <1>1, <1>2, <1>5, WorkStep DEF TurnedAway

\* A run begins with its own money facts, and remembers only what its caller was shown.
LEMMA BeginHolds == ASSUME ShopInv, NEW r \in Runs, BeginRun(r) PROVE ShopInv'
<1>1. /\ run[r] \in RunRow(r) /\ run[r].result = Nil /\ Unpriced(r)
      /\ run[r].options \subseteq seen[r] /\ seen[r] \subseteq Products
  BY DEF ShopInv, Fit, Shaped, Showed, BeginRun, Working, Routes
<1>2. PICK wallet \in Wallets[r], prior \in IF Kind[r] = "chat" THEN {memory, {}} ELSE {{}} :
        /\ facts' = [facts EXCEPT ![r] = [NoFacts EXCEPT !.wallet = wallet, !.prior = prior]]
        /\ Goes(r, [run[r] EXCEPT !.step = "ask_shop", !.wallet = wallet])
  BY DEF BeginRun
<1>3. prior \subseteq seen[r]
  BY DEF ShopInv, ChatInv, OfPerson
<1>4. /\ facts'[r] = [wallet |-> wallet, prior |-> prior, shown |-> {}, priced |-> Nil, settled |-> 0]
      /\ run'[r] = [run[r] EXCEPT !.step = "ask_shop", !.wallet = wallet] /\ Frame(r)
      /\ UNCHANGED <<deal, memory, asked, sold, seen, heard, crossed>>
  BY <1>2, GoesTo, StillMoves DEF BeginRun, Frame, ShopInv, NoFacts
<1>5. facts'[r] \in FactsRow(r) /\ facts'[r] # Nil
  BY <1>1, <1>3, <1>4, ShopAssumption DEF FactsRow
<1>6. /\ run'[r] \in RunRow(r) /\ Step(r)' = "ask_shop" /\ run'[r].result = Nil
      /\ run'[r].offer = Nil /\ run'[r].options = run[r].options /\ run'[r].wallet = wallet
      /\ run'[r].route = Nil
  BY <1>1, <1>4 DEF RunRow, Step, Unpriced, Working
<1>7. Shaped(r)'
  <2>1. facts'[r].settled = 0 /\ facts'[r].wallet = wallet
    BY <1>4
  <2> QED
    BY <1>1, <1>4, <1>5, <1>6, <2>1, NextIsShaped
    DEF ShopInv, Fit, Shaped, Unpriced, BeginRun, Step, Working
<1>8. Fit(r)'
  BY <1>1, <1>3, <1>4, <1>6, <1>7 DEF Fit, Showed, Priced, Heard, Ends, Working, Routes, Unpriced
<1> QED
  BY <1>1, <1>4, <1>8, WorkStep DEF BeginRun

\* A run chooses among what its own caller was shown.
LEMMA ChooseHolds == ASSUME ShopInv, NEW r \in Runs, Choose(r) PROVE ShopInv'
<1>1. Step(r) \in Working /\ Step(r) \notin Routes /\ UNCHANGED <<deal, memory, asked, sold, seen, heard>> /\ OpensOrMoves(r)
  BY StillMoves DEF Choose, Working, Routes
<1>2. Unpriced(r) /\ facts[r].settled = 0
  BY DEF ShopInv, Fit, Shaped, Choose
<1>3. /\ run[r] \in RunRow(r) /\ facts[r] \in FactsRow(r) /\ facts[r] # Nil
      /\ Kind[r] # "command" /\ run[r].wallet = facts[r].wallet /\ run[r].result = Nil
      /\ run[r].options \subseteq seen[r] /\ facts[r].prior \subseteq seen[r]
      /\ facts[r].shown \subseteq seen[r] /\ seen[r] \subseteq Products
      /\ DOMAIN facts = Runs /\ DOMAIN deal = Runs /\ DOMAIN heard = Runs
  BY <1>1, UnderWayFacts
<1>4. ASSUME Breaks(r) \/ Declines(r)
      PROVE  Fit(r)' /\ Frame(r)
  <2>1. CASE Breaks(r)
    BY <1>1, <1>3, <2>1, BreaksFits
  <2>2. CASE Declines(r)
    <3> DEFINE result == ResultRow("declined", Nil, 0, Nil, FALSE)
    <3>1. result \in EndRow /\ result.action = "declined" /\ result.product = Nil
      BY DEF EndRow, ResultRow, Actions
    <3>2. Finish(r, result)
      BY <2>2 DEF Declines
    <3>3. heard[r] = Nil
      BY <1>2 DEF Unpriced
    <3> HIDE DEF result
    <3> QED
      BY <1>1, <1>2, <1>3, <3>1, <3>2, <3>3, FinishFits
  <2> QED
    BY <1>4, <2>1, <2>2
<1>5. ASSUME NEW choice \in Shown(r), Goes(r, [run[r] EXCEPT !.step = "fetch_offer", !.pick = choice]),
             facts' = facts
      PROVE  Fit(r)' /\ Frame(r)
  <2>1. choice \in seen[r] /\ choice \in Products
    BY <1>3 DEF Shown, FactsOf
  <2>2. run'[r] = [run[r] EXCEPT !.step = "fetch_offer", !.pick = choice] /\ Frame(r)
    BY <1>1, <1>3, <1>5, GoesTo DEF Frame
  <2>3. /\ run'[r] \in RunRow(r) /\ Step(r)' = "fetch_offer" /\ run'[r].result = Nil
        /\ run'[r].offer = run[r].offer /\ run'[r].options = run[r].options
        /\ run'[r].wallet = run[r].wallet /\ run'[r].pick = choice /\ run'[r].route = run[r].route
    BY <1>3, <2>1, <2>2, ZenonT(60) DEF RunRow, Step, Working
  <2>4. Shaped(r)'
    BY <1>1, <1>2, <1>3, <1>5, <2>3, NextIsShaped DEF Unpriced, Step, Working
  <2>5. Fit(r)'
    BY <1>1, <1>2, <1>3, <1>5, <2>1, <2>3, <2>4
    DEF Fit, Showed, Priced, Heard, Ends, Working, Routes, Unpriced
  <2> QED
    BY <2>2, <2>5
<1>6. Fit(r)' /\ Frame(r)
  BY <1>4, <1>5 DEF Choose
<1> QED
  BY <1>1, <1>3, <1>6, WorkStep DEF Choose

\* What the shop lists is shown to the run's caller before anything is chosen.
LEMMA AskShopHolds == ASSUME ShopInv, NEW r \in Runs, AskShop(r) PROVE ShopInv'
<1>1. Step(r) = "ask_shop" /\ Step(r) \in Working /\ UNCHANGED <<deal, memory, asked, sold, heard>>
      /\ OpensOrMoves(r)
  BY StillMoves DEF AskShop, Working
<1>2. Unpriced(r) /\ facts[r].settled = 0
  BY <1>1 DEF ShopInv, Fit, Shaped
<1>3. /\ run[r] \in RunRow(r) /\ facts[r] \in FactsRow(r) /\ facts[r] # Nil
      /\ Kind[r] # "command" /\ run[r].wallet = facts[r].wallet /\ run[r].result = Nil
      /\ facts[r].prior \subseteq seen[r] /\ heard[r] \in Runs \cup {Nil} /\ run[r].options \subseteq seen[r]
      /\ facts[r].shown \subseteq seen[r] /\ seen[r] \subseteq Products
      /\ DOMAIN facts = Runs /\ DOMAIN deal = Runs /\ DOMAIN heard = Runs
      /\ Step(r) \notin {"idle", "remember", "spend", "done", "failed"}
  BY <1>1, UnderWayFacts
<1>4. PICK options \in Shortlists(WalletFor(r).limit) :
        /\ \/ options = {} /\ Declines(r)
           \/ /\ facts' = [facts EXCEPT ![r].shown = options]
              /\ Goes(r, [run[r] EXCEPT !.step = "choose_option", !.options = options])
        /\ seen' = [q \in Runs |-> IF q = r \/ (OfPerson(q) /\ OfPerson(r))
                                   THEN seen[q] \cup options ELSE seen[q]]
  BY DEF AskShop
<1>5. options \subseteq Products
  BY DEF Shortlists, Affordable
<1>6. /\ \A q \in Runs : seen[q] \subseteq seen'[q] /\ seen'[q] \subseteq Products
      /\ seen'[r] = seen[r] \cup options
  BY <1>4, <1>5 DEF ShopInv, Fit, Shaped
<1>7. ChatInv'
  BY <1>1, <1>4 DEF ShopInv, ChatInv, OfPerson
<1>8. CASE Declines(r)
  <2> DEFINE result == ResultRow("declined", Nil, 0, Nil, FALSE)
  <2>1. result \in EndRow /\ result.action = "declined" /\ result.product = Nil
    BY DEF EndRow, ResultRow, Actions
  <2>2. Finish(r, result)
    BY <1>8 DEF Declines
  <2>3. heard[r] = Nil
    BY <1>2 DEF Unpriced
  <2> HIDE DEF result
  <2>4. Fit(r)' /\ Frame(r)
    BY <1>1, <1>2, <1>3, <1>6, <2>1, <2>2, <2>3, FinishFits
  <2> QED
    BY <1>1, <1>3, <1>6, <1>7, <2>4, ShownStep
<1>9. CASE /\ facts' = [facts EXCEPT ![r].shown = options]
           /\ Goes(r, [run[r] EXCEPT !.step = "choose_option", !.options = options])
  <2>1. /\ run'[r] = [run[r] EXCEPT !.step = "choose_option", !.options = options]
        /\ facts'[r] = [facts[r] EXCEPT !.shown = options] /\ Frame(r)
    BY <1>1, <1>3, <1>9, GoesTo DEF Frame
  <2>2. /\ run'[r] \in RunRow(r) /\ Step(r)' = "choose_option" /\ run'[r].result = Nil
        /\ run'[r].offer = run[r].offer /\ run'[r].options = options
        /\ run'[r].wallet = run[r].wallet /\ run'[r].route = run[r].route
    BY <1>3, <1>5, <2>1, ZenonT(60) DEF RunRow, Step, Working
  <2>3. /\ facts'[r] \in FactsRow(r) /\ facts'[r].wallet = facts[r].wallet
        /\ facts'[r].prior = facts[r].prior /\ facts'[r].shown = options
        /\ facts'[r].settled = facts[r].settled /\ facts'[r] # Nil
    BY <1>3, <1>5, <2>1, ShopAssumption DEF FactsRow
  <2>4. Shaped(r)'
    BY <1>1, <1>2, <1>3, <1>6, <2>2, <2>3, NextIsShaped DEF Unpriced, Step, Working
  <2>5. Fit(r)'
    BY <1>1, <1>2, <1>3, <1>6, <2>2, <2>3, <2>4
    DEF Fit, Showed, Priced, Heard, Ends, Working, Routes, Unpriced
  <2> QED
    BY <1>1, <1>3, <1>6, <1>7, <2>1, <2>5, ShownStep
<1> QED
  BY <1>4, <1>8, <1>9

\* The quote opens the run's own session and puts its basket on record.
LEMMA FetchOfferHolds == ASSUME ShopInv, NEW r \in Runs, FetchOffer(r) PROVE ShopInv'
<1>1. Step(r) = "fetch_offer" /\ Step(r) \in Working /\ Step(r) \notin Routes
      /\ UNCHANGED <<memory, asked, sold, seen, heard, crossed>>
  BY DEF FetchOffer, Working, Routes
<1>2. Unpriced(r) /\ facts[r].settled = 0 /\ run[r].pick \in seen[r]
  BY <1>1 DEF ShopInv, Fit, Shaped, Showed
<1>3. /\ run[r] \in RunRow(r) /\ facts[r] \in FactsRow(r) /\ facts[r] # Nil
      /\ Kind[r] # "command" /\ run[r].wallet = facts[r].wallet /\ run[r].result = Nil
      /\ facts[r].prior \subseteq seen[r] /\ heard[r] \in Runs \cup {Nil} /\ run[r].options \subseteq seen[r]
      /\ facts[r].shown \subseteq seen[r] /\ seen[r] \subseteq Products
      /\ DOMAIN facts = Runs /\ DOMAIN deal = Runs /\ DOMAIN heard = Runs
      /\ Step(r) \notin {"idle", "remember", "spend", "done", "failed"}
  BY <1>1, UnderWayFacts
<1>4. PICK quote \in Quotes[run[r].pick] :
        LET offer == [product |-> run[r].pick, final |-> quote.final, bundled |-> quote.bundled]
        IN  /\ deal' = [deal EXCEPT ![r] = Session(run[r].pick, quote)]
            /\ \/ /\ facts' = [facts EXCEPT ![r].priced = [product |-> offer.product,
                                                           bundled |-> offer.bundled, quoted |-> r]]
                  /\ Goes(r, [run[r] EXCEPT !.step = "decide_offer", !.offer = offer])
               \/ Breaks(r)
  BY DEF FetchOffer
<1> DEFINE offer == [product |-> run[r].pick, final |-> quote.final, bundled |-> quote.bundled]
           goods == [product |-> run[r].pick, bundled |-> quote.bundled, quoted |-> r]
<1>5. run[r].pick \in Products /\ quote \in QuoteRow
  BY <1>2, <1>3, ShopAssumption
<1>6. /\ deal'[r] = Session(run[r].pick, quote) /\ deal'[r] \in DealRow /\ deal'[r] # Nil
      /\ deal'[r].product = run[r].pick /\ deal'[r].status = "countered"
      /\ deal'[r].ask = quote.final
      /\ DOMAIN deal' = Runs /\ \A q \in Runs : q # r => deal'[q] = deal[q]
  BY <1>3, <1>4, <1>5, ShopAssumption DEF Session, DealRow, QuoteRow
<1>9. OpensOrMoves(r)
  BY <1>1, <1>2, <1>6 DEF OpensOrMoves, MovesOn, Unpriced
<1>7. CASE Breaks(r)
  <2>1. Fit(r)' /\ Frame(r)
    BY <1>1, <1>7, <1>9, BreaksFits
  <2> QED
    BY <1>1, <1>3, <2>1, WorkStep
<1>8. CASE /\ facts' = [facts EXCEPT ![r].priced = goods]
           /\ Goes(r, [run[r] EXCEPT !.step = "decide_offer", !.offer = offer])
  <2>1. /\ run'[r] = [run[r] EXCEPT !.step = "decide_offer", !.offer = offer]
        /\ facts'[r] = [facts[r] EXCEPT !.priced = goods] /\ Frame(r)
    BY <1>1, <1>3, <1>8, <1>9, GoesTo DEF Frame
  <2>2. /\ offer \in OfferRow /\ goods \in GoodsRow
        /\ offer.product = run[r].pick /\ goods.product = run[r].pick /\ goods.quoted = r
        /\ offer.final = quote.final
    BY <1>5 DEF OfferRow, GoodsRow, QuoteRow
  <2>3. /\ run'[r] \in RunRow(r) /\ Step(r)' = "decide_offer" /\ run'[r].result = Nil
        /\ run'[r].offer = offer /\ run'[r].options = run[r].options /\ run'[r].pick = run[r].pick
        /\ run'[r].wallet = run[r].wallet /\ run'[r].route = Nil
    <3> HIDE DEF offer, goods
    <3> QED
      BY <1>2, <1>3, <2>1, <2>2, ZenonT(60) DEF RunRow, Step, Working, Unpriced
  <2>4. /\ facts'[r] \in FactsRow(r) /\ facts'[r].wallet = facts[r].wallet
        /\ facts'[r].prior = facts[r].prior /\ facts'[r].shown = facts[r].shown
        /\ facts'[r].settled = facts[r].settled /\ facts'[r].priced = goods /\ facts'[r] # Nil
    <3> HIDE DEF offer, goods
    <3> QED
      BY <1>3, <2>1, <2>2, ShopAssumption DEF FactsRow
  <2>5. offer # Nil /\ goods # Nil
    BY <2>2, ShopAssumption
  <2> HIDE DEF offer, goods
  <2>6. Shaped(r)'
    BY <1>1, <1>3, <1>6, <2>3, <2>4, NextIsShaped DEF Step, Working
  <2>7. Showed(r)'
    BY <1>1, <1>2, <1>3, <2>3, <2>4 DEF Showed
  <2>8. Priced(r)'
    BY <1>1, <1>2, <1>6, <2>2, <2>3, <2>4, <2>5 DEF Priced, Unpriced, Routes
  <2>9. Heard(r)' /\ Ends(r)'
    BY <1>1, <1>2, <2>3 DEF Heard, Ends, Unpriced
  <2> QED
    BY <1>1, <1>3, <2>1, <2>6, <2>7, <2>8, <2>9, WorkStep DEF Fit
<1> QED
  BY <1>4, <1>7, <1>8

\* No judgement becomes an accept beyond what the person has and allows.
LEMMA RouteIsWithin ==
    ASSUME NEW judged \in Routes, NEW price \in Nat, NEW wallet \in WalletRow
    PROVE  /\ RouteFor(judged, price, wallet) \in Routes
           /\ RouteFor(judged, price, wallet) = "accept" => Within(price, wallet)
<1> DEFINE beyond == price > wallet.balance \/ (Ceiling(wallet) > 0 /\ price > Ceiling(wallet))
<1>1. wallet.balance \in Nat /\ wallet.limit \in Nat /\ wallet.budget \in Nat
  BY DEF WalletRow
<1>2. Ceiling(wallet) \in Nat
  BY <1>1 DEF Ceiling
<1>3. ~beyond => Within(price, wallet)
  BY <1>1, <1>2 DEF Within
<1> HIDE DEF beyond
<1>4. RouteFor(judged, price, wallet) = IF judged = "accept" /\ beyond THEN "ask_human" ELSE judged
  BY Zenon DEF RouteFor, beyond
<1> QED
  BY <1>3, <1>4 DEF Routes

\* The judgement picks an edge, and none beyond the person's means is an accept.
LEMMA DecideOfferHolds == ASSUME ShopInv, NEW r \in Runs, DecideOffer(r) PROVE ShopInv'
<1>1. Step(r) = "decide_offer" /\ Step(r) \in Working
      /\ UNCHANGED <<facts, deal, memory, asked, sold, seen, heard, crossed>>
      /\ OpensOrMoves(r)
  BY StillMoves DEF DecideOffer, Working
<1>2. /\ run[r].pick \in seen[r] /\ facts[r].priced # Nil /\ facts[r].priced.product = run[r].pick
      /\ facts[r].priced.quoted = r /\ deal[r] # Nil /\ deal[r].product = run[r].pick
      /\ run[r].offer \in OfferRow /\ run[r].offer.product = run[r].pick /\ run[r].offer # Nil
      /\ heard[r] = Nil /\ facts[r].settled = 0
      /\ r \notin crossed => deal[r].ask = run[r].offer.final
  BY <1>1 DEF ShopInv, Fit, Showed, Priced
<1>3. /\ run[r] \in RunRow(r) /\ facts[r] \in FactsRow(r) /\ facts[r] # Nil
      /\ Kind[r] # "command" /\ run[r].wallet = facts[r].wallet /\ run[r].result = Nil
      /\ facts[r].prior \subseteq seen[r] /\ heard[r] \in Runs \cup {Nil} /\ run[r].options \subseteq seen[r]
      /\ facts[r].shown \subseteq seen[r] /\ seen[r] \subseteq Products
      /\ facts[r].wallet \in WalletRow /\ deal[r] \in DealRow \cup {Nil}
      /\ DOMAIN facts = Runs /\ DOMAIN deal = Runs /\ DOMAIN heard = Runs
      /\ Step(r) \notin {"idle", "remember", "spend", "done", "failed"}
  BY <1>1, UnderWayFacts
<1>4. run[r].offer.final \in Nat
  BY <1>2 DEF OfferRow
<1>5. PICK route \in Routes :
        /\ Goes(r, [run[r] EXCEPT !.step = route, !.route = route])
        /\ route = "accept" => Within(run[r].offer.final, run[r].wallet)
  BY <1>3, <1>4, RouteIsWithin DEF DecideOffer, Assessments, WalletFor, FactsOf
<1>6. /\ run'[r] = [run[r] EXCEPT !.step = route, !.route = route] /\ Frame(r)
  BY <1>1, <1>3, <1>5, GoesTo DEF Frame
<1>7. /\ run'[r] \in RunRow(r) /\ Step(r)' = route /\ run'[r].result = Nil
      /\ run'[r].offer = run[r].offer /\ run'[r].options = run[r].options
      /\ run'[r].pick = run[r].pick /\ run'[r].wallet = run[r].wallet /\ run'[r].route = route
  BY <1>3, <1>6, ZenonT(60) DEF RunRow, Step, Working
<1>8. route \in Working /\ route \notin {"idle", "ask_shop", "choose_option", "fetch_offer",
         "decide_offer", "finalize", "remember", "spend", "done", "failed"}
  BY DEF Working, Routes
<1>9. Shaped(r)'
  BY <1>1, <1>3, <1>7, <1>8, NextIsShaped DEF Step
<1>10. Showed(r)'
  BY <1>1, <1>2, <1>3, <1>7 DEF Showed
<1>11. Priced(r)'
  BY <1>1, <1>2, <1>5, <1>7, <1>8, Zenon DEF Priced, Within, Ceiling
<1>12. Heard(r)'
  BY <1>1, <1>2, <1>7, <1>8 DEF Heard
<1>13. Ends(r)'
  BY <1>7, <1>8 DEF Ends
<1> QED
  BY <1>1, <1>3, <1>6, <1>9, <1>10, <1>11, <1>12, <1>13, WorkStep DEF Fit

\* A route that joins the end of the graph brings an outcome that agrees with what was heard.
LEMMA JoinsFits ==
    ASSUME ShopInv, NEW r \in Runs, Step(r) \in Routes, NEW outcome \in OutcomeRow,
           Joins(r, outcome), facts' = facts, seen' = seen,
           OpensOrMoves(r), DOMAIN heard' = Runs, \A q \in Runs : q # r => heard'[q] = heard[q],
           heard'[r] \in Runs \cup {Nil},
           heard'[r] # Nil => /\ deal'[heard'[r]] # Nil /\ deal'[heard'[r]].status = "accepted"
                              /\ heard'[r] = r \/ heard'[r] \in crossed',
           facts[r].settled > 0 => heard'[r] # Nil /\ facts[r].settled = deal'[heard'[r]].ask,
           (facts[r].settled = 0 /\ heard'[r] # Nil) => outcome.amount = deal'[heard'[r]].ask,
           Step(r) = "accept" => facts[r].settled = 0,
           (Step(r) = "accept" /\ r \notin crossed') => Within(outcome.amount, run[r].wallet)
    PROVE  Fit(r)' /\ Frame(r)
<1>1. /\ run[r].pick \in seen[r] /\ run[r].pick \in Products /\ facts[r].priced \in GoodsRow
      /\ facts[r].priced.product = run[r].pick /\ facts[r].priced.quoted = r
      /\ run[r].offer \in OfferRow /\ run[r].offer.product = run[r].pick
      /\ deal[r] # Nil /\ deal[r].product = run[r].pick
  BY QuotedFacts DEF Routes
<1>2. Step(r) \in Working
  BY DEF Working
<1>3. /\ run[r] \in RunRow(r) /\ facts[r] \in FactsRow(r) /\ facts[r] # Nil
      /\ Kind[r] # "command" /\ run[r].wallet = facts[r].wallet /\ run[r].result = Nil
      /\ facts[r].prior \subseteq seen[r] /\ run[r].options \subseteq seen[r]
      /\ facts[r].shown \subseteq seen[r] /\ seen[r] \subseteq Products
      /\ DOMAIN facts = Runs
  BY <1>2, UnderWayFacts
<1>4. run[r].route = Step(r)
  BY DEF ShopInv, Fit, Priced
<1>5. /\ run'[r] = [run[r] EXCEPT !.step = "finalize", !.outcome = outcome] /\ Frame(r)
  BY <1>3, GoesTo DEF Frame, Joins
<1>6. /\ run'[r] \in RunRow(r) /\ Step(r)' = "finalize" /\ run'[r].result = Nil
      /\ run'[r].offer = run[r].offer /\ run'[r].options = run[r].options
      /\ run'[r].pick = run[r].pick /\ run'[r].wallet = run[r].wallet
      /\ run'[r].route = run[r].route /\ run'[r].outcome = outcome
  BY <1>3, <1>5, ZenonT(60) DEF RunRow, Step, Working
<1>7. outcome # Nil /\ facts[r].priced # Nil
  BY <1>1, ShopAssumption
<1>14. /\ deal'[r] \in DealRow \cup {Nil} /\ deal'[r] # Nil /\ deal'[r].product = run[r].pick
  BY <1>1, DealsAfter
<1>8. "finalize" \in Working /\ "finalize" \notin Routes
  BY DEF Working, Routes
<1>9. Shaped(r)'
  BY <1>3, <1>6, <1>8, <1>14, NextIsShaped DEF Step
<1>10. Showed(r)'
  BY <1>1, <1>3, <1>6 DEF Showed
<1>11. Priced(r)'
  BY <1>1, <1>6, <1>7, <1>8, <1>14 DEF Priced
<1>12. Heard(r)'
  BY <1>4, <1>6, <1>7, Zenon DEF Heard, Within, Ceiling
<1>13. Ends(r)'
  BY <1>6 DEF Ends
<1> QED
  BY <1>5, <1>9, <1>10, <1>11, <1>12, <1>13 DEF Fit

\* What is known of a run that has been quoted and has heard nothing.
LEMMA StillOpen ==
    ASSUME ShopInv, NEW r \in Runs, Step(r) \in {"accept", "ask_human", "decline"}
    PROVE  /\ deal[r] \in DealRow /\ deal[r] # Nil /\ deal[r].product = run[r].pick
           /\ heard[r] = Nil /\ facts[r].settled = 0 /\ ~(facts[r].settled > 0)
           /\ deal[r].ask \in Nat \ {0} /\ run[r].offer.final \in Nat \ {0}
           /\ r \notin crossed => deal[r].ask = run[r].offer.final
           /\ Step(r) = "accept" => Within(run[r].offer.final, run[r].wallet)
<1>1. /\ heard[r] = Nil /\ facts[r].settled = 0
      /\ r \notin crossed => deal[r].ask = run[r].offer.final
      /\ Step(r) = "accept" => Within(run[r].offer.final, run[r].wallet)
  BY DEF ShopInv, Fit, Priced
<1>2. deal[r] \in DealRow /\ deal[r] # Nil /\ deal[r].product = run[r].pick /\ run[r].offer \in OfferRow
  BY QuotedFacts DEF Routes
<1>3. ~(facts[r].settled > 0)
  BY <1>1
<1>4. deal[r].ask \in Nat \ {0} /\ run[r].offer.final \in Nat \ {0}
  BY <1>2 DEF DealRow, OfferRow
<1> QED
  BY <1>1, <1>2, <1>3, <1>4

\* A run whose turn it is works on.
LEMMA RouteSteps ==
    ASSUME ShopInv, NEW r \in Runs, Step(r) \in Routes \cup {"finalize"}, Fit(r)', Frame(r),
           UNCHANGED <<memory, asked, sold, seen>>
    PROVE  ShopInv'
<1>1. Step(r) \in Working
  BY DEF Working
<1>2. Kind[r] # "command" /\ Step(r) # "done"
  BY <1>1, UnderWayFacts
<1> QED
  BY <1>2, WorkStep

\* An accepted offer closes the session at what the shop then asks, heard or not.
LEMMA AcceptOfferHolds == ASSUME ShopInv, NEW r \in Runs, AcceptOffer(r) PROVE ShopInv'
<1>1. Step(r) = "accept" /\ Step(r) \in Routes /\ Step(r) \in Working
      /\ Closes(r, "accepted", deal[r].ask) /\ UNCHANGED <<memory, asked, sold, seen, crossed>>
  BY DEF AcceptOffer, Routes, Working
<1>2. /\ deal[r] # Nil /\ heard[r] = Nil /\ facts[r].settled = 0 /\ ~(facts[r].settled > 0)
      /\ deal[r].ask \in Nat \ {0} /\ (r \notin crossed => deal[r].ask = run[r].offer.final)
      /\ Within(run[r].offer.final, run[r].wallet)
  BY <1>1, StillOpen
<1>3. /\ deal'[r] # Nil /\ deal'[r].status = "accepted" /\ deal'[r].ask = deal[r].ask /\ OpensOrMoves(r)
  BY <1>1, <1>2, ClosesRow DEF OpensOrMoves, MovesOn
<1>4. DOMAIN heard = Runs
  BY <1>1, UnderWayFacts
<1>5. CASE Breaks(r) /\ heard' = heard
  <2>1. Fit(r)' /\ Frame(r)
    BY <1>1, <1>3, <1>5, BreaksFits
  <2> QED
    BY <1>1, <2>1, RouteSteps
<1>6. CASE /\ Joins(r, Outcome("buy", deal[r].ask, TRUE))
           /\ heard' = [heard EXCEPT ![r] = r] /\ facts' = facts
  <2> DEFINE outcome == Outcome("buy", deal[r].ask, TRUE)
  <2>1. outcome \in OutcomeRow /\ outcome.amount = deal[r].ask
    BY <1>2 DEF OutcomeRow, Outcome, Actions
  <2>2. /\ heard'[r] = r /\ DOMAIN heard' = Runs
        /\ \A q \in Runs : q # r => heard'[q] = heard[q]
    BY <1>4, <1>6
  <2>3. Joins(r, outcome)
    BY <1>6
  <2>4. (r \notin crossed') => Within(outcome.amount, run[r].wallet)
    BY <1>1, <1>2, <2>1, Zenon
  <2> HIDE DEF outcome
  <2>5. Fit(r)' /\ Frame(r)
    BY <1>1, <1>2, <1>3, <1>6, <2>1, <2>2, <2>3, <2>4, JoinsFits
  <2> QED
    BY <1>1, <2>5, RouteSteps
<1> QED
  BY <1>5, <1>6 DEF AcceptOffer

\* A question or a decline goes on with the offer as it was quoted.
LEMMA AskOrDeclineHolds ==
    ASSUME ShopInv, NEW r \in Runs, AskHuman(r) \/ DeclineOffer(r) PROVE ShopInv'
<1>1. /\ Step(r) \in {"ask_human", "decline"} /\ Step(r) \in Routes /\ Step(r) # "accept"
      /\ Step(r) \in Working /\ UNCHANGED <<facts, memory, asked, sold, seen, heard, crossed>>
  BY DEF AskHuman, DeclineOffer, Routes, Working
<1>2. PICK action \in Actions : Joins(r, Outcome(action, run[r].offer.final, TRUE))
  BY DEF AskHuman, DeclineOffer, Actions
<1> DEFINE outcome == Outcome(action, run[r].offer.final, TRUE)
<1>3. /\ deal[r] # Nil /\ heard[r] = Nil /\ facts[r].settled = 0
      /\ deal[r].ask \in Nat \ {0} /\ run[r].offer.final \in Nat \ {0} /\ ~(facts[r].settled > 0)
  BY <1>1, StillOpen
<1>4. outcome \in OutcomeRow
  BY <1>3 DEF OutcomeRow, Outcome
<1>5. DOMAIN heard = Runs
  BY <1>1, UnderWayFacts
<1>6. OpensOrMoves(r)
  <2>1. CASE deal' = deal
    BY <1>1, <2>1, StillMoves
  <2>2. CASE Closes(r, "declined", deal[r].ask)
    BY <1>1, <1>3, <2>2, ClosesRow DEF OpensOrMoves, MovesOn
  <2> QED
    BY <2>1, <2>2 DEF AskHuman, DeclineOffer
<1> HIDE DEF outcome
<1>7. Fit(r)' /\ Frame(r)
  BY <1>1, <1>2, <1>3, <1>4, <1>5, <1>6, JoinsFits DEF outcome
<1> QED
  BY <1>1, <1>7, RouteSteps

\* Whatever the haggling agent says it did, the service knows the yes it heard.
LEMMA ReportHolds == ASSUME ShopInv, NEW r \in Runs, Report(r) PROVE ShopInv'
<1>1. /\ Step(r) = "negotiate" /\ Step(r) \in Routes /\ Step(r) # "accept"
      /\ Step(r) \in Working /\ UNCHANGED <<facts, deal, memory, asked, sold, seen, heard, crossed>>
      /\ OpensOrMoves(r)
  BY StillMoves DEF Report, Routes, Working
<1>2. facts[r].settled = IF heard[r] = Nil THEN 0 ELSE deal[heard[r]].ask
  BY <1>1 DEF ShopInv, Fit, Heard
<1>3. /\ facts[r].settled > 0 => heard[r] # Nil /\ facts[r].settled = deal[heard[r]].ask
      /\ ~(facts[r].settled = 0 /\ heard[r] # Nil)
  BY <1>2, HeardFacts
<1>10. Bids \cup {0} \subseteq Nat
  BY ShopAssumption
<1>4. PICK action \in Actions \cup {"", "unknown"}, amount \in Bids \cup {0}, status \in BOOLEAN :
        Joins(r, Outcome(action, amount, action # "" \/ status))
  BY DEF Report
<1> DEFINE outcome == Outcome(action, amount, action # "" \/ status)
<1>5. amount \in Nat
  BY <1>10
<1>6. outcome \in OutcomeRow
  BY <1>5 DEF OutcomeRow, Outcome
<1>7. heard[r] # Nil => /\ deal[heard[r]] # Nil /\ deal[heard[r]].status = "accepted"
                        /\ heard[r] = r \/ heard[r] \in crossed
  BY HeardFacts
<1>8. DOMAIN heard = Runs /\ heard[r] \in Runs \cup {Nil}
  BY <1>1, UnderWayFacts
<1> HIDE DEF outcome
<1>9. Fit(r)' /\ Frame(r)
  BY <1>1, <1>4, <1>6, <1>7, <1>8, <1>3, JoinsFits DEF outcome
<1> QED
  BY <1>1, <1>9, RouteSteps

\* A tool call that goes unheard leaves the haggling run where it is: only a session moves on.
LEMMA UnheardHolds ==
    ASSUME ShopInv, NEW r \in Runs, Step(r) = "negotiate", OpensOrMoves(r), deal[r] # Nil,
           UNCHANGED <<facts, run, memory, asked, sold, seen, heard>>
    PROVE  ShopInv'
<1>1. /\ \A t \in Runs : (deal[t] # Nil /\ deal[t].status = "accepted") => deal'[t] = deal[t]
      /\ \A q \in Runs : MovesOn(q)
  BY DealsAfter DEF OpensOrMoves, MovesOn
<1>2. ASSUME NEW q \in Runs PROVE Fit(q)'
  <2>1. seen[q] \subseteq Products
    BY DEF ShopInv, Fit, Shaped
  <2> QED
    BY <1>1, <2>1, FitStays DEF OpensOrMoves
<1>3. Frame(r) /\ Step(r) # "done" /\ Kind[r] # "command"
  BY UnderWayFacts DEF Frame, Working, Routes
<1> QED
  BY <1>2, <1>3, WorkStep

\* A yes that is heard is put on the run's record, whichever session it is of.
LEMMA YesHolds ==
    ASSUME ShopInv, NEW r \in Runs, NEW s \in Runs, Step(r) = "negotiate", OpensOrMoves(r),
           UNCHANGED <<run, memory, asked, sold, seen>>, NEW amount \in Nat \ {0},
           deal'[s] # Nil, deal'[s].status = "accepted", deal'[s].ask = amount,
           s = r \/ s \in crossed',
           facts' = [facts EXCEPT ![r].settled = amount], heard' = [heard EXCEPT ![r] = s]
    PROVE  ShopInv'
<1>1. Step(r) \in Routes /\ Step(r) \in Working /\ Step(r)' = Step(r)
  BY DEF Routes, Working, Step
<1>2. /\ run[r].pick \in seen[r] /\ run[r].pick \in Products /\ facts[r].priced \in GoodsRow
      /\ facts[r].priced.product = run[r].pick /\ facts[r].priced.quoted = r
      /\ run[r].offer \in OfferRow /\ run[r].offer.product = run[r].pick
      /\ deal[r] # Nil /\ deal[r].product = run[r].pick
  BY <1>1, QuotedFacts DEF Routes
<1>3. /\ run[r] \in RunRow(r) /\ facts[r] \in FactsRow(r) /\ facts[r] # Nil
      /\ Kind[r] # "command" /\ run[r].wallet = facts[r].wallet /\ run[r].result = Nil
      /\ facts[r].prior \subseteq seen[r] /\ run[r].options \subseteq seen[r]
      /\ facts[r].shown \subseteq seen[r] /\ seen[r] \subseteq Products
      /\ DOMAIN run = Runs /\ DOMAIN facts = Runs /\ DOMAIN heard = Runs
  BY <1>1, UnderWayFacts
<1>4. run[r].route = Step(r) /\ run[r].route # "accept"
  BY <1>1 DEF ShopInv, Fit, Priced
<1>5. /\ facts'[r] \in FactsRow(r) /\ facts'[r].wallet = facts[r].wallet
      /\ facts'[r].prior = facts[r].prior /\ facts'[r].shown = facts[r].shown
      /\ facts'[r].settled = amount /\ facts'[r].priced = facts[r].priced
  <2>1. facts'[r] = [facts[r] EXCEPT !.settled = amount]
    BY <1>3
  <2> QED
    BY <1>3, <2>1 DEF FactsRow
<1>6. facts'[r] # Nil /\ facts[r].priced # Nil
  BY <1>2, <1>5, ShopAssumption
<1>7. /\ heard'[r] = s /\ Frame(r)
      /\ deal'[r] \in DealRow \cup {Nil} /\ deal'[r] # Nil /\ deal'[r].product = run[r].pick
  BY <1>2, <1>3, DealsAfter DEF Frame
<1>8. Shaped(r)'
  BY <1>1, <1>3, <1>5, <1>6, <1>7, NextIsShaped DEF Step
<1>9. Showed(r)'
  BY <1>1, <1>2, <1>3, <1>5 DEF Showed
<1>10. Priced(r)'
  <2>1. Step(r) \notin {"decide_offer", "accept", "ask_human", "decline"}
    OBVIOUS
  <2>2. run[r].offer # Nil
    BY <1>2, ShopAssumption
  <2> QED
    BY <1>1, <1>2, <1>4, <1>5, <1>6, <1>7, <2>1, <2>2, Zenon DEF Priced
<1>11. Heard(r)'
  <2>1. s # Nil
    BY ShopAssumption
  <2> QED
    BY <1>1, <1>5, <1>7, <2>1 DEF Heard
<1>12. Ends(r)'
  BY <1>1, <1>3 DEF Ends
<1> QED
  BY <1>1, <1>7, <1>8, <1>9, <1>10, <1>11, <1>12, RouteSteps DEF Fit

\* What is known when a tool acts in a session.
LEMMA ToolFacts ==
    ASSUME ShopInv, NEW r \in Runs, NEW s \in Runs, ActsIn(r, s)
    PROVE  /\ Step(r) = "negotiate" /\ deal[r] # Nil
           /\ deal[s] \in DealRow /\ deal[s] # Nil /\ deal[s].ask \in Nat \ {0}
           /\ (s = r \/ s \in crossed') /\ crossed \subseteq crossed'
           /\ (Moved(s) /\ DOMAIN deal' = Runs /\ \A q \in Runs : q # s => deal'[q] = deal[q])
              => OpensOrMoves(r)
<1>1. Step(r) = "negotiate" /\ deal[r] # Nil
  BY QuotedFacts DEF ActsIn, Routes
<1>2. deal[s] \in DealRow /\ deal[s] # Nil
  BY DEF ActsIn, ShopInv, Fit, Shaped
<1>3. (s = r \/ s \in crossed') /\ crossed \subseteq crossed'
  BY DEF ActsIn
<1> QED
  BY <1>1, <1>2, <1>3 DEF DealRow, OpensOrMoves, MovesOn

\* The shop's yes to a tool, heard or not.
LEMMA AcceptedHolds ==
    ASSUME ShopInv, NEW r \in Runs, NEW s \in Runs, ActsIn(r, s), NEW amount \in Nat \ {0},
           Accepted(r, s, amount), UNCHANGED <<run, memory, asked, sold, seen>>
    PROVE  ShopInv'
<1>1. Closes(s, "accepted", amount)
  BY DEF Accepted
<1>2. Step(r) = "negotiate" /\ deal[r] # Nil /\ deal[s] # Nil /\ (s = r \/ s \in crossed')
  BY ToolFacts
<1>3. deal'[s] # Nil /\ deal'[s].status = "accepted" /\ deal'[s].ask = amount /\ OpensOrMoves(r)
  BY <1>1, <1>2, ClosesRow, ToolFacts
<1>4. CASE UNCHANGED <<facts, heard>>
  BY <1>2, <1>3, <1>4, UnheardHolds
<1>5. CASE /\ facts' = [facts EXCEPT ![r].settled = amount]
           /\ heard' = [heard EXCEPT ![r] = s]
  BY <1>2, <1>3, <1>5, YesHolds
<1> QED
  BY <1>4, <1>5 DEF Accepted

\* The shop's no to a tool.
LEMMA DeclinedHolds ==
    ASSUME ShopInv, NEW r \in Runs, NEW s \in Runs, ActsIn(r, s),
           Closes(s, "declined", deal[s].ask),
           UNCHANGED <<facts, run, memory, asked, sold, seen, heard>>
    PROVE  ShopInv'
<1>1. /\ Step(r) = "negotiate" /\ deal[r] # Nil /\ deal[s] # Nil /\ deal[s].ask \in Nat \ {0}
  BY ToolFacts
<1>2. OpensOrMoves(r)
  BY <1>1, ClosesRow, ToolFacts
<1> QED
  BY <1>1, <1>2, UnheardHolds

\* A counter moves the ask, closes the session, or leaves it open.
LEMMA CounterOfferHolds ==
    ASSUME ShopInv, NEW r \in Runs, NEW s \in Runs, CounterOffer(r, s) PROVE ShopInv'
<1>1. /\ ActsIn(r, s) /\ deal[s].status = "countered"
      /\ UNCHANGED <<run, memory, asked, sold, seen>>
  BY DEF CounterOffer
<1>2. /\ Step(r) = "negotiate" /\ deal[r] # Nil
      /\ deal[s] \in DealRow /\ deal[s] # Nil /\ deal[s].ask \in Nat \ {0}
  BY <1>1, ToolFacts
<1>3. PICK bid \in Bids :
        \/ \E amount \in {bid, deal[s].ask} : Accepted(r, s, amount)
        \/ Closes(s, "declined", deal[s].ask) /\ UNCHANGED <<facts, heard>>
        \/ deal' = [deal EXCEPT ![s].ask = bid] /\ UNCHANGED <<facts, heard>>
  BY DEF CounterOffer
<1>4. bid \in Nat \ {0}
  BY ShopAssumption
<1>5. CASE \E amount \in {bid, deal[s].ask} : Accepted(r, s, amount)
  BY <1>1, <1>2, <1>4, <1>5, AcceptedHolds
<1>6. CASE Closes(s, "declined", deal[s].ask) /\ UNCHANGED <<facts, heard>>
  BY <1>1, <1>6, DeclinedHolds
<1>7. CASE deal' = [deal EXCEPT ![s].ask = bid] /\ UNCHANGED <<facts, heard>>
  <2>1. /\ deal'[s] = [deal[s] EXCEPT !.ask = bid]
        /\ DOMAIN deal' = Runs /\ \A q \in Runs : q # s => deal'[q] = deal[q]
    BY <1>7 DEF ShopInv
  <2>2. deal'[s] \in DealRow /\ deal'[s].product = deal[s].product
    BY <1>2, <1>4, <2>1 DEF DealRow
  <2>3. OpensOrMoves(r)
    BY <1>1, <1>2, <2>1, <2>2, ToolFacts DEF Moved
  <2> QED
    BY <1>1, <1>2, <1>7, <2>3, UnheardHolds
<1> QED
  BY <1>3, <1>5, <1>6, <1>7

\* Accepting or declining by tool closes the session.
LEMMA ToolsHold ==
    ASSUME ShopInv, NEW r \in Runs, NEW s \in Runs, AcceptTool(r, s) \/ DeclineTool(r, s)
    PROVE  ShopInv'
<1>1. CASE AcceptTool(r, s)
  BY <1>1, ToolFacts, AcceptedHolds DEF AcceptTool
<1>2. CASE DeclineTool(r, s)
  BY <1>2, DeclinedHolds DEF DeclineTool
<1> QED
  BY <1>1, <1>2

\* What the last node answers is a row of the run's.
LEMMA ResultIsRow ==
    ASSUME NEW action \in Actions, NEW product \in Products, NEW amount \in Nat, NEW dated \in Runs,
           NEW approval \in BOOLEAN
    PROVE  LET result == ResultRow(action, product, amount, dated, approval)
           IN  /\ result.action = action /\ result.product = product /\ result.amount = amount
               /\ result.dated = dated /\ result \in EndRow
  BY DEF ResultRow, EndRow

\* The last node's answer names the run's own basket, at the shop's yes if one was heard.
LEMMA FinalizeHolds == ASSUME ShopInv, NEW r \in Runs, Finalize(r) PROVE ShopInv'
<1>1. /\ Step(r) = "finalize" /\ Step(r) \in Working /\ Step(r) \in Routes \cup {"finalize"}
      /\ UNCHANGED <<deal, memory, asked, sold, seen, heard, crossed>>
      /\ OpensOrMoves(r)
  BY StillMoves DEF Finalize, Working
<1> DEFINE goods == FactsOf(r).priced
           amount == SettledAmount(r, run[r].outcome)
           action == Normalized(run[r].outcome.action)
           above == BandCrossed(amount, Price[goods.product] + goods.bundled)
           approval == action = "ask_human" \/ above
           result == ResultRow(action, goods.product, amount, QuotedAt(goods), approval)
<1>2. Finish(r, result)
  BY DEF Finalize
<1>3. /\ goods \in GoodsRow /\ goods.product = run[r].pick /\ goods.quoted = r
      /\ run[r].pick \in Products /\ run[r].pick \in seen[r]
      /\ deal[r] \in DealRow /\ deal[r] # Nil /\ deal[r].product = run[r].pick
  BY <1>1, QuotedFacts DEF FactsOf
<1>4. /\ run[r] \in RunRow(r) /\ facts[r].settled \in Nat /\ seen[r] \subseteq Products
  BY <1>1, UnderWayFacts
<1>5. /\ run[r].outcome # Nil
      /\ facts[r].settled > 0 => heard[r] # Nil /\ facts[r].settled = deal[heard[r]].ask
      /\ (facts[r].settled = 0 /\ heard[r] # Nil) => run[r].outcome.amount = deal[heard[r]].ask
      /\ run[r].route = "accept" => facts[r].settled = 0
      /\ (run[r].route = "accept" /\ r \notin crossed) =>
            Within(run[r].outcome.amount, run[r].wallet)
  BY <1>1 DEF ShopInv, Fit, Heard
<1>6. run[r].outcome \in OutcomeRow
  BY <1>4, <1>5 DEF RunRow
<1>7. run[r].outcome.amount \in Nat /\ run[r].outcome.action \in Actions \cup {"", "unknown"}
  BY <1>6 DEF OutcomeRow
<1>8. amount = IF facts[r].settled > 0 THEN facts[r].settled ELSE run[r].outcome.amount
  BY DEF SettledAmount, FactsOf
<1>9. /\ amount \in Nat /\ (heard[r] # Nil => amount = deal[heard[r]].ask)
      /\ facts[r].settled = 0 => amount = run[r].outcome.amount
  <2> HIDE DEF amount
  <2>1. run[r].outcome.amount \in Nat
    BY <1>7
  <2>2. /\ facts[r].settled > 0 => heard[r] # Nil /\ facts[r].settled = deal[heard[r]].ask
        /\ (facts[r].settled = 0 /\ heard[r] # Nil) => run[r].outcome.amount = deal[heard[r]].ask
    BY <1>5
  <2> QED
    BY <1>4, <1>8, <2>1, <2>2
<1>10. action \in Actions
  BY <1>7 DEF Normalized, Actions
<1>11. approval \in BOOLEAN
  BY DEF BandCrossed
<1>12. QuotedAt(goods) = r
  BY <1>3 DEF QuotedAt
<1> HIDE DEF amount, action, approval, above, goods
<1>13. /\ result.action = action /\ result.product = run[r].pick /\ result.amount = amount
       /\ result.dated = r /\ result \in EndRow
  <2>1. result = ResultRow(action, run[r].pick, amount, r, approval)
    BY <1>3, <1>12
  <2>2. amount \in Nat
    BY <1>9
  <2> HIDE DEF result
  <2> QED
    BY <1>3, <1>10, <1>11, <2>1, <2>2, ResultIsRow
<1> HIDE DEF result
<1>14. result.product # Nil
  BY <1>3, <1>13, ShopAssumption
<1>15. (result.action = "buy" /\ run[r].route = "accept" /\ r \notin crossed) =>
         Within(result.amount, run[r].wallet)
  BY <1>5, <1>9, <1>13, Zenon
<1>16. (result.action = "buy" /\ heard[r] # Nil) => result.amount = deal[heard[r]].ask
  BY <1>9, <1>13, Zenon
<1>17. Fit(r)' /\ Frame(r)
  BY <1>1, <1>2, <1>3, <1>4, <1>13, <1>14, <1>15, <1>16, FinishFits
<1> QED
  BY <1>1, <1>17, RouteSteps

\* A node that fails leaves the session and what was heard of it as they are.
LEMMA NodeFailsHolds == ASSUME ShopInv, NEW r \in Runs, NodeFails(r) PROVE ShopInv'
<1>1. /\ Step(r) \in Working /\ (Breaks(r) \/ Lost(r)) /\ OpensOrMoves(r)
      /\ UNCHANGED <<deal, memory, asked, sold, seen, heard>>
  BY StillMoves DEF NodeFails, ShopInv, Fit, Shaped
<1>2. Kind[r] # "command" /\ Step(r) # "done"
  BY <1>1, UnderWayFacts
<1>3. Fit(r)' /\ Frame(r)
  BY <1>1, BreaksFits
<1> QED
  BY <1>1, <1>2, <1>3, WorkStep

-----------------------------------------------------------------------------
\* What is known of a run the graph is through with.
LEMMA EndedFacts ==
    ASSUME ShopInv, NEW r \in Runs, Step(r) \in {"remember", "spend"}
    PROVE  /\ run[r] \in RunRow(r) /\ facts[r] = Nil /\ deal[r] \in DealRow \cup {Nil}
           /\ seen[r] \in SUBSET Products /\ heard[r] \in Runs \cup {Nil}
           /\ run[r].result \in EndRow /\ run[r].result # Nil /\ run[r].options \subseteq seen[r]
           /\ OfPerson(r) /\ (Step(r) = "remember" => Kind[r] = "chat")
           /\ Step(r) = "spend" => run[r].result.action \in {"buy", "ask_human"}
           /\ Step(r) \notin Working
<1>1. /\ run[r] \in RunRow(r) /\ Step(r) \notin Working
      /\ seen[r] \in SUBSET Products /\ heard[r] \in Runs \cup {Nil} /\ deal[r] \in DealRow \cup {Nil}
  BY DEF ShopInv, Fit, Shaped, Working, Routes
<1>2. facts[r] = Nil
  BY <1>1 DEF ShopInv, Fit, Shaped
<1>3. /\ run[r].result # Nil /\ (Step(r) = "remember" => Kind[r] = "chat")
      /\ Step(r) = "spend" => Kind[r] # "public" /\ run[r].result.action \in {"buy", "ask_human"}
  BY DEF ShopInv, Fit, Ends
<1>4. run[r].result \in EndRow
  BY <1>1, <1>3 DEF RunRow
<1>5. run[r].options \subseteq seen[r]
  BY DEF ShopInv, Fit, Showed
<1> QED
  BY <1>1, <1>2, <1>3, <1>4, <1>5 DEF OfPerson

\* A run that ended stays fit while its result is worked off.
LEMMA EndedFits ==
    ASSUME ShopInv, NEW r \in Runs, Step(r) \in {"remember", "spend"},
           UNCHANGED <<facts, deal, seen, heard, crossed>>,
           NEW step \in {"spend", "done", "failed"}, NEW options \in {run[r].options, {}},
           run'[r] = [run[r] EXCEPT !.options = options, !.step = step],
           step = "spend" => run[r].result.action \in {"buy", "ask_human"}
    PROVE  Fit(r)' /\ Step(r)' = step /\ run'[r].result = run[r].result /\ run'[r].route = run[r].route
<1>1. /\ run[r] \in RunRow(r) /\ facts[r] = Nil /\ deal[r] \in DealRow \cup {Nil}
      /\ seen[r] \in SUBSET Products /\ heard[r] \in Runs \cup {Nil}
      /\ run[r].result # Nil /\ run[r].options \subseteq seen[r] /\ OfPerson(r)
  BY EndedFacts
<1>2. step \notin Working \cup {"idle", "remember"}
  BY DEF Working, Routes
<1>3. options \in SUBSET Products /\ options \subseteq seen[r]
  BY <1>1
<1>4. /\ run'[r] \in RunRow(r) /\ Step(r)' = step /\ run'[r].result = run[r].result
      /\ run'[r].offer = run[r].offer /\ run'[r].options = options /\ run'[r].pick = run[r].pick
      /\ run'[r].route = run[r].route /\ run'[r].wallet = run[r].wallet
  BY <1>1, <1>3, ZenonT(60) DEF RunRow, Step
<1>5. Shaped(r)'
  BY <1>1, <1>2, <1>4, NextIsShaped DEF Working, Step
<1>6. Showed(r)'
  BY <1>2, <1>3, <1>4 DEF Showed, Working
<1>7. Priced(r)'
  BY <1>2, <1>4 DEF ShopInv, Fit, Priced, Working, Routes
<1>8. Heard(r)'
  BY <1>2, <1>4 DEF ShopInv, Fit, Heard, Working, Routes
<1>9. Ends(r)'
  BY <1>1, <1>2, <1>4 DEF ShopInv, Fit, Ends, Within, Ceiling, OfPerson
<1> QED
  BY <1>4, <1>5, <1>6, <1>7, <1>8, <1>9 DEF Fit

\* What is remembered was on the person's screen.
LEMMA RememberHolds == ASSUME ShopInv, NEW r \in Runs, Remember(r) PROVE ShopInv'
<1>1. Step(r) = "remember" /\ UNCHANGED <<facts, deal, asked, sold, seen, heard, crossed>>
      /\ memory' \in {memory, run[r].options}
  BY DEF Remember
<1>2. /\ run[r] \in RunRow(r) /\ run[r].result \in EndRow /\ run[r].options \subseteq seen[r]
      /\ seen[r] \in SUBSET Products /\ OfPerson(r) /\ Kind[r] = "chat"
  BY <1>1, EndedFacts
<1> DEFINE step == CASE run[r].result.action = "failed" -> "failed"
                     [] run[r].result.action = "declined" -> "done"
                     [] OTHER -> "spend"
<1>3. run'[r] = [run[r] EXCEPT !.options = {}, !.step = step] /\ Frame(r)
  BY <1>1, GoesTo, StillMoves DEF Remember, Frame, ShopInv
<1>4. /\ step \in {"spend", "done", "failed"}
      /\ step = "spend" => run[r].result.action \in {"buy", "ask_human"}
  BY <1>2 DEF EndRow, Actions
<1> HIDE DEF step
<1>5. Fit(r)'
  <2>1. {} \in {run[r].options, {}} /\ Step(r) \in {"remember", "spend"}
    BY <1>1
  <2> QED
    BY <1>1, <1>3, <1>4, <2>1, EndedFits, Zenon
<1>6. \A q \in Runs : q # r => Fit(q)'
  BY <1>1, <1>3, OthersFit DEF ShopInv, Fit, Shaped
<1>7. Bought' /\ \A q \in Runs : q # r => Commanded(q)'
  BY <1>1, <1>3, OthersKept
<1>8. Commanded(r)'
  BY <1>2 DEF Commanded
<1>9. memory' \subseteq Products /\ ChatInv'
  BY <1>1, <1>2 DEF ShopInv, ChatInv, OfPerson
<1> QED
  BY <1>3, <1>5, <1>6, <1>7, <1>8, <1>9 DEF ShopInv, Frame, OpensOrMoves

\* What is bought or asked about is what the run ended with.
LEMMA SpendHolds == ASSUME ShopInv, NEW r \in Runs, Spend(r) PROVE ShopInv'
<1>1. Step(r) = "spend" /\ UNCHANGED <<facts, deal, seen, heard, crossed>>
  BY DEF Spend
<1>2. /\ run[r] \in RunRow(r) /\ run[r].result # Nil /\ OfPerson(r)
      /\ run[r].result.action \in {"buy", "ask_human"}
  BY <1>1, EndedFacts
<1>3. run'[r] = [run[r] EXCEPT !.step = "done"] /\ Frame(r)
  BY <1>1, GoesTo, StillMoves DEF Spend, Frame, ShopInv
<1>4. run'[r] = [run[r] EXCEPT !.options = run[r].options, !.step = "done"]
  BY <1>2, <1>3 DEF RunRow
<1>5. Fit(r)' /\ Step(r)' = "done" /\ run'[r].result = run[r].result /\ run'[r].route = run[r].route
  BY <1>1, <1>4, EndedFits
<1>6. ASSUME NEW q \in Runs, q # r PROVE Fit(q)' /\ Commanded(q)'
  <2>1. Fit(q)'
    BY <1>1, <1>3, <1>6, OthersFit DEF ShopInv, Fit, Shaped
  <2>2. run'[q] = run[q] /\ Commanded(q)
    BY <1>3, <1>6 DEF ShopInv, Frame
  <2> QED
    BY <1>1, <2>1, <2>2 DEF Commanded
<1>7. Commanded(r) /\ Commanded(r)'
  BY <1>1, <1>5 DEF ShopInv, Commanded
<1>8. memory' \in {{}, memory} /\ asked' \cup sold' \subseteq asked \cup sold \cup {Purchase(r)}
  BY DEF Spend, Buys
<1>9. Bought'
  <2>1. SUFFICES ASSUME NEW p \in asked' \cup sold'
                 PROVE  \E q \in Runs : /\ Step(q)' = "done" /\ OfPerson(q) /\ run'[q].result # Nil
                                        /\ run'[q].result.action \in {"buy", "ask_human"}
                                        /\ p = Purchase(q)'
    BY DEF Bought, OfPerson
  <2>2. CASE p = Purchase(r)
    <3>1. Purchase(r)' = Purchase(r)
      BY <1>5 DEF Purchase
    <3> QED
      BY <1>2, <1>5, <2>2, <3>1
  <2>3. CASE p \in asked \cup sold
    <3>1. PICK q \in Runs : /\ Step(q) = "done" /\ OfPerson(q) /\ run[q].result # Nil
                            /\ run[q].result.action \in {"buy", "ask_human"} /\ p = Purchase(q)
      BY <2>3 DEF ShopInv, Bought
    <3>2. run'[q] = run[q]
      BY <1>1, <1>3, <3>1 DEF Frame
    <3>3. Step(q)' = Step(q) /\ Purchase(q)' = Purchase(q)
      BY <3>2 DEF Step, Purchase
    <3> QED
      BY <3>1, <3>2, <3>3
  <2> QED
    BY <1>8, <2>2, <2>3
<1>10. memory' \subseteq Products /\ ChatInv'
  BY <1>1, <1>8 DEF ShopInv, ChatInv, OfPerson
<1> QED
  BY <1>3, <1>5, <1>6, <1>7, <1>9, <1>10 DEF ShopInv, Frame, OpensOrMoves

\* An answer buys only what was asked about.
LEMMA AnswerHolds == ASSUME ShopInv, AnswerQuestion PROVE ShopInv'
<1>1. /\ UNCHANGED <<facts, run, deal, seen, heard, crossed>> /\ memory' \in {{}, memory}
      /\ asked' \cup sold' \subseteq asked \cup sold
  BY DEF AnswerQuestion, Buys
<1>2. ASSUME NEW q \in Runs PROVE Fit(q)' /\ Commanded(q)'
  <2>1. Fit(q) /\ seen[q] \subseteq Products /\ Commanded(q)
    BY DEF ShopInv, Fit, Shaped
  <2>2. Fit(q)'
    BY <1>1, <2>1, FitStays DEF MovesOn
  <2> QED
    BY <1>1, <2>1, <2>2 DEF Commanded
<1>3. memory' \subseteq Products /\ ChatInv'
  BY <1>1 DEF ShopInv, ChatInv, OfPerson
<1>4. Bought'
  BY <1>1 DEF ShopInv, Bought, Step, Purchase, OfPerson
<1> QED
  BY <1>1, <1>2, <1>3, <1>4 DEF ShopInv

-----------------------------------------------------------------------------
\* What is known of a command not yet typed.
LEMMA IdleFacts ==
    ASSUME ShopInv, NEW r \in Runs, Step(r) = "idle"
    PROVE  /\ run[r] \in RunRow(r) /\ facts[r] = Nil /\ deal[r] = Nil
           /\ heard[r] = Nil
           /\ run[r].result = Nil /\ run[r].offer = Nil /\ run[r].route = Nil
           /\ run[r].options \subseteq seen[r] /\ seen[r] \in SUBSET Products
           /\ DOMAIN run = Runs /\ DOMAIN facts = Runs /\ DOMAIN deal = Runs /\ DOMAIN heard = Runs
<1>1. /\ run[r] \in RunRow(r) /\ facts[r] = Nil /\ run[r].result = Nil /\ Unpriced(r)
      /\ seen[r] \in SUBSET Products
  BY DEF ShopInv, Fit, Shaped, Working, Routes
<1>2. run[r].options \subseteq seen[r]
  BY DEF ShopInv, Fit, Showed
<1> QED
  BY <1>1, <1>2 DEF ShopInv, Unpriced

\* A command fits once it is over, or sets out to buy.
LEMMA CommandFits ==
    ASSUME ShopInv, NEW r \in Runs, Step(r) = "idle", Kind[r] = "command",
           facts'[r] = facts[r], heard'[r] = heard[r], seen' = seen, deal'[r] \in DealRow \cup {Nil},
           NEW step \in {"spend", "done", "failed"}, NEW result \in EndRow \cup {Nil},
           run'[r] = [run[r] EXCEPT !.step = step, !.result = result],
           step = "spend" => result # Nil /\ result.action = "buy"
    PROVE  Fit(r)' /\ run'[r].result = result /\ run'[r].route = Nil
<1>1. /\ run[r] \in RunRow(r) /\ facts[r] = Nil /\ heard[r] = Nil
      /\ run[r].offer = Nil /\ run[r].route = Nil
      /\ run[r].options \subseteq seen[r] /\ seen[r] \in SUBSET Products
  BY IdleFacts
<1>2. step \notin Working \cup {"idle", "remember"}
  BY DEF Working, Routes
<1>3. /\ run'[r] \in RunRow(r) /\ Step(r)' = step /\ run'[r].result = result
      /\ run'[r].offer = Nil /\ run'[r].options = run[r].options /\ run'[r].route = Nil
  BY <1>1 DEF RunRow, Step
<1>4. Shaped(r)'
  <2>1. run'[r].step = step /\ step \notin {"idle", "ask_shop", "choose_option", "fetch_offer"}
    BY <1>2, <1>3 DEF Step, Working
  <2> QED
    BY <1>1, <1>2, <1>3, <2>1, NextIsShaped, Zenon
<1>5. Showed(r)'
  BY <1>1, <1>2, <1>3 DEF Showed, Working
<1>6. Priced(r)'
  BY <1>2, <1>3 DEF Priced, Working, Routes
<1>7. Heard(r)'
  BY <1>1, <1>2, <1>3 DEF Heard, Working, Routes
<1>8. Ends(r)'
  BY <1>2, <1>3 DEF Ends
<1> QED
  BY <1>3, <1>4, <1>5, <1>6, <1>7, <1>8 DEF Fit

\* A typed negotiation opens a session of its own.
LEMMA NegotiateCommandHolds == ASSUME ShopInv, NEW r \in Runs, NegotiateCommand(r) PROVE ShopInv'
<1>1. /\ Step(r) = "idle" /\ Kind[r] = "command"
      /\ UNCHANGED <<facts, memory, asked, sold, seen, heard, crossed>>
  BY DEF NegotiateCommand
<1>2. /\ run[r] \in RunRow(r) /\ run[r].result = Nil /\ deal[r] = Nil /\ seen[r] \in SUBSET Products
      /\ DOMAIN run = Runs /\ DOMAIN facts = Runs /\ DOMAIN deal = Runs /\ DOMAIN heard = Runs
  BY <1>1, IdleFacts
<1>3. PICK product \in Products : \E quote \in Quotes[product] :
        deal' = [deal EXCEPT ![r] = Session(product, quote)]
  BY DEF NegotiateCommand
<1> PICK quote \in Quotes[product] : deal' = [deal EXCEPT ![r] = Session(product, quote)]
  BY <1>3
<1>4. quote \in QuoteRow
  BY ShopAssumption
<1>5. Session(product, quote) \in DealRow
  BY <1>4 DEF Session, DealRow, QuoteRow
<1>6. /\ deal'[r] \in DealRow /\ DOMAIN deal' = Runs /\ \A q \in Runs : q # r => deal'[q] = deal[q]
  BY <1>2, <1>5
<1>14. OpensOrMoves(r)
  BY <1>1, <1>2, <1>6 DEF OpensOrMoves, MovesOn
<1>7. PICK step \in {"done", "failed"} : Goes(r, [run[r] EXCEPT !.step = step])
  BY DEF NegotiateCommand
<1>8. run'[r] = [run[r] EXCEPT !.step = step, !.result = Nil] /\ Frame(r)
  <2>1. [run[r] EXCEPT !.step = step] = [run[r] EXCEPT !.step = step, !.result = Nil]
    BY <1>2 DEF RunRow
  <2> QED
    BY <1>1, <1>2, <1>7, <1>14, <2>1, GoesTo, ZenonT(60) DEF Frame
<1>9. Fit(r)' /\ run'[r].result = Nil
  <2>1. Nil \in EndRow \cup {Nil} /\ step \in {"spend", "done", "failed"} /\ step # "spend"
        /\ deal'[r] \in DealRow \cup {Nil}
    BY <1>6
  <2> QED
    BY <1>1, <1>8, <2>1, CommandFits, ZenonT(60)
<1>10. \A q \in Runs : q # r => Fit(q)'
  BY <1>1, <1>8, OthersFit DEF ShopInv, Fit, Shaped
<1>11. Bought' /\ \A q \in Runs : q # r => Commanded(q)'
  BY <1>1, <1>2, <1>8, OthersKept
<1>12. Commanded(r)'
  BY <1>9 DEF Commanded
<1>13. memory' \subseteq Products /\ ChatInv'
  BY <1>1 DEF ShopInv, ChatInv, OfPerson
<1> QED
  BY <1>8, <1>9, <1>10, <1>11, <1>12, <1>13 DEF ShopInv, Frame, OpensOrMoves

\* A command closes an open deal of its person's, and what earlier commands bought stays closed.
LEMMA CloseCommandHolds ==
    ASSUME ShopInv, NEW r \in Runs, NEW s \in Runs, AcceptCommand(r, s) \/ DeclineCommand(r, s)
    PROVE  ShopInv'
<1>1. /\ Step(r) = "idle" /\ Kind[r] = "command" /\ Step(s) = "done" /\ deal[s] # Nil /\ s # r
      /\ UNCHANGED <<facts, memory, asked, sold, seen, heard, crossed>>
  BY DEF AcceptCommand, DeclineCommand, Known, OfPerson
<1>2. /\ run[r] \in RunRow(r) /\ run[r].result = Nil /\ deal[r] = Nil
      /\ DOMAIN run = Runs /\ DOMAIN facts = Runs /\ DOMAIN deal = Runs /\ DOMAIN heard = Runs
  BY <1>1, IdleFacts
<1>3. deal[s] \in DealRow
  BY <1>1 DEF ShopInv, Fit, Shaped
<1>4. deal[s].ask \in Nat \ {0} /\ deal[s].ask \in Nat /\ deal[s].product \in Products
  BY <1>3 DEF DealRow
<1>5. PICK status \in {"accepted", "declined"} :
        /\ Closes(s, status, deal[s].ask) /\ (AcceptCommand(r, s) => status = "accepted")
  BY DEF AcceptCommand, DeclineCommand
<1>6. /\ deal'[s] \in DealRow /\ deal'[s] # Nil /\ deal'[s].product = deal[s].product
      /\ deal'[s].status = status /\ deal'[s].ask = deal[s].ask /\ deal[s].status = "countered"
      /\ Moved(s)
      /\ DOMAIN deal' = Runs /\ \A q \in Runs : q # s => deal'[q] = deal[q]
  BY <1>1, <1>4, <1>5, ClosesRow DEF Moved
<1> DEFINE bought == ResultRow("buy", deal[s].product, deal[s].ask, s, FALSE)
<1>7. /\ bought.action = "buy" /\ bought.product = deal[s].product /\ bought.amount = deal[s].ask
      /\ bought.dated = s /\ bought \in EndRow
  <2>1. "buy" \in Actions /\ FALSE \in BOOLEAN
    BY DEF Actions
  <2> QED
    BY <1>4, <2>1, ResultIsRow
<1>8. bought # Nil
  BY <1>7, ShopAssumption
<1> HIDE DEF bought
<1>9. \/ Goes(r, [run[r] EXCEPT !.step = "spend", !.result = bought]) /\ AcceptCommand(r, s)
      \/ Goes(r, [run[r] EXCEPT !.step = "done"])
  BY DEF AcceptCommand, DeclineCommand, bought
<1>10. PICK step \in {"spend", "done", "failed"}, result \in {bought, Nil} :
         /\ Goes(r, [run[r] EXCEPT !.step = step, !.result = result])
         /\ step = "spend" => result = bought
         /\ result = bought => AcceptCommand(r, s)
  <2>1. CASE Goes(r, [run[r] EXCEPT !.step = "spend", !.result = bought]) /\ AcceptCommand(r, s)
    BY <2>1
  <2>2. CASE Goes(r, [run[r] EXCEPT !.step = "done"])
    <3>1. [run[r] EXCEPT !.step = "done"] = [run[r] EXCEPT !.step = "done", !.result = Nil]
      BY <1>2 DEF RunRow
    <3>2. Goes(r, [run[r] EXCEPT !.step = "done", !.result = Nil]) /\ Nil # bought /\ "done" # "spend"
      BY <1>8, <2>2, <3>1
    <3> QED
      BY <3>2
  <2> QED
    BY <1>9, <2>1, <2>2
<1>11. /\ run'[r] = [run[r] EXCEPT !.step = step, !.result = result]
       /\ DOMAIN run' = Runs /\ \A q \in Runs : q # r => run'[q] = run[q]
  BY <1>10, GoesTo
<1>12. Fit(r)' /\ run'[r].result = result /\ run'[r].route = Nil
  <2>1. deal'[r] = Nil /\ result \in EndRow \cup {Nil}
        /\ (step = "spend" => result # Nil /\ result.action = "buy")
    BY <1>1, <1>2, <1>6, <1>7, <1>8, <1>10
  <2> QED
    BY <1>1, <1>11, <2>1, CommandFits
<1>13. ASSUME NEW q \in Runs, q # r PROVE Fit(q)' /\ Commanded(q)'
  <2>1. Commanded(q) /\ run'[q] = run[q]
    BY <1>11, <1>13 DEF ShopInv
  <2>2. Frame(r)
    BY <1>1, <1>2, <1>6, <1>11 DEF Frame, OpensOrMoves, MovesOn
  <2>3. \A t \in Runs : (deal[t] # Nil /\ deal[t].status = "accepted") => deal'[t] = deal[t]
    BY <2>2, DealsAfter DEF Frame
  <2>4. Fit(q)'
    BY <1>1, <1>13, <2>2, OthersFit DEF ShopInv, Fit, Shaped
  <2> QED
    BY <2>1, <2>3, <2>4 DEF Commanded
<1>14. Commanded(r)'
  BY <1>5, <1>6, <1>7, <1>10, <1>12 DEF Commanded
<1>15. memory' \subseteq Products /\ ChatInv'
  BY <1>1 DEF ShopInv, ChatInv, OfPerson
<1>16. Bought'
  <2>1. ASSUME NEW q \in Runs, Step(q) = "done" PROVE run'[q] = run[q]
    BY <1>1, <1>11, <2>1
  <2> QED
    BY <1>1, <2>1 DEF ShopInv, Bought, Step, Purchase, OfPerson
<1> QED
  BY <1>1, <1>2, <1>6, <1>11, <1>12, <1>13, <1>14, <1>15, <1>16 DEF ShopInv

-----------------------------------------------------------------------------
\* Nothing was shown, priced or bought yet.
LEMMA ShopBegins == ShopInit => ShopInv
<1> SUFFICES ASSUME ShopInit PROVE ShopInv
  OBVIOUS
<1>1. PICK company \in Companies :
        run = [r \in Runs |-> [step |-> IF r \in company THEN "idle" ELSE "failed", wallet |-> Nil,
                               options |-> {}, pick |-> Nil, offer |-> Nil, route |-> Nil,
                               outcome |-> Nil, result |-> Nil]]
  BY DEF ShopInit
<1>2. /\ facts = [r \in Runs |-> Nil] /\ deal = [r \in Runs |-> Nil]
      /\ memory = {} /\ asked = {} /\ sold = {}
      /\ seen = [r \in Runs |-> {}] /\ heard = [r \in Runs |-> Nil]
  BY DEF ShopInit
<1>3. ASSUME NEW r \in Runs PROVE Fit(r) /\ Commanded(r)
  <2>1. /\ Step(r) \in {"idle", "failed"} /\ run[r].result = Nil /\ run[r].offer = Nil
        /\ run[r].options = {} /\ run[r].route = Nil /\ run[r] \in RunRow(r)
    BY <1>1 DEF Step, RunRow
  <2>2. Step(r) \notin Working
    BY <2>1 DEF Working, Routes
  <2>3. facts[r] = Nil /\ deal[r] = Nil /\ seen[r] = {} /\ heard[r] = Nil
    BY <1>2
  <2>4. Shaped(r)
    BY <2>1, <2>2, <2>3 DEF Shaped, Working, Unpriced
  <2>5. Showed(r) /\ Priced(r) /\ Ends(r) /\ Commanded(r)
    BY <2>1, <2>2, <2>3 DEF Showed, Priced, Ends, Commanded, Working, Routes
  <2>6. Heard(r)
    BY <2>1, <2>3 DEF Heard
  <2> QED
    BY <2>4, <2>5, <2>6 DEF Fit
<1>4. ChatInv /\ Bought
  BY <1>2 DEF ChatInv, Bought
<1>5. DOMAIN run = Runs /\ DOMAIN facts = Runs /\ DOMAIN deal = Runs /\ DOMAIN heard = Runs
  BY <1>1, <1>2
<1> QED
  BY <1>2, <1>3, <1>4, <1>5 DEF ShopInv

\* Every step of the runs keeps the invariant.
LEMMA ShopStep == ShopInv /\ [ShopNext]_shopVars => ShopInv'
<1> SUFFICES ASSUME ShopInv, [ShopNext]_shopVars PROVE ShopInv'
  OBVIOUS
<1>1. CASE UNCHANGED shopVars
  <2>1. UNCHANGED <<facts, run, deal, memory, asked, sold, seen, heard, crossed>>
    BY <1>1 DEF shopVars
  <2>2. ASSUME NEW q \in Runs PROVE Fit(q)' /\ Commanded(q)'
    <3>1. Fit(q) /\ seen[q] \subseteq Products /\ Commanded(q)
      BY DEF ShopInv, Fit, Shaped
    <3>2. Fit(q)'
      BY <2>1, <3>1, FitStays DEF MovesOn
    <3> QED
      BY <2>1, <3>1, <3>2 DEF Commanded
  <2>3. ChatInv' /\ Bought'
    BY <2>1 DEF ShopInv, ChatInv, Bought, Step, Purchase, OfPerson
  <2> QED
    BY <2>1, <2>2, <2>3 DEF ShopInv
<1>2. CASE AnswerQuestion
  BY <1>2, AnswerHolds
<1>3. CASE \E r, s \in Runs :
            \/ CounterOffer(r, s) \/ AcceptTool(r, s) \/ DeclineTool(r, s)
            \/ AcceptCommand(r, s) \/ DeclineCommand(r, s)
  BY <1>3, CounterOfferHolds, ToolsHold, CloseCommandHolds
<1>4. CASE \E r \in Runs :
            \/ TurnedAway(r) \/ BeginRun(r)
            \/ AskShop(r) \/ Choose(r) \/ FetchOffer(r) \/ DecideOffer(r)
            \/ AcceptOffer(r) \/ AskHuman(r) \/ DeclineOffer(r)
            \/ Report(r)
            \/ Finalize(r) \/ NodeFails(r) \/ Remember(r) \/ Spend(r)
            \/ NegotiateCommand(r)
  BY <1>4, TurnedAwayHolds, BeginHolds, AskShopHolds, ChooseHolds, FetchOfferHolds, DecideOfferHolds,
     AcceptOfferHolds, AskOrDeclineHolds, ReportHolds, FinalizeHolds,
     NodeFailsHolds, RememberHolds, SpendHolds, NegotiateCommandHolds
<1> QED
  BY <1>1, <1>2, <1>3, <1>4 DEF ShopNext

\* The invariant holds in every reachable state.
LEMMA ShopAlways == ShopSpec => []ShopInv
  BY ShopBegins, ShopStep, PTL DEF ShopSpec

\* What was bought or is asked about is its run's own deal, or one a command has closed, and
\* its amount is one the shop accepted if its yes was heard.
LEMMA BoughtFacts ==
    ASSUME ShopInv, NEW p \in asked \cup sold
    PROVE  LET t == IF Kind[p.run] = "command" THEN p.dated ELSE heard[p.run]
           IN  /\ p.product \in Products /\ p.amount \in Nat \ {0}
               /\ p.dated # Nil /\ deal[p.dated] # Nil /\ p.product = deal[p.dated].product
               /\ Kind[p.run] = "chat" => p.dated = p.run
               /\ (run[p.run].result.action = "buy" /\ t # Nil) =>
                  /\ deal[t].status = "accepted" /\ deal[t].ask = p.amount
                  /\ t # p.dated => t \in crossed
<1>1. PICK r \in Runs : /\ Step(r) = "done" /\ OfPerson(r) /\ run[r].result # Nil
                        /\ run[r].result.action \in {"buy", "ask_human"} /\ p = Purchase(r)
  BY DEF ShopInv, Bought
<1> DEFINE result == run[r].result
<1>2. /\ p.run = r /\ p.product = result.product /\ p.dated = result.dated
      /\ p.amount = IF result.amount = 0 THEN Price[result.product] ELSE result.amount
  BY <1>1 DEF Purchase
<1>3. result \in EndRow /\ Kind[r] \in {"chat", "command"}
  BY <1>1, ShopAssumption DEF ShopInv, Fit, Shaped, RunRow, OfPerson
<1>4. Ends(r) /\ Commanded(r)
  BY DEF ShopInv, Fit
<1>5. result.amount \in Nat /\ result.product \in Products \cup {Nil}
  BY <1>3 DEF EndRow
<1>6. result.product # Nil => p.product \in Products /\ p.amount \in Nat \ {0}
  BY <1>2, <1>5, ShopAssumption
<1>7. result.amount \in Nat \ {0} => p.amount = result.amount
  BY <1>2
<1>8. CASE Kind[r] = "chat"
  <2>1. /\ result.product # Nil /\ result.dated = r
        /\ deal[r] # Nil /\ deal[r].product = result.product
        /\ (result.action = "buy" /\ heard[r] # Nil) => result.amount = deal[heard[r]].ask
    BY <1>1, <1>4, <1>8 DEF Ends
  <2>2. heard[r] # Nil => /\ deal[heard[r]].status = "accepted" /\ deal[heard[r]].ask \in Nat \ {0}
                          /\ heard[r] = r \/ heard[r] \in crossed
    BY HeardFacts
  <2>3. r # Nil /\ p.dated = r
    BY <1>2, <2>1, ShopAssumption
  <2> HIDE DEF result
  <2>4. (result.action = "buy" /\ heard[r] # Nil) => deal[heard[r]].ask = p.amount
    BY <1>7, <2>1, <2>2
  <2> QED
    BY <1>2, <1>6, <1>8, <2>1, <2>2, <2>3, <2>4 DEF result
<1>9. CASE Kind[r] = "command"
  <2> DEFINE s == result.dated
  <2>1. /\ s \in Runs /\ deal[s] # Nil /\ deal[s].product = result.product
        /\ deal[s].status = "accepted" /\ deal[s].ask = result.amount
    BY <1>1, <1>4, <1>9 DEF Commanded
  <2> HIDE DEF s
  <2>2. deal[s] \in DealRow
    BY <2>1 DEF ShopInv, Fit, Shaped
  <2>3. deal[s].product \in Products /\ deal[s].ask \in Nat \ {0}
    BY <2>2 DEF DealRow
  <2>4. s # Nil /\ result.product # Nil
    BY <2>1, <2>3, ShopAssumption
  <2>5. deal[s].ask = p.amount
    BY <1>7, <2>1, <2>3
  <2> QED
    BY <1>2, <1>6, <1>9, <2>1, <2>4, <2>5 DEF s
<1> QED
  BY <1>3, <1>8, <1>9

\* The service keeps facts for exactly the runs under way (ShopTypeOK).
THEOREM ShopTypeCorrect == ShopSpec => []ShopTypeOK
<1>1. ShopInv => ShopTypeOK
  <2> SUFFICES ASSUME ShopInv PROVE ShopTypeOK
    OBVIOUS
  <2>1. ASSUME NEW r \in Runs
        PROVE  /\ Step(r) \in Working \cup {"idle", "remember", "spend", "done", "failed"}
               /\ facts[r] # Nil <=> Step(r) \in Working
               /\ facts[r] # Nil => facts[r].wallet \in Wallets[r] /\ facts[r].settled \in Nat
               /\ run[r].offer # Nil => run[r].offer.product = run[r].pick /\ deal[r] # Nil
               /\ deal[r] # Nil => deal[r].product \in Products
                                    /\ deal[r].status \in {"countered", "accepted", "declined"}
    <3>1. /\ run[r] \in RunRow(r) /\ facts[r] \in FactsRow(r) \cup {Nil} /\ deal[r] \in DealRow \cup {Nil}
          /\ facts[r] # Nil <=> Step(r) \in Working
      BY DEF ShopInv, Fit, Shaped
    <3>2. run[r].offer # Nil => run[r].offer.product = run[r].pick /\ deal[r] # Nil
      BY DEF ShopInv, Fit, Priced
    <3> QED
      BY <3>1, <3>2 DEF RunRow, FactsRow, DealRow, Step
  <2>2. ASSUME NEW p \in asked \cup sold PROVE p.product \in Products /\ p.amount \in Nat \ {0}
    BY BoughtFacts
  <2>3. memory \subseteq Products
    BY DEF ShopInv
  <2> QED
    BY <2>1, <2>2, <2>3 DEF ShopTypeOK, Working
<1> QED
  BY <1>1, ShopAlways, PTL

\* Whatever runs, tools, commands and lost answers do between them, what is bought or asked
\* about are the goods of the session that dates their price, the run's own, and what is
\* bought on a yes that was heard is bought at the amount the shop accepted; in that very
\* session, unless the run's agent named another run's (OneDealThroughout).
THEOREM OneDealEndToEnd == ShopSpec => []OneDealThroughout
<1>1. ShopInv => OneDealThroughout
  BY BoughtFacts DEF OneDealThroughout
<1> QED
  BY <1>1, ShopAlways, PTL

\* No run accepts an offer by itself beyond the money facts it began with, whoever else the
\* service works for, unless another run's agent has acted in its session
\* (AcceptedWithinOwnMeans).
THEOREM AcceptsStayWithinMeans == ShopSpec => []AcceptedWithinOwnMeans
<1>1. ShopInv => AcceptedWithinOwnMeans
  <2> SUFFICES ASSUME ShopInv, NEW r \in Runs \ crossed, run[r].route = "accept",
                      run[r].result # Nil, run[r].result.action = "buy"
               PROVE  Within(run[r].result.amount, run[r].wallet)
    BY DEF AcceptedWithinOwnMeans, Within
  <2>1. Kind[r] # "command"
    BY ShopAssumption DEF ShopInv, Commanded, Routes
  <2> QED
    BY <2>1 DEF ShopInv, Fit, Ends
<1> QED
  BY <1>1, ShopAlways, PTL

\* A run ends with nothing its own caller was not shown, on this pass or before
\* (NothingUnseen).
THEOREM NothingUnseenIsBought == ShopSpec => []NothingUnseen
<1>1. ShopInv => NothingUnseen
  BY DEF NothingUnseen, ShopInv, Fit, Ends
<1> QED
  BY <1>1, ShopAlways, PTL
=============================================================================
