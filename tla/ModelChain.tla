----------------------------- MODULE ModelChain -----------------------------
(***************************************************************************)
(* The chain of language models every agent asks through.  A call works     *)
(* down the models that are not benched, asks each several times, pausing   *)
(* in between, benches one whose free allowance is spent, and stops when    *)
(* its caller's time is up.  Calls of concurrent runs share the bench.  A   *)
(* call that wants a shaped answer and gets prose asks once more, through   *)
(* the whole chain again.  Timers count down; Tick is the clock.            *)
(***************************************************************************)
EXTENDS Integers, Sequences, FiniteSetsExt, Functions

CONSTANTS
    Chain,              \* the models in the order they are tried
    Asks,               \* the calls made of the chain
    KindOf,             \* KindOf[c]: "free" text, "shaped" by a schema, or a forced "complete"
    Patience,           \* Patience[c]: how long the caller of c waits
    ProviderTimeout, MaxWait, Cooldown, MaxAttempts,
    Nothing

\* What an answer comes to, once adapted: tools to call, the shaped answer (as a call or as
\* JSON in the text), prose, nothing at all, or a call whose arguments do not parse.
Outcomes == {"calls", "shape", "prose", "empty", "broken"}

ASSUME ChainAssumption ==
    /\ Chain \in Seq(Range(Chain)) /\ Chain # <<>> /\ IsInjective(Chain)
    /\ KindOf \in [Asks -> {"free", "shaped", "complete"}]
    /\ {ProviderTimeout, MaxWait, Cooldown, MaxAttempts} \subseteq Nat \ {0}
    /\ Patience \in [Asks -> Nat \ {0}]
    /\ Nothing \notin Outcomes

\* No caller waits for as long as a model stays benched: three minutes at most, to ten.
ASSUME BenchAssumption == \A c \in Asks : Patience[c] < Cooldown

VARIABLES
    bench,      \* bench[m]: how long model m stays out of the chain yet
    ask,        \* ask[c]: where call c is, the places of Chain it has left to try, and the time
    told        \* history: told[c]: the models that told c their allowance was spent, whether
                \* it found all benched, and what the answers it got carried

chainVars == <<bench, ask, told>>

Models == Range(Chain)

ChainInit ==
    /\ bench = [m \in Models |-> 0]
    /\ ask = [c \in Asks |-> [step |-> "idle", list |-> {}, tries |-> 0, timer |-> 0,
                                left |-> 0, held |-> Nothing, result |-> Nothing]]
    /\ told = [c \in Asks |-> [spent |-> {}, allSpent |-> FALSE, got |-> {}]]

-----------------------------------------------------------------------------
Asking(c) == ask[c].step = "asking"
Pausing(c) == ask[c].step = "pausing"
Waiting(c) == Asking(c) \/ Pausing(c)
Ended(c) == ask[c].step \in {"answered", "failed"}
Place(c) == Min(ask[c].list)
Asked(c) == Chain[Place(c)]

\* The places of the models worth calling now: every one, when all are benched.
Callable ==
    LET ready == {i \in DOMAIN Chain : bench[Chain[i]] = 0}
    IN  IF ready = {} THEN DOMAIN Chain ELSE ready

\* A call taken to the first of the places it has left.
Aimed(state, places) ==
    [state EXCEPT !.step = "asking", !.list = places, !.tries = 1, !.timer = ProviderTimeout]

\* No model gave an answer.  A second ask that fails leaves the first answer standing
\* (mutated: the call fails with it).
UnansweredForgets(state) == [state EXCEPT !.step = "failed", !.timer = 0]
Unanswered(state) ==
    IF state.held = Nothing THEN [state EXCEPT !.step = "failed", !.timer = 0]
    ELSE [state EXCEPT !.step = "answered", !.timer = 0, !.result = state.held]

\* A provider's message, as far as a call can tell: the calls in it, whether one of them is
\* the answer function, whether arguments parse, and what its text is.
Messages == [tools : BOOLEAN, answer : BOOLEAN, parses : BOOLEAN, text : {"none", "prose", "json"}]

\* Calls to run win over the answer in the same turn, and the answer over the text
\* (mutated: the answer over the calls).
AdaptAnswerFirst(msg, kind) ==
    IF ~msg.parses THEN "broken"
    ELSE IF msg.answer THEN "shape"
    ELSE IF msg.tools THEN "calls"
    ELSE [none |-> "empty", prose |-> "prose", json |-> "shape"][msg.text]
Adapt(msg, kind) ==
    IF (msg.tools \/ msg.answer) /\ ~msg.parses THEN "broken"
    ELSE IF msg.tools \/ (msg.answer /\ kind = "free") THEN "calls"
    ELSE IF msg.answer THEN "shape"
    ELSE [none |-> "empty", prose |-> "prose", json |-> "shape"][msg.text]

\* History: what there was in a message to be used, whatever is made of it.
Carried(msg) ==
    IF (msg.tools \/ msg.answer) /\ ~msg.parses THEN {"nothing"}
    ELSE {x \in {"calls", "shape", "nothing"} :
            \/ x = "calls" /\ msg.tools
            \/ x = "shape" /\ (msg.answer \/ (msg.text = "json" /\ ~msg.tools))
            \/ x = "nothing" /\ ~msg.tools /\ ~msg.answer /\ msg.text # "json"}

\* A forced completion looks for its one function, then for JSON in the text; other tools
\* in the message are passed over.
AdaptComplete(msg) ==
    IF msg.answer THEN IF msg.parses THEN "shape" ELSE "broken"
    ELSE IF msg.text = "json" THEN "shape" ELSE "broken"

-----------------------------------------------------------------------------
Becomes(c, state) == ask' = [ask EXCEPT ![c] = state]
Notes(c, note) == told' = [told EXCEPT ![c] = note]

\* post starts down the list of models callable now.
Starts(c, state, got) ==
    /\ Becomes(c, Aimed(state, Callable))
    /\ Notes(c, [told[c] EXCEPT !.got = got, !.allSpent = @ \/ \A m \in Models : bench[m] > 0])

BeginAsk(c) ==
    /\ ask[c].step = "idle"
    /\ Starts(c, [ask[c] EXCEPT !.left = Patience[c]], {})
    /\ UNCHANGED bench

\* A model answers.  A shaped call whose answer has no shape asks once more, the answer
\* being the only move allowed then (which providers need not respect).
Reply(c) ==
    /\ Asking(c)
    /\ \E msg \in Messages :
        LET kind == KindOf[c]
            outcome == IF kind = "complete" THEN AdaptComplete(msg) ELSE Adapt(msg, kind)
            got == told[c].got \cup Carried(msg)
            final == [ask[c] EXCEPT !.step = "answered", !.timer = 0, !.result = outcome]
        IN  \/ /\ kind = "shaped" /\ ask[c].held = Nothing /\ outcome \in {"prose", "empty"}
               /\ Starts(c, [ask[c] EXCEPT !.held = outcome], got)
            \/ /\ kind = "shaped" => (ask[c].held # Nothing \/ outcome \notin {"prose", "empty"})
               /\ Becomes(c, IF kind = "complete" /\ outcome = "broken"
                           THEN [final EXCEPT !.step = "failed", !.result = Nothing] ELSE final)
               /\ Notes(c, [told[c] EXCEPT !.got = got])
    /\ UNCHANGED bench

\* The model is left behind for the next of the list.
Leaves(c, spent) ==
    LET rest == ask[c].list \ {Place(c)}
    IN  /\ Becomes(c, IF rest = {} THEN Unanswered(ask[c]) ELSE Aimed(ask[c], rest))
        /\ Notes(c, [told[c] EXCEPT !.spent = @ \cup spent])

\* A failure that may clear: a busy or failing provider, a broken or cut-off answer, or no
\* answer at all until the client gave up.  It is worth a pause and another try (mutated: one
\* try too many).
Pauses(c) ==
    /\ \E wait \in 1..MaxWait :
         Becomes(c, [ask[c] EXCEPT !.step = "pausing", !.timer = wait])
    /\ UNCHANGED told
HiccupOnceMore(c) ==
    /\ Asking(c) /\ ask[c].left > 0
    /\ \/ ask[c].tries <= MaxAttempts /\ Pauses(c)
       \/ ask[c].tries > MaxAttempts /\ Leaves(c, {})
    /\ UNCHANGED bench
Hiccup(c) ==
    /\ Asking(c) /\ ask[c].left > 0
    /\ \/ ask[c].tries < MaxAttempts /\ Pauses(c)
       \/ ask[c].tries = MaxAttempts /\ Leaves(c, {})
    /\ UNCHANGED bench

Retry(c) ==
    /\ Pausing(c) /\ ask[c].timer = 0
    /\ Becomes(c, [ask[c] EXCEPT !.step = "asking", !.tries = @ + 1, !.timer = ProviderTimeout])
    /\ UNCHANGED <<bench, told>>

\* A refusal no retry can clear; one for a spent allowance benches the model (mutated: for no
\* longer than a pause).
BenchedBriefly(c) == [bench EXCEPT ![Asked(c)] = MaxWait]
Benched(c) == [bench EXCEPT ![Asked(c)] = Cooldown]

Refuse(c) ==
    /\ Asking(c) /\ ask[c].left > 0
    /\ \/ Leaves(c, {}) /\ UNCHANGED bench
       \/ Leaves(c, {Asked(c)}) /\ bench' = Benched(c)

\* The caller's time is up, in a request or in a pause.
TimeUp(c) ==
    /\ Waiting(c) /\ ask[c].left = 0
    /\ Becomes(c, Unanswered(ask[c]))
    /\ UNCHANGED <<bench, told>>

Passes(timer) == IF timer = 0 THEN 0 ELSE timer - 1

\* Time passes for everybody, past no timer that is due, while there is a call it matters to.
Tick ==
    /\ \A c \in Asks : Waiting(c) => ask[c].left > 0 /\ ask[c].timer > 0
    /\ \E c \in Asks : ~Ended(c)
    /\ bench' = [m \in Models |-> Passes(bench[m])]
    /\ ask' = [c \in Asks |-> IF Waiting(c)
                                THEN [ask[c] EXCEPT !.left = @ - 1, !.timer = @ - 1] ELSE ask[c]]
    /\ UNCHANGED told

ChainNext ==
    \/ Tick
    \/ \E c \in Asks : BeginAsk(c) \/ Reply(c) \/ Hiccup(c) \/ Retry(c) \/ Refuse(c) \/ TimeUp(c)

ChainSpec == ChainInit /\ [][ChainNext]_chainVars

-----------------------------------------------------------------------------
\* Type invariant: timers stay within their bounds and a call under way has a model to ask.
ChainTypeOK ==
    /\ bench \in [Models -> 0..Cooldown]
    /\ \A c \in Asks :
        /\ ask[c].step \in {"idle", "asking", "pausing", "answered", "failed"}
        /\ ask[c].list \subseteq DOMAIN Chain /\ (Waiting(c) => ask[c].list # {})
        /\ ask[c].tries \in 0..MaxAttempts /\ ask[c].left \in 0..Patience[c]
        /\ ask[c].timer \in (0..ProviderTimeout) \cup (0..MaxWait)
        /\ {ask[c].held, ask[c].result} \subseteq Outcomes \cup {Nothing}

\* What a call ends with is of use if anything the providers gave it was: tools to run are
\* not dropped for an answer in the same turn, a shaped answer or tools to run not for
\* prose, and a call that got any answer does not fail because its second ask did.  (A second
\* answer, an empty or unreadable one too, does take the place of the first, which was prose.)
BestAnswerIsKept ==
    \A c \in Asks : (Ended(c) /\ KindOf[c] = "shaped" /\ told[c].got # {}) =>
        /\ ask[c].step = "answered"
        /\ "calls" \in told[c].got => ask[c].result = "calls"
        /\ "shape" \in told[c].got => ask[c].result \in {"calls", "shape"}

\* A call never asks a model again that told it its allowance is spent, not even when it
\* starts down the chain once more, unless it found every model spent by then.
SpentIsLeftAlone ==
    \A c \in Asks :
        (Waiting(c) /\ \E i \in ask[c].list : Chain[i] \in told[c].spent) => told[c].allSpent
=============================================================================
