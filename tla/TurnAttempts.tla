----------------------------- MODULE TurnAttempts -----------------------------
(***************************************************************************)
(* One logical turn (SessionManager.send_message and _run_backend): the    *)
(* credential it runs with, the attempts it takes - a retry of the request,*)
(* a "continue" in the conversation that broke off - and the usage-limit   *)
(* parks that end it for hours and start it again (_park_limited_turn,     *)
(* resume_parked_turn).                                                    *)
(***************************************************************************)
EXTENDS SessionRows

CONSTANTS
    MaxRecovery,  \* _MAX_RECOVERY_ATTEMPTS
    MaxRetries,   \* _MAX_TRANSIENT_RETRIES
    MaxParks,     \* _MAX_LIMIT_PARKS
    MaxProbes     \* _MAX_LIMIT_PROBES

ASSUME AttemptsAssumption == {MaxRecovery, MaxRetries, MaxParks, MaxProbes} \subseteq Nat

VARIABLES
    turn,   \* locals of send_message and _run_backend
    queue,  \* _pending_queue
    park,   \* parked_turns rows
    kept,   \* _limit_attempts
    token,  \* the shared OAuth credential: its stored refresh token, needs_reconnect
    parks,  \* history: parks since a user's prompt last started a turn
    lost    \* history: how the next refresh token was lost, "cut off" before it was stored or
            \* rotated with "no answer"

turnVars == <<turn, queue, park, kept, token, parks, lost>>

NoTurn   == [stage |-> "none"]
NoPark   == [mode |-> "none", attempts |-> 0, probes |-> 0]
NoCounts == [attempts |-> 0, probes |-> 0]

TurnsInit ==
    /\ turn = [s \in Sessions |-> NoTurn] /\ queue = [s \in Sessions |-> <<>>]
    /\ park = [s \in Sessions |-> NoPark] /\ kept = [s \in Sessions |-> NoCounts]
    /\ token = [current |-> TRUE, needs |-> FALSE]
    /\ parks = [s \in Sessions |-> 0] /\ lost = {}

Idle(s)   == turn[s] = NoTurn
Parked(s) == park[s] # NoPark
At(s, st) == Up /\ turn[s].stage = st

-------------------------------------------------------------------------------
(* The start and the end of a turn *)

\* send_message wraps the prompt of a fork's first turn into the copied history.
Wrapped(p, r) == IF r THEN [p EXCEPT !.past = Least(2, @ + 1)] ELSE p
Context(p, c) == IF p.fresh THEN Settled(c) ELSE c

\* "start" says whether the session had an id when the turn began (resume_at_turn_start).
Opened(p, c, r) ==
    [stage |-> "auth", prompt |-> Wrapped(p, r), now |-> Wrapped(p, r), start |-> c.id,
     init |-> FALSE, out |-> "none", tries |-> 0, again |-> 0, bundle |-> "none"]

Begin(s, p, c, r) ==
    /\ turn' = [turn EXCEPT ![s] = Opened(p, c, r)]
    /\ conv' = [conv EXCEPT ![s] = Context(p, c)]
    /\ parks' = [parks EXCEPT ![s] = IF p.fresh THEN 0 ELSE @]

\* _drive_messages after a turn that leaves conversation c behind: the next prompt, or idle.
Ends(s, c, r) ==
    /\ replay' = [replay EXCEPT ![s] = r]
    /\ IF queue[s] = <<>>
       THEN /\ turn' = [turn EXCEPT ![s] = NoTurn] /\ conv' = [conv EXCEPT ![s] = Settled(c)]
            /\ UNCHANGED <<queue, parks>>
       ELSE /\ Begin(s, Head(queue[s]), c, r)
            /\ queue' = [queue EXCEPT ![s] = Tail(@)]
    /\ UNCHANGED <<phase, row, mem, forking, requests, crashes>>

\* start_message: a running or parked turn holds the prompt back, a fork refuses it.
Ask(s) ==
    /\ Request /\ mem[s]
    /\ IF ~Idle(s) \/ Parked(s)
       THEN /\ queue' = [queue EXCEPT ![s] = Append(@, Asked)]
            /\ UNCHANGED <<turn, conv, parks>>
       ELSE ~forking[s] /\ Begin(s, Asked, conv[s], replay[s]) /\ UNCHANGED queue
    /\ UNCHANGED <<phase, row, mem, replay, forking, crashes, park, kept, token, lost>>

-------------------------------------------------------------------------------
(* The credential: no lock covers the refresh of a token that several turns share *)

Stage(s, st) == turn' = [turn EXCEPT ![s].stage = st]

\* A token that is fresh, none at all, or one flagged needs_reconnect (the turn then runs
\* with whatever sign-in the CLI finds).
Resolve(s) ==
    /\ At(s, "auth") /\ Stage(s, "ready")
    /\ UNCHANGED <<rowVars, queue, park, kept, token, parks, lost>>

\* _enforce_budget: a hard budget fails the turn before a backend runs.
OverBudget(s) ==
    /\ At(s, "auth") /\ Ends(s, conv[s], replay[s])
    /\ UNCHANGED <<park, kept, token, lost>>

NearExpiry(s) ==
    /\ At(s, "auth") /\ ~token.needs
    /\ turn' = [turn EXCEPT ![s] = [@ EXCEPT !.stage = "refresh",
                                            !.bundle = IF token.current THEN "good" ELSE "spent"]]
    /\ UNCHANGED <<rowVars, queue, park, kept, token, parks, lost>>

\* The provider takes a refresh token once: it answers with the next one.
Rotates(s) ==
    /\ At(s, "refresh") /\ turn[s].bundle = "good"
    /\ turn' = [x \in Sessions |->
                   IF x = s THEN [turn[s] EXCEPT !.stage = "store", !.bundle = "none"]
                   ELSE IF ~Idle(x) /\ turn[x].bundle = "good" THEN [turn[x] EXCEPT !.bundle = "spent"]
                   ELSE turn[x]]
    /\ token' = [token EXCEPT !.current = FALSE]
    /\ UNCHANGED <<rowVars, queue, park, kept, parks, lost>>

\* Mutant: the flag is written together with the bundle that was read.
FlaggedRow(s) == [current |-> IF turn[s].bundle = "none" THEN token.current ELSE turn[s].bundle = "good",
                  needs   |-> TRUE]
\* _mark_needs_reconnect
Flagged(s) == [token EXCEPT !.needs = TRUE]

\* Any failure, a reused token as well as a network error, flags the credential...
RefreshFails(s) ==
    /\ At(s, "refresh")
    /\ turn' = [turn EXCEPT ![s] = [@ EXCEPT !.stage = "ready", !.bundle = "none"]]
    /\ token' = Flagged(s)
    /\ UNCHANGED <<rowVars, queue, park, kept, parks, lost>>

\* ...also when the provider did rotate the token and its answer is lost or cannot be read.
ResponseLost(s) ==
    /\ At(s, "refresh") /\ turn[s].bundle = "good"
    /\ turn' = [x \in Sessions |->
                   IF x = s THEN [turn[s] EXCEPT !.stage = "ready", !.bundle = "none"]
                   ELSE IF ~Idle(x) /\ turn[x].bundle = "good" THEN [turn[x] EXCEPT !.bundle = "spent"]
                   ELSE turn[x]]
    /\ token' = [Flagged(s) EXCEPT !.current = FALSE]
    /\ lost' = lost \cup {"no answer"}
    /\ UNCHANGED <<rowVars, queue, park, kept, parks>>

Stores(s) ==
    /\ At(s, "store") /\ Stage(s, "ready")
    /\ token' = [current |-> TRUE, needs |-> FALSE]
    /\ UNCHANGED <<rowVars, queue, park, kept, parks, lost>>

-------------------------------------------------------------------------------
(* One attempt *)

Spawn(s) ==
    /\ At(s, "ready") /\ Stage(s, "stream")
    /\ UNCHANGED <<rowVars, queue, park, kept, token, parks, lost>>

SpawnFails(s) ==
    /\ At(s, "ready") /\ Ends(s, conv[s], replay[s])
    /\ UNCHANGED <<park, kept, token, lost>>

\* The init event, before any output: a run that resumes keeps the conversation and its id,
\* a run without an id starts one.
Started(s) ==
    /\ At(s, "stream") /\ ~turn[s].init
    /\ turn' = [turn EXCEPT ![s].init = TRUE]
    /\ conv' = [conv EXCEPT ![s] = Heard(@, turn[s].now)]
    /\ UNCHANGED <<phase, row, mem, replay, forking, requests, crashes>>
    /\ UNCHANGED <<queue, park, kept, token, parks, lost>>

Emits(s, kind) ==
    /\ At(s, "stream") /\ turn[s].init /\ turn[s].out \notin {kind, "tool"}
    /\ turn' = [turn EXCEPT ![s].out = kind]
    /\ conv' = [conv EXCEPT ![s].work = TRUE]
    /\ UNCHANGED <<phase, row, mem, replay, forking, requests, crashes>>
    /\ UNCHANGED <<queue, park, kept, token, parks, lost>>

\* What the attempt leaves: a result carries the conversation's id too, and it ends the
\* first-turn state of a fork, also a result that reports an error.
After(s, result)  == IF result /\ ~turn[s].init THEN Heard(conv[s], turn[s].now) ELSE conv[s]
\* Mutant: the flag goes with the first attempt that ends.
FirstTry(s, result) == FALSE
Replay(s, result) == replay[s] /\ ~result

Completes(s) ==
    /\ At(s, "stream") /\ Ends(s, After(s, TRUE), Replay(s, TRUE))
    /\ kept' = [kept EXCEPT ![s] = NoCounts]
    /\ UNCHANGED <<park, token, lost>>

\* The watchdog stops a silent or endless attempt; an error that no classifier claims.
Stopped(s) ==
    /\ At(s, "stream") /\ Ends(s, conv[s], replay[s])
    /\ UNCHANGED <<park, kept, token, lost>>
ErrorResult(s) ==
    /\ At(s, "stream") /\ Ends(s, After(s, TRUE), Replay(s, TRUE))
    /\ UNCHANGED <<park, kept, token, lost>>

\* The token that a refresh brought goes with the coroutine that was about to store it.
CutOff(storing) == IF storing THEN lost \cup {"cut off"} ELSE lost

\* The user's interrupt, wherever the turn is, or a failure of the write that stores the token.
Interrupt(s) ==
    /\ Up /\ ~Idle(s) /\ Ends(s, conv[s], replay[s])
    /\ lost' = CutOff(turn[s].stage = "store")
    /\ UNCHANGED <<park, kept, token>>

\* _surface_auth_expiry
AuthExpires(s, result) ==
    /\ At(s, "stream") /\ Ends(s, After(s, result), Replay(s, result))
    /\ token' = Flagged(s)
    /\ UNCHANGED <<park, kept, lost>>

\* The next attempt of the same turn, with another prompt.
Attempt(t, p) == [t EXCEPT !.stage = "ready", !.now = p, !.init = FALSE, !.out = "none"]

\* Mutant: the id that the failed attempt captured is kept.
RetryInPlace(s, result) == After(s, result)
\* The id of the turn's start is put back: a conversation that the failed attempt started is
\* dropped, one that it resumed has kept its id and the request with it.
RetryFrom(s, result) ==
    IF turn[s].out = "none" /\ ~turn[s].start THEN Nothing ELSE After(s, result)

\* A transient failure: without output the request is repeated under the id of the start,
\* after output the conversation is continued.  The output is this attempt's only.
Retries(s, result) ==
    /\ At(s, "stream") /\ turn[s].tries < MaxRetries
    /\ turn' = [turn EXCEPT ![s] = Attempt([turn[s] EXCEPT !.tries = turn[s].tries + 1],
                                           IF turn[s].out = "none" THEN turn[s].prompt ELSE Continue)]
    /\ conv' = [conv EXCEPT ![s] = RetryFrom(s, result)]
    /\ replay' = [replay EXCEPT ![s] = Replay(s, result)]
    /\ UNCHANGED <<phase, row, mem, forking, requests, crashes>>
    /\ UNCHANGED <<queue, park, kept, token, parks, lost>>

RetriesExhausted(s, result) ==
    /\ At(s, "stream") /\ turn[s].tries >= MaxRetries
    /\ Ends(s, After(s, result), Replay(s, result))
    /\ UNCHANGED <<park, kept, token, lost>>

\* The CLI exits without a result: after a tool use it is asked to continue, once.
Dies(s) ==
    /\ At(s, "stream")
    /\ IF turn[s].out = "tool" /\ turn[s].again < MaxRecovery /\ conv[s].id
       THEN /\ turn' = [turn EXCEPT ![s] = Attempt([turn[s] EXCEPT !.again = turn[s].again + 1], Continue)]
            /\ UNCHANGED <<rowVars, queue, parks>>
       ELSE Ends(s, conv[s], replay[s])
    /\ UNCHANGED <<park, kept, token, lost>>

-------------------------------------------------------------------------------
(* Usage limits *)

Prior(s) == IF Parked(s) THEN park[s] ELSE kept[s]
Spent(s, dated) == IF dated THEN Prior(s).attempts >= MaxParks ELSE Prior(s).probes >= MaxProbes

\* The row of a park; a limit that names its reset counts as an attempt, one that does not
\* as a probe.
ParkRow(s, dated) ==
    [mode     |-> IF turn[s].out = "none" THEN "prompt" ELSE "continue",
     prompt   |-> IF turn[s].out = "none" THEN [turn[s].prompt EXCEPT !.fresh = FALSE] ELSE Continue,
     start    |-> turn[s].start,
     attempts |-> IF dated THEN Prior(s).attempts + 1 ELSE Prior(s).attempts,
     probes   |-> IF dated THEN 0 ELSE Prior(s).probes + 1]

Parks(s, result, dated) ==
    /\ At(s, "stream") /\ ~Spent(s, dated)
    /\ park' = [park EXCEPT ![s] = ParkRow(s, dated)]
    /\ parks' = [parks EXCEPT ![s] = @ + 1]
    /\ turn' = [turn EXCEPT ![s] = NoTurn]
    /\ conv' = [conv EXCEPT ![s] = After(s, result)]
    /\ replay' = [replay EXCEPT ![s] = Replay(s, result)]
    /\ UNCHANGED <<phase, row, mem, forking, requests, crashes, queue, kept, token, lost>>

\* _surface_limit_exhausted; the counters in _limit_attempts stay as they are.
GivesUp(s, result, dated) ==
    /\ At(s, "stream") /\ Spent(s, dated) /\ Ends(s, After(s, result), Replay(s, result))
    /\ park' = [park EXCEPT ![s] = NoPark]
    /\ UNCHANGED <<kept, token, lost>>

\* Mutant: the counters go with the row.
ForgottenCounts(s) == NoCounts
CarriedCounts(s) == [attempts |-> park[s].attempts, probes |-> park[s].probes]

\* In the "prompt" mode the id of the turn's start is put back.
Rewound(s) == IF park[s].mode = "prompt" /\ ~park[s].start THEN Nothing ELSE conv[s]

\* _wake and resume_parked_turn: the row goes first, so a session that is gone or busy
\* loses the turn, and a fork in progress refuses it after the id was put back.
Wake(s) ==
    /\ Up /\ Parked(s) /\ park' = [park EXCEPT ![s] = NoPark]
    /\ IF mem[s] /\ Idle(s)
       THEN /\ kept' = [kept EXCEPT ![s] = CarriedCounts(s)]
            /\ IF forking[s]
               THEN conv' = [conv EXCEPT ![s] = Rewound(s)] /\ UNCHANGED <<turn, parks>>
               ELSE Begin(s, park[s].prompt, Rewound(s), replay[s])
       ELSE UNCHANGED <<kept, turn, conv, parks>>
    /\ UNCHANGED <<phase, row, mem, replay, forking, requests, crashes, queue, token, lost>>

\* The user cancels the park; release_parked_queue starts what waited, a fork or not.
CancelPark(s) ==
    /\ Up /\ Parked(s) /\ park' = [park EXCEPT ![s] = NoPark]
    /\ IF mem[s] /\ Idle(s) /\ queue[s] # <<>>
       THEN /\ Begin(s, Head(queue[s]), conv[s], replay[s])
            /\ queue' = [queue EXCEPT ![s] = Tail(@)]
       ELSE UNCHANGED <<turn, conv, parks, queue>>
    /\ UNCHANGED <<phase, row, mem, replay, forking, requests, crashes, kept, token, lost>>

TurnsCrash ==
    /\ turn' = [s \in Sessions |-> NoTurn] /\ queue' = [s \in Sessions |-> <<>>]
    /\ kept' = [s \in Sessions |-> NoCounts]
    /\ lost' = CutOff(\E s \in Sessions : turn[s].stage = "store")
    /\ UNCHANGED <<park, token, parks>>

TurnStep(s) ==
    \/ Resolve(s) \/ OverBudget(s) \/ NearExpiry(s) \/ Rotates(s) \/ RefreshFails(s)
    \/ ResponseLost(s) \/ Stores(s)
    \/ Spawn(s) \/ SpawnFails(s) \/ Started(s) \/ \E k \in {"text", "tool"} : Emits(s, k)
    \/ Completes(s) \/ Stopped(s) \/ ErrorResult(s) \/ Dies(s)
    \/ \E result \in BOOLEAN :
          \/ AuthExpires(s, result) \/ Retries(s, result) \/ RetriesExhausted(s, result)
          \/ \E dated \in BOOLEAN : Parks(s, result, dated) \/ GivesUp(s, result, dated)
    \/ Wake(s) \/ CancelPark(s)
===============================================================================
