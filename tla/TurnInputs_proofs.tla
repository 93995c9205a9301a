--------------------------- MODULE TurnInputs_proofs ---------------------------
(***************************************************************************)
(* What holds of TurnInputs for every set of sessions, candidates,         *)
(* reviewers and questions and every limit.  Core, the invariant of turns  *)
(* and sagas, is inductive on its own: what a conversation, a park and a   *)
(* saga hold fits what the turn, the wake-up or the boot that uses it next *)
(* will do with it.  The reviews have an invariant of their own, and that  *)
(* of the questions rests on Core.                                         *)
(***************************************************************************)
EXTENDS TurnInputs, SequenceTheorems, TLAPS

\* What has no id holds no request.
Convs ==
    {c \in [id : BOOLEAN, past : 0 .. 2, ask : 0 .. 2, work : BOOLEAN] : ~c.id => c.ask = 0}
Prompts == [ask : 0 .. 1, past : 0 .. 2, fresh : BOOLEAN]
Counts  == [attempts : Nat, probes : Nat]
Losses  == {"cut off", "no answer"}
Stages  == {"auth", "refresh", "store", "ready", "stream"}
TurnRecords ==
    [stage : Stages, prompt : Prompts, now : Prompts, start : BOOLEAN, init : BOOLEAN,
     out : {"none", "text", "tool"}, tries : Nat, again : Nat, bundle : {"none", "good", "spent"}]
ParkRows ==
    [mode : {"prompt", "continue"}, prompt : Prompts, start : BOOLEAN, attempts : Nat, probes : Nat]

RowShapes ==
    /\ phase \in {"down", "recover", "up"} /\ requests \in Nat /\ crashes \in Nat
    /\ row \in [Sessions -> {"none", "initializing", "reverting", "ready", "archived"}]
    /\ mem \in [Sessions -> BOOLEAN] /\ conv \in [Sessions -> Convs]
    /\ replay \in [Sessions -> BOOLEAN] /\ forking \in [Sessions -> BOOLEAN]

TurnShapes ==
    /\ turn \in [Sessions -> {NoTurn} \cup TurnRecords] /\ queue \in [Sessions -> Seq({Asked})]
    /\ park \in [Sessions -> {NoPark} \cup ParkRows] /\ kept \in [Sessions -> Counts]
    /\ token \in [current : BOOLEAN, needs : BOOLEAN]
    /\ parks \in [Sessions -> Nat] /\ lost \subseteq Losses

ForkShapes ==
    /\ saga \in [Forks -> {"none", "copy", "insert", "prepare", "drop", "promote", "revert",
                           "record", "archive"}]
    /\ kind \in [Forks -> {"none", "rewind", "copy"}] /\ from \in [Forks -> Sessions]
    /\ dir \in [Forks -> {"none", "shared", "part", "whole"}]
    /\ repo \in [Sessions -> Sessions]
    /\ artifact \in [Forks -> BOOLEAN] /\ stash \in [Forks -> BOOLEAN]
    /\ record \in [Forks -> {"none", "completed", "refused", "unknown"}]
    /\ todo \subseteq Forks

\* A prompt asks, or the conversation has the request and the work to continue.
Carries(p, c) == p.ask = 0 => c.ask >= 1 /\ c.work

\* The turn may have asked before, in a conversation it resumed.
Repeats(t) == t.start /\ (t.tries > 0 \/ ~t.prompt.fresh)

AskFits(t, c) ==
    /\ Carries(t.prompt, c) /\ (t.prompt.ask = 0 => t.start)
    /\ Carries(t.now, c) /\ (t.init => c.ask >= 1)
    /\ c.ask + (IF t.init THEN 0 ELSE t.now.ask) > 1 => Repeats(t)
    /\ t.out # "none" => t.init /\ c.work

ParkFits(r, c) ==
    /\ ~r.prompt.fresh /\ Carries(r.prompt, c)
    /\ r.mode = "prompt" /\ r.prompt.ask = 0 => r.start

\* The turn of a fork that has still to be given its history carries it, or has passed it on.
HistoryFits(t, c) ==
    /\ t.prompt.past >= 1
    /\ IF t.init THEN c.past >= 1 ELSE c.past + t.now.past >= 1

\* How many parks of one turn the counters account for.
Weight(r)     == r.attempts * (MaxProbes + 1) + r.probes
Limited(r)    == r.attempts <= MaxParks /\ r.probes <= MaxProbes
Counted(r, n) == Limited(r) /\ n <= Weight(r)
ParkBound     == (MaxParks + 1) * (MaxProbes + 1) - 1

SessionFits(s) ==
    /\ ~Idle(s) => /\ AskFits(turn[s], conv[s]) /\ Counted(kept[s], parks[s])
                   /\ replay[s] => HistoryFits(turn[s], conv[s])
                   /\ mem[s] /\ Up /\ ~Parked(s)
    /\ Parked(s) => ParkFits(park[s], conv[s]) /\ Counted(park[s], parks[s])
    /\ Limited(kept[s]) /\ parks[s] <= ParkBound

TurnsFit == \A s \in Sessions : SessionFits(s)

TurnsOK == RowShapes /\ TurnShapes /\ TurnsFit

\* A session that no request has reached.
Unused(f) == Idle(f) /\ ~Parked(f) /\ queue[f] = <<>>

\* How far a saga is says what its row, its directory and its artifacts are.
SagaFits(f) ==
    /\ saga[f] \in {"copy", "insert"} => row[f] = "none"
    /\ saga[f] \in {"prepare", "promote", "drop"} => row[f] = "initializing"
    /\ saga[f] \in {"insert", "prepare", "promote", "drop"} /\ kind[f] = "copy" => dir[f] = "whole"
    /\ saga[f] = "drop" => ~artifact[f]
    /\ saga[f] \in {"revert", "record"} => row[f] = "reverting"
    /\ saga[f] = "archive" => row[f] = "ready"
    /\ saga[f] \in {"copy", "insert", "prepare"} => ~replay[f]
    /\ saga[f] # "none" =>
          /\ Up /\ Unused(f) /\ kind[f] # "none"
          /\ from[f] \in Forks => kind[from[f]] # "none" /\ saga[from[f]] = "none"

RowFits(f) ==
    /\ row[f] # "none" \/ mem[f] => kind[f] # "none"
    /\ row[f] = "reverting" => kind[f] = "rewind"
    /\ artifact[f] => row[f] # "none"
    /\ row[f] \in {"none", "initializing"} => ~stash[f]
    /\ row[f] = "ready" => /\ kind[f] = "copy" => dir[f] = "whole"
                           /\ stash[f] => record[f] # "none"
    /\ kind[f] = "none" => ~replay[f] /\ Unused(f)
    /\ f \in todo => phase = "recover" /\ row[f] \in {"initializing", "reverting"}

ForksFit == \A f \in Forks : SagaFits(f) /\ RowFits(f)

\* A parent is archived for a fork that is whole.
ArchivedForFork ==
    \A p \in Sessions :
        row[p] = "archived" => \E f \in Forks : from[f] = p /\ row[f] \in {"ready", "archived"}

ForksOK == ForkShapes /\ ForksFit /\ ArchivedForFork

-------------------------------------------------------------------------------
(* Prompts, conversations and records of turns *)

\* The values that the model names are of the shapes that the invariant uses.
LEMMA Values ==
    /\ Asked \in Prompts /\ Continue \in Prompts /\ Nothing \in Convs /\ Answered \in Convs
    /\ NoCounts \in Counts /\ NoTurn \notin TurnRecords /\ NoPark \notin ParkRows
    /\ Asked.ask = 1 /\ Asked.fresh /\ Continue.ask = 0 /\ ~Continue.fresh
BY DEF Asked, Continue, Nothing, Answered, NoCounts, NoTurn, NoPark, Prompts, Convs, Counts, TurnRecords,
       ParkRows, Stages

\* A new request keeps the history that a conversation holds.
LEMMA SettledConv ==
    ASSUME NEW c \in Convs
    PROVE  /\ Settled(c) \in Convs /\ Settled(c).ask = 0 /\ Settled(c).past = c.past
           /\ Settled(c).id = c.id
BY DEF Settled, Convs

\* What a conversation holds once it was given a prompt.
LEMMA HeardConv ==
    ASSUME NEW c \in Convs, NEW p \in Prompts
    PROVE  /\ Heard(c, p) \in Convs /\ Heard(c, p).work = c.work
           /\ Heard(c, p).ask >= c.ask /\ Heard(c, p).ask >= p.ask /\ Heard(c, p).ask <= c.ask + p.ask
           /\ c.past + p.past >= 1 => Heard(c, p).past >= 1
BY DEF Heard, Least, Convs, Prompts

\* Wrapping a prompt adds the history and no request.
LEMMA WrappedPrompt ==
    ASSUME NEW p \in Prompts, NEW r \in BOOLEAN
    PROVE  /\ Wrapped(p, r) \in Prompts /\ Wrapped(p, r).ask = p.ask /\ Wrapped(p, r).fresh = p.fresh
           /\ r => Wrapped(p, r).past >= 1
BY DEF Wrapped, Least, Prompts

\* A turn opens with its request still to be put, or with work to continue.
LEMMA OpenedTurn ==
    ASSUME NEW p \in Prompts, NEW c \in Convs, NEW r \in BOOLEAN,
           p.fresh => p.ask = 1, ~p.fresh => Carries(p, c)
    PROVE  /\ Opened(p, c, r) \in TurnRecords /\ Opened(p, c, r) # NoTurn
           /\ Opened(p, c, r).stage = "auth" /\ ~Opened(p, c, r).init
           /\ Context(p, c) \in Convs /\ Context(p, c).past = c.past
           /\ AskFits(Opened(p, c, r), Context(p, c))
           /\ r => HistoryFits(Opened(p, c, r), Context(p, c))
<1> DEFINE w == Wrapped(p, r)  k == Context(p, c)
<1>1. w \in Prompts /\ w.ask = p.ask /\ w.fresh = p.fresh /\ (r => w.past >= 1)
  BY WrappedPrompt
<1>2. k \in Convs /\ k.past = c.past /\ k.id = c.id /\ Carries(p, k) /\ (p.fresh => k.ask = 0)
  <2>1. CASE p.fresh
    BY <2>1, SettledConv DEF Context, Carries
  <2>2. CASE ~p.fresh
    BY <2>2 DEF Context
  <2> QED BY <2>1, <2>2
<1>3. Opened(p, c, r) = [stage |-> "auth", prompt |-> w, now |-> w, start |-> c.id, init |-> FALSE,
                         out |-> "none", tries |-> 0, again |-> 0, bundle |-> "none"]
  BY DEF Opened
<1> HIDE DEF w, k
<1>4. Opened(p, c, r) \in TurnRecords
  BY <1>1, <1>2, <1>3 DEF TurnRecords, Stages, Convs
<1>5. AskFits(Opened(p, c, r), k) /\ (r => HistoryFits(Opened(p, c, r), k))
  BY <1>1, <1>2, <1>3 DEF AskFits, Repeats, Carries, HistoryFits, Convs, Prompts
<1>6. Opened(p, c, r).stage = "auth" /\ ~Opened(p, c, r).init
  BY <1>3
<1> QED BY <1>2, <1>4, <1>5, <1>6, Values DEF k

SameAttempt(t, u) ==
    /\ u \in TurnRecords /\ u.prompt = t.prompt /\ u.now = t.now /\ u.start = t.start
    /\ u.init = t.init /\ u.out = t.out /\ (t.tries > 0 => u.tries > 0)

\* What fits an attempt fits a record that differs in its stage and counters only.
LEMMA SameFits ==
    ASSUME NEW t, NEW u, SameAttempt(t, u), NEW c
    PROVE  /\ AskFits(t, c) => AskFits(u, c)
           /\ HistoryFits(t, c) => HistoryFits(u, c)
BY DEF SameAttempt, AskFits, Repeats, HistoryFits

\* Moving a turn to another stage keeps its attempt.
LEMMA Staged ==
    ASSUME NEW t \in TurnRecords, NEW st \in Stages
    PROVE  /\ SameAttempt(t, [t EXCEPT !.stage = st])
           /\ [t EXCEPT !.stage = st].stage = st
BY DEF SameAttempt, TurnRecords, Stages

\* So does reading a bundle, or dropping it.
LEMMA Bundled ==
    ASSUME NEW t \in TurnRecords, NEW st \in Stages, NEW b \in {"none", "good", "spent"}
    PROVE  /\ SameAttempt(t, [t EXCEPT !.stage = st, !.bundle = b])
           /\ [t EXCEPT !.stage = st, !.bundle = b].stage = st
BY DEF SameAttempt, TurnRecords, Stages

\* So does the rotation of the token by another turn.
LEMMA SpentBundle ==
    ASSUME NEW t \in TurnRecords
    PROVE  /\ SameAttempt(t, [t EXCEPT !.bundle = "spent"])
           /\ [t EXCEPT !.bundle = "spent"].stage = t.stage
BY DEF SameAttempt, TurnRecords, Stages

\* The next attempt has the turn's prompt and start, a prompt of its own and no output.
LEMMA NextAttempt ==
    ASSUME NEW t \in TurnRecords, NEW p \in Prompts
    PROVE  /\ Attempt(t, p) \in TurnRecords
           /\ Attempt(t, p).prompt = t.prompt /\ Attempt(t, p).start = t.start
           /\ Attempt(t, p).now = p /\ Attempt(t, p).stage = "ready" /\ ~Attempt(t, p).init
           /\ Attempt(t, p).out = "none" /\ Attempt(t, p).tries = t.tries
BY DEF Attempt, TurnRecords, Stages

\* The counters of a turn are no part of its attempt.
LEMMA Counters ==
    ASSUME NEW t \in TurnRecords
    PROVE  /\ SameAttempt(t, [t EXCEPT !.tries = t.tries + 1])
           /\ [t EXCEPT !.tries = t.tries + 1].tries > 0
           /\ SameAttempt(t, [t EXCEPT !.again = t.again + 1])
BY DEF SameAttempt, TurnRecords, Stages

\* Arithmetic that the SMT solver does not do on its own: products are monotone.
LEMMA Products ==
    ASSUME NEW a \in Nat, NEW b \in Nat, NEW m \in Nat, a <= b
    PROVE  /\ a * m \in Nat /\ a * m <= b * m /\ (a + 1) * m = a * m + m
<1>1. PICK d \in Nat : b = a + d
  <2>1. b - a \in Nat /\ b = a + (b - a)
    OBVIOUS
  <2> QED BY <2>1
<1>2. a * m \in Nat /\ d * m \in Nat
  OBVIOUS
<1>3. b * m = a * m + d * m
  BY <1>1
<1>4. (a + 1) * m = a * m + m
  OBVIOUS
<1> QED BY <1>2, <1>3, <1>4

\* The weight of counters within their limits is within the bound, and an attempt more outweighs
\* the probes it resets.
LEMMA Weights ==
    ASSUME NEW a \in Nat, NEW b \in Nat, a <= MaxParks, b <= MaxProbes
    PROVE  /\ MaxParks \in Nat /\ MaxProbes \in Nat /\ ParkBound \in Nat
           /\ a * (MaxProbes + 1) + b \in Nat
           /\ a * (MaxProbes + 1) + b <= ParkBound
           /\ a * (MaxProbes + 1) + b + 1 <= (a + 1) * (MaxProbes + 1) + 0
<1>1. MaxParks \in Nat /\ MaxProbes \in Nat /\ MaxProbes + 1 \in Nat
  BY AttemptsAssumption
<1> DEFINE m == MaxProbes + 1
<1>2. a * m \in Nat /\ a * m <= MaxParks * m /\ (a + 1) * m = a * m + m
  BY <1>1, Products
<1>3. MaxParks * m \in Nat /\ (MaxParks + 1) * m = MaxParks * m + m
  BY <1>1, Products
<1>4. ParkBound = MaxParks * m + m - 1
  BY <1>1, <1>3 DEF ParkBound
<1>5. m \in Nat /\ m = MaxProbes + 1
  BY <1>1
<1> HIDE DEF m
<1> DEFINE am == a * m  pm == MaxParks * m  aam == (a + 1) * m
<1>6. am \in Nat /\ pm \in Nat /\ am <= pm /\ aam = am + m /\ ParkBound = pm + m - 1
  BY <1>2, <1>3, <1>4
<1> HIDE DEF am, pm, aam
<1>7. am + b \in Nat /\ am + b <= ParkBound /\ am + b + 1 <= aam + 0 /\ ParkBound \in Nat
  BY <1>1, <1>5, <1>6
<1> QED BY <1>1, <1>5, <1>7 DEF am, aam

-------------------------------------------------------------------------------
(* Steps of one turn *)

\* What waits in a queue is a request of a user.
LEMMA FirstInQueue ==
    ASSUME NEW q \in Seq({Asked}), q # <<>>
    PROVE  Head(q) = Asked /\ Tail(q) \in Seq({Asked})
OBVIOUS

\* A step of one turn keeps the invariant of the others.
LEMMA OneTurn ==
    ASSUME TurnsOK, NEW s \in Sessions, RowShapes', TurnShapes', SessionFits(s)',
           mem' = mem, phase' = phase,
           \A x \in Sessions \ {s} :
               /\ turn'[x] = turn[x] /\ conv'[x] = conv[x] /\ replay'[x] = replay[x]
               /\ park'[x] = park[x] /\ kept'[x] = kept[x] /\ parks'[x] = parks[x]
    PROVE  TurnsOK'
<1>1. ASSUME NEW x \in Sessions, x # s PROVE SessionFits(x)'
  <2>1. SessionFits(x)
    BY DEF TurnsOK, TurnsFit
  <2> QED BY <2>1, <1>1 DEF SessionFits, Idle, Parked, Up
<1> QED BY <1>1 DEF TurnsOK, TurnsFit

\* What a step leaves to be said when Begin or Ends has said the rest.
Frame(s) ==
    /\ UNCHANGED <<phase, row, mem, forking, crashes>> /\ requests' \in Nat
    /\ replay' \in [Sessions -> BOOLEAN] /\ park' \in [Sessions -> {NoPark} \cup ParkRows]
    /\ kept' \in [Sessions -> Counts] /\ lost' \subseteq Losses
    /\ token' \in [current : BOOLEAN, needs : BOOLEAN]
    /\ \A x \in Sessions \ {s} :
          replay'[x] = replay[x] /\ park'[x] = park[x] /\ kept'[x] = kept[x]
    /\ Limited(kept'[s]) /\ park'[s] = NoPark

\* A turn begins.
LEMMA BeginStep ==
    ASSUME TurnsOK, NEW s \in Sessions, Frame(s), queue' \in [Sessions -> Seq({Asked})],
           NEW p \in Prompts, NEW c \in Convs, Begin(s, p, c, replay'[s]), mem[s], Up,
           p.fresh => p.ask = 1,
           ~p.fresh => Carries(p, c) /\ Counted(kept'[s], parks[s])
    PROVE  TurnsOK'
<1> DEFINE t == Opened(p, c, replay'[s])  k == Context(p, c)
           n == IF p.fresh THEN 0 ELSE parks[s]
<1>1. replay'[s] \in BOOLEAN
  BY DEF Frame
<1>2. /\ t \in TurnRecords /\ t # NoTurn /\ k \in Convs /\ AskFits(t, k)
      /\ replay'[s] => HistoryFits(t, k)
  BY <1>1, OpenedTurn
<1>3. turn' = [turn EXCEPT ![s] = t] /\ conv' = [conv EXCEPT ![s] = k]
      /\ parks' = [parks EXCEPT ![s] = n]
  BY DEF Begin, TurnsOK, TurnShapes
<1>4. n \in Nat /\ Counted(kept'[s], n) /\ n <= ParkBound
  <2>1. kept'[s] \in Counts /\ parks[s] \in Nat /\ Limited(kept'[s]) /\ parks[s] <= ParkBound
    BY DEF Frame, TurnsOK, TurnShapes, TurnsFit, SessionFits
  <2>2. CASE p.fresh
    <3>1. 0 <= Weight(kept'[s]) /\ 0 <= ParkBound
      BY <2>1, Weights DEF Weight, Limited, Counts
    <3> QED BY <2>1, <2>2, <3>1 DEF Counted
  <2>3. CASE ~p.fresh
    BY <2>1, <2>3
  <2> QED BY <2>2, <2>3
<1> HIDE DEF t, k, n
<1>5. turn'[s] = t /\ conv'[s] = k /\ parks'[s] = n
  BY <1>3 DEF TurnsOK, TurnShapes, RowShapes
<1>6. RowShapes' /\ TurnShapes'
  BY <1>2, <1>3, <1>4 DEF Frame, TurnsOK, RowShapes, TurnShapes
<1>7. SessionFits(s)'
  BY <1>2, <1>4, <1>5 DEF SessionFits, Idle, Parked, Up, Frame
<1>8. \A x \in Sessions \ {s} : turn'[x] = turn[x] /\ conv'[x] = conv[x] /\ parks'[x] = parks[x]
  BY <1>3 DEF TurnsOK, RowShapes, TurnShapes
<1> QED BY <1>6, <1>7, <1>8, OneTurn DEF Frame

\* A turn ends, and the next prompt begins or the session is idle.
LEMMA EndsStep ==
    ASSUME TurnsOK, NEW s \in Sessions, ~Idle(s), Frame(s), NEW c \in Convs, NEW r \in BOOLEAN,
           Ends(s, c, r)
    PROVE  TurnsOK'
<1>1. replay'[s] = r /\ mem[s] /\ Up
  BY DEF Ends, TurnsOK, RowShapes, TurnsFit, SessionFits
<1>2. CASE queue[s] = <<>>
  <2>1. turn' = [turn EXCEPT ![s] = NoTurn] /\ conv' = [conv EXCEPT ![s] = Settled(c)]
        /\ queue' = queue /\ parks' = parks /\ Settled(c) \in Convs
    BY <1>2, SettledConv DEF Ends
  <2>2. RowShapes' /\ TurnShapes'
    BY <2>1 DEF Frame, TurnsOK, RowShapes, TurnShapes
  <2>3. turn'[s] = NoTurn /\ parks[s] <= ParkBound
    BY <2>1 DEF TurnsOK, TurnShapes, TurnsFit, SessionFits
  <2>4. SessionFits(s)'
    BY <2>1, <2>3 DEF SessionFits, Idle, Parked, Frame
  <2>5. \A x \in Sessions \ {s} : turn'[x] = turn[x] /\ conv'[x] = conv[x] /\ parks'[x] = parks[x]
    BY <2>1 DEF TurnsOK, RowShapes, TurnShapes
  <2> QED BY <2>2, <2>4, <2>5, OneTurn DEF Frame
<1>3. CASE queue[s] # <<>>
  <2>1. queue[s] \in Seq({Asked}) /\ queue \in [Sessions -> Seq({Asked})]
    BY DEF TurnsOK, TurnShapes
  <2>2. Head(queue[s]) = Asked /\ Tail(queue[s]) \in Seq({Asked})
    BY <1>3, <2>1, FirstInQueue
  <2>3. Begin(s, Asked, c, r) /\ queue' = [queue EXCEPT ![s] = Tail(queue[s])]
    BY <1>3, <2>2 DEF Ends
  <2>4. queue' \in [Sessions -> Seq({Asked})]
    BY <2>1, <2>2, <2>3
  <2> QED BY <1>1, <2>3, <2>4, BeginStep, Values
<1> QED BY <1>2, <1>3

\* The invariant of a session in a turn.
LEMMA InTurn ==
    ASSUME TurnsOK, NEW s \in Sessions, ~Idle(s)
    PROVE  /\ turn[s] \in TurnRecords /\ conv[s] \in Convs /\ replay[s] \in BOOLEAN
           /\ kept[s] \in Counts /\ parks[s] \in Nat
           /\ AskFits(turn[s], conv[s]) /\ Counted(kept[s], parks[s])
           /\ replay[s] => HistoryFits(turn[s], conv[s])
           /\ mem[s] /\ Up /\ ~Parked(s) /\ park[s] = NoPark
BY DEF TurnsOK, RowShapes, TurnShapes, TurnsFit, SessionFits, Idle, Parked

\* A turn that is at a stage is a turn.
LEMMA Staying ==
    ASSUME NEW s \in Sessions, NEW st \in Stages, At(s, st)
    PROVE  ~Idle(s)
BY DEF At, Idle, NoTurn, Stages

\* What an attempt leaves, and that a fork's flag goes only with the history handed over.
LEMMA AfterConv ==
    ASSUME TurnsOK, NEW s \in Sessions, ~Idle(s), NEW result \in BOOLEAN
    PROVE  /\ After(s, result) \in Convs /\ Replay(s, result) \in BOOLEAN
           /\ Replay(s, result) => replay[s]
           /\ turn[s].init => After(s, result) = conv[s]
           /\ After(s, result).ask >= conv[s].ask /\ After(s, result).work = conv[s].work
           /\ replay[s] /\ ~Replay(s, result) => After(s, result).past >= 1
<1>1. turn[s] \in TurnRecords /\ conv[s] \in Convs /\ replay[s] \in BOOLEAN
  BY InTurn
<1>2. turn[s].now \in Prompts /\ turn[s].init \in BOOLEAN
  BY <1>1 DEF TurnRecords
<1>3. /\ Heard(conv[s], turn[s].now) \in Convs
      /\ conv[s].past + turn[s].now.past >= 1 => Heard(conv[s], turn[s].now).past >= 1
      /\ Heard(conv[s], turn[s].now).ask >= conv[s].ask
      /\ Heard(conv[s], turn[s].now).work = conv[s].work /\ conv[s].ask >= conv[s].ask
  BY <1>1, <1>2, HeardConv DEF Convs
<1>4. ASSUME replay[s], ~Replay(s, result) PROVE After(s, result).past >= 1
  <2>1. result /\ HistoryFits(turn[s], conv[s])
    BY <1>4, InTurn DEF Replay
  <2>2. CASE turn[s].init
    BY <2>1, <2>2 DEF After, HistoryFits
  <2>3. CASE ~turn[s].init
    BY <1>3, <2>1, <2>3 DEF After, HistoryFits
  <2> QED BY <2>2, <2>3
<1> QED BY <1>1, <1>2, <1>3, <1>4 DEF After, Replay

\* A turn ends, whatever it does to the park, the counters and the credential.
LEMMA EndsTurn ==
    ASSUME TurnsOK, NEW s \in Sessions, ~Idle(s), NEW c \in Convs, NEW r \in BOOLEAN,
           Ends(s, c, r), lost' \subseteq Losses, token' \in [current : BOOLEAN, needs : BOOLEAN],
           park' = park \/ park' = [park EXCEPT ![s] = NoPark],
           kept' = kept \/ kept' = [kept EXCEPT ![s] = NoCounts]
    PROVE  TurnsOK'
<1>1. park[s] = NoPark /\ Limited(kept[s])
  BY InTurn DEF Counted
<1>2. /\ UNCHANGED <<phase, row, mem, forking, requests, crashes>>
      /\ replay' = [replay EXCEPT ![s] = r]
  BY DEF Ends
<1>3. replay' \in [Sessions -> BOOLEAN] /\ requests' \in Nat
      /\ \A x \in Sessions \ {s} : replay'[x] = replay[x]
  BY <1>2 DEF TurnsOK, RowShapes
<1>4. park' \in [Sessions -> {NoPark} \cup ParkRows] /\ park'[s] = NoPark
      /\ \A x \in Sessions \ {s} : park'[x] = park[x]
  BY <1>1 DEF TurnsOK, TurnShapes
<1>5. kept' \in [Sessions -> Counts] /\ Limited(kept'[s])
      /\ \A x \in Sessions \ {s} : kept'[x] = kept[x]
  <2>1. Limited(NoCounts) /\ NoCounts \in Counts /\ kept \in [Sessions -> Counts]
    BY Values, AttemptsAssumption DEF Limited, NoCounts, TurnsOK, TurnShapes
  <2>2. CASE kept' = kept
    BY <1>1, <2>1, <2>2
  <2>3. CASE kept' = [kept EXCEPT ![s] = NoCounts]
    BY <2>1, <2>3
  <2> QED BY <2>2, <2>3
<1>6. Frame(s)
  BY <1>2, <1>3, <1>4, <1>5 DEF Frame
<1> QED BY <1>6, EndsStep

\* A turn moves on in the same attempt.
LEMMA TurnMoves ==
    ASSUME TurnsOK, NEW s \in Sessions, ~Idle(s), NEW u, SameAttempt(turn[s], u),
           turn' = [turn EXCEPT ![s] = u], UNCHANGED <<rowVars, queue, park, kept, parks>>,
           token' \in [current : BOOLEAN, needs : BOOLEAN], lost' \subseteq Losses
    PROVE  TurnsOK'
<1>1. /\ UNCHANGED <<phase, row, mem, conv, replay, forking, requests, crashes>>
      /\ UNCHANGED <<queue, park, kept, parks>>
  BY DEF rowVars
<1>2. u \in TurnRecords /\ turn'[s] = u
  BY DEF SameAttempt, TurnsOK, TurnShapes
<1>3. RowShapes' /\ TurnShapes'
  BY <1>1, <1>2 DEF TurnsOK, RowShapes, TurnShapes
<1>4. /\ AskFits(u, conv[s]) /\ Counted(kept[s], parks[s])
      /\ replay[s] => HistoryFits(u, conv[s])
      /\ mem[s] /\ Up /\ ~Parked(s) /\ Limited(kept[s]) /\ parks[s] <= ParkBound
  BY InTurn, SameFits DEF TurnsOK, TurnsFit, SessionFits
<1>5. SessionFits(s)'
  BY <1>1, <1>2, <1>4 DEF SessionFits, Parked, Up
<1>6. \A x \in Sessions \ {s} : turn'[x] = turn[x]
  BY DEF TurnsOK, TurnShapes
<1> QED BY <1>1, <1>3, <1>5, <1>6, OneTurn

\* The credential and its flag.
LEMMA TokenShape ==
    ASSUME TurnsOK, NEW s \in Sessions
    PROVE  /\ token \in [current : BOOLEAN, needs : BOOLEAN] /\ lost \subseteq Losses
           /\ Flagged(s) \in [current : BOOLEAN, needs : BOOLEAN]
           /\ Flagged(s).current = token.current /\ Flagged(s).needs
BY DEF TurnsOK, TurnShapes, Flagged

\* A loss is recorded and not forgotten.
LEMMA Cut ==
    ASSUME TurnsOK, NEW b \in BOOLEAN
    PROVE  /\ CutOff(b) \subseteq Losses /\ lost \subseteq CutOff(b)
           /\ b => "cut off" \in CutOff(b)
BY DEF TurnsOK, TurnShapes, CutOff, Losses

\* The credential and the spawn move the turn on and leave its attempt alone.
LEMMA AuthSteps ==
    ASSUME TurnsOK, NEW s \in Sessions,
           Resolve(s) \/ NearExpiry(s) \/ RefreshFails(s) \/ Stores(s) \/ Spawn(s)
    PROVE  TurnsOK'
<1>1. ~Idle(s)
  BY Staying DEF Resolve, NearExpiry, RefreshFails, Stores, Spawn, Stages
<1>2. turn[s] \in TurnRecords
  BY <1>1, InTurn
<1>3. UNCHANGED <<rowVars, queue, park, kept, parks, lost>>
  BY DEF Resolve, NearExpiry, RefreshFails, Stores, Spawn
<1>5. token' = token \/ token' = Flagged(s) \/ token' = [current |-> TRUE, needs |-> FALSE]
  BY DEF Resolve, NearExpiry, RefreshFails, Stores, Spawn
<1>6. lost' \subseteq Losses /\ token' \in [current : BOOLEAN, needs : BOOLEAN]
  <2>1. [current |-> TRUE, needs |-> FALSE] \in [current : BOOLEAN, needs : BOOLEAN]
    OBVIOUS
  <2> QED BY <1>3, <1>5, <2>1, TokenShape
<1>4. \E u : SameAttempt(turn[s], u) /\ turn' = [turn EXCEPT ![s] = u]
  <2>1. CASE Resolve(s) \/ Spawn(s) \/ Stores(s)
    <3>1. PICK st \in Stages : turn' = [turn EXCEPT ![s] = [turn[s] EXCEPT !.stage = st]]
      BY <2>1 DEF Resolve, Spawn, Stores, Stage, Stages
    <3> QED BY <1>2, <3>1, Staged
  <2>2. CASE NearExpiry(s)
    <3>1. PICK b \in {"none", "good", "spent"} :
             turn' = [turn EXCEPT ![s] = [turn[s] EXCEPT !.stage = "refresh", !.bundle = b]]
      BY <2>2 DEF NearExpiry
    <3> QED BY <1>2, <3>1, Bundled DEF Stages
  <2>3. CASE RefreshFails(s)
    <3>1. turn' = [turn EXCEPT ![s] = [turn[s] EXCEPT !.stage = "ready", !.bundle = "none"]]
      BY <2>3 DEF RefreshFails
    <3> QED BY <1>2, <3>1, Bundled DEF Stages
  <2> QED BY <2>1, <2>2, <2>3
<1> QED BY <1>1, <1>3, <1>4, <1>6, TurnMoves

\* Every way a turn is over.
Overs(s, result, dated) ==
    \/ OverBudget(s) \/ SpawnFails(s) \/ Completes(s) \/ Stopped(s) \/ ErrorResult(s)
    \/ Interrupt(s) \/ AuthExpires(s, result) \/ RetriesExhausted(s, result)
    \/ GivesUp(s, result, dated)

\* All ends of a turn are Ends, with a conversation and a flag that fit.
LEMMA OversForm ==
    ASSUME TurnsOK, NEW s \in Sessions, NEW result \in BOOLEAN, NEW dated \in BOOLEAN,
           Overs(s, result, dated)
    PROVE  /\ ~Idle(s)
           /\ \E c \in Convs, r \in BOOLEAN :
                 Ends(s, c, r) /\ (r => replay[s]) /\ (replay[s] /\ ~r => c.past >= 1)
           /\ lost' \subseteq Losses /\ lost \subseteq lost'
           /\ turn[s].stage = "store" => "cut off" \in lost'
           /\ token' \in [current : BOOLEAN, needs : BOOLEAN] /\ token'.current = token.current
           /\ token.needs => token'.needs
           /\ park' = park \/ park' = [park EXCEPT ![s] = NoPark]
           /\ kept' = kept \/ kept' = [kept EXCEPT ![s] = NoCounts]
<1> USE DEF Overs
<1>1. ~Idle(s)
  BY Staying DEF OverBudget, SpawnFails, Completes, Stopped, ErrorResult, Interrupt, AuthExpires,
                 RetriesExhausted, GivesUp, Stages
<1>2. conv[s] \in Convs /\ replay[s] \in BOOLEAN
  BY <1>1, InTurn
<1>3. \E c \in Convs, r \in BOOLEAN :
         Ends(s, c, r) /\ (r => replay[s]) /\ (replay[s] /\ ~r => c.past >= 1)
  <2>1. CASE OverBudget(s) \/ SpawnFails(s) \/ Stopped(s) \/ Interrupt(s)
    BY <1>2, <2>1 DEF OverBudget, SpawnFails, Stopped, Interrupt
  <2>2. CASE Completes(s) \/ ErrorResult(s)
    <3>1. Ends(s, After(s, TRUE), Replay(s, TRUE))
      BY <2>2 DEF Completes, ErrorResult
    <3> QED BY <1>1, <3>1, AfterConv
  <2>3. CASE AuthExpires(s, result) \/ RetriesExhausted(s, result) \/ GivesUp(s, result, dated)
    <3>1. Ends(s, After(s, result), Replay(s, result))
      BY <2>3 DEF AuthExpires, RetriesExhausted, GivesUp
    <3> QED BY <1>1, <3>1, AfterConv
  <2> QED BY <2>1, <2>2, <2>3
<1>4. \/ lost' = lost /\ turn[s].stage # "store"
      \/ lost' = CutOff(turn[s].stage = "store")
  BY DEF OverBudget, SpawnFails, Completes, Stopped, ErrorResult, Interrupt, AuthExpires,
         RetriesExhausted, GivesUp, At
<1>5. token' = token \/ token' = Flagged(s)
  BY DEF OverBudget, SpawnFails, Completes, Stopped, ErrorResult, Interrupt, AuthExpires,
         RetriesExhausted, GivesUp
<1>6. park' = park \/ park' = [park EXCEPT ![s] = NoPark]
  BY DEF OverBudget, SpawnFails, Completes, Stopped, ErrorResult, Interrupt, AuthExpires,
         RetriesExhausted, GivesUp
<1>7. kept' = kept \/ kept' = [kept EXCEPT ![s] = NoCounts]
  BY DEF OverBudget, SpawnFails, Completes, Stopped, ErrorResult, Interrupt, AuthExpires,
         RetriesExhausted, GivesUp
<1>8. lost' \subseteq Losses /\ lost \subseteq lost' /\ (turn[s].stage = "store" => "cut off" \in lost')
  BY <1>4, TokenShape, Cut
<1>9. token' \in [current : BOOLEAN, needs : BOOLEAN] /\ token'.current = token.current
      /\ (token.needs => token'.needs)
  BY <1>5, TokenShape
<1> QED BY <1>1, <1>3, <1>6, <1>7, <1>8, <1>9

\* Every end of a turn keeps the invariant.
LEMMA EndSteps ==
    ASSUME TurnsOK, NEW s \in Sessions, NEW result \in BOOLEAN, NEW dated \in BOOLEAN,
           Overs(s, result, dated)
    PROVE  TurnsOK'
<1>1. PICK c \in Convs, r \in BOOLEAN : Ends(s, c, r)
  BY OversForm
<1>2. /\ ~Idle(s) /\ lost' \subseteq Losses /\ token' \in [current : BOOLEAN, needs : BOOLEAN]
      /\ park' = park \/ park' = [park EXCEPT ![s] = NoPark]
      /\ kept' = kept \/ kept' = [kept EXCEPT ![s] = NoCounts]
  BY OversForm
<1> QED BY <1>1, <1>2, EndsTurn

\* A turn under way goes on in the conversation c.
LEMMA GoesOn ==
    ASSUME TurnsOK, NEW s \in Sessions, ~Idle(s), NEW u \in TurnRecords, NEW c \in Convs,
           turn' = [turn EXCEPT ![s] = u], conv' = [conv EXCEPT ![s] = c], AskFits(u, c),
           replay' = replay \/ (\E r \in BOOLEAN : (r => replay[s]) /\ replay' = [replay EXCEPT ![s] = r]),
           replay[s] => HistoryFits(u, c),
           UNCHANGED <<phase, row, mem, forking, requests, crashes>>,
           UNCHANGED <<queue, park, kept, token, parks, lost>>
    PROVE  TurnsOK'
<1>1. turn'[s] = u /\ conv'[s] = c /\ replay' \in [Sessions -> BOOLEAN] /\ (replay'[s] => replay[s])
  BY DEF TurnsOK, RowShapes, TurnShapes
<1>2. RowShapes' /\ TurnShapes'
  BY <1>1 DEF TurnsOK, RowShapes, TurnShapes
<1>3. /\ Counted(kept[s], parks[s]) /\ mem[s] /\ Up /\ ~Parked(s)
      /\ Limited(kept[s]) /\ parks[s] <= ParkBound
  BY InTurn DEF TurnsOK, TurnsFit, SessionFits
<1>4. SessionFits(s)'
  BY <1>1, <1>3 DEF SessionFits, Parked, Up
<1>5. \A x \in Sessions \ {s} : turn'[x] = turn[x] /\ conv'[x] = conv[x] /\ replay'[x] = replay[x]
  BY DEF TurnsOK, RowShapes, TurnShapes
<1> QED BY <1>2, <1>4, <1>5, OneTurn

\* The init event puts the prompt into the conversation.
LEMMA StartedStep ==
    ASSUME TurnsOK, NEW s \in Sessions, Started(s)
    PROVE  TurnsOK'
<1> DEFINE t == turn[s]  u == [t EXCEPT !.init = TRUE]  c == Heard(conv[s], t.now)
<1>1. ~Idle(s) /\ ~t.init
  BY Staying DEF Started, Stages
<1>2. /\ t \in TurnRecords /\ conv[s] \in Convs /\ AskFits(t, conv[s])
      /\ replay[s] => HistoryFits(t, conv[s])
  BY <1>1, InTurn
<1>3. t.now \in Prompts /\ t.prompt \in Prompts /\ t.start \in BOOLEAN
  BY <1>2 DEF TurnRecords
<1>4. /\ u \in TurnRecords /\ u.prompt = t.prompt /\ u.now = t.now /\ u.start = t.start
      /\ u.init /\ u.out = t.out /\ u.tries = t.tries
  BY <1>2 DEF TurnRecords, Stages
<1>5. turn' = [turn EXCEPT ![s] = u] /\ conv' = [conv EXCEPT ![s] = c]
  BY DEF Started
<1>6. /\ c \in Convs /\ c.work = conv[s].work
      /\ c.ask >= conv[s].ask /\ c.ask >= t.now.ask /\ c.ask <= conv[s].ask + t.now.ask
      /\ conv[s].past + t.now.past >= 1 => c.past >= 1
  BY <1>2, <1>3, HeardConv
<1> HIDE DEF u, c
<1>7. AskFits(u, c)
  BY <1>1, <1>2, <1>3, <1>4, <1>6 DEF AskFits, Carries, Repeats, Convs, Prompts
<1>8. replay[s] => HistoryFits(u, c)
  BY <1>1, <1>2, <1>3, <1>4, <1>6 DEF HistoryFits, Convs, Prompts
<1>9. UNCHANGED <<phase, row, mem, replay, forking, requests, crashes>>
      /\ UNCHANGED <<queue, park, kept, token, parks, lost>>
  BY DEF Started
<1> QED BY <1>1, <1>4, <1>5, <1>6, <1>7, <1>8, <1>9, GoesOn

\* Output of an attempt is work in its conversation.
LEMMA EmitsStep ==
    ASSUME TurnsOK, NEW s \in Sessions, NEW k \in {"text", "tool"}, Emits(s, k)
    PROVE  TurnsOK'
<1> DEFINE t == turn[s]  u == [t EXCEPT !.out = k]  c == [conv[s] EXCEPT !.work = TRUE]
<1>1. ~Idle(s) /\ t.init
  BY Staying DEF Emits, Stages
<1>2. /\ t \in TurnRecords /\ conv[s] \in Convs /\ AskFits(t, conv[s])
      /\ replay[s] => HistoryFits(t, conv[s])
  BY <1>1, InTurn
<1>3. /\ u \in TurnRecords /\ u.prompt = t.prompt /\ u.now = t.now /\ u.start = t.start
      /\ u.init = t.init /\ u.tries = t.tries
  BY <1>2 DEF TurnRecords, Stages
<1>4. c \in Convs /\ c.work /\ c.ask = conv[s].ask /\ c.past = conv[s].past
  BY <1>2 DEF Convs
<1>5. turn' = [turn EXCEPT ![s] = u] /\ conv' = [conv EXCEPT ![s] = c]
  BY DEF Emits
<1> HIDE DEF u, c
<1>6. AskFits(u, c) /\ (replay[s] => HistoryFits(u, c))
  BY <1>1, <1>2, <1>3, <1>4 DEF AskFits, Carries, Repeats, HistoryFits
<1>7. UNCHANGED <<phase, row, mem, replay, forking, requests, crashes>>
      /\ UNCHANGED <<queue, park, kept, token, parks, lost>>
  BY DEF Emits
<1> QED BY <1>1, <1>3, <1>4, <1>5, <1>6, <1>7, GoesOn


\* A new attempt repeats the prompt, from nothing or in the conversation that was resumed, or
\* continues work that is there.
LEMMA AttemptFits ==
    ASSUME NEW t \in TurnRecords, NEW v, SameAttempt(t, v), NEW c \in Convs, AskFits(t, c)
    PROVE  /\ Attempt(v, t.prompt) \in TurnRecords /\ Attempt(v, Continue) \in TurnRecords
           /\ \A d \in Convs :
                 v.tries > 0 /\ (IF t.start THEN d.ask >= c.ask /\ d.work = c.work ELSE d = Nothing) =>
                     /\ AskFits(Attempt(v, t.prompt), d)
                     /\ HistoryFits(t, c) => HistoryFits(Attempt(v, t.prompt), d)
           /\ t.out # "none" => AskFits(Attempt(v, Continue), c)
           /\ t.out # "none" /\ HistoryFits(t, c) => HistoryFits(Attempt(v, Continue), c)
<1>1. t.prompt \in Prompts /\ t.now \in Prompts /\ t.start \in BOOLEAN /\ v \in TurnRecords
      /\ (t.tries > 0 => v.tries > 0)
  BY DEF TurnRecords, SameAttempt
<1>2. \A p \in Prompts :
         /\ Attempt(v, p) \in TurnRecords
         /\ Attempt(v, p).prompt = t.prompt /\ Attempt(v, p).start = t.start
         /\ Attempt(v, p).now = p /\ ~Attempt(v, p).init /\ Attempt(v, p).out = "none"
         /\ Attempt(v, p).tries = v.tries
  BY <1>1, NextAttempt DEF SameAttempt
<1>3. ASSUME NEW d \in Convs, v.tries > 0,
             IF t.start THEN d.ask >= c.ask /\ d.work = c.work ELSE d = Nothing
      PROVE  /\ AskFits(Attempt(v, t.prompt), d)
             /\ HistoryFits(t, c) => HistoryFits(Attempt(v, t.prompt), d)
  <2> DEFINE u == Attempt(v, t.prompt)
  <2>1. /\ u.prompt = t.prompt /\ u.start = t.start /\ u.now = t.prompt /\ ~u.init
        /\ u.out = "none" /\ u.tries > 0
    BY <1>1, <1>2, <1>3
  <2> HIDE DEF u
  <2>2. Carries(t.prompt, c) /\ (t.prompt.ask = 0 => t.start)
    BY DEF AskFits
  <2>5. HistoryFits(t, c) => HistoryFits(u, d)
    <3>1. d.past >= 0 /\ d.past \in Int /\ t.prompt.past \in Int
      BY <1>1 DEF Convs, Prompts
    <3> QED BY <2>1, <3>1 DEF HistoryFits
  <2>3. CASE t.start
    <3>1. Carries(t.prompt, d)
      BY <1>3, <2>2, <2>3 DEF Carries, Convs
    <3>2. AskFits(u, d)
      BY <2>1, <2>2, <2>3, <3>1 DEF AskFits, Repeats
    <3> QED BY <2>5, <3>2 DEF u
  <2>4. CASE ~t.start
    <3>1. t.prompt.ask = 1 /\ d.ask = 0 /\ d.past = 0
      BY <1>1, <1>3, <2>2, <2>4 DEF Prompts, Nothing
    <3>2. AskFits(u, d)
      BY <2>1, <2>2, <3>1 DEF AskFits, Carries
    <3> QED BY <2>5, <3>2 DEF u
  <2> QED BY <1>1, <2>3, <2>4 DEF u
<1>4. ASSUME t.out # "none"
      PROVE  /\ AskFits(Attempt(v, Continue), c)
             /\ HistoryFits(t, c) => HistoryFits(Attempt(v, Continue), c)
  <2>1. Continue \in Prompts /\ Continue.ask = 0 /\ Continue.past = 0
    BY Values DEF Continue
  <2>2. t.init /\ c.work /\ c.ask >= 1 /\ (c.ask > 1 => Repeats(t))
        /\ (HistoryFits(t, c) => c.past >= 1)
    BY <1>4 DEF AskFits, HistoryFits, Convs
  <2>3. c.ask > 1 => Repeats(Attempt(v, Continue))
    BY <1>1, <1>2, <2>1, <2>2 DEF Repeats
  <2> QED BY <1>1, <1>2, <2>1, <2>2, <2>3 DEF AskFits, Carries, HistoryFits, Convs, Prompts
<1> QED BY <1>1, <1>2, <1>3, <1>4, Values

\* A retry repeats the request under the id of the turn's start, or continues.
LEMMA RetriesStep ==
    ASSUME TurnsOK, NEW s \in Sessions, NEW result \in BOOLEAN, Retries(s, result)
    PROVE  TurnsOK'
<1> DEFINE t == turn[s]  v == [t EXCEPT !.tries = t.tries + 1]
           p == IF t.out = "none" THEN t.prompt ELSE Continue
           c == RetryFrom(s, result)
<1>1. ~Idle(s)
  BY Staying DEF Retries, Stages
<1>2. /\ t \in TurnRecords /\ conv[s] \in Convs /\ AskFits(t, conv[s])
      /\ replay[s] => HistoryFits(t, conv[s])
      /\ t.start \in BOOLEAN /\ SameAttempt(t, v) /\ v.tries > 0
  BY <1>1, InTurn, Counters DEF TurnRecords
<1>3. /\ turn' = [turn EXCEPT ![s] = Attempt(v, p)] /\ conv' = [conv EXCEPT ![s] = c]
      /\ replay' = [replay EXCEPT ![s] = Replay(s, result)]
  BY DEF Retries
<1>4. Replay(s, result) \in BOOLEAN /\ (Replay(s, result) => replay[s])
  BY <1>1, AfterConv
<1>5. t.out # "none" => c = conv[s]
  BY <1>1, <1>2, AfterConv DEF RetryFrom, AskFits
<1>6. /\ c \in Convs
      /\ t.out = "none" => IF t.start THEN c.ask >= conv[s].ask /\ c.work = conv[s].work ELSE c = Nothing
  BY <1>1, AfterConv, Values DEF RetryFrom
<1>7. /\ Attempt(v, p) \in TurnRecords /\ c \in Convs /\ AskFits(Attempt(v, p), c)
      /\ replay[s] => HistoryFits(Attempt(v, p), c)
  <2> HIDE DEF v, c
  <2>1. CASE t.out = "none"
    BY <1>2, <1>6, <2>1, AttemptFits
  <2>2. CASE t.out # "none"
    BY <1>2, <1>5, <2>2, AttemptFits
  <2> QED BY <2>1, <2>2
<1> HIDE DEF v, p, c
<1>8. UNCHANGED <<phase, row, mem, forking, requests, crashes>>
      /\ UNCHANGED <<queue, park, kept, token, parks, lost>>
  BY DEF Retries
<1> QED BY <1>1, <1>3, <1>4, <1>7, <1>8, GoesOn

\* A premature exit is continued or ends the turn.
LEMMA DiesStep ==
    ASSUME TurnsOK, NEW s \in Sessions, Dies(s)
    PROVE  TurnsOK'
<1> DEFINE t == turn[s]  v == [t EXCEPT !.again = t.again + 1]
           goesOn == t.out = "tool" /\ t.again < MaxRecovery /\ conv[s].id
<1>1. ~Idle(s)
  BY Staying DEF Dies, Stages
<1>2. /\ t \in TurnRecords /\ conv[s] \in Convs /\ AskFits(t, conv[s])
      /\ replay[s] => HistoryFits(t, conv[s])
      /\ SameAttempt(t, v) /\ replay[s] \in BOOLEAN
  BY <1>1, InTurn, Counters
<1>3. UNCHANGED <<park, kept, token, lost>>
  BY DEF Dies
<1>4. CASE goesOn
  <2>1. turn' = [turn EXCEPT ![s] = Attempt(v, Continue)] /\ UNCHANGED <<rowVars, queue, parks>>
    BY <1>4 DEF Dies
  <2>2. conv' = [conv EXCEPT ![s] = conv[s]] /\ replay' = replay
        /\ UNCHANGED <<phase, row, mem, forking, requests, crashes>>
    BY <2>1 DEF rowVars, TurnsOK, RowShapes
  <2>3. /\ Attempt(v, Continue) \in TurnRecords /\ AskFits(Attempt(v, Continue), conv[s])
        /\ replay[s] => HistoryFits(Attempt(v, Continue), conv[s])
    <3> HIDE DEF v
    <3> QED BY <1>2, <1>4, AttemptFits
  <2> HIDE DEF v
  <2> QED BY <1>1, <1>2, <1>3, <2>1, <2>2, <2>3, GoesOn
<1>5. CASE ~goesOn
  <2>1. Ends(s, conv[s], replay[s])
    BY <1>5 DEF Dies
  <2> QED BY <1>1, <1>2, <1>3, <2>1, EndsTurn, TokenShape
<1> QED BY <1>4, <1>5

\* A park counts itself, and its row can start the turn again.
LEMMA ParksStep ==
    ASSUME TurnsOK, NEW s \in Sessions, NEW result \in BOOLEAN, NEW dated \in BOOLEAN,
           Parks(s, result, dated)
    PROVE  TurnsOK'
<1> DEFINE t == turn[s]  r == ParkRow(s, dated)  c == After(s, result)  k == kept[s]
           p == IF t.out = "none" THEN [t.prompt EXCEPT !.fresh = FALSE] ELSE Continue
<1>1. ~Idle(s)
  BY Staying DEF Parks, Stages
<1>2. /\ t \in TurnRecords /\ conv[s] \in Convs /\ AskFits(t, conv[s])
      /\ k \in Counts /\ parks[s] \in Nat /\ Counted(k, parks[s]) /\ Prior(s) = k
  BY <1>1, InTurn DEF Prior
<1>3. t.prompt \in Prompts /\ t.start \in BOOLEAN /\ t.out \in {"none", "text", "tool"}
  BY <1>2 DEF TurnRecords
<1>4. p \in Prompts /\ ~p.fresh /\ (t.out = "none" => p.ask = t.prompt.ask)
      /\ (t.out # "none" => p.ask = 0)
  BY <1>3, Values DEF Prompts
<1>5. c \in Convs /\ (t.out # "none" => c = conv[s]) /\ Replay(s, result) \in BOOLEAN
      /\ c.ask >= conv[s].ask /\ c.work = conv[s].work
  BY <1>1, <1>2, AfterConv DEF AskFits
<1>6. /\ r.mode = (IF t.out = "none" THEN "prompt" ELSE "continue") /\ r.prompt = p
      /\ r.start = t.start
      /\ r.attempts = (IF dated THEN k.attempts + 1 ELSE k.attempts)
      /\ r.probes = (IF dated THEN 0 ELSE k.probes + 1)
      /\ r = [mode |-> r.mode, prompt |-> p, start |-> t.start, attempts |-> r.attempts,
              probes |-> r.probes]
  BY <1>2 DEF ParkRow
<1>7. IF dated THEN k.attempts < MaxParks ELSE k.probes < MaxProbes
  BY <1>2, AttemptsAssumption DEF Parks, Spent, Counts
<1> HIDE DEF r, c, p
<1>8. r \in ParkRows /\ r # NoPark
  <2>1. r.mode \in {"prompt", "continue"} /\ r.attempts \in Nat /\ r.probes \in Nat
    BY <1>2, <1>6 DEF Counts
  <2>2. r \in ParkRows
    BY <1>3, <1>4, <1>6, <2>1 DEF ParkRows
  <2> QED BY <2>2, Values
<1>9. ParkFits(r, c)
  <2>1. t.out = "none" => Carries(p, c) /\ (p.ask = 0 => t.start)
    BY <1>2, <1>4, <1>5 DEF AskFits, Carries, Convs
  <2>2. t.out # "none" => Carries(p, c)
    BY <1>2, <1>4, <1>5 DEF AskFits, Carries
  <2> QED BY <1>4, <1>6, <2>1, <2>2 DEF ParkFits
<1>10. Counted(r, parks[s] + 1) /\ parks[s] + 1 <= ParkBound
  <2>1. k.attempts \in Nat /\ k.probes \in Nat /\ k.attempts <= MaxParks /\ k.probes <= MaxProbes
        /\ parks[s] <= k.attempts * (MaxProbes + 1) + k.probes
    BY <1>2 DEF Counts, Counted, Limited, Weight
  <2>2. MaxParks \in Nat /\ MaxProbes \in Nat /\ r.attempts \in Nat /\ r.probes \in Nat
    BY <1>8, AttemptsAssumption DEF ParkRows
  <2>3. Limited(r)
    BY <1>6, <1>7, <2>1, <2>2 DEF Limited
  <2>4. CASE dated
    <3>5. /\ k.attempts + 1 \in Nat /\ k.attempts + 1 <= MaxParks
          /\ 0 \in Nat /\ 0 <= MaxProbes
      BY <1>7, <2>1, <2>2, <2>4
    <3>1. parks[s] + 1 <= (k.attempts + 1) * (MaxProbes + 1) + 0
      BY <1>2, <2>1, <2>2, Weights
    <3>2. (k.attempts + 1) * (MaxProbes + 1) + 0 <= ParkBound
      BY <3>5, Weights
    <3>3. (k.attempts + 1) * (MaxProbes + 1) + 0 \in Nat /\ ParkBound \in Nat
      BY <3>5, Weights
    <3>4. Weight(r) = (k.attempts + 1) * (MaxProbes + 1) + 0
      BY <1>6, <2>4 DEF Weight
    <3> QED BY <1>2, <2>3, <3>1, <3>2, <3>3, <3>4 DEF Counted
  <2>5. CASE ~dated
    <3> DEFINE w == k.attempts * (MaxProbes + 1)
    <3>7. k.probes + 1 \in Nat /\ k.probes + 1 <= MaxProbes
      BY <1>7, <2>1, <2>2, <2>5
    <3>1. k.attempts * (MaxProbes + 1) + (k.probes + 1) <= ParkBound
      BY <2>1, <3>7, Weights
    <3>2. w + k.probes \in Nat /\ w \in Nat /\ ParkBound \in Nat
      BY <2>1, <2>2, Weights, Products
    <3>3. Weight(r) = w + (k.probes + 1)
      BY <1>6, <2>5 DEF Weight
    <3>4. parks[s] <= w + k.probes
      BY <2>1
    <3> HIDE DEF w
    <3>5. parks[s] + 1 <= w + (k.probes + 1)
      BY <1>2, <2>1, <3>2, <3>4
    <3>6. w + (k.probes + 1) <= ParkBound /\ w + (k.probes + 1) \in Nat
      BY <2>1, <3>1, <3>2 DEF w
    <3> QED BY <1>2, <2>3, <3>2, <3>3, <3>5, <3>6 DEF Counted
  <2> QED BY <2>4, <2>5
<1>11. /\ park' = [park EXCEPT ![s] = r] /\ parks' = [parks EXCEPT ![s] = parks[s] + 1]
       /\ turn' = [turn EXCEPT ![s] = NoTurn] /\ conv' = [conv EXCEPT ![s] = c]
       /\ replay' = [replay EXCEPT ![s] = Replay(s, result)]
  BY DEF Parks, r, c
<1>12. UNCHANGED <<phase, row, mem, forking, requests, crashes, queue, kept, token, lost>>
  BY DEF Parks
<1>13. RowShapes' /\ TurnShapes'
  <2>1. parks' \in [Sessions -> Nat]
    BY <1>2, <1>11 DEF TurnsOK, TurnShapes
  <2>2. park' \in [Sessions -> {NoPark} \cup ParkRows]
    BY <1>8, <1>11 DEF TurnsOK, TurnShapes
  <2> QED BY <1>5, <1>11, <1>12, <2>1, <2>2 DEF TurnsOK, RowShapes, TurnShapes
<1>14. /\ turn'[s] = NoTurn /\ conv'[s] = c /\ park'[s] = r /\ parks'[s] = parks[s] + 1
       /\ kept'[s] = k
  BY <1>11, <1>12 DEF TurnsOK, RowShapes, TurnShapes
<1>15. SessionFits(s)'
  BY <1>2, <1>9, <1>10, <1>14 DEF SessionFits, Idle, Parked, Counted
<1>16. \A x \in Sessions \ {s} :
          /\ turn'[x] = turn[x] /\ conv'[x] = conv[x] /\ replay'[x] = replay[x]
          /\ park'[x] = park[x] /\ kept'[x] = kept[x] /\ parks'[x] = parks[x]
  BY <1>11, <1>12 DEF TurnsOK, RowShapes, TurnShapes
<1> QED BY <1>12, <1>13, <1>15, <1>16, OneTurn

\* The invariant of a parked session.
LEMMA InPark ==
    ASSUME TurnsOK, NEW s \in Sessions, Parked(s)
    PROVE  /\ park[s] \in ParkRows /\ conv[s] \in Convs /\ Idle(s)
           /\ ParkFits(park[s], conv[s]) /\ Counted(park[s], parks[s])
           /\ park[s].prompt \in Prompts /\ park[s].start \in BOOLEAN
<1>1. park[s] \in ParkRows /\ conv[s] \in Convs /\ Idle(s)
      /\ ParkFits(park[s], conv[s]) /\ Counted(park[s], parks[s])
  BY DEF TurnsOK, RowShapes, TurnShapes, TurnsFit, SessionFits, Parked
<1> QED BY <1>1 DEF ParkRows

\* A wake-up starts the turn again from the row, with the row's counters.
LEMMA WakeStep ==
    ASSUME TurnsOK, NEW s \in Sessions, Wake(s)
    PROVE  TurnsOK'
<1> DEFINE r == park[s]  c == Rewound(s)  k == CarriedCounts(s)
<1>1. /\ Up /\ Parked(s) /\ park' = [park EXCEPT ![s] = NoPark]
      /\ UNCHANGED <<phase, row, mem, replay, forking, requests, crashes, queue, token, lost>>
  BY DEF Wake
<1>2. /\ r \in ParkRows /\ conv[s] \in Convs /\ Idle(s) /\ ParkFits(r, conv[s])
      /\ Counted(r, parks[s]) /\ r.prompt \in Prompts /\ r.start \in BOOLEAN
  BY <1>1, InPark
<1>3. c \in Convs /\ ~r.prompt.fresh /\ Carries(r.prompt, c)
  <2>1. CASE r.mode = "prompt" /\ ~r.start
    BY <1>2, <2>1, Values DEF Rewound, ParkFits, Carries
  <2>2. CASE ~(r.mode = "prompt" /\ ~r.start)
    BY <1>2, <2>2 DEF Rewound, ParkFits
  <2> QED BY <2>1, <2>2
<1>4. k \in Counts /\ Counted(k, parks[s]) /\ Limited(k)
  BY <1>2 DEF CarriedCounts, Counts, ParkRows, Counted, Limited, Weight
<1>5. park' \in [Sessions -> {NoPark} \cup ParkRows] /\ park'[s] = NoPark
      /\ \A x \in Sessions \ {s} : park'[x] = park[x]
  BY <1>1 DEF TurnsOK, TurnShapes
<1>6. CASE mem[s] /\ Idle(s) /\ ~forking[s]
  <2>1. kept' = [kept EXCEPT ![s] = k] /\ Begin(s, r.prompt, c, replay[s])
    BY <1>6 DEF Wake
  <2>2. kept' \in [Sessions -> Counts] /\ kept'[s] = k
        /\ \A x \in Sessions \ {s} : kept'[x] = kept[x]
    BY <1>4, <2>1 DEF TurnsOK, TurnShapes
  <2>3. replay' = replay /\ replay \in [Sessions -> BOOLEAN] /\ requests' \in Nat
        /\ token' \in [current : BOOLEAN, needs : BOOLEAN] /\ lost' \subseteq Losses
        /\ queue' \in [Sessions -> Seq({Asked})]
    BY <1>1 DEF TurnsOK, RowShapes, TurnShapes
  <2>4. Frame(s)
    BY <1>1, <1>4, <1>5, <2>2, <2>3 DEF Frame
  <2> HIDE DEF c, k, r
  <2> QED BY <1>1, <1>2, <1>3, <1>4, <1>6, <2>1, <2>2, <2>3, <2>4, BeginStep
<1>7. CASE ~(mem[s] /\ Idle(s) /\ ~forking[s])
  <2>1. /\ turn' = turn /\ parks' = parks
        /\ conv' = conv \/ conv' = [conv EXCEPT ![s] = c]
        /\ kept' = kept \/ kept' = [kept EXCEPT ![s] = k]
    BY <1>2, <1>7 DEF Wake
  <2>2. /\ conv' \in [Sessions -> Convs] /\ kept' \in [Sessions -> Counts] /\ Limited(kept'[s])
        /\ \A x \in Sessions \ {s} : conv'[x] = conv[x] /\ kept'[x] = kept[x]
    <3>1. /\ conv \in [Sessions -> Convs] /\ kept \in [Sessions -> Counts] /\ Limited(kept[s])
          /\ c \in Convs /\ k \in Counts /\ Limited(k)
      BY <1>3, <1>4 DEF TurnsOK, RowShapes, TurnShapes, TurnsFit, SessionFits
    <3> HIDE DEF c, k
    <3>2. /\ conv' \in [Sessions -> Convs]
          /\ \A x \in Sessions \ {s} : conv'[x] = conv[x]
      BY <2>1, <3>1
    <3>3. /\ kept' \in [Sessions -> Counts] /\ (kept'[s] = kept[s] \/ kept'[s] = k)
          /\ \A x \in Sessions \ {s} : kept'[x] = kept[x]
      BY <2>1, <3>1
    <3> QED BY <3>1, <3>2, <3>3
  <2>3. RowShapes' /\ TurnShapes'
    BY <1>1, <1>5, <2>1, <2>2 DEF TurnsOK, RowShapes, TurnShapes
  <2>4. parks[s] <= ParkBound
    BY DEF TurnsOK, TurnsFit, SessionFits
  <2>5. SessionFits(s)'
    BY <1>2, <1>5, <2>1, <2>2, <2>4 DEF SessionFits, Idle, Parked
  <2> QED BY <1>1, <1>5, <2>1, <2>2, <2>3, <2>5, OneTurn
<1> QED BY <1>6, <1>7

\* A cancelled park starts what waited.
LEMMA CancelParkStep ==
    ASSUME TurnsOK, NEW s \in Sessions, CancelPark(s)
    PROVE  TurnsOK'
<1>1. /\ Up /\ Parked(s) /\ park' = [park EXCEPT ![s] = NoPark]
      /\ UNCHANGED <<phase, row, mem, replay, forking, requests, crashes, kept, token, lost>>
  BY DEF CancelPark
<1>2. conv[s] \in Convs /\ Idle(s) /\ Limited(kept[s]) /\ parks[s] <= ParkBound
  BY <1>1, InPark DEF TurnsOK, TurnsFit, SessionFits
<1>3. park' \in [Sessions -> {NoPark} \cup ParkRows] /\ park'[s] = NoPark
      /\ \A x \in Sessions \ {s} : park'[x] = park[x]
  BY <1>1 DEF TurnsOK, TurnShapes
<1>4. queue[s] \in Seq({Asked}) /\ queue \in [Sessions -> Seq({Asked})]
  BY DEF TurnsOK, TurnShapes
<1>5. CASE mem[s] /\ queue[s] # <<>>
  <2>1. Head(queue[s]) = Asked /\ Tail(queue[s]) \in Seq({Asked})
    BY <1>4, <1>5, FirstInQueue
  <2>2. Begin(s, Asked, conv[s], replay[s]) /\ queue' = [queue EXCEPT ![s] = Tail(queue[s])]
    BY <1>2, <1>5, <2>1 DEF CancelPark
  <2>3. queue' \in [Sessions -> Seq({Asked})]
    BY <1>4, <2>1, <2>2
  <2>4. replay' = replay /\ replay \in [Sessions -> BOOLEAN] /\ requests' \in Nat
        /\ token' \in [current : BOOLEAN, needs : BOOLEAN] /\ lost' \subseteq Losses
        /\ kept' = kept /\ kept \in [Sessions -> Counts]
    BY <1>1 DEF TurnsOK, RowShapes, TurnShapes
  <2>5. Frame(s)
    BY <1>1, <1>2, <1>3, <2>4 DEF Frame
  <2> QED BY <1>1, <1>2, <1>5, <2>2, <2>3, <2>4, <2>5, BeginStep, Values
<1>6. CASE ~(mem[s] /\ queue[s] # <<>>)
  <2>1. UNCHANGED <<turn, conv, parks, queue>>
    BY <1>6 DEF CancelPark
  <2>2. RowShapes' /\ TurnShapes'
    BY <1>1, <1>3, <2>1 DEF TurnsOK, RowShapes, TurnShapes
  <2>3. SessionFits(s)'
    BY <1>1, <1>2, <1>3, <2>1 DEF SessionFits, Idle, Parked
  <2> QED BY <1>1, <1>3, <2>1, <2>2, <2>3, OneTurn
<1> QED BY <1>5, <1>6

\* A prompt of a user starts a turn or waits.
LEMMA AskStep ==
    ASSUME TurnsOK, NEW s \in Sessions, Ask(s)
    PROVE  TurnsOK'
<1>1. /\ Up /\ requests' = requests + 1 /\ mem[s]
      /\ UNCHANGED <<phase, row, mem, replay, forking, crashes, park, kept, token, lost>>
  BY DEF Ask, Request
<1>2. /\ conv[s] \in Convs /\ Limited(kept[s]) /\ requests' \in Nat
      /\ queue \in [Sessions -> Seq({Asked})]
  BY <1>1 DEF TurnsOK, RowShapes, TurnShapes, TurnsFit, SessionFits
<1>3. CASE ~Idle(s) \/ Parked(s)
  <2>1. queue' = [queue EXCEPT ![s] = Append(queue[s], Asked)] /\ UNCHANGED <<turn, conv, parks>>
    BY <1>3 DEF Ask
  <2>2. Append(queue[s], Asked) \in Seq({Asked})
    BY <1>2
  <2>3. queue' \in [Sessions -> Seq({Asked})]
    BY <1>2, <2>1, <2>2
  <2>4. RowShapes' /\ TurnShapes'
    BY <1>1, <1>2, <2>1, <2>3 DEF TurnsOK, RowShapes, TurnShapes
  <2>5. SessionFits(s)
    BY DEF TurnsOK, TurnsFit
  <2>6. SessionFits(s)'
    BY <1>1, <2>1, <2>5 DEF SessionFits, Idle, Parked, Up
  <2> QED BY <1>1, <2>1, <2>4, <2>6, OneTurn
<1>4. CASE Idle(s) /\ ~Parked(s)
  <2>1. Begin(s, Asked, conv[s], replay[s]) /\ queue' = queue
    BY <1>4 DEF Ask
  <2>2. replay' = replay /\ replay \in [Sessions -> BOOLEAN] /\ park' = park /\ kept' = kept
        /\ park \in [Sessions -> {NoPark} \cup ParkRows] /\ kept \in [Sessions -> Counts]
        /\ token' \in [current : BOOLEAN, needs : BOOLEAN] /\ lost' \subseteq Losses
        /\ park[s] = NoPark
    BY <1>1, <1>4 DEF TurnsOK, RowShapes, TurnShapes, Parked
  <2>3. Frame(s)
    BY <1>1, <1>2, <2>2 DEF Frame
  <2> QED BY <1>1, <1>2, <2>1, <2>2, <2>3, BeginStep, Values
<1> QED BY <1>3, <1>4

\* A rotation spends the bundles that other turns have read, whether or not it is answered.
LEMMA RotatesStep ==
    ASSUME TurnsOK, NEW s \in Sessions, Rotates(s) \/ ResponseLost(s)
    PROVE  TurnsOK'
<1>1. UNCHANGED <<rowVars, queue, park, kept, parks>> /\ lost' \subseteq Losses
      /\ token' \in [current : BOOLEAN, needs : BOOLEAN]
  BY DEF Rotates, ResponseLost, Flagged, Losses, TurnsOK, TurnShapes
<1>2. UNCHANGED <<phase, row, mem, conv, replay, forking, requests, crashes>>
      /\ UNCHANGED <<queue, park, kept, parks>>
  BY <1>1 DEF rowVars
<1>3. \A x \in Sessions : turn[x] # NoTurn => turn[x] \in TurnRecords
  BY DEF TurnsOK, TurnShapes
<1>4. ~Idle(s)
  BY Staying DEF Rotates, ResponseLost, Stages
<1>5. /\ \A x \in Sessions : turn'[x] = turn[x] \/ (~Idle(x) /\ SameAttempt(turn[x], turn'[x]))
      /\ turn' = [x \in Sessions |-> turn'[x]]
  <2> DEFINE mine(st) == [turn[s] EXCEPT !.stage = st, !.bundle = "none"]
             other(x) == [turn[x] EXCEPT !.bundle = "spent"]
  <2>1. \E st \in {"store", "ready"} :
           turn' = [x \in Sessions |-> IF x = s THEN mine(st)
                                       ELSE IF ~Idle(x) /\ turn[x].bundle = "good" THEN other(x)
                                       ELSE turn[x]]
    BY DEF Rotates, ResponseLost
  <2>2. \A st \in {"store", "ready"} : SameAttempt(turn[s], mine(st))
    BY <1>3, <1>4, Bundled DEF Idle, Stages
  <2>3. \A x \in Sessions : ~Idle(x) => SameAttempt(turn[x], other(x))
    BY <1>3, SpentBundle DEF Idle
  <2> HIDE DEF mine, other
  <2> QED BY <1>4, <2>1, <2>2, <2>3
<1>6. \A x \in Sessions : turn'[x] \in {NoTurn} \cup TurnRecords
  BY <1>5 DEF SameAttempt, TurnsOK, TurnShapes
<1>7. turn' \in [Sessions -> {NoTurn} \cup TurnRecords]
  BY <1>5, <1>6
<1>9. RowShapes' /\ TurnShapes'
  BY <1>1, <1>2, <1>7 DEF TurnsOK, RowShapes, TurnShapes
<1>10. ASSUME NEW x \in Sessions PROVE SessionFits(x)'
  <2>1. SessionFits(x)
    BY DEF TurnsOK, TurnsFit
  <2>2. CASE turn'[x] = turn[x]
    BY <1>2, <2>1, <2>2 DEF SessionFits, Idle, Parked, Up
  <2>3. CASE ~Idle(x) /\ SameAttempt(turn[x], turn'[x])
    <3>1. AskFits(turn'[x], conv[x]) /\ (replay[x] => HistoryFits(turn'[x], conv[x]))
      BY <2>1, <2>3, SameFits DEF SessionFits
    <3> QED BY <1>2, <2>1, <2>3, <3>1 DEF SessionFits, Parked, Up
  <2> QED BY <1>5, <2>2, <2>3
<1> QED BY <1>9, <1>10 DEF TurnsOK, TurnsFit

\* Every step of a turn keeps the invariant of the turns.
LEMMA TurnStepOK ==
    ASSUME TurnsOK, NEW s \in Sessions, TurnStep(s) \/ Ask(s) \/ Interrupt(s)
    PROVE  TurnsOK'
<1>1. CASE \E result \in BOOLEAN : \/ AuthExpires(s, result) \/ RetriesExhausted(s, result)
                                   \/ \E dated \in BOOLEAN : GivesUp(s, result, dated)
  BY <1>1, EndSteps DEF Overs
<1>2. CASE OverBudget(s) \/ SpawnFails(s) \/ Completes(s) \/ Stopped(s) \/ ErrorResult(s) \/ Interrupt(s)
  BY <1>2, EndSteps DEF Overs
<1>3. CASE \E result \in BOOLEAN : Retries(s, result) \/ \E dated \in BOOLEAN : Parks(s, result, dated)
  BY <1>3, RetriesStep, ParksStep
<1>4. CASE Started(s) \/ \E k \in {"text", "tool"} : Emits(s, k)
  BY <1>4, StartedStep, EmitsStep
<1>5. CASE Resolve(s) \/ NearExpiry(s) \/ RefreshFails(s) \/ Stores(s) \/ Spawn(s)
  BY <1>5, AuthSteps
<1>6. CASE Rotates(s) \/ ResponseLost(s) \/ Dies(s) \/ Wake(s) \/ CancelPark(s) \/ Ask(s)
  BY <1>6, RotatesStep, DiesStep, WakeStep, CancelParkStep, AskStep
<1> QED BY <1>1, <1>2, <1>3, <1>4, <1>5, <1>6 DEF TurnStep

-------------------------------------------------------------------------------
(* What a turn does to the rest *)

\* The end of a turn is no other session's business.
LEMMA EndsElsewhere ==
    ASSUME TurnsOK, NEW s \in Sessions, NEW c, NEW r \in BOOLEAN, Ends(s, c, r)
    PROVE  /\ UNCHANGED <<phase, row, mem, forking, requests, crashes>>
           /\ replay'[s] = r
           /\ turn'[s].stage \in {"none", "auth"}
           /\ \A x \in Sessions \ {s} :
                 turn'[x] = turn[x] /\ queue'[x] = queue[x] /\ replay'[x] = replay[x]
<1>1. UNCHANGED <<phase, row, mem, forking, requests, crashes>>
      /\ replay' = [replay EXCEPT ![s] = r]
  BY DEF Ends
<1>2. \E t, q : /\ turn' = [turn EXCEPT ![s] = t] /\ queue' = [queue EXCEPT ![s] = q]
                /\ t.stage \in {"none", "auth"}
  <2>1. CASE queue[s] = <<>>
    <3>1. turn' = [turn EXCEPT ![s] = NoTurn] /\ queue' = [queue EXCEPT ![s] = queue[s]]
      BY <2>1 DEF Ends, TurnsOK, TurnShapes
    <3>2. NoTurn.stage = "none"
      BY DEF NoTurn
    <3> QED BY <3>1, <3>2
  <2>2. CASE queue[s] # <<>>
    <3>1. turn' = [turn EXCEPT ![s] = Opened(Head(queue[s]), c, r)]
          /\ queue' = [queue EXCEPT ![s] = Tail(queue[s])]
      BY <2>2 DEF Ends, Begin
    <3>2. Opened(Head(queue[s]), c, r).stage = "auth"
      BY DEF Opened
    <3> QED BY <3>1, <3>2
  <2> QED BY <2>1, <2>2
<1> QED BY <1>1, <1>2 DEF TurnsOK, RowShapes, TurnShapes

\* A step of a turn is a step of a session that is not idle or is parked.
LEMMA Active ==
    ASSUME NEW s \in Sessions, TurnStep(s) \/ Interrupt(s)
    PROVE  ~Idle(s) \/ Parked(s)
<1>1. CASE Wake(s) \/ CancelPark(s)
  BY <1>1 DEF Wake, CancelPark
<1>2. CASE Interrupt(s)
  BY <1>2 DEF Interrupt
<1>3. CASE \/ Resolve(s) \/ OverBudget(s) \/ NearExpiry(s) \/ Rotates(s) \/ RefreshFails(s)
           \/ ResponseLost(s) \/ Stores(s) \/ Spawn(s) \/ SpawnFails(s) \/ Started(s)
  BY <1>3, Staying DEF Resolve, OverBudget, NearExpiry, Rotates, RefreshFails, ResponseLost, Stores, Spawn,
                       SpawnFails, Started, Stages
<1>4. CASE \/ \E k \in {"text", "tool"} : Emits(s, k)
           \/ Completes(s) \/ Stopped(s) \/ ErrorResult(s) \/ Dies(s)
           \/ \E result \in BOOLEAN :
                 \/ AuthExpires(s, result) \/ Retries(s, result) \/ RetriesExhausted(s, result)
                 \/ \E dated \in BOOLEAN : Parks(s, result, dated) \/ GivesUp(s, result, dated)
  BY <1>4, Staying DEF Emits, Completes, Stopped, ErrorResult, Dies, AuthExpires, Retries,
                       RetriesExhausted, Parks, GivesUp, Stages
<1> QED BY <1>1, <1>2, <1>3, <1>4 DEF TurnStep

\* A step of one session starts nothing in another and leaves the rows alone.
LEMMA TurnEffect ==
    ASSUME TurnsOK, NEW s \in Sessions, TurnStep(s) \/ Ask(s) \/ Interrupt(s)
    PROVE  /\ UNCHANGED <<phase, row, mem, forking, crashes>>
           /\ replay'[s] => replay[s]
           /\ \A x \in Sessions \ {s} :
                 /\ turn'[x] = turn[x] \/ (~Idle(x) /\ turn'[x] # NoTurn /\ turn'[x].stage = turn[x].stage)
                 /\ park'[x] = park[x] /\ queue'[x] = queue[x] /\ replay'[x] = replay[x]
<1>1. replay \in [Sessions -> BOOLEAN] /\ replay[s] \in BOOLEAN
  BY DEF TurnsOK, RowShapes
<1>2. ASSUME NEW result \in BOOLEAN, NEW dated \in BOOLEAN, Overs(s, result, dated)
      PROVE  /\ UNCHANGED <<phase, row, mem, forking, crashes>> /\ ~Idle(s)
             /\ replay'[s] => replay[s]
             /\ \A x \in Sessions \ {s} :
                   /\ turn'[x] = turn[x] /\ queue'[x] = queue[x] /\ replay'[x] = replay[x]
                   /\ park'[x] = park[x]
  <2>1. PICK c \in Convs, r \in BOOLEAN : Ends(s, c, r) /\ (r => replay[s])
    BY <1>2, OversForm
  <2>2. ~Idle(s) /\ (park' = park \/ park' = [park EXCEPT ![s] = NoPark])
    BY <1>2, OversForm
  <2>3. \A x \in Sessions \ {s} : park'[x] = park[x]
    BY <2>2 DEF TurnsOK, TurnShapes
  <2> QED BY <2>1, <2>2, <2>3, EndsElsewhere
<1>3. CASE Dies(s)
  <2>1. ~Idle(s) /\ park' = park
    BY <1>3, Staying DEF Dies, Stages
  <2>2. CASE Ends(s, conv[s], replay[s])
    BY <1>1, <2>1, <2>2, EndsElsewhere
  <2>3. CASE ~Ends(s, conv[s], replay[s])
    <3>1. /\ UNCHANGED <<rowVars, queue, parks>>
          /\ \A x \in Sessions \ {s} : turn'[x] = turn[x]
      BY <1>3, <2>3 DEF Dies, TurnsOK, TurnShapes
    <3> QED BY <2>1, <3>1 DEF rowVars
  <2> QED BY <2>2, <2>3
<1>4. CASE Resolve(s) \/ NearExpiry(s) \/ RefreshFails(s) \/ Stores(s) \/ Spawn(s)
  <2>1. /\ UNCHANGED <<rowVars, queue, park>>
        /\ \A x \in Sessions \ {s} : turn'[x] = turn[x]
    BY <1>4 DEF Resolve, NearExpiry, RefreshFails, Stores, Spawn, Stage, TurnsOK, TurnShapes
  <2>2. ~Idle(s)
    BY <1>4, Staying DEF Resolve, NearExpiry, RefreshFails, Stores, Spawn, Stages
  <2> QED BY <2>1, <2>2 DEF rowVars
<1>5. CASE Started(s) \/ \E k \in {"text", "tool"} : Emits(s, k)
  <2>1. /\ UNCHANGED <<phase, row, mem, replay, forking, requests, crashes, queue, park>>
        /\ \A x \in Sessions \ {s} : turn'[x] = turn[x]
    BY <1>5 DEF Started, Emits, TurnsOK, TurnShapes
  <2>2. ~Idle(s)
    BY <1>5, Staying DEF Started, Emits, Stages
  <2> QED BY <2>1, <2>2
<1>6. CASE \E result \in BOOLEAN : Retries(s, result) \/ \E dated \in BOOLEAN : Parks(s, result, dated)
  <2>1. PICK result \in BOOLEAN : Retries(s, result) \/ \E dated \in BOOLEAN : Parks(s, result, dated)
    BY <1>6
  <2>2. /\ UNCHANGED <<phase, row, mem, forking, requests, crashes, queue>>
        /\ replay' = [replay EXCEPT ![s] = Replay(s, result)]
        /\ \A x \in Sessions \ {s} : turn'[x] = turn[x] /\ park'[x] = park[x]
    BY <2>1 DEF Retries, Parks, TurnsOK, TurnShapes
  <2>3. ~Idle(s)
    BY <2>1, Staying DEF Retries, Parks, Stages
  <2>4. Replay(s, result) => replay[s]
    BY <2>3, AfterConv
  <2> QED BY <1>1, <2>2, <2>3, <2>4
<1>7. CASE Wake(s) \/ CancelPark(s) \/ Ask(s)
  <2>1. /\ UNCHANGED <<phase, row, mem, replay, forking, crashes>>
        /\ \A x \in Sessions \ {s} : turn'[x] = turn[x] /\ park'[x] = park[x] /\ queue'[x] = queue[x]
    BY <1>7 DEF Wake, CancelPark, Ask, Begin, TurnsOK, TurnShapes
  <2> QED BY <2>1
<1>8. CASE Rotates(s) \/ ResponseLost(s)
  <2>1. UNCHANGED <<rowVars, queue, park>>
    BY <1>8 DEF Rotates, ResponseLost
  <2>2. ASSUME NEW x \in Sessions \ {s}
        PROVE  turn'[x] = turn[x] \/ (~Idle(x) /\ turn'[x] # NoTurn /\ turn'[x].stage = turn[x].stage)
    <3>1. turn'[x] = turn[x] \/ (~Idle(x) /\ turn'[x] = [turn[x] EXCEPT !.bundle = "spent"])
      BY <1>8, <2>2 DEF Rotates, ResponseLost
    <3>2. ~Idle(x) => turn[x] \in TurnRecords
      BY InTurn
    <3>3. ~Idle(x) => /\ [turn[x] EXCEPT !.bundle = "spent"] \in TurnRecords
                      /\ [turn[x] EXCEPT !.bundle = "spent"].stage = turn[x].stage
      BY <3>2, SpentBundle DEF SameAttempt
    <3> QED BY <3>1, <3>3, Values
  <2>3. ~Idle(s)
    BY <1>8, Staying DEF Rotates, ResponseLost, Stages
  <2> QED BY <2>1, <2>2, <2>3 DEF rowVars
<1> QED BY <1>2, <1>3, <1>4, <1>5, <1>6, <1>7, <1>8 DEF TurnStep, Overs

\* The forks do not notice a turn: it runs in a session whose saga is over.
LEMMA ForksUnderTurn ==
    ASSUME TurnsOK, ForksOK, NEW s \in Sessions,
           TurnStep(s) \/ (Announced(s) /\ Ask(s)) \/ Interrupt(s), UNCHANGED forkVars
    PROVE  ForksOK'
<1>1. /\ UNCHANGED <<phase, row, mem, forking, crashes>> /\ (replay'[s] => replay[s])
      /\ \A x \in Sessions \ {s} :
            /\ turn'[x] = turn[x] \/ (~Idle(x) /\ turn'[x] # NoTurn)
            /\ park'[x] = park[x] /\ queue'[x] = queue[x] /\ replay'[x] = replay[x]
  BY TurnEffect
<1>2. UNCHANGED <<saga, kind, from, dir, repo, artifact, stash, record, todo>>
  BY DEF forkVars
<1>3. s \in Forks => saga[s] = "none" /\ kind[s] # "none"
  <2>1. CASE TurnStep(s) \/ Interrupt(s)
    BY <2>1, Active DEF ForksOK, ForksFit, SagaFits, RowFits, Unused
  <2>2. CASE Announced(s) /\ Ask(s)
    BY <2>2 DEF Ask, Announced, Forks, ForksOK, ForksFit, RowFits
  <2> QED BY <2>1, <2>2
<1>4. ASSUME NEW f \in Forks PROVE SagaFits(f)' /\ RowFits(f)'
  <2>1. SagaFits(f) /\ RowFits(f) /\ f \in Sessions
    BY DEF ForksOK, ForksFit, Forks
  <2>2. CASE f = s
    BY <1>1, <1>2, <1>3, <2>1, <2>2 DEF SagaFits, RowFits, Forks
  <2>3. CASE f # s
    <3>1. replay'[f] = replay[f] /\ (Unused(f) => Unused(f)')
      BY <1>1, <2>1, <2>3 DEF Unused, Idle, Parked
    <3> QED BY <1>1, <1>2, <2>1, <3>1 DEF SagaFits, RowFits, Forks, Up
  <2> QED BY <2>2, <2>3
<1>5. ForkShapes'
  BY <1>2 DEF ForksOK, ForkShapes, Forks
<1>6. ArchivedForFork'
  BY <1>1, <1>2 DEF ForksOK, ArchivedForFork, Forks
<1> QED BY <1>4, <1>5, <1>6 DEF ForksOK, ForksFit, Forks

-------------------------------------------------------------------------------
(* The sagas *)

\* A step of one saga concerns its fork only.
LEMMA OneFork ==
    ASSUME RowShapes, ForksOK, NEW f \in Forks, ForkShapes', SagaFits(f)', RowFits(f)', phase' = phase,
           \A g \in Sessions \ {f} :
               /\ row'[g] = row[g] /\ mem'[g] = mem[g] /\ replay'[g] = replay[g]
               /\ turn'[g] = turn[g] /\ park'[g] = park[g] /\ queue'[g] = queue[g],
           \A g \in Forks \ {f} :
               /\ saga'[g] = saga[g] /\ kind'[g] = kind[g] /\ from'[g] = from[g]
               /\ dir'[g] = dir[g] /\ artifact'[g] = artifact[g] /\ stash'[g] = stash[g]
               /\ record'[g] = record[g] /\ (g \in todo' => g \in todo),
           kind[f] # "none" => /\ kind'[f] # "none" /\ (saga[f] = "none" => saga'[f] = "none")
                               /\ from'[f] = from[f],
           row[f] \in {"ready", "archived"} => row'[f] \in {"ready", "archived"},
           row'[f] = "archived" => row[f] = "archived"
    PROVE  ForksOK'
<1>1. ASSUME NEW g \in Forks, g # f PROVE SagaFits(g)' /\ RowFits(g)'
  <2>1. SagaFits(g) /\ RowFits(g) /\ g \in Sessions
    BY DEF ForksOK, ForksFit, Forks
  <2>2. Unused(g) => Unused(g)'
    BY <1>1, <2>1 DEF Unused, Idle, Parked
  <2>3. /\ row'[g] = row[g] /\ mem'[g] = mem[g] /\ replay'[g] = replay[g]
        /\ saga'[g] = saga[g] /\ kind'[g] = kind[g] /\ from'[g] = from[g]
        /\ dir'[g] = dir[g] /\ artifact'[g] = artifact[g] /\ stash'[g] = stash[g]
        /\ record'[g] = record[g] /\ (g \in todo' => g \in todo)
    BY <1>1, <2>1
  <2>4. saga[g] # "none" /\ from[g] \in Forks =>
           kind'[from[g]] # "none" /\ saga'[from[g]] = "none"
    <3>1. CASE from[g] = f
      BY <2>1, <3>1 DEF SagaFits
    <3>2. CASE from[g] # f
      BY <2>1, <3>2 DEF SagaFits
    <3> QED BY <3>1, <3>2
  <2>5. SagaFits(g)'
    BY <2>1, <2>2, <2>3, <2>4 DEF SagaFits, Up, Forks
  <2>6. RowFits(g)'
    BY <2>1, <2>2, <2>3 DEF RowFits
  <2> QED BY <2>5, <2>6
<1>2. ArchivedForFork'
  <2>1. ASSUME NEW p \in Sessions, row'[p] = "archived"
        PROVE  \E g \in Forks : from'[g] = p /\ row'[g] \in {"ready", "archived"}
    <3>1. row[p] = "archived"
      BY <2>1
    <3>2. PICK g \in Forks : from[g] = p /\ row[g] \in {"ready", "archived"}
      BY <3>1 DEF ForksOK, ArchivedForFork
    <3>3. g \in Sessions /\ kind[g] # "none"
      BY <3>2 DEF ForksOK, ForksFit, RowFits, Forks
    <3>4. from'[g] = from[g] /\ row'[g] \in {"ready", "archived"}
      BY <3>2, <3>3
    <3> QED BY <3>2, <3>4
  <2> QED BY <2>1 DEF ArchivedForFork, Forks
<1> QED BY <1>1, <1>2 DEF ForksOK, ForksFit, Forks

\* What the saga of f says of the rest before its step.
LEMMA InSaga ==
    ASSUME RowShapes, TurnShapes, ForksOK, NEW f \in Forks
    PROVE  /\ f \in Sessions /\ from[f] \in Sessions /\ SagaFits(f) /\ RowFits(f)
           /\ saga[f] # "none" => /\ Idle(f) /\ ~Parked(f) /\ kind[f] # "none"
                                  /\ kind[f] \in {"rewind", "copy"} /\ Up
                                  /\ from[f] \in Forks => kind[from[f]] # "none" /\ saga[from[f]] = "none"
<1>1. f \in Sessions /\ from[f] \in Sessions /\ SagaFits(f) /\ RowFits(f) /\ kind[f] \in {"none", "rewind", "copy"}
  BY DEF ForksOK, ForkShapes, ForksFit, Forks
<1> QED BY <1>1 DEF SagaFits, Unused

\* A saga begins in an idle parent.
LEMMA ForkStartStep ==
    ASSUME RowShapes, TurnShapes, ForksOK, NEW f \in Forks, NEW p \in Sessions \ {f},
           NEW k \in {"rewind", "copy"}, ForkStart(p, f, k)
    PROVE  ForksOK'
<1>1. /\ Up /\ mem[p] /\ Announced(p) /\ kind[f] = "none" /\ forking' = [forking EXCEPT ![p] = TRUE]
      /\ kind' = [kind EXCEPT ![f] = k] /\ from' = [from EXCEPT ![f] = p]
      /\ dir' = [dir EXCEPT ![f] = IF k = "copy" THEN "part" ELSE "shared"]
      /\ saga' = [saga EXCEPT ![f] = IF k = "copy" THEN "copy" ELSE "insert"]
      /\ UNCHANGED <<phase, row, mem, conv, replay, crashes, repo, artifact, stash, record, todo>>
      /\ UNCHANGED <<turn, queue, park>>
  BY DEF ForkStart, Request, Step, turnVars
<1>2. f \in Sessions /\ SagaFits(f) /\ RowFits(f)
  BY InSaga
<1>3. ForkShapes'
  BY <1>1 DEF ForksOK, ForkShapes, Forks
<1>4. /\ kind'[f] = k /\ from'[f] = p /\ saga'[f] = (IF k = "copy" THEN "copy" ELSE "insert")
      /\ dir'[f] = (IF k = "copy" THEN "part" ELSE "shared")
  BY <1>1 DEF ForksOK, ForkShapes
<1>5. p \in Forks => kind[p] # "none" /\ saga[p] = "none"
  BY <1>1 DEF Announced, Forks, ForksOK, ForksFit, RowFits
<1>6. p \in Forks => kind'[p] # "none" /\ saga'[p] = "none"
  BY <1>1, <1>5 DEF ForksOK, ForkShapes
<1>7. Unused(f)'
  BY <1>1, <1>2 DEF RowFits, Unused, Idle, Parked
<1>8. SagaFits(f)'
  BY <1>1, <1>2, <1>4, <1>6, <1>7 DEF SagaFits, RowFits, Up, Forks
<1>9. RowFits(f)'
  BY <1>1, <1>2, <1>4, <1>7 DEF RowFits
<1>10. \A g \in Forks \ {f} : saga'[g] = saga[g] /\ kind'[g] = kind[g] /\ from'[g] = from[g] /\ dir'[g] = dir[g]
  BY <1>1 DEF ForksOK, ForkShapes
<1> QED BY <1>1, <1>2, <1>3, <1>8, <1>9, <1>10, OneFork

Core == TurnsOK /\ ForksOK

\* A step that begins no turn: it leaves a session alone or ends its turn.
LEMMA QuietStep ==
    ASSUME TurnsOK, RowShapes', TurnShapes', UNCHANGED <<park, kept, parks>>,
           \A x \in Sessions :
               \/ /\ turn'[x] = turn[x] /\ conv'[x] = conv[x] /\ replay'[x] = replay[x]
                  /\ mem'[x] = mem[x] /\ phase' = phase
               \/ turn'[x] = NoTurn /\ (Parked(x) => conv'[x] = conv[x])
    PROVE  TurnsOK'
<1>1. ASSUME NEW x \in Sessions PROVE SessionFits(x)'
  <2>1. SessionFits(x)
    BY DEF TurnsOK, TurnsFit
  <2>2. CASE /\ turn'[x] = turn[x] /\ conv'[x] = conv[x] /\ replay'[x] = replay[x]
             /\ mem'[x] = mem[x] /\ phase' = phase
    BY <2>1, <2>2 DEF SessionFits, Idle, Parked, Up
  <2>3. CASE turn'[x] = NoTurn /\ (Parked(x) => conv'[x] = conv[x])
    BY <2>1, <2>3 DEF SessionFits, Idle, Parked
  <2> QED BY <2>2, <2>3
<1> QED BY <1>1 DEF TurnsOK, TurnsFit

\* A step within a saga: its fork has no turn and no park.
LEMMA WithinSaga ==
    ASSUME Core, NEW f \in Forks, saga[f] # "none", RowShapes', ForkShapes', SagaFits(f)', RowFits(f)',
           UNCHANGED turnVars, UNCHANGED <<phase, kind, from>>,
           \A g \in Sessions \ {f} :
               row'[g] = row[g] /\ mem'[g] = mem[g] /\ conv'[g] = conv[g] /\ replay'[g] = replay[g],
           \A g \in Forks \ {f} :
               /\ saga'[g] = saga[g] /\ dir'[g] = dir[g] /\ artifact'[g] = artifact[g]
               /\ stash'[g] = stash[g] /\ record'[g] = record[g] /\ (g \in todo' => g \in todo),
           row[f] \in {"ready", "archived"} => row'[f] \in {"ready", "archived"},
           row'[f] = "archived" => row[f] = "archived"
    PROVE  Core'
<1>1. UNCHANGED <<turn, queue, park, kept, token, parks, lost>>
  BY DEF turnVars
<1>2. Idle(f) /\ ~Parked(f) /\ kind[f] # "none"
  BY InSaga DEF Core, TurnsOK
<1>3. TurnShapes'
  BY <1>1 DEF Core, TurnsOK, TurnShapes
<1>4. TurnsOK'
  BY <1>1, <1>2, <1>3, QuietStep DEF Core, Idle
<1>5. \A g \in Sessions \ {f} :
         /\ row'[g] = row[g] /\ mem'[g] = mem[g] /\ replay'[g] = replay[g]
         /\ turn'[g] = turn[g] /\ park'[g] = park[g] /\ queue'[g] = queue[g]
  BY <1>1
<1>6. \A g \in Forks \ {f} :
         /\ saga'[g] = saga[g] /\ kind'[g] = kind[g] /\ from'[g] = from[g]
         /\ dir'[g] = dir[g] /\ artifact'[g] = artifact[g] /\ stash'[g] = stash[g]
         /\ record'[g] = record[g] /\ (g \in todo' => g \in todo)
  OBVIOUS
<1>7. kind[f] # "none" => /\ kind'[f] # "none" /\ (saga[f] = "none" => saga'[f] = "none")
                          /\ from'[f] = from[f]
  OBVIOUS
<1>8. ForksOK'
  BY <1>5, <1>6, <1>7, OneFork DEF Core, TurnsOK
<1> QED BY <1>4, <1>8 DEF Core

\* The invariant of a saga under way.
LEMMA SagaFacts ==
    ASSUME Core, NEW f \in Forks, saga[f] # "none"
    PROVE  /\ f \in Sessions /\ from[f] \in Sessions /\ Up /\ Unused(f)
           /\ kind[f] \in {"rewind", "copy"} /\ SagaFits(f) /\ RowFits(f)
           /\ from[f] \in Forks => kind[from[f]] # "none" /\ saga[from[f]] = "none"
           /\ UNCHANGED turnVars => Unused(f)'
BY InSaga DEF Core, TurnsOK, SagaFits, turnVars, Unused, Idle, Parked

\* The steps of a saga, one by one.
LEMMA CopyTreeStep ==
    ASSUME Core, NEW f \in Forks, CopyTree(f)
    PROVE  Core'
<1>1. /\ saga[f] = "copy" /\ dir' = [dir EXCEPT ![f] = "whole"] /\ saga' = [saga EXCEPT ![f] = "insert"]
      /\ UNCHANGED <<phase, row, mem, conv, replay, forking, requests, crashes>>
      /\ UNCHANGED <<kind, from, repo, artifact, stash, record, todo>> /\ UNCHANGED turnVars
  BY DEF CopyTree, Running, Step, rowVars
<1>2. /\ f \in Sessions /\ from[f] \in Sessions /\ Up /\ Unused(f)'
      /\ kind[f] \in {"rewind", "copy"} /\ SagaFits(f) /\ RowFits(f)
      /\ from[f] \in Forks => kind[from[f]] # "none" /\ saga[from[f]] = "none"
  BY <1>1, SagaFacts
<1>3. RowShapes' /\ ForkShapes'
  BY <1>1 DEF Core, TurnsOK, RowShapes, ForksOK, ForkShapes, Forks
<1>4. /\ dir'[f] = "whole" /\ saga'[f] = "insert"
      /\ from[f] \in Forks => saga'[from[f]] = "none"
      /\ \A g \in Forks \ {f} : saga'[g] = saga[g] /\ dir'[g] = dir[g]
  BY <1>1, <1>2 DEF Core, ForksOK, ForkShapes
<1>5. SagaFits(f)' /\ RowFits(f)'
  BY <1>1, <1>2, <1>4 DEF SagaFits, RowFits, Up, Forks
<1> QED BY <1>1, <1>2, <1>3, <1>4, <1>5, WithinSaga

\* The two ways out of a saga without a fork.
LEMMA AbandonStep ==
    ASSUME Core, NEW f \in Forks, Abandon(f)
    PROVE  Core'
<1>1. /\ saga[f] \in {"copy", "insert"} /\ dir' = [dir EXCEPT ![f] = "none"]
      /\ saga' = [saga EXCEPT ![f] = "none"] /\ forking' = [forking EXCEPT ![from[f]] = FALSE]
      /\ UNCHANGED <<phase, row, mem, conv, replay, requests, crashes>>
      /\ UNCHANGED <<kind, from, repo, artifact, stash, record, todo>> /\ UNCHANGED turnVars
  BY DEF Abandon, Running, SagaEnds, Step
<1>2. /\ f \in Sessions /\ from[f] \in Sessions /\ Up /\ Unused(f)'
      /\ kind[f] \in {"rewind", "copy"} /\ SagaFits(f) /\ RowFits(f)
  BY <1>1, SagaFacts
<1>3. RowShapes' /\ ForkShapes'
  BY <1>1, <1>2 DEF Core, TurnsOK, RowShapes, ForksOK, ForkShapes, Forks
<1>4. /\ dir'[f] = "none" /\ saga'[f] = "none"
      /\ \A g \in Forks \ {f} : saga'[g] = saga[g] /\ dir'[g] = dir[g]
  BY <1>1, <1>2 DEF Core, ForksOK, ForkShapes
<1>5. SagaFits(f)' /\ RowFits(f)'
  BY <1>1, <1>2, <1>4 DEF SagaFits, RowFits, Up, Forks
<1> QED BY <1>1, <1>2, <1>3, <1>4, <1>5, WithinSaga

\* The row is inserted for a fork that has its directory.
LEMMA InsertStep ==
    ASSUME Core, NEW f \in Forks, Insert(f)
    PROVE  Core'
<1>1. /\ saga[f] = "insert" /\ saga' = [saga EXCEPT ![f] = "prepare"]
      /\ repo' = [repo EXCEPT ![f] = IF kind[f] = "copy" THEN f ELSE repo[from[f]]]
      /\ row' = [row EXCEPT ![f] = "initializing"] /\ mem' = [mem EXCEPT ![f] = TRUE]
      /\ conv' = [conv EXCEPT ![f] = [Nothing EXCEPT !.id = TRUE]]
      /\ UNCHANGED <<phase, replay, forking, requests, crashes>>
      /\ UNCHANGED <<kind, from, dir, artifact, stash, record, todo>> /\ UNCHANGED turnVars
  BY DEF Insert, Running, Step
<1>2. /\ f \in Sessions /\ from[f] \in Sessions /\ Up /\ Unused(f)'
      /\ kind[f] \in {"rewind", "copy"} /\ SagaFits(f) /\ RowFits(f)
      /\ from[f] \in Forks => kind[from[f]] # "none" /\ saga[from[f]] = "none"
  BY <1>1, SagaFacts
<1>3. [Nothing EXCEPT !.id = TRUE] \in Convs
  BY Values DEF Convs
<1>4. RowShapes'
  BY <1>1, <1>2, <1>3 DEF Core, TurnsOK, RowShapes
<1>5. ForkShapes'
  BY <1>1, <1>2 DEF Core, ForksOK, ForkShapes, Forks
<1>6. /\ row'[f] = "initializing" /\ saga'[f] = "prepare"
      /\ from[f] \in Forks => saga'[from[f]] = "none"
      /\ \A g \in Forks \ {f} : saga'[g] = saga[g]
      /\ \A g \in Sessions \ {f} : row'[g] = row[g] /\ mem'[g] = mem[g] /\ conv'[g] = conv[g]
  BY <1>1, <1>2 DEF Core, TurnsOK, RowShapes, ForksOK, ForkShapes
<1>7. SagaFits(f)' /\ RowFits(f)' /\ row[f] = "none"
  BY <1>1, <1>2, <1>6 DEF SagaFits, RowFits, Up, Forks
<1> QED BY <1>1, <1>2, <1>4, <1>5, <1>6, <1>7, WithinSaga

\* The transcript is made under the row.
LEMMA PrepareStep ==
    ASSUME Core, NEW f \in Forks, NEW native \in BOOLEAN, Prepare(f, native)
    PROVE  Core'
<1> DEFINE c == IF native THEN Settled(conv[from[f]]) ELSE Nothing
<1>1. /\ saga[f] = "prepare" /\ saga' = [saga EXCEPT ![f] = "promote"]
      /\ artifact' = [artifact EXCEPT ![f] = native] /\ conv' = [conv EXCEPT ![f] = c]
      /\ replay' = [replay EXCEPT ![f] = ~native]
      /\ UNCHANGED <<phase, row, mem, forking, requests, crashes>>
      /\ UNCHANGED <<kind, from, dir, repo, stash, record, todo>> /\ UNCHANGED turnVars
  BY DEF Prepare, Running, Step
<1>2. /\ f \in Sessions /\ from[f] \in Sessions /\ Up /\ Unused(f)'
      /\ kind[f] \in {"rewind", "copy"} /\ SagaFits(f) /\ RowFits(f)
      /\ from[f] \in Forks => kind[from[f]] # "none" /\ saga[from[f]] = "none"
  BY <1>1, SagaFacts
<1>3. conv[from[f]] \in Convs
  BY <1>2 DEF Core, TurnsOK, RowShapes
<1>4. c \in Convs
  BY <1>3, SettledConv, Values
<1> HIDE DEF c
<1>5. RowShapes'
  BY <1>1, <1>2, <1>4 DEF Core, TurnsOK, RowShapes
<1>6. ForkShapes'
  BY <1>1, <1>2, <1>4 DEF Core, ForksOK, ForkShapes, Forks
<1>7. /\ saga'[f] = "promote" /\ (from[f] \in Forks => saga'[from[f]] = "none")
      /\ \A g \in Forks \ {f} : saga'[g] = saga[g] /\ artifact'[g] = artifact[g]
      /\ \A g \in Sessions \ {f} : conv'[g] = conv[g] /\ replay'[g] = replay[g]
  BY <1>1, <1>2 DEF Core, TurnsOK, RowShapes, ForksOK, ForkShapes
<1>8. SagaFits(f)' /\ RowFits(f)'
  BY <1>1, <1>2, <1>7 DEF SagaFits, RowFits, Up, Forks
<1> QED BY <1>1, <1>2, <1>5, <1>6, <1>7, <1>8, WithinSaga

\* The compensation leaves the row while an artifact is left.
LEMMA PrepareFailsStep ==
    ASSUME Core, NEW f \in Forks, NEW swept \in BOOLEAN, PrepareFails(f, swept)
    PROVE  Core'
<1>1. /\ saga[f] = "prepare" /\ kind[f] = "copy" /\ artifact' = [artifact EXCEPT ![f] = ~swept]
      /\ UNCHANGED <<phase, row, conv, replay, requests, crashes>>
      /\ UNCHANGED <<kind, from, dir, repo, stash, record, todo>> /\ UNCHANGED turnVars
  BY DEF PrepareFails, Running
<1>2. /\ f \in Sessions /\ from[f] \in Sessions /\ Up /\ Unused(f)' /\ SagaFits(f) /\ RowFits(f)
      /\ from[f] \in Forks => kind[from[f]] # "none" /\ saga[from[f]] = "none"
  BY <1>1, SagaFacts
<1>3. \/ swept /\ saga' = [saga EXCEPT ![f] = "drop"] /\ mem' = mem /\ forking' = forking
      \/ /\ ~swept /\ saga' = [saga EXCEPT ![f] = "none"] /\ mem' = [mem EXCEPT ![f] = FALSE]
         /\ forking' = [forking EXCEPT ![from[f]] = FALSE]
  BY DEF PrepareFails, SagaEnds, Step
<1>4. RowShapes'
  BY <1>1, <1>2, <1>3 DEF Core, TurnsOK, RowShapes
<1>5. ForkShapes'
  BY <1>1, <1>2, <1>3 DEF Core, ForksOK, ForkShapes, Forks
<1>8. \/ swept /\ saga'[f] = "drop" /\ ~artifact'[f]
      \/ ~swept /\ saga'[f] = "none"
  <2>1. artifact'[f] = ~swept
    BY <1>1 DEF Core, ForksOK, ForkShapes
  <2> QED BY <1>3, <2>1 DEF Core, ForksOK, ForkShapes
<1>6. /\ from[f] \in Forks => saga'[from[f]] = "none"
      /\ \A g \in Forks \ {f} : saga'[g] = saga[g] /\ artifact'[g] = artifact[g]
      /\ \A g \in Sessions \ {f} : mem'[g] = mem[g]
  BY <1>1, <1>2, <1>3 DEF Core, TurnsOK, RowShapes, ForksOK, ForkShapes
<1>7. SagaFits(f)' /\ RowFits(f)'
  BY <1>1, <1>2, <1>6, <1>8 DEF SagaFits, RowFits, Up, Forks
<1> QED BY <1>1, <1>2, <1>4, <1>5, <1>6, <1>7, WithinSaga

\* The row is dropped when no artifact is left.
LEMMA DropRowStep ==
    ASSUME Core, NEW f \in Forks, DropRow(f)
    PROVE  Core'
<1>1. /\ saga[f] = "drop" /\ saga' = [saga EXCEPT ![f] = "none"]
      /\ forking' = [forking EXCEPT ![from[f]] = FALSE]
      /\ row' = [row EXCEPT ![f] = "none"] /\ mem' = [mem EXCEPT ![f] = FALSE]
      /\ dir' = [dir EXCEPT ![f] = "none"]
      /\ UNCHANGED <<phase, conv, replay, requests, crashes>>
      /\ UNCHANGED <<kind, from, repo, artifact, stash, record, todo>> /\ UNCHANGED turnVars
  BY DEF DropRow, Running, SagaEnds, Step
<1>2. /\ f \in Sessions /\ from[f] \in Sessions /\ Up /\ Unused(f)' /\ SagaFits(f) /\ RowFits(f)
      /\ kind[f] \in {"rewind", "copy"}
  BY <1>1, SagaFacts
<1>3. RowShapes'
  BY <1>1, <1>2 DEF Core, TurnsOK, RowShapes
<1>4. ForkShapes'
  BY <1>1, <1>2 DEF Core, ForksOK, ForkShapes, Forks
<1>5. /\ saga'[f] = "none" /\ row'[f] = "none" /\ ~mem'[f]
      /\ \A g \in Forks \ {f} : saga'[g] = saga[g] /\ dir'[g] = dir[g]
      /\ \A g \in Sessions \ {f} : row'[g] = row[g] /\ mem'[g] = mem[g]
  BY <1>1, <1>2 DEF Core, TurnsOK, RowShapes, ForksOK, ForkShapes
<1>6. SagaFits(f)' /\ RowFits(f)' /\ row[f] = "initializing"
  BY <1>1, <1>2, <1>5 DEF SagaFits, RowFits, Up, Forks
<1> QED BY <1>1, <1>2, <1>3, <1>4, <1>5, <1>6, WithinSaga

\* A fork is promoted with a whole directory.
LEMMA PromoteStep ==
    ASSUME Core, NEW f \in Forks, NEW revert \in BOOLEAN, Promote(f, revert)
    PROVE  Core'
<1>1. /\ saga[f] = "promote" /\ (revert => kind[f] = "rewind")
      /\ row' = [row EXCEPT ![f] = IF revert THEN "reverting" ELSE "ready"]
      /\ UNCHANGED <<phase, mem, conv, replay, requests, crashes>>
      /\ UNCHANGED <<kind, from, dir, repo, artifact, stash, record, todo>> /\ UNCHANGED turnVars
  BY DEF Promote, Running
<1>2. /\ f \in Sessions /\ from[f] \in Sessions /\ Up /\ Unused(f)' /\ SagaFits(f) /\ RowFits(f)
      /\ kind[f] \in {"rewind", "copy"}
      /\ from[f] \in Forks => kind[from[f]] # "none" /\ saga[from[f]] = "none"
  BY <1>1, SagaFacts
<1>3. \/ /\ kind[f] = "copy" /\ saga' = [saga EXCEPT ![f] = "none"]
         /\ forking' = [forking EXCEPT ![from[f]] = FALSE]
      \/ /\ kind[f] # "copy" /\ forking' = forking
         /\ saga' = [saga EXCEPT ![f] = IF revert THEN "revert" ELSE "archive"]
  BY DEF Promote, SagaEnds, Step
<1>4. RowShapes'
  BY <1>1, <1>2, <1>3 DEF Core, TurnsOK, RowShapes
<1>5. ForkShapes'
  BY <1>1, <1>2, <1>3 DEF Core, ForksOK, ForkShapes, Forks
<1>6. /\ row'[f] = (IF revert THEN "reverting" ELSE "ready")
      /\ \/ kind[f] = "copy" /\ saga'[f] = "none"
         \/ kind[f] # "copy" /\ saga'[f] = (IF revert THEN "revert" ELSE "archive")
      /\ from[f] \in Forks => saga'[from[f]] = "none"
      /\ \A g \in Forks \ {f} : saga'[g] = saga[g]
      /\ \A g \in Sessions \ {f} : row'[g] = row[g]
  BY <1>1, <1>2, <1>3 DEF Core, TurnsOK, RowShapes, ForksOK, ForkShapes
<1>7. SagaFits(f)' /\ RowFits(f)' /\ row[f] = "initializing"
  BY <1>1, <1>2, <1>6 DEF SagaFits, RowFits, Up, Forks
<1> QED BY <1>1, <1>2, <1>4, <1>5, <1>6, <1>7, WithinSaga

\* The stash is made under a row that is reverting.
LEMMA RevertFilesStep ==
    ASSUME Core, NEW f \in Forks, NEW done \in BOOLEAN, RevertFiles(f, done)
    PROVE  Core'
<1>1. /\ saga[f] = "revert" /\ stash' = [stash EXCEPT ![f] = done]
      /\ saga' = [saga EXCEPT ![f] = "record"]
      /\ UNCHANGED <<phase, row, mem, conv, replay, forking, requests, crashes>>
      /\ UNCHANGED <<kind, from, dir, repo, artifact, record, todo>> /\ UNCHANGED turnVars
  BY DEF RevertFiles, Running, Step, rowVars
<1>2. /\ f \in Sessions /\ from[f] \in Sessions /\ Up /\ Unused(f)' /\ SagaFits(f) /\ RowFits(f)
      /\ kind[f] \in {"rewind", "copy"}
      /\ from[f] \in Forks => kind[from[f]] # "none" /\ saga[from[f]] = "none"
  BY <1>1, SagaFacts
<1>3. RowShapes'
  BY <1>1 DEF Core, TurnsOK, RowShapes
<1>4. ForkShapes'
  BY <1>1 DEF Core, ForksOK, ForkShapes, Forks
<1>5. /\ saga'[f] = "record" /\ (from[f] \in Forks => saga'[from[f]] = "none")
      /\ \A g \in Forks \ {f} : saga'[g] = saga[g] /\ stash'[g] = stash[g]
  BY <1>1, <1>2 DEF Core, ForksOK, ForkShapes
<1>6. SagaFits(f)' /\ RowFits(f)'
  BY <1>1, <1>2, <1>5 DEF SagaFits, RowFits, Up, Forks
<1> QED BY <1>1, <1>2, <1>3, <1>4, <1>5, <1>6, WithinSaga

\* The row becomes ready together with its record.
LEMMA RecordRevertStep ==
    ASSUME Core, NEW f \in Forks, RecordRevert(f)
    PROVE  Core'
<1> DEFINE outcome == IF stash[f] THEN "completed" ELSE "refused"
<1>1. /\ saga[f] = "record" /\ saga' = [saga EXCEPT ![f] = "archive"]
      /\ record' = [record EXCEPT ![f] = outcome] /\ row' = [row EXCEPT ![f] = "ready"]
      /\ UNCHANGED <<phase, mem, conv, replay, forking, requests, crashes>>
      /\ UNCHANGED <<kind, from, dir, repo, artifact, stash, todo>> /\ UNCHANGED turnVars
  BY DEF RecordRevert, Running, Step
<1>2. /\ f \in Sessions /\ from[f] \in Sessions /\ Up /\ Unused(f)' /\ SagaFits(f) /\ RowFits(f)
      /\ kind[f] \in {"rewind", "copy"}
      /\ from[f] \in Forks => kind[from[f]] # "none" /\ saga[from[f]] = "none"
  BY <1>1, SagaFacts
<1>3. outcome \in {"completed", "refused"}
  OBVIOUS
<1> HIDE DEF outcome
<1>4. RowShapes'
  BY <1>1 DEF Core, TurnsOK, RowShapes
<1>5. ForkShapes'
  BY <1>1, <1>3 DEF Core, ForksOK, ForkShapes, Forks
<1>6. /\ saga'[f] = "archive" /\ row'[f] = "ready" /\ record'[f] = outcome
      /\ from[f] \in Forks => saga'[from[f]] = "none"
      /\ \A g \in Forks \ {f} : saga'[g] = saga[g] /\ record'[g] = record[g]
      /\ \A g \in Sessions \ {f} : row'[g] = row[g]
  BY <1>1, <1>2 DEF Core, TurnsOK, RowShapes, ForksOK, ForkShapes
<1>7. SagaFits(f)' /\ RowFits(f)' /\ row[f] = "reverting"
  BY <1>1, <1>2, <1>3, <1>6 DEF SagaFits, RowFits, Up, Forks
<1> QED BY <1>1, <1>2, <1>4, <1>5, <1>6, <1>7, WithinSaga

\* A parent that lingers changes nothing.
LEMMA ArchiveFailsStep ==
    ASSUME Core, NEW f \in Forks, ArchiveFails(f)
    PROVE  Core'
<1>1. /\ saga[f] = "archive" /\ saga' = [saga EXCEPT ![f] = "none"]
      /\ forking' = [forking EXCEPT ![from[f]] = FALSE]
      /\ UNCHANGED <<phase, row, mem, conv, replay, requests, crashes>>
      /\ UNCHANGED <<kind, from, dir, repo, artifact, stash, record, todo>> /\ UNCHANGED turnVars
  BY DEF ArchiveFails, Running, SagaEnds, Step
<1>2. /\ f \in Sessions /\ from[f] \in Sessions /\ Up /\ Unused(f)' /\ SagaFits(f) /\ RowFits(f)
      /\ kind[f] \in {"rewind", "copy"}
  BY <1>1, SagaFacts
<1>3. RowShapes'
  BY <1>1, <1>2 DEF Core, TurnsOK, RowShapes
<1>4. ForkShapes'
  BY <1>1 DEF Core, ForksOK, ForkShapes, Forks
<1>5. saga'[f] = "none" /\ \A g \in Forks \ {f} : saga'[g] = saga[g]
  BY <1>1 DEF Core, ForksOK, ForkShapes
<1>6. SagaFits(f)' /\ RowFits(f)'
  BY <1>1, <1>2, <1>5 DEF SagaFits, RowFits, Up, Forks
<1> QED BY <1>1, <1>2, <1>3, <1>4, <1>5, <1>6, WithinSaga

\* The parent is archived for the fork that is ready, its turn and its queue go.
LEMMA ArchiveParentStep ==
    ASSUME Core, NEW f \in Forks, ArchiveParent(f)
    PROVE  Core'
<1> DEFINE p == from[f]
<1>1. /\ saga[f] = "archive" /\ saga' = [saga EXCEPT ![f] = "none"]
      /\ forking' = [forking EXCEPT ![p] = FALSE]
      /\ row' = [row EXCEPT ![p] = "archived"] /\ mem' = [mem EXCEPT ![p] = FALSE]
      /\ turn' = [turn EXCEPT ![p] = NoTurn] /\ queue' = [queue EXCEPT ![p] = <<>>]
      /\ lost' = CutOff(turn[p].stage = "store")
      /\ UNCHANGED <<phase, conv, replay, requests, crashes, park, kept, token, parks>>
      /\ UNCHANGED <<kind, from, dir, repo, artifact, stash, record, todo>>
  BY DEF ArchiveParent, Running, SagaEnds, Step
<1>2. /\ f \in Sessions /\ p \in Sessions /\ Up /\ SagaFits(f) /\ RowFits(f) /\ kind[f] # "none"
      /\ p \in Forks => kind[p] # "none" /\ saga[p] = "none"
  BY <1>1, SagaFacts
<1> HIDE DEF p
<1>3. lost' \subseteq Losses
  BY <1>1, Cut DEF Core
<1>4. RowShapes'
  BY <1>1, <1>2 DEF Core, TurnsOK, RowShapes
<1>5. TurnShapes'
  <2>1. turn' \in [Sessions -> {NoTurn} \cup TurnRecords]
    BY <1>1, <1>2 DEF Core, TurnsOK, TurnShapes
  <2>2. queue' \in [Sessions -> Seq({Asked})]
    <3>1. <<>> \in Seq({Asked})
      OBVIOUS
    <3> QED BY <1>1, <3>1 DEF Core, TurnsOK, TurnShapes
  <2> QED BY <1>1, <1>3, <2>1, <2>2 DEF Core, TurnsOK, TurnShapes
<1>6. ForkShapes'
  BY <1>1 DEF Core, ForksOK, ForkShapes, Forks
<1>7. /\ row'[p] = "archived" /\ ~mem'[p] /\ turn'[p] = NoTurn /\ queue'[p] = <<>>
      /\ \A x \in Sessions \ {p} :
            row'[x] = row[x] /\ mem'[x] = mem[x] /\ turn'[x] = turn[x] /\ queue'[x] = queue[x]
      /\ saga'[f] = "none" /\ \A g \in Forks \ {f} : saga'[g] = saga[g]
  BY <1>1, <1>2 DEF Core, TurnsOK, RowShapes, TurnShapes, ForksOK, ForkShapes
<1>8. TurnsOK'
  BY <1>1, <1>4, <1>5, <1>7, QuietStep DEF Core
<1>9. ASSUME NEW g \in Forks PROVE SagaFits(g)' /\ RowFits(g)'
  <2>1. SagaFits(g) /\ RowFits(g) /\ g \in Sessions
    BY DEF Core, ForksOK, ForksFit, Forks
  <2>2. saga'[g] = "none" \/ (saga'[g] = saga[g] /\ g # p)
    <3>1. CASE g = f
      BY <1>7, <3>1
    <3>2. CASE g # f /\ g = p
      BY <1>2, <1>7, <3>2
    <3>3. CASE g # f /\ g # p
      BY <1>7, <3>3
    <3> QED BY <3>1, <3>2, <3>3
  <2>3. Unused(g) => Unused(g)'
    BY <1>1, <1>7, <2>1 DEF Unused, Idle, Parked
  <2>4. saga[g] # "none" /\ from[g] \in Forks => saga'[from[g]] = "none"
    BY <1>7, <2>1 DEF SagaFits
  <2>5. SagaFits(g)'
    BY <1>1, <1>7, <2>1, <2>2, <2>3, <2>4 DEF SagaFits, Up, Forks
  <2>6. RowFits(g)'
    <3>1. CASE g = p
      BY <1>1, <1>2, <1>7, <2>1, <2>3, <3>1 DEF RowFits, Up
    <3>2. CASE g # p
      BY <1>1, <1>7, <2>1, <2>3, <3>2 DEF RowFits
    <3> QED BY <3>1, <3>2
  <2> QED BY <2>5, <2>6
<1>10. ArchivedForFork'
  <2>1. from'[f] = p /\ row'[f] \in {"ready", "archived"}
    BY <1>1, <1>2, <1>7 DEF SagaFits, p
  <2>2. ASSUME NEW x \in Sessions, row'[x] = "archived", x # p
        PROVE  \E g \in Forks : from'[g] = x /\ row'[g] \in {"ready", "archived"}
    <3>1. PICK g \in Forks : from[g] = x /\ row[g] \in {"ready", "archived"}
      BY <1>7, <2>2 DEF Core, ForksOK, ArchivedForFork
    <3>2. g \in Sessions
      BY DEF Forks
    <3> QED BY <1>1, <1>7, <3>1, <3>2
  <2> QED BY <2>1, <2>2 DEF ArchivedForFork, Forks
<1> QED BY <1>6, <1>8, <1>9, <1>10 DEF Core, ForksOK, ForksFit, Forks

\* The boot sweeps a fork or finishes it.
LEMMA RecoverForkStep ==
    ASSUME Core, NEW f \in Forks, NEW swept \in BOOLEAN, RecoverFork(f, swept)
    PROVE  Core'
<1>1. /\ phase = "recover" /\ f \in todo /\ todo' = todo \ {f}
      /\ artifact' = [artifact EXCEPT ![f] = artifact[f] /\ ~(row[f] = "initializing" /\ swept)]
      /\ UNCHANGED <<phase, conv, replay, forking, requests, crashes>> /\ UNCHANGED turnVars
      /\ UNCHANGED <<saga, kind, from, repo, stash>>
  BY DEF RecoverFork
<1>2. \/ /\ row[f] = "initializing" /\ swept /\ record' = record
         /\ row' = [row EXCEPT ![f] = "none"] /\ mem' = [mem EXCEPT ![f] = FALSE]
         /\ dir' = [dir EXCEPT ![f] = "none"]
      \/ /\ ~(row[f] = "initializing" /\ swept) /\ mem' = mem /\ dir' = dir
         /\ row' = [row EXCEPT ![f] = IF row[f] = "reverting" THEN "ready" ELSE row[f]]
         /\ record' = [record EXCEPT ![f] = IF row[f] = "reverting" THEN "unknown" ELSE record[f]]
  BY DEF RecoverFork, Swept
<1>3. f \in Sessions /\ SagaFits(f) /\ RowFits(f) /\ saga[f] = "none" /\ row[f] \in {"initializing", "reverting"}
  BY <1>1, InSaga DEF Core, TurnsOK, RowFits, SagaFits, Up
<1>4. RowShapes'
  BY <1>1, <1>2, <1>3 DEF Core, TurnsOK, RowShapes
<1>5. ForkShapes'
  <2>1. artifact' \in [Forks -> BOOLEAN]
    BY <1>1 DEF Core, ForksOK, ForkShapes
  <2>2. dir' \in [Forks -> {"none", "shared", "part", "whole"}]
    BY <1>2 DEF Core, ForksOK, ForkShapes
  <2>3. record' \in [Forks -> {"none", "completed", "refused", "unknown"}]
    BY <1>2 DEF Core, ForksOK, ForkShapes
  <2> QED BY <1>1, <2>1, <2>2, <2>3 DEF Core, ForksOK, ForkShapes, Forks
<1>6. /\ UNCHANGED <<turn, queue, park, kept, token, parks, lost>> /\ kind[f] # "none"
      /\ \A x \in Sessions : Idle(x)
  BY <1>1, <1>3 DEF turnVars, RowFits, Core, TurnsOK, TurnsFit, SessionFits, Up
<1>7. TurnsOK'
  <2>1. TurnShapes'
    BY <1>6 DEF Core, TurnsOK, TurnShapes
  <2> QED BY <1>1, <1>4, <1>6, <2>1, QuietStep DEF Core, Idle
<1>8. /\ \A g \in Sessions \ {f} : row'[g] = row[g] /\ mem'[g] = mem[g]
      /\ \A g \in Forks \ {f} :
            dir'[g] = dir[g] /\ artifact'[g] = artifact[g] /\ record'[g] = record[g]
  BY <1>1, <1>2 DEF Core, TurnsOK, RowShapes, ForksOK, ForkShapes
<1>9. SagaFits(f)'
  BY <1>1, <1>3 DEF SagaFits
<1>10. RowFits(f)' /\ row'[f] # "archived"
  <2>1. CASE row[f] = "initializing" /\ swept
    <3>1. row'[f] = "none" /\ ~mem'[f] /\ ~artifact'[f] /\ f \notin todo'
      BY <1>1, <1>2, <1>3, <2>1 DEF Core, TurnsOK, RowShapes, ForksOK, ForkShapes
    <3> QED BY <1>1, <1>3, <1>6, <2>1, <3>1 DEF RowFits, Up
  <2>2. CASE row[f] = "reverting"
    <3>1. row'[f] = "ready" /\ record'[f] = "unknown" /\ f \notin todo' /\ mem' = mem
      BY <1>1, <1>2, <1>3, <2>2 DEF Core, TurnsOK, RowShapes, ForksOK, ForkShapes
    <3> QED BY <1>1, <1>3, <1>6, <2>2, <3>1 DEF RowFits, Up
  <2>3. CASE row[f] = "initializing" /\ ~swept
    <3>1. row'[f] = "initializing" /\ f \notin todo' /\ mem' = mem
      BY <1>1, <1>2, <1>3, <2>3 DEF Core, TurnsOK, RowShapes, ForksOK, ForkShapes
    <3> QED BY <1>1, <1>3, <1>6, <2>3, <3>1 DEF RowFits, Up
  <2> QED BY <1>3, <2>1, <2>2, <2>3
<1>11. ForksOK'
  BY <1>1, <1>3, <1>5, <1>6, <1>8, <1>9, <1>10, OneFork DEF Core, TurnsOK
<1> QED BY <1>7, <1>11 DEF Core

-------------------------------------------------------------------------------
(* Crash, boot and the whole step *)

\* A crash takes turns, sagas and memory, and leaves rows, transcripts and parks.
LEMMA CrashStep ==
    ASSUME Core, RowsCrash, TurnsCrash
    PROVE  Core'
<1>1. /\ phase # "down" /\ crashes' = crashes + 1 /\ phase' = "down"
      /\ mem' = [s \in Sessions |-> FALSE] /\ forking' = [s \in Sessions |-> FALSE]
      /\ saga' = [f \in Forks |-> "none"] /\ todo' = {}
      /\ UNCHANGED <<row, conv, replay, requests, kind, from, dir, repo, artifact, stash, record>>
  BY DEF RowsCrash
<1>2. /\ turn' = [s \in Sessions |-> NoTurn] /\ queue' = [s \in Sessions |-> <<>>]
      /\ kept' = [s \in Sessions |-> NoCounts]
      /\ lost' = CutOff(\E s \in Sessions : turn[s].stage = "store")
      /\ UNCHANGED <<park, token, parks>>
  BY DEF TurnsCrash
<1>3. RowShapes'
  BY <1>1 DEF Core, TurnsOK, RowShapes
<1>4. TurnShapes'
  <2>1. turn' \in [Sessions -> {NoTurn} \cup TurnRecords]
    BY <1>2
  <2>2. queue' \in [Sessions -> Seq({Asked})]
    <3>1. <<>> \in Seq({Asked})
      OBVIOUS
    <3> QED BY <1>2, <3>1
  <2>3. kept' \in [Sessions -> Counts]
    BY <1>2, Values
  <2>4. lost' \subseteq Losses
    BY <1>2, Cut DEF Core
  <2> QED BY <1>2, <2>1, <2>2, <2>3, <2>4 DEF Core, TurnsOK, TurnShapes
<1>5. ForkShapes'
  BY <1>1 DEF Core, ForksOK, ForkShapes, Forks
<1>6. ASSUME NEW s \in Sessions PROVE SessionFits(s)'
  <2>1. SessionFits(s)
    BY DEF Core, TurnsOK, TurnsFit
  <2>2. turn'[s] = NoTurn /\ kept'[s] = NoCounts /\ Limited(NoCounts)
    BY <1>2, AttemptsAssumption DEF Limited, NoCounts
  <2> QED BY <1>1, <1>2, <2>1, <2>2 DEF SessionFits, Idle, Parked
<1>7. ASSUME NEW f \in Forks PROVE SagaFits(f)' /\ RowFits(f)'
  <2>1. RowFits(f) /\ f \in Sessions
    BY DEF Core, ForksOK, ForksFit, Forks
  <2>2. saga'[f] = "none" /\ ~mem'[f] /\ f \notin todo'
    BY <1>1, <2>1
  <2>3. turn'[f] = NoTurn /\ queue'[f] = <<>>
    BY <1>2, <2>1
  <2>4. Unused(f) => Unused(f)'
    BY <1>2, <2>3 DEF Unused, Idle, Parked
  <2> QED BY <1>1, <2>1, <2>2, <2>4 DEF SagaFits, RowFits
<1>8. ArchivedForFork'
  BY <1>1 DEF Core, ForksOK, ArchivedForFork, Forks
<1> QED BY <1>3, <1>4, <1>5, <1>6, <1>7, <1>8 DEF Core, TurnsOK, TurnsFit, ForksOK, ForksFit, Forks

\* The boot takes every row that is not archived for a session.
LEMMA BootStep ==
    ASSUME Core, Boot \/ Serve
    PROVE  Core'
<1>1. /\ phase # "up" /\ phase' \in {"recover", "up"}
      /\ UNCHANGED <<row, conv, replay, forking, requests, crashes>> /\ UNCHANGED turnVars
      /\ UNCHANGED <<saga, kind, from, dir, repo, artifact, stash, record>>
      /\ \/ mem' = mem /\ todo' = {}
         \/ /\ phase' = "recover" /\ mem' = [s \in Sessions |-> row[s] \notin {"none", "archived"}]
            /\ todo' = {f \in Forks : row[f] \in {"initializing", "reverting"}}
  BY DEF Boot, Serve, forkVars
<1>2. UNCHANGED <<turn, queue, park, kept, token, parks, lost>> /\ \A s \in Sessions : Idle(s)
  BY <1>1 DEF turnVars, Core, TurnsOK, TurnsFit, SessionFits, Up
<1>3. RowShapes'
  BY <1>1 DEF Core, TurnsOK, RowShapes
<1>4. TurnShapes'
  BY <1>2 DEF Core, TurnsOK, TurnShapes
<1>5. ForkShapes'
  BY <1>1 DEF Core, ForksOK, ForkShapes, Forks
<1>6. TurnsOK'
  BY <1>1, <1>2, <1>3, <1>4, QuietStep DEF Core, Idle
<1>7. ASSUME NEW f \in Forks PROVE SagaFits(f)' /\ RowFits(f)'
  <2>1. SagaFits(f) /\ RowFits(f) /\ f \in Sessions
    BY DEF Core, ForksOK, ForksFit, Forks
  <2>2. saga'[f] = "none"
    BY <1>1, <2>1 DEF SagaFits, Up
  <2>3. mem'[f] => mem[f] \/ row[f] # "none"
    BY <1>1, <2>1
  <2>4. f \in todo' => phase' = "recover" /\ row[f] \in {"initializing", "reverting"}
    BY <1>1
  <2>5. Unused(f) => Unused(f)'
    BY <1>2 DEF Unused, Idle, Parked
  <2> QED BY <1>1, <2>1, <2>2, <2>3, <2>4, <2>5 DEF SagaFits, RowFits
<1>8. ArchivedForFork'
  BY <1>1 DEF Core, ForksOK, ArchivedForFork, Forks
<1> QED BY <1>5, <1>6, <1>7, <1>8 DEF Core, ForksOK, ForksFit, Forks

\* The turns do not notice that a saga begins.
LEMMA ForkStartCore ==
    ASSUME Core, NEW f \in Forks, NEW p \in Sessions \ {f}, NEW k \in {"rewind", "copy"},
           ForkStart(p, f, k)
    PROVE  Core'
<1>1. /\ requests' = requests + 1 /\ forking' = [forking EXCEPT ![p] = TRUE]
      /\ UNCHANGED <<phase, row, mem, conv, replay, crashes>> /\ UNCHANGED turnVars
  BY DEF ForkStart, Request
<1>2. UNCHANGED <<turn, queue, park, kept, token, parks, lost>>
  BY <1>1 DEF turnVars
<1>3. RowShapes'
  BY <1>1 DEF Core, TurnsOK, RowShapes
<1>4. TurnShapes'
  BY <1>2 DEF Core, TurnsOK, TurnShapes
<1>5. TurnsOK'
  BY <1>1, <1>2, <1>3, <1>4, QuietStep DEF Core
<1>6. ForksOK'
  BY ForkStartStep DEF Core, TurnsOK
<1> QED BY <1>5, <1>6 DEF Core

\* Every step of every saga.
LEMMA ForkStepCore ==
    ASSUME Core, NEW f \in Forks, ForkStep(f)
    PROVE  Core'
<1>1. CASE \E p \in Sessions \ {f}, k \in {"rewind", "copy"} : ForkStart(p, f, k)
  BY <1>1, ForkStartCore
<1>2. CASE CopyTree(f) \/ Abandon(f) \/ Insert(f) \/ DropRow(f)
  BY <1>2, CopyTreeStep, AbandonStep, InsertStep, DropRowStep
<1>3. CASE \E b \in BOOLEAN :
             Prepare(f, b) \/ PrepareFails(f, b) \/ Promote(f, b) \/ RevertFiles(f, b) \/ RecoverFork(f, b)
  BY <1>3, PrepareStep, PrepareFailsStep, PromoteStep, RevertFilesStep, RecoverForkStep
<1>4. CASE RecordRevert(f) \/ ArchiveParent(f) \/ ArchiveFails(f)
  BY <1>4, RecordRevertStep, ArchiveParentStep, ArchiveFailsStep
<1> QED BY <1>1, <1>2, <1>3, <1>4 DEF ForkStep

\* A step that is none of the turns' and none of the sagas'; proposing a skill is a request.
LEMMA CoreUnchanged ==
    ASSUME Core, UNCHANGED <<turnVars, forkVars>>, requests' \in Nat,
           UNCHANGED <<phase, row, mem, conv, replay, forking, crashes>>
    PROVE  Core'
<1>1. /\ UNCHANGED <<turn, queue, park, kept, token, parks, lost>>
      /\ UNCHANGED <<saga, kind, from, dir, repo, artifact, stash, record, todo>>
  BY DEF turnVars, forkVars
<1>2. RowShapes' /\ TurnShapes'
  BY <1>1 DEF Core, TurnsOK, RowShapes, TurnShapes
<1>3. TurnsOK'
  BY <1>1, <1>2, QuietStep DEF Core
<1>4. ForkShapes'
  BY <1>1 DEF Core, ForksOK, ForkShapes, Forks
<1>5. ASSUME NEW f \in Forks PROVE SagaFits(f)' /\ RowFits(f)'
  BY <1>1 DEF Core, ForksOK, ForksFit, SagaFits, RowFits, Unused, Idle, Parked, Up, Forks
<1>6. ArchivedForFork'
  BY <1>1 DEF Core, ForksOK, ArchivedForFork, Forks
<1> QED BY <1>3, <1>4, <1>5, <1>6 DEF Core, ForksOK, ForksFit, Forks

\* What a step of the reviews and of the questions does to turns and sagas: nothing.
LEMMA SkillStepEffect ==
    ASSUME SkillStep
    PROVE  /\ UNCHANGED <<phase, row, mem, conv, replay, forking, crashes>>
           /\ UNCHANGED turnVars /\ UNCHANGED forkVars
           /\ requests' = requests \/ requests' = requests + 1
<1>1. CASE \E s \in Sessions, c \in Candidates, scope \in Scopes : Announced(s) /\ Propose(s, c, scope)
  BY <1>1 DEF Propose, Request
<1>2. CASE \E r \in Reviewers : ReviewStep(r)
  BY <1>2 DEF ReviewStep, Approve, AddWorktree, Commit, Undo, Materialize, MarkSuperseded, Write, rowVars
<1>3. CASE \E c \in Candidates : Refuse(c) \/ Reject(c)
  BY <1>3 DEF Refuse, Reject, rowVars
<1> QED BY <1>1, <1>2, <1>3 DEF SkillStep

\* The invariant of turns and sagas is inductive.
LEMMA CoreNext ==
    ASSUME Core, [Next]_vars
    PROVE  Core'
<1>1. CASE (\E s \in Sessions : Turns(s)) /\ UNCHANGED <<forkVars, skillVars>>
  <2>1. PICK s \in Sessions : Turns(s)
    BY <1>1
  <2>2. TurnStep(s) \/ (Announced(s) /\ Ask(s)) \/ Interrupt(s)
    BY <2>1 DEF Turns
  <2> QED BY <1>1, <2>2, TurnStepOK, ForksUnderTurn DEF Core
<1>2. CASE ((\E f \in Forks : ForkStep(f)) \/ Boot \/ Serve) /\ Evicted /\ UNCHANGED skillVars
  BY <1>2, ForkStepCore, BootStep
<1>3. CASE SkillStep /\ UNCHANGED questionVars
  <2>1. requests' \in Nat
    BY <1>3, SkillStepEffect DEF Core, TurnsOK, RowShapes
  <2> QED BY <1>3, <2>1, SkillStepEffect, CoreUnchanged
<1>4. CASE (QuestionStep /\ UNCHANGED <<rowVars, turnVars, forkVars, skillVars>>) \/ UNCHANGED vars
  <2>1. UNCHANGED <<phase, row, mem, conv, replay, forking, requests, crashes>>
        /\ UNCHANGED <<turnVars, forkVars>>
    BY <1>4 DEF vars, rowVars
  <2> QED BY <2>1, CoreUnchanged DEF Core, TurnsOK, RowShapes
<1>5. CASE Crash
  BY <1>5, CrashStep DEF Crash
<1> QED BY <1>1, <1>2, <1>3, <1>4, <1>5 DEF Next

-------------------------------------------------------------------------------
(* The theorems *)

\* And it holds at first.
LEMMA InitCore == Init => Core
<1> SUFFICES ASSUME Init PROVE Core
  OBVIOUS
<1> USE DEF Init
<1>1. RowShapes
  BY Values, RowsAssumption DEF RowsInit, RowShapes
<1>2. TurnShapes
  <2>1. <<>> \in Seq({Asked})
    OBVIOUS
  <2> QED BY <2>1, Values DEF TurnsInit, TurnShapes
<1>3. ForkShapes
  BY DEF ForksInit, ForkShapes, Forks
<1>4. ASSUME NEW s \in Sessions PROVE SessionFits(s)
  <2>1. Idle(s) /\ ~Parked(s) /\ kept[s] = NoCounts /\ parks[s] = 0
    BY DEF TurnsInit, Idle, Parked
  <2>2. MaxParks \in Nat /\ MaxProbes \in Nat /\ 0 \in Nat /\ 0 <= MaxParks /\ 0 <= MaxProbes
    BY AttemptsAssumption
  <2>3. 0 * (MaxProbes + 1) + 0 <= ParkBound
    BY <2>2, Weights
  <2> QED BY <2>1, <2>2, <2>3 DEF SessionFits, Limited, NoCounts
<1>5. ASSUME NEW f \in Forks PROVE SagaFits(f) /\ RowFits(f)
  <2>1. f \in Sessions /\ f \notin Users
    BY DEF Forks
  <2> QED BY <2>1 DEF RowsInit, TurnsInit, ForksInit, SagaFits, RowFits, Unused, Idle, Parked
<1>6. ArchivedForFork
  BY DEF RowsInit, ArchivedForFork
<1> QED BY <1>1, <1>2, <1>3, <1>4, <1>5, <1>6 DEF Core, TurnsOK, TurnsFit, ForksOK, ForksFit

\* The rows, the turns and the sagas keep their shapes and fit together in every reachable state.
THEOREM TurnsAndForks == Spec => []Core
<1>1. Init => Core
  BY InitCore
<1>2. Core /\ [Next]_vars => Core'
  BY CoreNext
<1> QED BY <1>1, <1>2, PTL DEF Spec

\* However a turn was retried, continued, parked and woken, the conversation an attempt works in
\* holds its request, twice only if the turn resumed it and asked again after a retry or a wake-up,
\* and "continue" finds the work it is to continue.
THEOREM RequestsOnce == Spec => []AskedOnce
<1>1. Core => AskedOnce
  <2> SUFFICES ASSUME Core, NEW s \in Sessions, turn[s].stage = "stream", turn[s].init
               PROVE  /\ conv[s].ask >= 1
                      /\ turn[s].now.ask = 0 => conv[s].work
                      /\ conv[s].ask > 1 => Repeats(turn[s])
    BY DEF AskedOnce, Repeats
  <2>1. ~Idle(s)
    BY DEF Idle, NoTurn
  <2> QED BY <2>1, InTurn DEF Core, AskFits, Carries, Convs
<1> QED BY <1>1, TurnsAndForks, PTL

\* The two counters of a park bound the parks of one turn together.
THEOREM ParksEnd == Spec => []ParkingEnds
<1>1. Core => ParkingEnds
  BY DEF Core, TurnsOK, TurnsFit, SessionFits, ParkingEnds, ParkBound
<1> QED BY <1>1, TurnsAndForks, PTL

\* Every saga, at any interleaving with turns, crashes and boots, leaves forks that are whole or
\* remembered, and archives a parent only for one that is whole.
THEOREM WholeForks == Spec => []ForksAreWhole
<1>1. Core => ForksAreWhole
  BY DEF Core, ForksOK, ForksFit, RowFits, ArchivedForFork, ForksAreWhole
<1> QED BY <1>1, TurnsAndForks, PTL

\* The stored token is current, or the credential is flagged for the answer that was lost.
Excused == "cut off" \in lost \/ ("no answer" \in lost /\ token.needs)

\* What a step of a turn does to the credential.
LEMMA TokenEffect ==
    ASSUME TurnsOK, NEW s \in Sessions, TurnStep(s) \/ Ask(s) \/ Interrupt(s)
    PROVE  /\ Excused => Excused' \/ token'.current
           /\ turn[s].stage = "store" => Excused' \/ token'.current \/ turn'[s].stage = "store"
           /\ ~token'.current => ~token.current \/ Excused' \/ turn'[s].stage = "store"
<1>1. ASSUME NEW result \in BOOLEAN, NEW dated \in BOOLEAN, Overs(s, result, dated)
      PROVE  /\ Excused => Excused'
             /\ turn[s].stage = "store" => Excused'
             /\ token'.current = token.current
  BY <1>1, OversForm DEF Excused
<1>2. CASE \/ Resolve(s) \/ NearExpiry(s) \/ RefreshFails(s) \/ Spawn(s) \/ Started(s) \/ Dies(s)
           \/ \E k \in {"text", "tool"} : Emits(s, k)
           \/ \E result \in BOOLEAN : Retries(s, result) \/ \E dated \in BOOLEAN : Parks(s, result, dated)
  <2>1. lost' = lost /\ turn[s].stage # "store" /\ (token' = token \/ token' = Flagged(s))
    BY <1>2 DEF Resolve, NearExpiry, RefreshFails, Spawn, Started, Dies, Emits, Retries, Parks, At
  <2> QED BY <2>1, TokenShape DEF Excused
<1>3. CASE Stores(s)
  BY <1>3 DEF Stores
<1>4. CASE Rotates(s)
  <2>1. turn[s] \in TurnRecords
    BY <1>4, Staying, InTurn DEF Rotates, Stages
  <2>2. turn'[s] = [turn[s] EXCEPT !.stage = "store", !.bundle = "none"] /\ lost' = lost
        /\ token' = [token EXCEPT !.current = FALSE]
    BY <1>4 DEF Rotates
  <2>3. turn'[s].stage = "store"
    <3>1. "store" \in Stages /\ "none" \in {"none", "good", "spent"}
      BY DEF Stages
    <3>2. [turn[s] EXCEPT !.stage = "store", !.bundle = "none"].stage = "store"
      BY <2>1, <3>1, Bundled
    <3> QED BY <2>2, <3>2
  <2>4. token'.needs = token.needs
    BY <2>2, TokenShape
  <2> QED BY <2>2, <2>3, <2>4 DEF Excused
<1>5. CASE ResponseLost(s)
  <2>1. lost' = lost \cup {"no answer"} /\ token' = [Flagged(s) EXCEPT !.current = FALSE]
        /\ turn[s].stage = "refresh"
    BY <1>5 DEF ResponseLost, At
  <2>2. token'.needs
    BY <2>1, TokenShape
  <2> QED BY <2>1, <2>2 DEF Excused
<1>6. CASE Wake(s) \/ CancelPark(s) \/ Ask(s)
  <2>1. lost' = lost /\ token' = token
    BY <1>6 DEF Wake, CancelPark, Ask
  <2>2. turn' = turn \/ Idle(s)
    BY <1>6 DEF Wake, CancelPark, Ask
  <2>3. Idle(s) => turn[s].stage # "store"
    BY DEF Idle, NoTurn
  <2> QED BY <2>1, <2>2, <2>3 DEF Excused
<1> QED BY <1>1, <1>2, <1>3, <1>4, <1>5, <1>6 DEF TurnStep, Overs

\* The stored refresh token is the provider's next one, unless a turn is about to store it or was
\* cut off there, or the answer that brought it was lost and the credential is flagged, for any
\* number of turns that share the credential.
THEOREM TokensRotated == Spec => []TokensRotate
<1>1. Init => TokensRotate
  BY DEF Init, TurnsInit, TokensRotate
<1>2. ASSUME Core, TokensRotate, [Next]_vars PROVE TokensRotate'
  <2>1. ASSUME NEW s \in Sessions, Turns(s) PROVE TokensRotate'
    <3>1. TurnStep(s) \/ Ask(s) \/ Interrupt(s)
      BY <2>1 DEF Turns
    <3>2. /\ Excused => Excused' \/ token'.current
          /\ turn[s].stage = "store" => Excused' \/ token'.current \/ turn'[s].stage = "store"
          /\ ~token'.current => ~token.current \/ Excused' \/ turn'[s].stage = "store"
      BY <1>2, <3>1, TokenEffect DEF Core
    <3>3. \A x \in Sessions \ {s} : turn'[x].stage = turn[x].stage
      BY <1>2, <3>1, TurnEffect DEF Core
    <3> QED BY <1>2, <3>2, <3>3 DEF TokensRotate, Excused
  <2>2. CASE UNCHANGED <<turn, token, lost>>
    BY <1>2, <2>2 DEF TokensRotate
  <2>3. ASSUME NEW f \in Forks, ArchiveParent(f) PROVE TokensRotate'
    <3>1. /\ turn' = [turn EXCEPT ![from[f]] = NoTurn] /\ token' = token
          /\ lost' = CutOff(turn[from[f]].stage = "store")
      BY <2>3 DEF ArchiveParent
    <3>2. \A x \in Sessions : x = from[f] \/ turn'[x] = turn[x]
      BY <1>2, <3>1 DEF Core, TurnsOK, TurnShapes
    <3> QED BY <1>2, <3>1, <3>2, Cut DEF TokensRotate, Core
  <2>4. ASSUME NEW f \in Forks, ForkStep(f) PROVE TokensRotate'
    <3>1. ArchiveParent(f) \/ UNCHANGED turnVars
      BY <2>4 DEF ForkStep, ForkStart, CopyTree, Abandon, Insert, Prepare, DropRow, PrepareFails,
                  Promote, RevertFiles, RecoverFork, RecordRevert, ArchiveFails
    <3> QED BY <2>2, <2>3, <3>1 DEF turnVars
  <2>5. CASE Boot \/ Serve \/ SkillStep \/ UNCHANGED turnVars
    BY <2>2, <2>5, SkillStepEffect DEF Boot, Serve, turnVars
  <2>6. CASE Crash
    <3>1. token' = token /\ lost' = CutOff(\E s \in Sessions : turn[s].stage = "store")
      BY <2>6 DEF Crash, TurnsCrash
    <3> QED BY <1>2, <3>1, Cut DEF TokensRotate, Core
  <2> QED BY <1>2, <2>1, <2>4, <2>5, <2>6 DEF Next, vars
<1> QED BY <1>1, <1>2, TurnsAndForks, PTL DEF Spec

\* What becomes of the history that a session has still to be given.
HandsOver(s) ==
    replay[s] /\ ~replay'[s] => \/ conv'[s].past >= 1
                                \/ turn'[s].stage = "ready" /\ turn'[s].now.past >= 1

\* A turn that is over has passed the history on when the flag goes.
LEMMA EndHandsOver ==
    ASSUME TurnsOK, NEW s \in Sessions, NEW result \in BOOLEAN, NEW dated \in BOOLEAN,
           Overs(s, result, dated)
    PROVE  HandsOver(s)
<1>1. PICK c \in Convs, r \in BOOLEAN : Ends(s, c, r) /\ (replay[s] /\ ~r => c.past >= 1)
  BY OversForm
<1>2. replay'[s] = r
  BY <1>1 DEF Ends, TurnsOK, RowShapes
<1>3. conv'[s].past = c.past
  <2>1. conv \in [Sessions -> Convs]
    BY DEF TurnsOK, RowShapes
  <2>2. conv'[s] = Settled(c) \/ \E p : conv'[s] = Context(p, c)
    BY <1>1, <2>1 DEF Ends, Begin
  <2>3. \A p : Context(p, c).past = c.past
    BY SettledConv DEF Context
  <2> QED BY <2>2, <2>3, SettledConv
<1> QED BY <1>1, <1>2, <1>3 DEF HandsOver

\* So has a turn that goes on or parks.
LEMMA StepHandsOver ==
    ASSUME TurnsOK, NEW s \in Sessions, TurnStep(s) \/ Ask(s) \/ Interrupt(s)
    PROVE  HandsOver(s)
<1>1. conv \in [Sessions -> Convs] /\ replay \in [Sessions -> BOOLEAN] /\ s \in DOMAIN turn
  BY DEF TurnsOK, RowShapes, TurnShapes
<1>2. CASE replay' = replay
  BY <1>2 DEF HandsOver
<1>3. ASSUME NEW result \in BOOLEAN, NEW dated \in BOOLEAN, Overs(s, result, dated) PROVE HandsOver(s)
  BY <1>3, EndHandsOver
<1>4. ASSUME NEW result \in BOOLEAN, Retries(s, result) PROVE HandsOver(s)
  <2> DEFINE t == turn[s]  v == [t EXCEPT !.tries = t.tries + 1]
             p == IF t.out = "none" THEN t.prompt ELSE Continue
  <2>1. ~Idle(s)
    BY <1>4, Staying DEF Retries, Stages
  <2>2. /\ t \in TurnRecords /\ (replay[s] => HistoryFits(t, conv[s])) /\ SameAttempt(t, v)
        /\ replay[s] /\ ~Replay(s, result) => After(s, result).past >= 1
    BY <2>1, InTurn, Counters, AfterConv
  <2>3. /\ turn'[s] = Attempt(v, p) /\ conv'[s] = RetryFrom(s, result)
        /\ replay'[s] = Replay(s, result)
    BY <1>1, <1>4 DEF Retries
  <2>4. p \in Prompts /\ v \in TurnRecords
    BY <2>2, Values DEF TurnRecords, SameAttempt
  <2>5. Attempt(v, p).stage = "ready" /\ Attempt(v, p).now = p
    <3> HIDE DEF v, p
    <3> QED BY <2>4, NextAttempt
  <2>6. CASE t.out = "none"
    BY <2>2, <2>3, <2>5, <2>6 DEF HandsOver, HistoryFits
  <2>7. CASE t.out # "none"
    BY <2>2, <2>3, <2>7 DEF HandsOver, RetryFrom
  <2> QED BY <2>6, <2>7
<1>5. ASSUME NEW result \in BOOLEAN, NEW dated \in BOOLEAN, Parks(s, result, dated) PROVE HandsOver(s)
  <2>1. ~Idle(s)
    BY <1>5, Staying DEF Parks, Stages
  <2>2. conv'[s] = After(s, result) /\ replay'[s] = Replay(s, result)
    BY <1>1, <1>5 DEF Parks
  <2> QED BY <2>1, <2>2, AfterConv DEF HandsOver
<1>6. CASE Dies(s)
  <2>1. replay' = replay \/ Ends(s, conv[s], replay[s])
    BY <1>6 DEF Dies, rowVars
  <2>2. Ends(s, conv[s], replay[s]) => replay'[s] = replay[s]
    BY <1>1 DEF Ends
  <2> QED BY <1>2, <2>1, <2>2 DEF HandsOver
<1>7. \/ Resolve(s) \/ NearExpiry(s) \/ Rotates(s) \/ RefreshFails(s) \/ ResponseLost(s) \/ Stores(s) \/ Spawn(s)
      \/ Started(s) \/ Wake(s) \/ CancelPark(s) \/ Ask(s) \/ \E k \in {"text", "tool"} : Emits(s, k)
      => replay' = replay
  BY DEF Resolve, NearExpiry, Rotates, RefreshFails, ResponseLost, Stores, Spawn, Started, Wake, CancelPark, Ask,
         Emits, rowVars
<1> QED BY <1>2, <1>3, <1>4, <1>5, <1>6, <1>7 DEF TurnStep, Overs

\* No saga, crash or boot takes the flag away.
LEMMA ForksKeepHistory ==
    ASSUME Core, NEW f \in Forks, ForkStep(f), NEW g \in Forks
    PROVE  replay[g] => replay'[g]
<1>1. replay \in [Sessions -> BOOLEAN] /\ g \in Sessions /\ SagaFits(f)
  BY DEF Core, TurnsOK, RowShapes, ForksOK, ForksFit, Forks
<1>2. (\E b \in BOOLEAN : Prepare(f, b)) \/ replay' = replay
  BY DEF ForkStep, ForkStart, CopyTree, Abandon, Insert, DropRow, PrepareFails, Promote,
         RevertFiles, RecoverFork, RecordRevert, ArchiveParent, ArchiveFails, rowVars
<1>3. CASE \E b \in BOOLEAN : Prepare(f, b)
  <2>1. ~replay[f] /\ \E b : replay' = [replay EXCEPT ![f] = b]
    BY <1>1, <1>3 DEF Prepare, Running, SagaFits
  <2> QED BY <1>1, <2>1
<1> QED BY <1>2, <1>3

\* A fork's history is in its conversation, or in the attempt about to run, when the server stops
\* prefixing it, whatever became of the turns before.
THEOREM HistoryHandedOver == Spec => HistoryIsHandedOver
<1>1. ASSUME Core, [Next]_vars, NEW g \in Forks, replay[g], ~replay'[g], row'[g] # "none"
      PROVE  \/ conv'[g].past >= 1
             \/ turn'[g].stage = "ready" /\ turn'[g].now.past >= 1
  <2>1. g \in Sessions
    BY DEF Forks
  <2>2. ASSUME NEW s \in Sessions, Turns(s) PROVE HandsOver(g)
    <3>1. TurnsOK /\ (TurnStep(s) \/ Ask(s) \/ Interrupt(s))
      BY <1>1, <2>2 DEF Turns, Core
    <3>2. CASE s = g
      BY <3>1, <3>2, StepHandsOver
    <3>3. CASE s # g
      <4>1. replay'[g] = replay[g]
        BY <2>1, <3>1, <3>3, TurnEffect
      <4> QED BY <4>1 DEF HandsOver
    <3> QED BY <3>2, <3>3
  <2>3. \/ \E s \in Sessions : Turns(s)
        \/ \E f \in Forks : ForkStep(f)
        \/ replay' = replay
    BY <1>1, SkillStepEffect DEF Next, vars, rowVars, Boot, Serve, Crash, RowsCrash
  <2>4. ~\E f \in Forks : ForkStep(f)
    BY <1>1, ForksKeepHistory
  <2> QED BY <1>1, <2>2, <2>3, <2>4 DEF HandsOver
<1>2. Core /\ [Next]_vars =>
         [\A f \in Forks : replay[f] /\ ~replay'[f] /\ row'[f] # "none" =>
             \/ conv'[f].past >= 1
             \/ turn'[f].stage = "ready" /\ turn'[f].now.past >= 1]_vars
  BY <1>1
<1> QED BY <1>2, TurnsAndForks, PTL DEF Spec, HistoryIsHandedOver

-------------------------------------------------------------------------------
(* The review of skills *)

Unproposed == [status |-> "none"]

\* A candidate has been proposed, with everything its row says, or not.
CandForm(x) ==
    \/ x = Unproposed
    \/ /\ x = [status |-> x.status, repo |-> x.repo, scope |-> x.scope, over |-> x.over, at |-> x.at]
       /\ x.status # "none"

ReviewForm(v) ==
    \/ v = NoReview
    \/ /\ v = [step |-> v.step, cand |-> v.cand, scope |-> v.scope, prior |-> v.prior]
       /\ v.step \in {"worktree", "commit", "undo", "files", "mark", "write"} /\ v.cand \in Candidates

Proposed(c) == cand[c].status # "none"

SkillShapes ==
    /\ cand = [c \in Candidates |-> cand[c]] /\ \A c \in Candidates : CandForm(cand[c])
    /\ branch \in [Candidates -> {"none", "empty", "landed"}]
    /\ disk \in [Sessions \cup {Global} -> Candidates \cup {NoSkill}]
    /\ review = [r \in Reviewers |-> review[r]] /\ \A r \in Reviewers : ReviewForm(review[r])
    /\ \A c \in refusals : c \in Candidates /\ Proposed(c)

\* An approval that has its branch has it for itself until the commit is there.
Making(r) == review[r].step \in {"commit", "undo"}

ReviewFits(r) ==
    /\ review[r].step # "none" => Proposed(review[r].cand)
    /\ review[r].step \in {"files", "mark", "write"} => branch[review[r].cand] = "landed"
    /\ Making(r) => /\ branch[review[r].cand] = "empty"
                    /\ \A u \in Reviewers \ {r} : Making(u) => review[u].cand # review[r].cand

SkillsFit ==
    /\ \A r \in Reviewers : ReviewFits(r)
    /\ \A l \in Sessions \cup {Global} : disk[l] # NoSkill => branch[disk[l]] = "landed"
    /\ \A c \in Candidates : cand[c].status = "approved" => branch[c] = "landed"

SkillsOK == SkillShapes /\ SkillsFit

\* What the updates of a row and of an approval's locals leave alone.
LEMMA CandChanges ==
    ASSUME NEW x, CandForm(x)
    PROVE  CandForm([x EXCEPT !.over = TRUE]) /\ [x EXCEPT !.over = TRUE].status = x.status
<1>1. CASE x = Unproposed
  BY <1>1 DEF Unproposed, CandForm
<1>2. CASE x # Unproposed
  <2> DEFINE filled(c) == [status |-> x.status, repo |-> x.repo, scope |-> x.scope, over |-> c, at |-> x.at]
  <2>1. x = filled(x.over) /\ x.status # "none"
    BY <1>2 DEF CandForm
  <2>2. \A c : CandForm(filled(c)) /\ filled(c).status = x.status
    BY <2>1 DEF CandForm
  <2>3. \A c : [x EXCEPT !.over = c] = filled(c)
    BY <2>1
  <2> HIDE DEF filled
  <2> QED BY <2>2, <2>3
<1> QED BY <1>1, <1>2

\* A verdict leaves a whole row.
LEMMA ReviewedRow ==
    ASSUME NEW c, NEW st, st # "none", NEW scope
    PROVE  CandForm(Reviewed(c, st, scope)) /\ Reviewed(c, st, scope).status = st
BY DEF Reviewed, CandForm

\* An approval that moves on keeps its candidate.
LEMMA ReviewGoes ==
    ASSUME NEW v, ReviewForm(v), v.step # "none",
           NEW st \in {"worktree", "commit", "undo", "files", "mark", "write"}
    PROVE  /\ ReviewForm([v EXCEPT !.step = st]) /\ v.cand \in Candidates
           /\ [v EXCEPT !.step = st].step = st /\ [v EXCEPT !.step = st].cand = v.cand
BY DEF ReviewForm, NoReview

\* An approval that moves on, and one that is over.
LEMMA GoesStep ==
    ASSUME SkillsOK, NEW r \in Reviewers, review[r].step # "none",
           NEW st \in {"worktree", "commit", "undo", "files", "mark", "write"}, Goes(r, st)
    PROVE  /\ review' = [x \in Reviewers |-> review'[x]] /\ review[r].cand \in Candidates
           /\ ReviewForm(review'[r]) /\ review'[r].step = st /\ review'[r].cand = review[r].cand
           /\ \A x \in Reviewers \ {r} : review'[x] = review[x]
<1>1. review = [x \in Reviewers |-> review[x]] /\ ReviewForm(review[r])
  BY DEF SkillsOK, SkillShapes
<1>2. review' = [review EXCEPT ![r] = [review[r] EXCEPT !.step = st]]
  BY DEF Goes
<1> QED BY <1>1, <1>2, ReviewGoes

\* An approval that is over.
LEMMA OverStep ==
    ASSUME SkillsOK, NEW r \in Reviewers, Over(r)
    PROVE  /\ review' = [x \in Reviewers |-> review'[x]]
           /\ ReviewForm(review'[r]) /\ review'[r].step = "none"
           /\ \A x \in Reviewers \ {r} : review'[x] = review[x]
<1>1. review = [x \in Reviewers |-> review[x]]
  BY DEF SkillsOK, SkillShapes
<1>2. review'[r] = NoReview /\ NoReview.step = "none"
  BY <1>1 DEF Over, NoReview
<1> QED BY <1>1, <1>2 DEF Over, ReviewForm

\* A step of one approval: the others do not notice.
LEMMA OneReview ==
    ASSUME SkillsOK, NEW r \in Reviewers, NEW k, ReviewForm(review'[r]), ReviewFits(r)',
           review' = [x \in Reviewers |-> review'[x]],
           \A x \in Reviewers \ {r} : review'[x] = review[x],
           \A c \in Candidates : /\ c # k => branch'[c] = branch[c]
                                 /\ branch[c] = "landed" => branch'[c] = "landed"
                                 /\ Proposed(c) => Proposed(c)',
           branch' = branch \/ (\A x \in Reviewers \ {r} : Making(x) => review[x].cand # k)
    PROVE  /\ \A x \in Reviewers : ReviewForm(review'[x]) /\ ReviewFits(x)'
<1>1. ASSUME NEW x \in Reviewers \ {r} PROVE ReviewForm(review'[x]) /\ ReviewFits(x)'
  <2>1. /\ ReviewForm(review[x]) /\ ReviewFits(x) /\ review'[x] = review[x]
        /\ review[x].step # "none" => review[x].cand \in Candidates
    BY DEF SkillsOK, SkillShapes, SkillsFit, ReviewForm, NoReview
  <2>2. Making(x) => branch'[review[x].cand] = branch[review[x].cand]
    BY <2>1 DEF Making
  <2>3. \A u \in Reviewers \ {x} : Making(x)' /\ Making(u)' => review'[u].cand # review'[x].cand
    <3> SUFFICES ASSUME NEW u \in Reviewers \ {x}, Making(x)', Making(u)'
                 PROVE  review'[u].cand # review'[x].cand
      OBVIOUS
    <3>1. CASE u = r
      BY <3>1 DEF ReviewFits
    <3>2. CASE u # r
      BY <2>1, <3>2 DEF ReviewFits, Making
    <3> QED BY <3>1, <3>2
  <2>4. review[x].step # "none" => Proposed(review[x].cand)'
    BY <2>1 DEF ReviewFits
  <2>5. review[x].step \in {"files", "mark", "write"} => branch'[review[x].cand] = "landed"
    BY <2>1 DEF ReviewFits
  <2>6. Making(x) => branch'[review[x].cand] = "empty"
    BY <2>1, <2>2 DEF ReviewFits
  <2> QED BY <2>1, <2>3, <2>4, <2>5, <2>6 DEF ReviewFits, Making, Proposed
<1> QED BY <1>1

\* The conjuncts that a step has to keep.
LEMMA SkillsKept ==
    ASSUME SkillsOK,
           cand' = [c \in Candidates |-> cand'[c]],
           \A c \in Candidates :
              /\ CandForm(cand'[c])
              /\ cand'[c].status = "approved" => cand[c].status = "approved" \/ branch[c] = "landed",
           branch' \in [Candidates -> {"none", "empty", "landed"}],
           \A c \in Candidates : branch[c] = "landed" => branch'[c] = "landed",
           disk' \in [Sessions \cup {Global} -> Candidates \cup {NoSkill}],
           \A l \in Sessions \cup {Global} :
              disk'[l] = disk[l] \/ disk'[l] = NoSkill \/ branch[disk'[l]] = "landed",
           review' = [r \in Reviewers |-> review'[r]],
           \A r \in Reviewers : ReviewForm(review'[r]) /\ ReviewFits(r)',
           \A c \in refusals' : c \in Candidates /\ Proposed(c)'
    PROVE  SkillsOK'
<1>1. \A l \in Sessions \cup {Global} : disk'[l] # NoSkill => branch'[disk'[l]] = "landed"
  <2> SUFFICES ASSUME NEW l \in Sessions \cup {Global}, disk'[l] # NoSkill
               PROVE  branch'[disk'[l]] = "landed"
    OBVIOUS
  <2>1. disk'[l] \in Candidates /\ branch[disk'[l]] = "landed"
    BY DEF SkillsOK, SkillsFit
  <2> QED BY <2>1
<1>2. \A c \in Candidates : cand'[c].status = "approved" => branch'[c] = "landed"
  BY DEF SkillsOK, SkillsFit
<1> QED BY <1>1, <1>2 DEF SkillsOK, SkillShapes, SkillsFit

\* The facts about an approval under way.
LEMMA UnderReview ==
    ASSUME SkillsOK, NEW r \in Reviewers, NEW st, st # "none", In(r, st)
    PROVE  /\ review[r].step # "none" /\ review[r].cand \in Candidates
           /\ ReviewForm(review[r]) /\ ReviewFits(r) /\ Proposed(review[r].cand)
BY DEF In, SkillsOK, SkillShapes, SkillsFit, ReviewForm, ReviewFits, NoReview

\* The invariant of the reviews, part by part.
LEMMA SkillsHold ==
    ASSUME SkillsOK
    PROVE  /\ cand = [c \in Candidates |-> cand[c]] /\ \A c \in Candidates : CandForm(cand[c])
           /\ branch \in [Candidates -> {"none", "empty", "landed"}]
           /\ disk \in [Sessions \cup {Global} -> Candidates \cup {NoSkill}]
           /\ review = [r \in Reviewers |-> review[r]]
           /\ \A r \in Reviewers : ReviewForm(review[r]) /\ ReviewFits(r)
           /\ \A c \in refusals : c \in Candidates /\ Proposed(c)
BY DEF SkillsOK, SkillShapes, SkillsFit

\* No review notices a step that only adds candidates.
LEMMA ReviewsStay ==
    ASSUME SkillsOK, UNCHANGED <<review, branch>>,
           \A c \in Candidates : Proposed(c) => Proposed(c)'
    PROVE  \A r \in Reviewers : ReviewForm(review'[r]) /\ ReviewFits(r)'
<1> SUFFICES ASSUME NEW r \in Reviewers PROVE ReviewForm(review'[r]) /\ ReviewFits(r)'
  OBVIOUS
<1>1. /\ ReviewForm(review[r]) /\ ReviewFits(r)
      /\ review[r].step # "none" => review[r].cand \in Candidates
  BY SkillsHold DEF ReviewForm, NoReview
<1>2. review[r].step # "none" => Proposed(review[r].cand)'
  BY <1>1 DEF ReviewFits
<1> QED BY <1>1, <1>2 DEF ReviewFits, Making, Proposed

\* A proposal is new.
LEMMA ProposeStep ==
    ASSUME SkillsOK, NEW s \in Sessions, NEW c \in Candidates, NEW scope \in Scopes,
           Propose(s, c, scope)
    PROVE  SkillsOK'
<1> DEFINE y == [status |-> "pending", repo |-> repo[s], scope |-> scope, over |-> FALSE, at |-> 0]
<1>1. /\ cand' = [cand EXCEPT ![c] = y] /\ UNCHANGED <<branch, disk, review, refusals>>
      /\ cand[c].status = "none"
  BY DEF Propose
<1>2. CandForm(y) /\ y.status = "pending"
  BY DEF CandForm
<1> HIDE DEF y
<1>3. cand'[c] = y /\ \A d \in Candidates \ {c} : cand'[d] = cand[d]
  BY <1>1, SkillsHold
<1>4. \A d \in Candidates : Proposed(d) => Proposed(d)'
  BY <1>2, <1>3 DEF Proposed
<1>5. \A r \in Reviewers : ReviewForm(review'[r]) /\ ReviewFits(r)'
  BY <1>1, <1>4, ReviewsStay
<1>6. cand' = [d \in Candidates |-> cand'[d]]
  BY <1>1, SkillsHold
<1> QED BY <1>1, <1>2, <1>3, <1>4, <1>5, <1>6, SkillsHold, SkillsKept

\* An approval begins with a candidate that was proposed.
LEMMA ApproveStep ==
    ASSUME SkillsOK, NEW r \in Reviewers, NEW c \in Candidates, NEW scope \in Scopes,
           Approve(r, c, scope)
    PROVE  SkillsOK'
<1>1. PICK prior : review' = [review EXCEPT ![r] = [step |-> "worktree", cand |-> c,
                                                    scope |-> scope, prior |-> prior]]
  BY DEF Approve
<1> DEFINE v == [step |-> "worktree", cand |-> c, scope |-> scope, prior |-> prior]
<1>2. cand[c].status = "pending" /\ UNCHANGED <<cand, branch, disk, refusals>>
  BY DEF Approve
<1>3. ReviewForm(v) /\ v.step = "worktree" /\ v.cand = c
  BY DEF ReviewForm
<1>4. review' = [review EXCEPT ![r] = v]
  BY <1>1
<1> HIDE DEF v
<1>5. /\ review' = [x \in Reviewers |-> review'[x]] /\ review'[r] = v
      /\ \A x \in Reviewers \ {r} : review'[x] = review[x]
  BY <1>4, SkillsHold
<1>6. ReviewForm(review'[r]) /\ ReviewFits(r)'
  BY <1>2, <1>3, <1>5 DEF ReviewFits, Making, Proposed
<1>7. \A x \in Reviewers : ReviewForm(review'[x]) /\ ReviewFits(x)'
  BY <1>2, <1>5, <1>6, OneReview DEF Proposed
<1> QED BY <1>2, <1>5, <1>7, SkillsHold, SkillsKept DEF Proposed

\* The branch is made once, so an approval that gets it has it alone.
LEMMA AddWorktreeStep ==
    ASSUME SkillsOK, NEW r \in Reviewers, AddWorktree(r)
    PROVE  SkillsOK'
<1> DEFINE k == review[r].cand
<1>1. UNCHANGED <<cand, disk, refusals>>
  BY DEF AddWorktree
<1>2. k \in Candidates /\ Proposed(k) /\ review[r].step # "none"
  BY UnderReview DEF AddWorktree
<1>3. CASE branch[k] = "none"
  <2>1. branch' = [branch EXCEPT ![k] = "empty"] /\ Goes(r, "commit")
    BY <1>3 DEF AddWorktree
  <2>2. /\ branch' \in [Candidates -> {"none", "empty", "landed"}] /\ branch'[k] = "empty"
        /\ \A c \in Candidates : (c # k => branch'[c] = branch[c])
                                 /\ (branch[c] = "landed" => branch'[c] = "landed")
    BY <1>2, <1>3, <2>1, SkillsHold
  <2>3. /\ review' = [x \in Reviewers |-> review'[x]] /\ ReviewForm(review'[r])
        /\ review'[r].step = "commit" /\ review'[r].cand = k
        /\ \A x \in Reviewers \ {r} : review'[x] = review[x]
    BY <1>2, <2>1, GoesStep
  <2> HIDE DEF k
  <2>4. \A x \in Reviewers \ {r} : Making(x) => review[x].cand # k
    BY <1>3, SkillsHold DEF ReviewFits
  <2>5. ReviewFits(r)'
    BY <1>1, <1>2, <2>2, <2>3, <2>4 DEF ReviewFits, Making, Proposed
  <2>6. \A x \in Reviewers : ReviewForm(review'[x]) /\ ReviewFits(x)'
    BY <1>1, <2>2, <2>3, <2>4, <2>5, OneReview DEF Proposed
  <2> QED BY <1>1, <2>2, <2>3, <2>6, SkillsHold, SkillsKept DEF Proposed
<1>4. CASE branch[k] # "none"
  <2>1. branch' = branch /\ Over(r)
    BY <1>4 DEF AddWorktree, Untouched
  <2>2. /\ review' = [x \in Reviewers |-> review'[x]] /\ ReviewForm(review'[r])
        /\ review'[r].step = "none" /\ \A x \in Reviewers \ {r} : review'[x] = review[x]
    BY <2>1, OverStep
  <2>3. ReviewFits(r)'
    BY <2>2 DEF ReviewFits, Making
  <2>4. \A x \in Reviewers : ReviewForm(review'[x]) /\ ReviewFits(x)'
    BY <1>1, <2>1, <2>2, <2>3, OneReview DEF Proposed
  <2> QED BY <1>1, <2>1, <2>2, <2>4, SkillsHold, SkillsKept DEF Proposed
<1> QED BY <1>3, <1>4

\* The commit lands, or the branch stays empty.
LEMMA CommitStep ==
    ASSUME SkillsOK, NEW r \in Reviewers, NEW b \in BOOLEAN, Commit(r, b)
    PROVE  SkillsOK'
<1> DEFINE k == review[r].cand  st == IF b THEN "files" ELSE "undo"
<1>1. UNCHANGED <<cand, disk, refusals>> /\ Goes(r, st)
  BY DEF Commit
<1>2. /\ k \in Candidates /\ Proposed(k) /\ review[r].step # "none"
      /\ Making(r) /\ ReviewFits(r)
  BY UnderReview DEF Commit, In, Making
<1>3. /\ review' = [x \in Reviewers |-> review'[x]] /\ ReviewForm(review'[r])
      /\ review'[r].step = st /\ review'[r].cand = k
      /\ \A x \in Reviewers \ {r} : review'[x] = review[x]
  BY <1>1, <1>2, GoesStep
<1>4. branch' = IF b THEN [branch EXCEPT ![k] = "landed"] ELSE branch
  BY DEF Commit
<1> HIDE DEF k, st
<1>5. branch[k] = "empty" /\ \A x \in Reviewers \ {r} : Making(x) => review[x].cand # k
  BY <1>2 DEF ReviewFits, k
<1>6. /\ branch' \in [Candidates -> {"none", "empty", "landed"}]
      /\ branch'[k] = (IF b THEN "landed" ELSE "empty")
      /\ \A c \in Candidates : (c # k => branch'[c] = branch[c])
                               /\ (branch[c] = "landed" => branch'[c] = "landed")
  BY <1>2, <1>4, <1>5, SkillsHold
<1>7. ReviewFits(r)'
  BY <1>1, <1>2, <1>3, <1>5, <1>6 DEF ReviewFits, Making, Proposed, st
<1>8. \A x \in Reviewers : ReviewForm(review'[x]) /\ ReviewFits(x)'
  BY <1>1, <1>3, <1>5, <1>6, <1>7, OneReview DEF Proposed
<1> QED BY <1>1, <1>3, <1>6, <1>8, SkillsHold, SkillsKept DEF Proposed

\* Only an empty branch is deleted.
LEMMA UndoStep ==
    ASSUME SkillsOK, NEW r \in Reviewers, NEW b \in BOOLEAN, Undo(r, b)
    PROVE  SkillsOK'
<1> DEFINE k == review[r].cand
<1>1. UNCHANGED <<cand, disk, refusals>> /\ Over(r)
  BY DEF Undo
<1>2. k \in Candidates /\ Making(r) /\ ReviewFits(r)
  BY UnderReview DEF Undo, In, Making
<1>3. /\ review' = [x \in Reviewers |-> review'[x]] /\ ReviewForm(review'[r])
      /\ review'[r].step = "none" /\ \A x \in Reviewers \ {r} : review'[x] = review[x]
  BY <1>1, OverStep
<1>4. branch' = IF b THEN [branch EXCEPT ![k] = "none"] ELSE branch
  BY DEF Undo
<1> HIDE DEF k
<1>5. branch[k] = "empty" /\ \A x \in Reviewers \ {r} : Making(x) => review[x].cand # k
  BY <1>2 DEF ReviewFits, k
<1>6. /\ branch' \in [Candidates -> {"none", "empty", "landed"}]
      /\ \A c \in Candidates : (c # k => branch'[c] = branch[c])
                               /\ (branch[c] = "landed" => branch'[c] = "landed")
  BY <1>2, <1>4, <1>5, SkillsHold
<1>7. ReviewFits(r)'
  BY <1>3 DEF ReviewFits, Making
<1>8. \A x \in Reviewers : ReviewForm(review'[x]) /\ ReviewFits(x)'
  BY <1>1, <1>3, <1>5, <1>6, <1>7, OneReview DEF Proposed
<1> QED BY <1>1, <1>3, <1>6, <1>8, SkillsHold, SkillsKept DEF Proposed

\* What is put on disk has landed.
LEMMA MaterializeStep ==
    ASSUME SkillsOK, NEW r \in Reviewers, Materialize(r)
    PROVE  SkillsOK'
<1> DEFINE k == review[r].cand
<1>1. UNCHANGED <<cand, branch, refusals>>
  BY DEF Materialize
<1>2. /\ k \in Candidates /\ Proposed(k) /\ review[r].step # "none" /\ branch[k] = "landed"
      /\ k \in Candidates \cup {NoSkill}
  BY UnderReview DEF Materialize, In, ReviewFits
<1>3. PICK st \in {"mark", "write"} : Goes(r, st)
  BY DEF Materialize
<1>4. /\ review' = [x \in Reviewers |-> review'[x]] /\ ReviewForm(review'[r])
      /\ review'[r].step = st /\ review'[r].cand = k
      /\ \A x \in Reviewers \ {r} : review'[x] = review[x]
  BY <1>2, <1>3, GoesStep
<1>5. PICK new, old : \/ disk' = [disk EXCEPT ![new] = k]
                      \/ disk' = [disk EXCEPT ![new] = k, ![old] = NoSkill]
  BY DEF Materialize
<1> HIDE DEF k
<1>6. /\ disk' \in [Sessions \cup {Global} -> Candidates \cup {NoSkill}]
      /\ \A l \in Sessions \cup {Global} :
            disk'[l] = disk[l] \/ disk'[l] = NoSkill \/ branch[disk'[l]] = "landed"
  BY <1>2, <1>5, SkillsHold
<1>7. ReviewFits(r)'
  BY <1>1, <1>2, <1>4 DEF ReviewFits, Making, Proposed
<1>8. \A x \in Reviewers : ReviewForm(review'[x]) /\ ReviewFits(x)'
  BY <1>1, <1>4, <1>7, OneReview DEF Proposed
<1> QED BY <1>1, <1>4, <1>6, <1>8, SkillsHold, SkillsKept DEF Proposed

\* Superseding a candidate leaves its verdict.
LEMMA MarkStep ==
    ASSUME SkillsOK, NEW r \in Reviewers, MarkSuperseded(r)
    PROVE  SkillsOK'
<1> DEFINE k == review[r].cand  p == review[r].prior
<1>1. UNCHANGED <<branch, disk, refusals>> /\ Goes(r, "write")
  BY DEF MarkSuperseded
<1>2. k \in Candidates /\ Proposed(k) /\ review[r].step # "none" /\ branch[k] = "landed"
  BY UnderReview DEF MarkSuperseded, In, ReviewFits
<1>3. /\ review' = [x \in Reviewers |-> review'[x]] /\ ReviewForm(review'[r])
      /\ review'[r].step = "write" /\ review'[r].cand = k
      /\ \A x \in Reviewers \ {r} : review'[x] = review[x]
  BY <1>1, <1>2, GoesStep
<1>4. cand' = [cand EXCEPT ![p] = [cand[p] EXCEPT !.over = TRUE]]
  BY DEF MarkSuperseded
<1> HIDE DEF k, p
<1>5. /\ cand' = [c \in Candidates |-> cand'[c]]
      /\ \A c \in Candidates : CandForm(cand'[c]) /\ cand'[c].status = cand[c].status
  <2>1. /\ cand' = [c \in Candidates |-> cand'[c]]
        /\ \A c \in Candidates : cand'[c] = cand[c] \/ cand'[c] = [cand[c] EXCEPT !.over = TRUE]
    BY <1>4, SkillsHold
  <2>2. \A c \in Candidates : /\ CandForm(cand[c]) /\ CandForm([cand[c] EXCEPT !.over = TRUE])
                              /\ [cand[c] EXCEPT !.over = TRUE].status = cand[c].status
    BY CandChanges, SkillsHold
  <2> QED BY <2>1, <2>2
<1>6. ReviewFits(r)'
  BY <1>1, <1>2, <1>3, <1>5 DEF ReviewFits, Making, Proposed
<1>7. \A x \in Reviewers : ReviewForm(review'[x]) /\ ReviewFits(x)'
  BY <1>1, <1>3, <1>5, <1>6, OneReview DEF Proposed
<1> QED BY <1>1, <1>3, <1>5, <1>7, SkillsHold, SkillsKept DEF Proposed

\* The verdict is written for a candidate that has landed.
LEMMA WriteStep ==
    ASSUME SkillsOK, NEW r \in Reviewers, Write(r)
    PROVE  SkillsOK'
<1> DEFINE k == review[r].cand
           y == Reviewed(k, "approved", review[r].scope)
<1>1. UNCHANGED <<branch, disk, refusals>> /\ Over(r)
  BY DEF Write
<1>2. k \in Candidates /\ Proposed(k) /\ branch[k] = "landed" /\ CandForm(cand[k])
  BY UnderReview, SkillsHold DEF Write, In, ReviewFits
<1>3. /\ review' = [x \in Reviewers |-> review'[x]] /\ ReviewForm(review'[r])
      /\ review'[r].step = "none" /\ \A x \in Reviewers \ {r} : review'[x] = review[x]
  BY <1>1, OverStep
<1>4. cand' = [cand EXCEPT ![k] = y]
  BY DEF Write
<1>5. CandForm(y) /\ y.status = "approved"
  BY ReviewedRow
<1> HIDE DEF k, y
<1>6. /\ cand' = [c \in Candidates |-> cand'[c]] /\ cand'[k] = y
      /\ \A c \in Candidates \ {k} : cand'[c] = cand[c]
  BY <1>2, <1>4, SkillsHold
<1>7. \A c \in Candidates : Proposed(c) => Proposed(c)'
  BY <1>5, <1>6 DEF Proposed
<1>8. ReviewFits(r)'
  BY <1>3 DEF ReviewFits, Making
<1>9. \A x \in Reviewers : ReviewForm(review'[x]) /\ ReviewFits(x)'
  BY <1>1, <1>3, <1>7, <1>8, OneReview
<1> QED BY <1>1, <1>2, <1>3, <1>5, <1>6, <1>7, <1>9, SkillsHold, SkillsKept

\* A rejection approves nothing.
LEMMA RefuseSteps ==
    ASSUME SkillsOK, NEW k \in Candidates, Refuse(k) \/ Reject(k)
    PROVE  SkillsOK'
<1>1. CASE Refuse(k)
  <2>1. UNCHANGED <<cand, branch, disk, review>> /\ refusals' = refusals \cup {k} /\ Proposed(k)
    BY <1>1 DEF Refuse, Proposed
  <2>2. \A r \in Reviewers : ReviewForm(review'[r]) /\ ReviewFits(r)'
    BY <2>1, ReviewsStay DEF Proposed
  <2> QED BY <2>1, <2>2, SkillsHold, SkillsKept DEF Proposed
<1>2. CASE Reject(k)
  <2> DEFINE y == Reviewed(k, "rejected", cand[k].scope)
  <2>1. /\ UNCHANGED <<branch, disk, review>> /\ refusals' = refusals \ {k} /\ Proposed(k)
        /\ cand' = [cand EXCEPT ![k] = y] /\ CandForm(cand[k])
    BY <1>2, SkillsHold DEF Reject
  <2>2. CandForm(y) /\ y.status = "rejected"
    BY ReviewedRow
  <2> HIDE DEF y
  <2>3. /\ cand' = [c \in Candidates |-> cand'[c]] /\ cand'[k] = y
        /\ \A c \in Candidates \ {k} : cand'[c] = cand[c]
    BY <2>1, SkillsHold
  <2>4. \A c \in Candidates : Proposed(c) => Proposed(c)'
    BY <2>2, <2>3 DEF Proposed
  <2>5. \A r \in Reviewers : ReviewForm(review'[r]) /\ ReviewFits(r)'
    BY <2>1, <2>4, ReviewsStay
  <2> QED BY <2>1, <2>2, <2>3, <2>4, <2>5, SkillsHold, SkillsKept
<1> QED BY <1>1, <1>2

\* A crash forgets the approvals under way; what they have landed stays.
LEMMA SkillsCrashStep ==
    ASSUME SkillsOK, SkillsCrash
    PROVE  SkillsOK'
<1>1. /\ review' = [r \in Reviewers |-> NoReview] /\ refusals' = {}
      /\ UNCHANGED <<cand, branch, disk>>
  BY DEF SkillsCrash
<1>2. review' = [r \in Reviewers |-> review'[r]] /\ \A r \in Reviewers : review'[r] = NoReview
  BY <1>1
<1>3. \A r \in Reviewers : ReviewForm(review'[r]) /\ ReviewFits(r)'
  BY <1>2 DEF ReviewForm, ReviewFits, Making, NoReview
<1> QED BY <1>1, <1>2, <1>3, SkillsHold, SkillsKept

\* The invariant of the reviews is inductive.
LEMMA SkillsNext ==
    ASSUME SkillsOK, [Next]_vars
    PROVE  SkillsOK'
<1>1. CASE SkillStep
  BY <1>1, ProposeStep, ApproveStep, AddWorktreeStep, CommitStep, UndoStep, MaterializeStep, MarkStep,
     WriteStep, RefuseSteps DEF SkillStep, ReviewStep
<1>2. CASE UNCHANGED skillVars
  BY <1>2 DEF skillVars, SkillsOK, SkillShapes, SkillsFit, ReviewFits, Making, Proposed
<1>3. CASE Crash
  BY <1>3, SkillsCrashStep DEF Crash
<1> QED BY <1>1, <1>2, <1>3 DEF Next, vars

\* What is approved, and whatever a turn in any repository loads, is on its landing branch.
THEOREM SkillsLanded == Spec => []SkillsAreLanded
<1>1. Init => SkillsOK
  <2> SUFFICES ASSUME Init PROVE SkillsOK
    OBVIOUS
  <2>1. SkillShapes
    BY DEF Init, SkillsInit, SkillShapes, CandForm, ReviewForm, Unproposed
  <2>2. SkillsFit
    BY DEF Init, SkillsInit, SkillsFit, ReviewFits, Making, NoReview
  <2> QED BY <2>1, <2>2 DEF SkillsOK
<1>2. SkillsOK /\ [Next]_vars => SkillsOK'
  BY SkillsNext
<1>3. Core /\ SkillsOK => SkillsAreLanded
  <2> SUFFICES ASSUME Core, SkillsOK PROVE SkillsAreLanded
    OBVIOUS
  <2>1. repo \in [Sessions -> Sessions]
    BY DEF Core, ForksOK, ForkShapes
  <2> QED BY <2>1 DEF SkillsOK, SkillsFit, SkillsAreLanded, Loaded
<1> QED BY <1>1, <1>2, <1>3, TurnsAndForks, PTL DEF Spec

-------------------------------------------------------------------------------
(* Questions *)

Within(p, q)  == \E i \in DOMAIN p : p[i] = q
InQueue(s, q) == Within(pending[s], q)

QuestionShapes ==
    /\ tool \in [Asking -> {"none", "posts", "waits", "returned", "killed"}]
    /\ asker \in [Asking -> Sessions \cup {"none"}]
    /\ opening \subseteq Asking /\ timer \subseteq Asking
    /\ pending \in [Sessions -> Seq(Asking)]
    /\ answer \in [Asking -> Sources \cup {"none"}] /\ heard \in [Asking -> Sources \cup {"none"}]
    /\ recording \subseteq Asking \X Sources

\* What an answer has gone through, and what keeps a question without one alive.
QuestionFits(q) ==
    /\ tool[q] = "none" => ~IsPending(q) /\ q \notin opening
    /\ tool[q] \in {"posts", "waits"} =>
          /\ asker[q] \in Sessions /\ turn[asker[q]].stage = "stream"
          /\ answer[q] # "none" \/ IsPending(q)
    /\ tool[q] = "posts" => q \in opening
    /\ tool[q] = "waits" => answer[q] # "none" \/ q \in timer
    /\ \A s \in Sessions : InQueue(s, q) => asker[q] = s
    /\ \A by \in Sources : <<q, by>> \in recording => answer[q] # "none"
    /\ answer[q] # "none" => <<q, answer[q]>> \in recording \cup shown
    /\ heard[q] # "none" => <<q, heard[q]>> \in recording \cup shown

QuestionsOK == QuestionShapes /\ \A q \in Asking : QuestionFits(q)

\* Popping a question takes no other away and brings none.
LEMMA PoppedQueue ==
    ASSUME NEW p \in Seq(Asking), NEW q
    PROVE  /\ Without(p, q) \in Seq(Asking)
           /\ \A x : /\ x # q /\ Within(p, x) => Within(Without(p, q), x)
                     /\ Within(Without(p, q), x) => Within(p, x)
<1> DEFINE at == {i \in DOMAIN p : p[i] = q}
<1>1. CASE at = {}
  BY <1>1 DEF Without
<1>2. CASE at # {}
  <2> DEFINE n == CHOOSE i \in at : TRUE
             a == SubSeq(p, 1, n - 1)  b == SubSeq(p, n + 1, Len(p))  w == a \o b
  <2>1. Without(p, q) = w
    BY <1>2 DEF Without
  <2>2. n \in 1 .. Len(p) /\ p[n] = q /\ Len(p) \in Nat
    BY <1>2
  <2> HIDE DEF n
  <2>3. /\ a \in Seq(Asking) /\ Len(a) = n - 1
        /\ \A i \in 1 .. n - 1 : a[i] = p[i]
    <3>1. \A i \in 1 .. n - 1 : p[i] \in Asking
      BY <2>2
    <3>2. 1 \in Int /\ n - 1 \in Int
      BY <2>2
    <3> QED BY <2>2, <3>1, <3>2, SubSeqProperties
  <2>4. /\ b \in Seq(Asking) /\ Len(b) = Len(p) - n
        /\ \A i \in 1 .. Len(p) - n : b[i] = p[n + i]
    <3>1. \A i \in n + 1 .. Len(p) : p[i] \in Asking
      BY <2>2
    <3>2. n + 1 \in Int /\ Len(p) \in Int
      BY <2>2
    <3>3. /\ b \in Seq(Asking) /\ Len(b) = (IF n + 1 <= Len(p) THEN Len(p) - (n + 1) + 1 ELSE 0)
          /\ \A i \in 1 .. Len(p) - (n + 1) + 1 : b[i] = p[(n + 1) + i - 1]
      BY <3>1, <3>2, SubSeqProperties
    <3> QED BY <2>2, <3>3
  <2> HIDE DEF a, b
  <2>5. /\ w \in Seq(Asking) /\ Len(w) = Len(p) - 1
        /\ \A i \in 1 .. Len(p) - 1 : w[i] = IF i <= n - 1 THEN a[i] ELSE b[i - (n - 1)]
    <3>1. /\ w \in Seq(Asking) /\ Len(w) = Len(a) + Len(b)
          /\ \A i \in 1 .. Len(a) + Len(b) : w[i] = IF i <= Len(a) THEN a[i] ELSE b[i - Len(a)]
      BY <2>3, <2>4, ConcatProperties
    <3>2. Len(a) + Len(b) = Len(p) - 1
      BY <2>2, <2>3, <2>4
    <3> QED BY <2>2, <2>3, <3>1, <3>2
  <2>6. \A i \in 1 .. Len(p) - 1 : w[i] = IF i < n THEN p[i] ELSE p[i + 1]
    <3> SUFFICES ASSUME NEW i \in 1 .. Len(p) - 1 PROVE w[i] = IF i < n THEN p[i] ELSE p[i + 1]
      OBVIOUS
    <3>1. CASE i < n
      BY <2>2, <2>3, <2>5, <3>1
    <3>2. CASE ~(i < n)
      <4>1. i - (n - 1) \in 1 .. Len(p) - n /\ n + (i - (n - 1)) = i + 1
        BY <2>2, <3>2
      <4> QED BY <2>2, <2>4, <2>5, <3>2, <4>1
    <3> QED BY <3>1, <3>2
  <2> HIDE DEF w
  <2>7. ASSUME NEW x, x # q, NEW i \in DOMAIN p, p[i] = x PROVE \E j \in DOMAIN w : w[j] = x
    <3>1. i \in 1 .. Len(p) /\ i # n
      BY <2>2, <2>7
    <3>2. CASE i < n
      <4>1. i \in 1 .. Len(p) - 1 /\ i \in DOMAIN w
        BY <2>2, <2>5, <3>1, <3>2
      <4> QED BY <2>6, <2>7, <3>2, <4>1
    <3>3. CASE i > n
      <4>1. i - 1 \in 1 .. Len(p) - 1 /\ i - 1 \in DOMAIN w /\ ~(i - 1 < n) /\ (i - 1) + 1 = i
        BY <2>2, <2>5, <3>1, <3>3
      <4> QED BY <2>6, <2>7, <4>1
    <3> QED BY <2>2, <3>1, <3>2, <3>3
  <2>8. ASSUME NEW x, NEW j \in DOMAIN w, w[j] = x PROVE \E i \in DOMAIN p : p[i] = x
    <3>1. j \in 1 .. Len(p) - 1
      BY <2>2, <2>5
    <3>2. j \in DOMAIN p /\ j + 1 \in DOMAIN p
      BY <2>2, <3>1
    <3> QED BY <2>6, <2>8, <3>1, <3>2
  <2> QED BY <2>1, <2>5, <2>7, <2>8 DEF Within
<1> QED BY <1>1, <1>2

\* IsPending in terms of the queues, and what a question without an answer still has.
LEMMA PendingIs ==
    /\ \A q : IsPending(q) <=> \E s \in Sessions : InQueue(s, q)
    /\ \A q : (IsPending(q) <=> \E s \in Sessions : InQueue(s, q))'
BY DEF IsPending, InQueue, Within

\* The invariant of the questions, part by part.
LEMMA QuestionsHold ==
    ASSUME QuestionsOK
    PROVE  QuestionShapes /\ \A q \in Asking : QuestionFits(q)
BY DEF QuestionsOK

\* A question is pending when its tool begins to post it.
LEMMA AsksStep ==
    ASSUME QuestionsOK, NEW s \in Sessions, NEW k \in Asking, Asks(s, k), UNCHANGED turn
    PROVE  QuestionsOK'
<1>1. /\ turn[s].stage = "stream" /\ tool[k] = "none"
      /\ tool' = [tool EXCEPT ![k] = "posts"] /\ asker' = [asker EXCEPT ![k] = s]
      /\ opening' = opening \cup {k} /\ pending' = [pending EXCEPT ![s] = Append(pending[s], k)]
      /\ UNCHANGED <<timer, answer, recording, shown, heard>>
  BY DEF Asks, At
<1>2. QuestionShapes /\ \A q \in Asking : QuestionFits(q)
  BY QuestionsHold
<1>3. pending[s] \in Seq(Asking) /\ Append(pending[s], k) \in Seq(Asking)
  BY <1>2 DEF QuestionShapes
<1>4. QuestionShapes'
  BY <1>1, <1>2, <1>3 DEF QuestionShapes
<1>5. /\ \A x \in Sessions : \A q \in Asking : InQueue(x, q)' <=> InQueue(x, q) \/ (x = s /\ q = k)
  <2> SUFFICES ASSUME NEW x \in Sessions, NEW q \in Asking
               PROVE  InQueue(x, q)' <=> InQueue(x, q) \/ (x = s /\ q = k)
    OBVIOUS
  <2>1. CASE x # s
    BY <1>1, <1>2, <2>1 DEF InQueue, QuestionShapes
  <2>2. CASE x = s
    <3> DEFINE p == pending[s]
    <3>1. pending'[x] = Append(p, k) /\ p \in Seq(Asking)
      BY <1>1, <1>2, <2>2 DEF QuestionShapes
    <3>2. /\ DOMAIN Append(p, k) = 1 .. Len(p) + 1 /\ DOMAIN p = 1 .. Len(p) /\ Len(p) \in Nat
          /\ Append(p, k)[Len(p) + 1] = k /\ \A i \in 1 .. Len(p) : Append(p, k)[i] = p[i]
      BY <3>1
    <3> HIDE DEF p
    <3>3. (\E i \in DOMAIN Append(p, k) : Append(p, k)[i] = q) <=> (\E i \in DOMAIN p : p[i] = q) \/ q = k
      BY <3>2
    <3> QED BY <2>2, <3>1, <3>3 DEF InQueue, Within, p
  <2> QED BY <2>1, <2>2
<1>6. ASSUME NEW q \in Asking PROVE QuestionFits(q)'
  <2>1. CASE q = k
    <3>1. /\ ~IsPending(k) /\ InQueue(s, k)' /\ \A x \in Sessions \ {s} : ~InQueue(x, k)'
      BY <1>1, <1>2, <1>5, PendingIs DEF QuestionFits
    <3>2. tool'[k] = "posts" /\ asker'[k] = s /\ k \in opening' /\ IsPending(k)'
      BY <1>1, <1>2, <3>1, PendingIs DEF QuestionShapes
    <3> QED BY <1>1, <1>2, <2>1, <3>1, <3>2 DEF QuestionFits
  <2>2. CASE q # k
    <3>1. tool'[q] = tool[q] /\ asker'[q] = asker[q] /\ (q \in opening' <=> q \in opening)
      BY <1>1, <1>2, <2>2 DEF QuestionShapes
    <3>2. /\ \A x \in Sessions : InQueue(x, q)' <=> InQueue(x, q)
          /\ IsPending(q)' <=> IsPending(q)
      BY <1>5, <2>2, PendingIs
    <3> QED BY <1>1, <1>2, <3>1, <3>2 DEF QuestionFits
  <2> QED BY <2>1, <2>2
<1> QED BY <1>4, <1>6 DEF QuestionsOK

\* No queue changes.
LEMMA QueuesStay ==
    ASSUME UNCHANGED pending
    PROVE  \A q : /\ IsPending(q)' <=> IsPending(q)
                  /\ \A s \in Sessions : InQueue(s, q)' <=> InQueue(s, q)
BY DEF IsPending, InQueue, Within

\* A tool polls only once its timer is there.
LEMMA OpensStep ==
    ASSUME QuestionsOK, NEW k \in Asking, Opens(k), UNCHANGED turn
    PROVE  QuestionsOK'
<1>1. /\ k \in opening /\ opening' = opening \ {k} /\ timer' = timer \cup {k}
      /\ tool' = [tool EXCEPT ![k] = IF tool[k] = "posts" THEN "waits" ELSE tool[k]]
      /\ UNCHANGED <<asker, pending, answer, recording, shown, heard>>
  BY DEF Opens
<1>2. QuestionShapes /\ \A q \in Asking : QuestionFits(q)
  BY QuestionsHold
<1>3. QuestionShapes'
  BY <1>1, <1>2 DEF QuestionShapes
<1>4. ASSUME NEW q \in Asking PROVE QuestionFits(q)'
  <2>1. /\ IsPending(q)' <=> IsPending(q)
        /\ \A s \in Sessions : InQueue(s, q)' <=> InQueue(s, q)
    BY <1>1, QueuesStay
  <2>2. CASE q = k
    <3>1. tool'[k] = (IF tool[k] = "posts" THEN "waits" ELSE tool[k]) /\ k \in timer' /\ k \notin opening'
      BY <1>1, <1>2 DEF QuestionShapes
    <3> QED BY <1>1, <1>2, <2>1, <2>2, <3>1 DEF QuestionFits
  <2>3. CASE q # k
    <3>1. tool'[q] = tool[q] /\ (q \in timer => q \in timer') /\ (q \in opening' <=> q \in opening)
      BY <1>1, <1>2, <2>3 DEF QuestionShapes
    <3> QED BY <1>1, <1>2, <2>1, <3>1 DEF QuestionFits
  <2> QED BY <2>2, <2>3
<1> QED BY <1>3, <1>4 DEF QuestionsOK

\* An answer is being recorded from the moment it is there.
LEMMA DeliversStep ==
    ASSUME QuestionsOK, NEW k \in Asking, NEW by \in Sources, Delivers(k, by), UNCHANGED turn
    PROVE  QuestionsOK'
<1>1. /\ timer' = timer \ {k} /\ answer' = [answer EXCEPT ![k] = by]
      /\ recording' = recording \cup {<<k, by>>}
      /\ UNCHANGED <<tool, asker, opening, pending, shown, heard>>
  BY DEF Delivers, TimerStopped
<1>2. QuestionShapes /\ \A q \in Asking : QuestionFits(q)
  BY QuestionsHold
<1>3. QuestionShapes'
  BY <1>1, <1>2 DEF QuestionShapes
<1>4. by # "none"
  BY DEF Sources
<1>5. ASSUME NEW q \in Asking PROVE QuestionFits(q)'
  <2>1. /\ IsPending(q)' <=> IsPending(q)
        /\ \A s \in Sessions : InQueue(s, q)' <=> InQueue(s, q)
    BY <1>1, QueuesStay
  <2>2. CASE q = k
    <3>1. answer'[k] = by /\ <<k, answer'[k]>> \in recording'
      BY <1>1, <1>2 DEF QuestionShapes
    <3> QED BY <1>1, <1>2, <1>4, <2>1, <2>2, <3>1 DEF QuestionFits
  <2>3. CASE q # k
    <3>1. /\ answer'[q] = answer[q] /\ (q \in timer => q \in timer')
          /\ \A x : <<q, x>> \in recording' <=> <<q, x>> \in recording
      BY <1>1, <1>2, <2>3 DEF QuestionShapes
    <3> QED BY <1>1, <1>2, <2>1, <3>1 DEF QuestionFits
  <2> QED BY <2>2, <2>3
<1> QED BY <1>3, <1>5 DEF QuestionsOK

\* A timer that finds its question answered has nothing more to keep.
LEMMA ExpiresStep ==
    ASSUME QuestionsOK, NEW k \in Asking, Expires(k), UNCHANGED turn
    PROVE  QuestionsOK'
<1>1. CASE IsPending(k)
  BY <1>1, DeliversStep DEF Expires, Sources
<1>2. CASE ~IsPending(k)
  <2>1. timer' = timer \ {k} /\ UNCHANGED <<tool, asker, opening, pending, answer, recording, shown, heard>>
    BY <1>2 DEF Expires, TimerStopped
  <2>2. QuestionShapes /\ \A q \in Asking : QuestionFits(q)
    BY QuestionsHold
  <2>3. QuestionShapes'
    BY <2>1, <2>2 DEF QuestionShapes
  <2>4. ASSUME NEW q \in Asking PROVE QuestionFits(q)'
    <3>1. /\ IsPending(q)' <=> IsPending(q)
          /\ \A s \in Sessions : InQueue(s, q)' <=> InQueue(s, q)
      BY <2>1, QueuesStay
    <3> QED BY <1>2, <2>1, <2>2, <3>1 DEF QuestionFits
  <2> QED BY <2>3, <2>4 DEF QuestionsOK
<1> QED BY <1>1, <1>2

\* The question leaves its queue only when its answer is there to be read.
LEMMA RecordsStep ==
    ASSUME QuestionsOK, NEW k \in Asking, NEW by \in Sources, Records(k, by), UNCHANGED turn
    PROVE  QuestionsOK'
<1>1. /\ <<k, by>> \in recording /\ recording' = recording \ {<<k, by>>}
      /\ shown' = shown \cup {<<k, by>>}
      /\ pending' = [pending EXCEPT ![asker[k]] = Without(pending[asker[k]], k)]
      /\ UNCHANGED <<tool, asker, opening, timer, answer, heard>>
  BY DEF Records
<1>2. QuestionShapes /\ \A q \in Asking : QuestionFits(q)
  BY QuestionsHold
<1>3. /\ pending' \in [Sessions -> Seq(Asking)]
      /\ \A s \in Sessions : pending'[s] = pending[s] \/ pending'[s] = Without(pending[s], k)
  BY <1>1, <1>2, PoppedQueue DEF QuestionShapes
<1>4. QuestionShapes'
  BY <1>1, <1>2, <1>3 DEF QuestionShapes
<1>5. \A s \in Sessions : \A q \in Asking : /\ InQueue(s, q)' => InQueue(s, q)
                                            /\ q # k /\ InQueue(s, q) => InQueue(s, q)'
  <2> SUFFICES ASSUME NEW s \in Sessions, NEW q \in Asking
               PROVE  /\ InQueue(s, q)' => InQueue(s, q)
                      /\ q # k /\ InQueue(s, q) => InQueue(s, q)'
    OBVIOUS
  <2>1. CASE pending'[s] = pending[s]
    BY <2>1 DEF InQueue
  <2>2. CASE pending'[s] = Without(pending[s], k)
    <3>1. pending[s] \in Seq(Asking)
      BY <1>2 DEF QuestionShapes
    <3>2. /\ q # k /\ Within(pending[s], q) => Within(Without(pending[s], k), q)
          /\ Within(Without(pending[s], k), q) => Within(pending[s], q)
      BY <3>1, PoppedQueue
    <3> QED BY <2>2, <3>2 DEF InQueue
  <2> QED BY <1>3, <2>1, <2>2
<1>6. \A x : x \in recording \cup shown => x \in recording' \cup shown'
  BY <1>1
<1>7. ASSUME NEW q \in Asking PROVE QuestionFits(q)'
  <2>1. /\ tool'[q] = tool[q] /\ asker'[q] = asker[q] /\ answer'[q] = answer[q]
        /\ heard'[q] = heard[q] /\ turn' = turn /\ opening' = opening /\ timer' = timer
    BY <1>1
  <2>2. IsPending(q)' => IsPending(q)
    BY <1>5, PendingIs
  <2>3. IsPending(q) => IsPending(q)' \/ answer[q] # "none"
    <3>1. CASE q = k
      BY <1>1, <1>2, <3>1 DEF QuestionFits
    <3>2. CASE q # k
      BY <1>5, <3>2, PendingIs
    <3> QED BY <3>1, <3>2
  <2>4. \A x \in Sources : <<q, x>> \in recording' => answer[q] # "none"
    BY <1>1, <1>2 DEF QuestionFits
  <2>5. /\ answer[q] # "none" => <<q, answer[q]>> \in recording' \cup shown'
        /\ heard[q] # "none" => <<q, heard[q]>> \in recording' \cup shown'
    BY <1>2, <1>6 DEF QuestionFits
  <2> QED BY <1>2, <1>5, <2>1, <2>2, <2>3, <2>4, <2>5 DEF QuestionFits
<1> QED BY <1>4, <1>7 DEF QuestionsOK

\* The model hears an answer that is recorded or shown.
LEMMA HearsStep ==
    ASSUME QuestionsOK, NEW k \in Asking, Hears(k), UNCHANGED turn
    PROVE  QuestionsOK'
<1>1. /\ tool[k] = "waits" /\ answer[k] # "none"
      /\ heard' = [heard EXCEPT ![k] = answer[k]] /\ tool' = [tool EXCEPT ![k] = "returned"]
      /\ UNCHANGED <<asker, opening, pending, timer, answer, recording, shown>>
  BY DEF Hears
<1>2. QuestionShapes /\ \A q \in Asking : QuestionFits(q)
  BY QuestionsHold
<1>3. QuestionShapes'
  BY <1>1, <1>2 DEF QuestionShapes
<1>4. ASSUME NEW q \in Asking PROVE QuestionFits(q)'
  <2>1. /\ IsPending(q)' <=> IsPending(q)
        /\ \A s \in Sessions : InQueue(s, q)' <=> InQueue(s, q)
    BY <1>1, QueuesStay
  <2>2. CASE q = k
    <3>1. tool'[k] = "returned" /\ heard'[k] = answer[k]
      BY <1>1, <1>2 DEF QuestionShapes
    <3> QED BY <1>1, <1>2, <2>1, <2>2, <3>1 DEF QuestionFits
  <2>3. CASE q # k
    <3>1. tool'[q] = tool[q] /\ heard'[q] = heard[q]
      BY <1>1, <1>2, <2>3 DEF QuestionShapes
    <3> QED BY <1>1, <1>2, <2>1, <3>1 DEF QuestionFits
  <2> QED BY <2>2, <2>3
<1> QED BY <1>3, <1>4 DEF QuestionsOK

\* Every step of a question keeps the invariant.
LEMMA QuestionStepOK ==
    ASSUME QuestionsOK, QuestionStep, UNCHANGED turn
    PROVE  QuestionsOK'
<1>1. ASSUME NEW k \in Asking, NEW by \in Sources,
             Opens(k) \/ Submits(k) \/ Expires(k) \/ Hears(k) \/ Records(k, by)
      PROVE  QuestionsOK'
  <2>1. Submits(k) => Delivers(k, "user") /\ "user" \in Sources
    BY DEF Submits, Sources
  <2> QED BY <1>1, <2>1, OpensStep, DeliversStep, ExpiresStep, HearsStep, RecordsStep
<1>2. ASSUME NEW s \in Sessions, Forwards(s) PROVE QuestionsOK'
  <2>1. pending[s] \in Seq(Asking) /\ pending[s] # <<>>
    BY <1>2, QuestionsHold DEF QuestionShapes, Forwards
  <2>2. Head(pending[s]) \in Asking /\ "caller" \in Sources
    BY <2>1 DEF Sources
  <2> QED BY <1>2, <2>2, DeliversStep DEF Forwards
<1>3. ASSUME NEW s \in Sessions, NEW k \in Asking, Asks(s, k) PROVE QuestionsOK'
  BY <1>3, AsksStep
<1>4. "user" \in Sources
  BY DEF Sources
<1> QED BY <1>1, <1>2, <1>3, <1>4 DEF QuestionStep

\* A step of a turn, a fork or the boot: the tool calls of backends that are gone are gone, and
\* a question goes only together with them.
LEMMA QuestionsUnder ==
    ASSUME QuestionsOK, ToolsEnd,
           \/ UNCHANGED <<pending, timer>>
           \/ \E gone \in SUBSET Sessions :
                 /\ pending' = [s \in Sessions |-> IF s \in gone THEN <<>> ELSE pending[s]]
                 /\ \A q \in timer : asker[q] \in Sessions \ gone => q \in timer'
                 /\ timer' \subseteq timer
                 /\ \A s \in gone : turn'[s].stage # "stream"
    PROVE  QuestionsOK'
<1>1. /\ tool' = [q \in Asking |-> IF tool[q] \in {"posts", "waits"} /\ turn'[asker[q]].stage # "stream"
                                   THEN "killed" ELSE tool[q]]
      /\ UNCHANGED <<asker, opening, answer, recording, shown, heard>>
  BY DEF ToolsEnd
<1>2. QuestionShapes /\ \A q \in Asking : QuestionFits(q)
  BY QuestionsHold
<1>3. PICK gone \in SUBSET Sessions :
         /\ pending' = [s \in Sessions |-> IF s \in gone THEN <<>> ELSE pending[s]]
         /\ \A q \in timer : asker[q] \in Sessions \ gone => q \in timer'
         /\ timer' \subseteq timer
         /\ \A s \in gone : turn'[s].stage # "stream"
  <2>1. CASE UNCHANGED <<pending, timer>>
    <3>1. {} \in SUBSET Sessions /\ pending' = [s \in Sessions |-> IF s \in {} THEN <<>> ELSE pending[s]]
      BY <1>2, <2>1 DEF QuestionShapes
    <3> QED BY <2>1, <3>1
  <2> QED BY <2>1
<1>4. pending' \in [Sessions -> Seq(Asking)]
  <2>1. <<>> \in Seq(Asking)
    OBVIOUS
  <2> QED BY <1>2, <1>3, <2>1 DEF QuestionShapes
<1>5. tool' \in [Asking -> {"none", "posts", "waits", "returned", "killed"}]
  BY <1>1, <1>2 DEF QuestionShapes
<1>6. QuestionShapes'
  BY <1>1, <1>2, <1>3, <1>4, <1>5 DEF QuestionShapes
<1>7. \A s \in Sessions : \A q \in Asking : /\ InQueue(s, q)' => InQueue(s, q)
                                            /\ s \notin gone /\ InQueue(s, q) => InQueue(s, q)'
  <2>1. \A q : ~Within(<<>>, q)
    BY DEF Within
  <2> QED BY <1>3, <2>1 DEF InQueue
<1>8. ASSUME NEW q \in Asking PROVE QuestionFits(q)'
  <2>1. IsPending(q)' => IsPending(q)
    BY <1>7, PendingIs
  <2>2. ASSUME tool'[q] \in {"posts", "waits"}
        PROVE  /\ tool'[q] = tool[q] /\ asker[q] \in Sessions /\ turn'[asker[q]].stage = "stream"
               /\ asker[q] \notin gone
    BY <1>1, <1>2, <1>3, <2>2 DEF QuestionFits
  <2>3. ASSUME tool'[q] \in {"posts", "waits"} PROVE answer[q] # "none" \/ IsPending(q)'
    <3>1. answer[q] # "none" \/ (\E s \in Sessions : InQueue(s, q))
      BY <1>2, <2>2, <2>3, PendingIs DEF QuestionFits
    <3>2. \A s \in Sessions : InQueue(s, q) => s = asker[q]
      BY <1>2 DEF QuestionFits
    <3> QED BY <1>7, <2>2, <2>3, <3>1, <3>2, PendingIs
  <2>4. ASSUME tool'[q] = "waits" PROVE answer[q] # "none" \/ q \in timer'
    <3>1. tool[q] = "waits" /\ asker[q] \in Sessions \ gone
      BY <2>2, <2>4
    <3> QED BY <1>2, <1>3, <3>1 DEF QuestionFits
  <2>5. tool'[q] = "none" => tool[q] = "none"
    BY <1>1
  <2> QED BY <1>1, <1>2, <1>7, <2>1, <2>2, <2>3, <2>4, <2>5 DEF QuestionFits
<1> QED BY <1>6, <1>8 DEF QuestionsOK

\* The invariant of the questions is inductive, given that of turns and sagas.
LEMMA QuestionsNext ==
    ASSUME Core, Core', QuestionsOK, [Next]_vars
    PROVE  QuestionsOK'
<1>1. ASSUME NEW s \in Sessions, Turns(s) PROVE QuestionsOK'
  <2>1. CASE Ask(s) /\ UNCHANGED questionVars
    <3>1. \A x \in Sessions : turn[x].stage = "stream" => turn'[x] = turn[x]
      <4>1. turn' = turn \/ (Idle(s) /\ \E t : turn' = [turn EXCEPT ![s] = t])
        BY <2>1 DEF Ask, Begin
      <4>2. Idle(s) => turn[s].stage # "stream"
        BY DEF Idle, NoTurn
      <4>3. turn = [x \in Sessions |-> turn[x]]
        BY DEF Core, TurnsOK, TurnShapes
      <4> QED BY <4>1, <4>2, <4>3
    <3>2. UNCHANGED <<tool, asker, opening, pending, timer, answer, recording, shown, heard>>
      BY <2>1 DEF questionVars
    <3>3. QuestionShapes'
      BY <3>2 DEF QuestionsOK, QuestionShapes
    <3>4. ASSUME NEW q \in Asking PROVE QuestionFits(q)'
      <4>1. /\ IsPending(q)' <=> IsPending(q)
            /\ \A x \in Sessions : InQueue(x, q)' <=> InQueue(x, q)
        BY <3>2, QueuesStay
      <4>2. QuestionFits(q)
        BY QuestionsHold
      <4> QED BY <3>1, <3>2, <4>1, <4>2 DEF QuestionFits
    <3> QED BY <3>3, <3>4 DEF QuestionsOK
  <2>2. CASE TurnStep(s) /\ ToolsEnd /\ UNCHANGED <<pending, timer>>
    BY <2>2, QuestionsUnder
  <2>3. CASE Interrupt(s) /\ ToolsEnd /\ Withdrawn(s)
    <3>1. turn'[s].stage # "stream"
      <4>1. turn'[s] = NoTurn \/ \E p, c, r : turn'[s] = Opened(p, c, r)
        BY <2>3 DEF Interrupt, Ends, Begin, Core, TurnsOK, TurnShapes
      <4>2. NoTurn.stage # "stream" /\ \A p, c, r : Opened(p, c, r).stage # "stream"
        BY DEF NoTurn, Opened
      <4> QED BY <4>1, <4>2
    <3>2. /\ pending' = [pending EXCEPT ![s] = <<>>] /\ timer' = {q \in timer : asker[q] # s}
      BY <2>3 DEF Withdrawn
    <3>3. pending' = [x \in Sessions |-> IF x \in {s} THEN <<>> ELSE pending[x]]
      BY <3>2 DEF QuestionsOK, QuestionShapes
    <3>4. /\ \A q \in timer : asker[q] \in Sessions \ {s} => q \in timer'
          /\ timer' \subseteq timer
      BY <3>2
    <3> QED BY <2>3, <3>1, <3>3, <3>4, QuestionsUnder
  <2> QED BY <1>1, <2>1, <2>2, <2>3 DEF Turns
<1>2. CASE Evicted
  <2> DEFINE gone == {s \in Sessions : ~mem'[s]}
  <2>1. ToolsEnd /\ timer' \subseteq timer
        /\ pending' = [s \in Sessions |-> IF s \in gone THEN <<>> ELSE pending[s]]
    BY <1>2 DEF Evicted
  <2>2. \A q \in timer : asker[q] \in Sessions \ gone => q \in timer'
    BY <1>2 DEF Evicted
  <2>3. \A s \in gone : turn'[s].stage # "stream"
    <3>1. \A s \in Sessions : turn'[s] = NoTurn \/ mem'[s]
      BY DEF Core, TurnsOK, TurnsFit, SessionFits, Idle
    <3> QED BY <3>1 DEF NoTurn
  <2> HIDE DEF gone
  <2>4. gone \in SUBSET Sessions
    BY DEF gone
  <2> QED BY <2>1, <2>2, <2>3, <2>4, QuestionsUnder
<1>3. CASE QuestionStep /\ UNCHANGED <<rowVars, turnVars, forkVars, skillVars>>
  BY <1>3, QuestionStepOK DEF turnVars
<1>4. CASE UNCHANGED <<turnVars, questionVars>>
  <2>1. /\ turn' = turn
        /\ UNCHANGED <<tool, asker, opening, pending, timer, answer, recording, shown, heard>>
    BY <1>4 DEF turnVars, questionVars
  <2> QED BY <2>1, QueuesStay DEF QuestionsOK, QuestionShapes, QuestionFits
<1>5. CASE Crash
  <2>1. QuestionsCrash
    BY <1>5 DEF Crash
  <2>2. QuestionShapes'
    <3>1. <<>> \in Seq(Asking)
      OBVIOUS
    <3> QED BY <2>1, <3>1 DEF QuestionsCrash, QuestionsOK, QuestionShapes
  <2>3. ASSUME NEW q \in Asking PROVE QuestionFits(q)'
    <3>1. /\ tool'[q] \in {"none", "killed"} /\ q \notin opening' /\ recording' = {}
          /\ answer'[q] = "none" /\ heard'[q] = "none" /\ \A s \in Sessions : ~InQueue(s, q)'
      BY <2>1 DEF QuestionsCrash, InQueue, Within
    <3> QED BY <3>1, PendingIs DEF QuestionFits
  <2> QED BY <2>2, <2>3 DEF QuestionsOK
<1>6. SkillStep /\ UNCHANGED questionVars => UNCHANGED <<turnVars, questionVars>>
  BY SkillStepEffect
<1> QED BY <1>1, <1>2, <1>3, <1>4, <1>5, <1>6 DEF Next, vars

\* A tool call that waits has its answer or a way to get one, from a person and from the clock,
\* and what the model heard is in the transcript or about to be.
THEOREM QuestionsAnswered == Spec => []QuestionsAreAnswered
<1>1. Init => QuestionsOK
  <2> SUFFICES ASSUME Init PROVE QuestionsOK
    OBVIOUS
  <2>1. <<>> \in Seq(Asking)
    OBVIOUS
  <2>2. QuestionShapes
    BY <2>1 DEF Init, QuestionsInit, QuestionShapes
  <2>3. ASSUME NEW q \in Asking PROVE QuestionFits(q)
    BY PendingIs DEF Init, QuestionsInit, QuestionFits, InQueue, Within
  <2> QED BY <2>2, <2>3 DEF QuestionsOK
<1>2. Core /\ Core' /\ QuestionsOK /\ [Next]_vars => QuestionsOK'
  BY QuestionsNext
<1>3. QuestionsOK => QuestionsAreAnswered
  BY DEF QuestionsOK, QuestionFits, QuestionsAreAnswered
<1> QED BY <1>1, <1>2, <1>3, TurnsAndForks, PTL DEF Spec
===============================================================================
