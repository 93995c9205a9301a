------------------------------ MODULE Background ------------------------------
(***************************************************************************)
(* Delegations and background work in one process: they share sessions,    *)
(* drivers and the outbox, and a boot recovers them in a fixed order with  *)
(* the dispatch of injections paused (lifespan in server/main.py).         *)
(***************************************************************************)
EXTENDS Delegations, BackgroundWork

vars == <<worldVars, delVars, workVars>>

Init == WorldInit /\ DelegationsInit /\ WorkInit

\* What dies with the process: drivers, queues, claims, records and coroutines.
Forget ==
    /\ drv' = [s \in Sessions |-> "none"]
    /\ queue' = [s \in Sessions |-> <<>>] /\ hide' = [s \in Sessions |-> FALSE]
    /\ asked' = [s \in Sessions |-> FALSE] /\ claimed' = {}
    /\ rec' = [r \in Rounds |-> "none"] /\ latest' = [s \in Kids |-> 0]
    /\ call' = [r \in Rounds |-> NoCall] /\ fin' = [r \in Rounds |-> NoFin]
    /\ stop' = [s \in Kids |-> FALSE]
    /\ fate' = [r \in Rounds |-> IF fate[r] = "refused" THEN "refused" ELSE "none"]
    /\ task' = [b \in Commands |-> "none"] /\ wish' = [b \in Commands |-> FALSE]
    /\ late' = [b \in Commands |-> FALSE]
    /\ stage' = [j \in Jobs |-> "none"] /\ verdict' = [j \in Jobs |-> "none"]
    /\ quit' = [j \in Jobs |-> "none"]

\* The end of the process: at any moment, or of a shutdown that has paused dispatch.
Crash ==
    /\ phase # "down" /\ Pay(FaultCost)
    /\ phase' = "down" /\ Forget
    /\ proc' = [b \in Commands |-> IF proc[b] = "alive" THEN "alive" ELSE "none"]
    /\ UNCHANGED <<sess, parent, parked, outbox, ledger, home, bg, job>>

Stop ==
    /\ phase = "up" /\ Pay(FaultCost) /\ phase' = "stopping"
    /\ UNCHANGED <<sess, parent, drv, queue, hide, parked, asked, outbox, claimed, delVars, workVars>>

Exits ==
    /\ phase = "stopping" /\ phase' = "down" /\ Forget
    /\ proc' = [b \in Commands |-> IF proc[b] = "alive" THEN "alive" ELSE "none"]
    /\ UNCHANGED <<sess, parent, parked, outbox, spent, ledger, home, bg, job>>

\* The boot: each stage ends when it has no row left to look at.
Stage(from, to) == phase = from /\ phase' = to

BootOther == <<sess, parent, drv, queue, hide, parked, asked, outbox, claimed, spent, delVars>>

BootCommands ==
    /\ Stage("down", "bg") /\ bg' = MarkedCommands
    /\ UNCHANGED <<BootOther, home, proc, task, wish, late, jobVars>>

BootJobs ==
    /\ Stage("bg", "research") /\ UntoldCommands = {} /\ job' = MarkedJobs
    /\ UNCHANGED <<BootOther, home, commandVars, stage, verdict, quit>>

BootNext ==
    /\ \/ Stage("research", "rounds") /\ UntoldJobs = {}
       \/ Stage("rounds", "tell") /\ ~RoundsToRecover
       \/ Stage("tell", "materialize") /\ Untold = {}
       \/ Stage("materialize", "archive") /\ ToMaterialize = {}
       \/ Stage("archive", "up") /\ \A s \in Kids : sess[s] # "live"
    /\ UNCHANGED <<BootOther, workVars>>

WorldNext ==
    /\ \/ \E k \in Keys : Dispatch(k)
       \/ \E s \in Sessions : \/ (s \in Kids => ~Handling(s)) /\ NextPrompt(s)
                              \/ DriverEnds(s)
       \/ \E s \in Kids : Wakes(s)
       \/ RootTurnEnds
    /\ UNCHANGED <<delVars, workVars>>

Next ==
    \/ WorldNext
    \/ DelegationsNext /\ UNCHANGED workVars
    \/ WorkNext /\ UNCHANGED delVars
    \/ Crash \/ Stop \/ Exits \/ BootCommands \/ BootJobs \/ BootNext

Spec == Init /\ [][Next]_vars

-------------------------------------------------------------------------------
TypeOK == WorldOK /\ DelegationsOK /\ WorkOK

\* What a caller reads is what the ledger says (_inject_terminal reads the record,
\* recovery reads the row): an [agent-reply] is only ever stored for a round that
\* completed, and a completed round is told as an error only if its start_message
\* raised after the turn of an earlier prompt had ended it.
ReplyIsTrue ==
    \A r \in Rounds : IsTold(r) =>
        /\ ledger[r] \in Terminal
        /\ outbox[Told(r)].says = "reply" => ledger[r] = "completed"
        /\ ledger[r] = "completed" => outbox[Told(r)].says = "reply" \/ fate[r] = "refused"

\* A round that the manager believes running in a live session will be heard of
\* (_on_broadcast has no other source): the call that starts it, a turn, a parked
\* one, a queue that the session's driver still looks at, or an interrupt that is not
\* broadcast yet is there to end it.
InHands(s) ==
    \/ drv[s] = "turn" \/ parked[s]
    \/ drv[s] = "over" /\ queue[s] # <<>>
    \/ stop[s] \/ \E r \in Rounds : r[1] = s /\ fin[r].step = "error"

\* The two exceptions: the request was accepted while the driver awaited its idle
\* hook and lies in a queue nobody looks at, or a person gave up the parked turn.
\* Such a round runs until it is cancelled, or until another prompt gets a turn.
RunningIsHeld ==
    Up => \A s \in Kids : Heard(s) /\ sess[s] = "live" =>
        \/ call[Current(s)] # NoCall \/ InHands(s)
        \/ fate[Current(s)] = "stranded" /\ \E i \in DOMAIN queue[s] : queue[s][i] = Ask(Current(s))
        \/ fate[Current(s)] = "dropped"

\* While the process serves, a round that has ended has its prompt for the caller,
\* or the handler that ended it is still on the way there; the exception is a handler
\* that was cut off with the turn it ran in, which the next boot repairs.
RoundIsTold ==
    Up => \A r \in Rounds : ledger[r] \in Terminal =>
        \/ outbox[Told(r)].status # "none"
        \/ fin[r].step # "none" \/ call[r] \in {"refuse", "refuseTell"}

\* A command whose row has ended has its result in the outbox or on the way, and one
\* whose row is running has a coroutine that will end it.
CommandIsTold ==
    Up => \A b \in Commands :
        /\ Ended(bg[b]) => outbox[Result(b)].status # "none" \/ task[b] = "recorded"
        /\ bg[b] = "running" => task[b] \in {"running", "drained"}

\* Whoever asked for a round or a command hears of its end.
EndsAreTold == RoundIsTold /\ CommandIsTold

\* Once a boot serves, wherever the last process and earlier boots died: no row still
\* runs, every end of a round, a command or a completed report has its prompt, and the
\* interrupted children are archived with nothing pending for them that a model would
\* be woken for.
RecoveryIsComplete ==
    [][phase' = "up" /\ phase # "up" =>
         /\ \A r \in Rounds : /\ ledger[r] # "running"
                              /\ ledger[r] \in Terminal => outbox[Told(r)].status # "none"
         /\ \A s \in Kids : sess[s] # "none" => sess[s] = "archived"
         /\ \A k \in Keys : Waiting(k) => outbox[k].to = Root \/ sess[outbox[k].to] = "archived"
         /\ \A b \in Commands : bg[b] # "running" /\ (Ended(bg[b]) => outbox[Result(b)].status # "none")
         /\ \A j \in Jobs : job[j] # "running" /\ (job[j] = "completed" => outbox[Report(j)].status # "none")
      ]_vars
===============================================================================
