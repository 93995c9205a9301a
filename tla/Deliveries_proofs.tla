-------------------------- MODULE Deliveries_proofs --------------------------
(***************************************************************************)
(* What holds of Deliveries for every start, every number of requests and  *)
(* operations and every budget of faults: the status of a delivery says    *)
(* who works on it and what Git and the platform hold, a settled one is    *)
(* told, and a teardown takes nobody's work.  The invariant has one part   *)
(* per concern (types, who runs, what happened, who works, who captures,   *)
(* what is told); one lemma per action shows that it keeps all of them,    *)
(* the requests that only move on by way of CallMoves.                     *)
(***************************************************************************)
EXTENDS Deliveries, TLAPS

--------------------------------------------------------------------------------
(* Shapes of the records. *)

Kinds     == GoalKinds \cup Teardowns
Reasons   == {"none", "base_ambiguous", "workspace_gone_no_effect", "op_failed", "conflict", "interrupted"}
Keys      == OpIds \cup {Unscoped}
Opening   == {"start", "resolve", "begin", "retain", "branch", "snapshot"}
CallSteps == Opening \cup {"idle", "capture", "execute", "finish", "settled", "publish", "done"}
CallShape == [pc : CallSteps, kind : Kinds \cup {"none"}, op : Keys, pushed : BOOLEAN,
              policy : Retentions, dirtyOk : BOOLEAN, loseOk : BOOLEAN,
              res : {"none", "ok", "error", "conflict"}, status : Statuses]
Results   == {"ok", "error", "conflict"}
OpShape   == [kind : Kinds, state : OpStates]
GitShape  == [tree : {"none", "clean", "dirty"}, branch : Nat \cup {NoBranch},
              remote : Nat \cup {NoBranch}, merged : Nat, pr : BOOLEAN]

(***************************************************************************)
(* The inductive invariant.                                                *)
(***************************************************************************)
RowShapes ==
    /\ del \in [status : Statuses, reason : Reasons, base : BOOLEAN, dirty : BOOLEAN,
                ahead : BOOLEAN, pushed : BOOLEAN, pr : BOOLEAN]
    /\ ops \in Seq([kind : Kinds, state : OpStates]) /\ Len(ops) <= MaxOps
    /\ last \in [succeeded : Keys, failed : Keys]
    /\ git \in [tree : {"none", "clean", "dirty"}, branch : Nat \cup {NoBranch},
                remote : Nat \cup {NoBranch}, merged : Nat, pr : BOOLEAN]

OtherShapes ==
    /\ calls \in [Calls -> CallShape]
    /\ notes \in [Keys -> Statuses \cup {"erased"}]
    /\ gone \in BOOLEAN /\ unavail \in BOOLEAN /\ missed \in BOOLEAN
    /\ phase \in {"up", "down", "boot"}
    /\ rec \in [pc : {"done", "list", "record", "notify"}, op : Keys, status : Statuses]
    /\ faults \in Nat

\* At most one operation runs, and a goal operation exactly while the row says so.
OneRuns ==
    /\ \A o, p \in Running(ops) : o = p
    /\ del.status = "delivering" <=> \E o \in Running(ops) : ops[o].kind \in GoalKinds
    /\ phase = "boot" => Running(ops) = {} /\ del.status # "preparing"

\* What the row and its operations say has happened.
Evidence ==
    /\ del.pushed => git.remote # NoBranch /\ Succeeded("push")
    /\ del.pr => git.pr /\ Succeeded("pull_request") /\ last.succeeded # Unscoped
    /\ rec.pc = "record" => git.pr
    /\ \A w \in {"succeeded", "failed"} : last[w] # Unscoped =>
         last[w] \in DOMAIN ops /\ ops[last[w]].state = w /\ ops[last[w]].kind \in GoalKinds
    /\ \A o \in DOMAIN ops : ops[o].kind \in GoalKinds => del.base
    /\ del.status = "delivered" =>
         /\ last.succeeded # Unscoped
         /\ ops[last.succeeded].kind \in External \/ del.pr
         /\ \E k \in External : Succeeded(k)

Works(c) == calls[c].pc \in {"execute", "finish"}

\* Every operation that runs has one request that works on it, but for the escaped one.
Workers ==
    /\ \A c \in Calls : Works(c) => /\ calls[c].op \in Running(ops)
                                    /\ calls[c].kind = ops[calls[c].op].kind
    /\ \A c, d \in Calls : Works(c) /\ Works(d) => c = d
    /\ Up => \A o \in Running(ops) :
                ops[o].kind = "pull_request" \/ \E c \in Calls : Works(c) /\ calls[c].op = o
    /\ \A c \in Calls : calls[c].pc = "begin" => calls[c].kind \in GoalKinds /\ del.base
    /\ \A c \in Calls : calls[c].pc = "finish" /\ calls[c].res = "ok" =>
         /\ calls[c].kind = "push" => git.remote # NoBranch
         /\ calls[c].kind = "pull_request" => git.pr
    /\ \A c \in Calls : calls[c].pc = "finish" => calls[c].res # "none"
    /\ ~Up => \A c \in Calls : calls[c].pc \in {"idle", "done"}

\* One request captures the baseline while the row says so.
Capturers ==
    /\ \A c \in Calls : calls[c].pc = "capture" => del.status = "preparing"
    /\ \A c, d \in Calls : calls[c].pc = "capture" /\ calls[d].pc = "capture" => c = d
    /\ Up /\ del.status = "preparing" => faults > 0 \/ \E c \in Calls : calls[c].pc = "capture"

\* A key was used, or somebody is about to use it.
Teller(c, k) == calls[c].pc \in {"settled", "publish"} /\ calls[c].op = k /\ calls[c].status \in Terminal
Told(k) ==
    \/ notes[k] # "none" \/ \E c \in Calls : Teller(c, k)
    \/ rec.pc = "notify" /\ rec.op = k /\ rec.status \in Terminal
Telling ==
    Up /\ ~missed /\ del.status \in Terminal =>
        Told(Picked) \/ unavail \/ (del.status = "failed" /\ Told(Unscoped))

Invariant == RowShapes /\ OtherShapes /\ OneRuns /\ Evidence /\ Workers /\ Capturers /\ Telling

(***************************************************************************)
(* Steps of a call that touch nothing but the call.                        *)
(***************************************************************************)
\* A replaced entry: the others stay.
LEMMA CallPut ==
    ASSUME calls \in [Calls -> CallShape], NEW c \in Calls, NEW r \in CallShape,
           calls' = [calls EXCEPT ![c] = r]
    PROVE  /\ calls' \in [Calls -> CallShape]
           /\ calls'[c] = r
           /\ \A d \in Calls : d # c => calls'[d] = calls[d]
  OBVIOUS

\* A request that neither works nor captures nor tells moves to a step that neither works nor
\* captures.
LEMMA CallMoves ==
    ASSUME Invariant, NEW c \in Calls, NEW r \in CallShape, calls' = [calls EXCEPT ![c] = r],
           Up, UNCHANGED <<rows, git, told, gone, phase, rec>>,
           faults' \in Nat, faults' >= faults,
           calls[c].pc \in Opening \cup {"idle"},
           r.pc \in Opening \cup {"settled", "publish", "done"},
           r.pc = "begin" => r.kind \in GoalKinds /\ del.base
    PROVE  Invariant'
<1> USE DEF Invariant, Up, rows, told
<1>1. /\ calls' \in [Calls -> CallShape]
      /\ calls'[c] = r
      /\ \A d \in Calls : d # c => calls'[d] = calls[d]
  BY CallPut DEF OtherShapes
<1>2. RowShapes'
  BY DEF RowShapes
<1>3. OtherShapes'
  BY <1>1 DEF OtherShapes
<1>4. OneRuns'
  BY DEF OneRuns, Running
<1>5. Evidence'
  BY DEF Evidence, Succeeded
<1>6. \A d \in Calls : (Works(d) => d # c) /\ (Works(d)' => d # c)
  BY <1>1 DEF Works, Opening
<1>7. \A d \in Calls : Works(d)' <=> Works(d)
  BY <1>1, <1>6 DEF Works
<1>8. Workers'
  BY <1>1, <1>6, <1>7 DEF Workers, Running, Works, Opening
<1>9. Capturers'
  BY <1>1 DEF Capturers, OtherShapes, Opening
<1>10. \A k : Told(k) => Told(k)'
  BY <1>1 DEF Told, Teller, Opening
<1>11. Telling'
  BY <1>10 DEF Telling, Picked
<1> QED BY <1>2, <1>3, <1>4, <1>5, <1>8, <1>9, <1>11

\* What Go and End put is a call.
LEMMA CallShapes ==
    ASSUME calls \in [Calls -> CallShape], NEW c \in Calls
    PROVE  /\ Idle \in CallShape /\ Done \in CallShape /\ Done.pc = "done"
           /\ calls[c] \in CallShape
           /\ \A p \in CallSteps : [calls[c] EXCEPT !.pc = p] \in CallShape
<1>1. Idle \in CallShape
  BY BoundsAssumption
     DEF Idle, CallShape, CallSteps, Opening, Keys, OpIds, Unscoped, Statuses, Terminal, Retentions
<1>2. calls[c] \in CallShape
  OBVIOUS
<1>3. \A r \in CallShape : \A p \in CallSteps : [r EXCEPT !.pc = p] \in CallShape /\ [r EXCEPT !.pc = p].pc = p
  BY DEF CallShape
<1>4. "done" \in CallSteps
  BY DEF CallSteps
<1> QED BY <1>1, <1>2, <1>3, <1>4 DEF Done

\* A request that the closed gate, the row or its own checks refuse.
LEMMA RefusedStep ==
    ASSUME Invariant, NEW c \in Calls, Up, End(c), calls[c].pc \in Opening,
           UNCHANGED <<rows, git, told, gone, phase, rec>>, faults' \in Nat, faults' >= faults
    PROVE  Invariant'
<1>1. calls \in [Calls -> CallShape]
  BY DEF Invariant, OtherShapes
<1> QED BY <1>1, CallShapes, CallMoves DEF End

\* A request for a goal operation has read the row and asked nothing else yet.
LEMMA DeliverOpStep ==
    ASSUME Invariant, NEW c \in Calls, NEW k \in GoalKinds, DeliverOp(c, k)
    PROVE  Invariant'
<1> DEFINE r == [calls[c] EXCEPT !.pc = "begin", !.kind = k]
<1>1. calls \in [Calls -> CallShape] /\ faults \in Nat
  BY DEF Invariant, OtherShapes
<1>2. r \in CallShape /\ r.pc = "begin" /\ r.kind = k
  <2>1. "begin" \in CallSteps /\ k \in Kinds
    BY DEF CallSteps, Opening, Kinds
  <2>2. calls[c] \in CallShape
    BY <1>1
  <2> QED BY <2>1, <2>2 DEF CallShape
<1>3. calls' = [calls EXCEPT ![c] = r]
  BY <1>1 DEF DeliverOp
<1> HIDE DEF r
<1>4. Up /\ calls[c].pc \in Opening \cup {"idle"} /\ del.base
  BY DEF DeliverOp, Asked
<1>5. UNCHANGED <<rows, git, told, gone, phase, rec>>
  BY DEF DeliverOp
<1>6. faults' \in Nat /\ faults' >= faults
  BY <1>1 DEF DeliverOp
<1>7. r.pc \in Opening
  BY <1>2 DEF Opening
<1> QED BY <1>2, <1>3, <1>4, <1>5, <1>6, <1>7, CallMoves

\* A request for a teardown starts with its retention.
LEMMA TeardownStep ==
    ASSUME Invariant, NEW c \in Calls, NEW p \in Retentions, NEW d \in BOOLEAN, NEW l \in BOOLEAN,
           Teardown(c, p, d, l)
    PROVE  Invariant'
<1> DEFINE r == [Idle EXCEPT !.pc = "retain", !.policy = p, !.dirtyOk = d, !.loseOk = l]
<1>1. calls \in [Calls -> CallShape] /\ faults \in Nat
  BY DEF Invariant, OtherShapes
<1>2. r \in CallShape /\ r.pc = "retain"
  BY <1>1, BoundsAssumption
     DEF CallShape, CallSteps, Opening, Kinds, Idle, Keys, OpIds, Unscoped, Statuses, Terminal
<1>3. calls' = [calls EXCEPT ![c] = r]
  BY <1>1 DEF Teardown
<1> HIDE DEF r
<1>4. Up /\ calls[c].pc \in Opening \cup {"idle"}
  BY DEF Teardown, Opening
<1>5. UNCHANGED <<rows, git, told, gone, phase, rec>>
  BY DEF Teardown
<1>6. faults' \in Nat /\ faults' >= faults
  BY <1>1 DEF Teardown
<1>7. r.pc \in Opening \cup {"settled"} /\ r.pc # "begin"
  BY <1>2 DEF Opening
<1> QED BY <1>2, <1>3, <1>4, <1>5, <1>6, <1>7, CallMoves

\* A closed gate ends the request and touches nothing.
LEMMA GateClosedStep ==
    ASSUME Invariant, NEW c \in Calls, GateClosed(c)
    PROVE  Invariant'
<1>1. faults \in Nat
  BY DEF Invariant, OtherShapes
<1>2. faults' \in Nat /\ faults' >= faults
  BY <1>1 DEF GateClosed, Fault
<1> QED BY <1>2, RefusedStep DEF GateClosed, Opening

\* What the last operation of either outcome was.
LEMMA PickedIs ==
    ASSUME RowShapes
    PROVE  Picked \in Keys
  BY DEF RowShapes, Picked

\* A teardown that is over takes the row and its key to tell them again.
LEMMA TerminalSnapshotStep ==
    ASSUME Invariant, NEW c \in Calls, TerminalSnapshot(c)
    PROVE  Invariant'
<1> DEFINE r == [calls[c] EXCEPT !.pc = "settled", !.status = del.status, !.op = Picked]
<1>1. calls \in [Calls -> CallShape] /\ faults \in Nat /\ del.status \in Statuses /\ Picked \in Keys
  BY PickedIs DEF Invariant, OtherShapes, RowShapes
<1>2. r \in CallShape /\ r.pc = "settled"
  <2>1. "settled" \in CallSteps
    BY DEF CallSteps
  <2>2. calls[c] \in CallShape
    BY <1>1
  <2> QED BY <1>1, <2>1, <2>2 DEF CallShape
<1>3. calls' = [calls EXCEPT ![c] = r]
  BY <1>1 DEF TerminalSnapshot
<1> HIDE DEF r
<1>4. Up /\ calls[c].pc \in Opening \cup {"idle"}
  BY DEF TerminalSnapshot, At, Opening
<1>5. UNCHANGED <<rows, git, told, gone, phase, rec>>
  BY DEF TerminalSnapshot
<1>6. faults' \in Nat /\ faults' >= faults
  BY <1>1 DEF TerminalSnapshot
<1>7. r.pc \in Opening \cup {"settled"} /\ r.pc # "begin"
  BY <1>2 DEF Opening
<1> QED BY <1>2, <1>3, <1>4, <1>5, <1>6, <1>7, CallMoves

(***************************************************************************)
(* Accepting.                                                              *)
(***************************************************************************)
\* The row moves outside the operations while c moves; the caller answers for the baseline and
\* for what is told.
LEMMA RowMoves ==
    ASSUME Invariant, NEW c \in Calls, NEW r \in CallShape, calls' = [calls EXCEPT ![c] = r],
           Up, UNCHANGED <<ops, last, git, told, gone, phase, rec, faults>>, RowShapes',
           ~Works(c), r.pc \in {"start", "resolve", "capture", "settled", "done"},
           del.status # "delivering", del'.status \notin {"delivering", "delivered"},
           del'.pushed = del.pushed, del'.pr = del.pr, del.base => del'.base,
           Capturers', Telling'
    PROVE  Invariant'
<1> USE DEF Invariant, Up, told
<1>1. /\ calls' \in [Calls -> CallShape]
      /\ calls'[c] = r
      /\ \A d \in Calls : d # c => calls'[d] = calls[d]
  BY CallPut DEF OtherShapes
<1>3. OtherShapes'
  BY <1>1 DEF OtherShapes
<1>4. OneRuns'
  BY DEF OneRuns, Running
<1>5. Evidence'
  BY DEF Evidence, Succeeded, RowShapes
<1>6. \A d \in Calls : (Works(d) => d # c) /\ (Works(d)' => d # c)
  BY <1>1 DEF Works
<1>7. \A d \in Calls : Works(d)' <=> Works(d)
  BY <1>1, <1>6 DEF Works
<1>8. Workers'
  BY <1>1, <1>6, <1>7 DEF Workers, Running, Works
<1> QED BY <1>3, <1>4, <1>5, <1>8

\* An accept creates the row, or goes on with the one that is there.
LEMMA AcceptStep ==
    ASSUME Invariant, NEW c \in Calls, NEW base \in BOOLEAN, Accept(c, base)
    PROVE  Invariant'
<1>1. calls \in [Calls -> CallShape] /\ faults \in Nat
  BY DEF Invariant, OtherShapes
<1>2. PICK p \in {"start", "resolve"} : Go(c, p)
  BY DEF Accept
<1> DEFINE r == [calls[c] EXCEPT !.pc = p]
<1>3. r \in CallShape /\ r.pc = p /\ calls' = [calls EXCEPT ![c] = r]
  <2>1. r \in CallShape /\ r.pc = p
    <3>1. p \in CallSteps /\ calls[c] \in CallShape
      BY <1>1, <1>2 DEF CallSteps, Opening
    <3> QED BY <3>1 DEF CallShape
  <2> QED BY <2>1, <1>2 DEF Go
<1> HIDE DEF r
<1>4. /\ calls'[c] = r
      /\ \A d \in Calls : d # c => calls'[d] = calls[d]
  BY <1>1, <1>3, CallPut
<1>5. /\ del' \in [status : Statuses, reason : Reasons, base : BOOLEAN, dirty : BOOLEAN,
                   ahead : BOOLEAN, pushed : BOOLEAN, pr : BOOLEAN]
      /\ del'.pushed = del.pushed /\ del'.pr = del.pr /\ del'.base = del.base
      /\ del'.status = IF del.status = "none" THEN "pending" ELSE del.status
  BY DEF Accept, Invariant, RowShapes, Statuses
<1>6. RowShapes'
  BY <1>5 DEF Accept, Invariant, RowShapes
<1>7. Capturers'
  BY <1>3, <1>4, <1>5 DEF Accept, Invariant, Capturers, Up
<1>8. Telling'
  <2>1. \A k : Told(k) => Told(k)'
    BY <1>3, <1>4 DEF Accept, Told, Teller, told
  <2> QED BY <2>1, <1>5 DEF Accept, Invariant, Telling, Picked, Terminal, told, Up
<1> QED BY <1>3, <1>5, <1>6, <1>7, <1>8, RowMoves DEF Accept, Works

\* A row that another request moved meanwhile is left alone.
LEMMA ResolveBaseStep ==
    ASSUME Invariant, NEW c \in Calls, ResolveBase(c)
    PROVE  Invariant'
<1>1. calls \in [Calls -> CallShape] /\ faults \in Nat
  BY DEF Invariant, OtherShapes
<1>2. CASE ~(del.status = "blocked" /\ del.reason = "base_ambiguous")
  <2>1. Up /\ End(c) /\ calls[c].pc \in Opening
    BY <1>2 DEF ResolveBase, At, Opening
  <2>2. UNCHANGED <<rows, git, told, gone, phase, rec>>
    BY <1>2 DEF ResolveBase, rows
  <2>3. faults' \in Nat /\ faults' >= faults
    BY <1>1 DEF ResolveBase
  <2> QED BY <2>1, <2>2, <2>3, RefusedStep
<1>3. CASE del.status = "blocked" /\ del.reason = "base_ambiguous"
  <2> DEFINE r == [calls[c] EXCEPT !.pc = "start"]
  <2>1. r \in CallShape /\ r.pc = "start"
    <3>1. "start" \in CallSteps /\ calls[c] \in CallShape
      BY <1>1 DEF CallSteps, Opening
    <3> QED BY <3>1 DEF CallShape
  <2>2. calls' = [calls EXCEPT ![c] = r]
    BY <1>3 DEF ResolveBase, Go
  <2> HIDE DEF r
  <2>3. /\ calls'[c] = r
        /\ \A d \in Calls : d # c => calls'[d] = calls[d]
    BY <1>1, <2>1, <2>2, CallPut
  <2>4. /\ del' \in [status : Statuses, reason : Reasons, base : BOOLEAN, dirty : BOOLEAN,
                     ahead : BOOLEAN, pushed : BOOLEAN, pr : BOOLEAN]
        /\ del'.pushed = del.pushed /\ del'.pr = del.pr /\ del'.base
        /\ del'.status = "pending"
    <3>1. "pending" \in Statuses /\ "none" \in Reasons
      BY DEF Statuses, Reasons
    <3>2. del' = [del EXCEPT !.status = "pending", !.reason = "none", !.base = TRUE]
      BY <1>3 DEF ResolveBase
    <3> QED BY <3>1, <3>2 DEF Invariant, RowShapes
  <2>5. UNCHANGED <<ops, last, git, told, gone, phase, rec, faults>> /\ Up /\ calls[c].pc = "resolve"
    BY <1>3 DEF ResolveBase, At
  <2>6. RowShapes'
    BY <2>4, <2>5 DEF Invariant, RowShapes
  <2>7. Capturers'
    BY <1>3, <2>1, <2>3, <2>4, <2>5 DEF Invariant, Capturers
  <2>8. Telling'
    BY <2>4 DEF Telling, Terminal
  <2> QED BY <1>3, <2>1, <2>2, <2>4, <2>5, <2>6, <2>7, <2>8, RowMoves DEF Works
<1> QED BY <1>2, <1>3

\* One request at a time gets to capture the baseline.
LEMMA StartAcceptStep ==
    ASSUME Invariant, NEW c \in Calls, StartAccept(c)
    PROVE  Invariant'
<1>1. calls \in [Calls -> CallShape] /\ faults \in Nat
  BY DEF Invariant, OtherShapes
<1>2. CASE ~(del.status \in {"pending", "ready", "failed"})
  <2>1. Up /\ End(c) /\ calls[c].pc \in Opening
    BY <1>2 DEF StartAccept, At, Opening
  <2>2. UNCHANGED <<rows, git, told, gone, phase, rec>>
    BY <1>2 DEF StartAccept, rows
  <2>3. faults' \in Nat /\ faults' >= faults
    BY <1>1 DEF StartAccept
  <2> QED BY <2>1, <2>2, <2>3, RefusedStep
<1>3. CASE del.status \in {"pending", "ready", "failed"}
  <2> DEFINE r == [calls[c] EXCEPT !.pc = "capture"]
  <2>1. r \in CallShape /\ r.pc = "capture"
    <3>1. "capture" \in CallSteps /\ calls[c] \in CallShape
      BY <1>1 DEF CallSteps, Opening
    <3> QED BY <3>1 DEF CallShape
  <2>2. calls' = [calls EXCEPT ![c] = r]
    BY <1>3 DEF StartAccept, Go
  <2> HIDE DEF r
  <2>3. /\ calls'[c] = r
        /\ \A d \in Calls : d # c => calls'[d] = calls[d]
    BY <1>1, <2>1, <2>2, CallPut
  <2>4. /\ del' \in [status : Statuses, reason : Reasons, base : BOOLEAN, dirty : BOOLEAN,
                     ahead : BOOLEAN, pushed : BOOLEAN, pr : BOOLEAN]
        /\ del'.pushed = del.pushed /\ del'.pr = del.pr /\ del'.base = del.base
        /\ del'.status = "preparing"
    <3>1. del' = [del EXCEPT !.status = "preparing", !.reason = "none"] /\ RowShapes
      BY <1>3 DEF StartAccept, Invariant
    <3>2. "preparing" \in Statuses /\ "none" \in Reasons
      BY DEF Statuses, Reasons
    <3> QED BY <3>1, <3>2 DEF RowShapes
  <2>5. UNCHANGED <<ops, last, git, told, gone, phase, rec, faults>> /\ Up /\ calls[c].pc = "start"
    BY <1>3 DEF StartAccept, At
  <2>6. RowShapes'
    BY <2>4, <2>5 DEF Invariant, RowShapes
  <2>7. Capturers'
    BY <1>3, <2>1, <2>3, <2>4, <2>5 DEF Invariant, Capturers
  <2>8. Telling'
    BY <2>4 DEF Telling, Terminal
  <2> QED BY <1>3, <2>1, <2>2, <2>4, <2>5, <2>6, <2>7, <2>8, RowMoves DEF Works
<1> QED BY <1>2, <1>3

\* What the baseline comes to.
LEMMA BaselineIs ==
    ASSUME RowShapes
    PROVE  /\ Baseline \in [status : Statuses, reason : Reasons, base : BOOLEAN, dirty : BOOLEAN,
                            ahead : BOOLEAN, pushed : BOOLEAN, pr : BOOLEAN]
           /\ Baseline.pushed = del.pushed /\ Baseline.pr = del.pr /\ Baseline.base = del.base
           /\ Baseline.status \in {"blocked", "ready", "failed"}
           /\ Baseline.status = "blocked" => ~del.base
<1>2. CASE ~del.base
  BY <1>2 DEF RowShapes, Baseline, Statuses, Terminal, Reasons
<1>3. CASE del.base /\ git.tree = "none" /\ del.pushed
  BY <1>3 DEF RowShapes, Baseline, Statuses, Terminal, Reasons
<1>4. CASE del.base /\ git.tree = "none" /\ ~del.pushed
  BY <1>4 DEF RowShapes, Baseline, Statuses, Terminal, Reasons
<1>5. CASE del.base /\ git.tree # "none"
  <2>1. Baseline = [del EXCEPT !.status = "ready", !.reason = "none", !.dirty = git.tree = "dirty",
                               !.ahead = git.branch > 0]
    BY <1>5 DEF Baseline
  <2>2. "ready" \in Statuses /\ "none" \in Reasons
    BY DEF Statuses, Reasons
  <2>3. \A x, y \in BOOLEAN : [del EXCEPT !.status = "ready", !.reason = "none", !.dirty = x, !.ahead = y] \in
          [status : Statuses, reason : Reasons, base : BOOLEAN, dirty : BOOLEAN,
           ahead : BOOLEAN, pushed : BOOLEAN, pr : BOOLEAN]
    BY <2>2 DEF RowShapes
  <2>4. (git.tree = "dirty") \in BOOLEAN /\ (git.branch > 0) \in BOOLEAN
    BY DEF RowShapes
  <2>5. Baseline.status = "ready" /\ Baseline.pushed = del.pushed /\ Baseline.pr = del.pr
        /\ Baseline.base = del.base
    BY <2>1 DEF RowShapes
  <2> QED BY <1>5, <2>1, <2>3, <2>4, <2>5
<1> QED BY <1>2, <1>3, <1>4, <1>5 DEF RowShapes

\* The baseline settles the accept.
LEMMA CaptureBaselineStep ==
    ASSUME Invariant, NEW c \in Calls, CaptureBaseline(c)
    PROVE  Invariant'
<1>1. calls \in [Calls -> CallShape] /\ faults \in Nat /\ RowShapes
  BY DEF Invariant, OtherShapes
<1> DEFINE r == [calls[c] EXCEPT !.pc = "settled", !.op = Unscoped, !.status = Baseline.status]
<1>2. r \in CallShape /\ r.pc = "settled" /\ r.op = Unscoped /\ r.status = Baseline.status
  <2>1. "settled" \in CallSteps /\ calls[c] \in CallShape /\ Unscoped \in Keys
    BY <1>1 DEF CallSteps, Opening, Keys
  <2>2. Baseline.status \in Statuses
    BY <1>1, BaselineIs DEF Statuses, Terminal
  <2> QED BY <2>1, <2>2 DEF CallShape
<1>3. calls' = [calls EXCEPT ![c] = r]
  BY <1>1 DEF CaptureBaseline
<1> HIDE DEF r
<1>4. /\ calls'[c] = r
      /\ \A d \in Calls : d # c => calls'[d] = calls[d]
  BY <1>1, <1>2, <1>3, CallPut
<1>5. /\ UNCHANGED <<ops, last, git, told, gone, phase, rec, faults>>
      /\ Up /\ calls[c].pc = "capture" /\ del.status = "preparing" /\ del' = Baseline
  BY DEF CaptureBaseline, At
<1>6. RowShapes'
  BY <1>1, <1>5, BaselineIs DEF RowShapes
<1>7. Capturers'
  BY <1>1, <1>2, <1>4, <1>5, BaselineIs DEF Invariant, Capturers
<1>8. Telling'
  <2>1. CASE del'.status \in {"blocked", "failed"}
    <3>1. Teller(c, Unscoped)'
      BY <1>2, <1>4, <1>5, <2>1 DEF Teller, Terminal
    <3>2. Told(Unscoped)'
      BY <3>1 DEF Told
    <3>3. del'.status = "blocked" => Picked' = Unscoped
      BY <1>1, <1>5, BaselineIs DEF Picked, Invariant, Evidence
    <3> QED BY <2>1, <3>2, <3>3 DEF Telling
  <2>2. CASE del'.status = "ready"
    BY <2>2 DEF Telling, Terminal
  <2> QED BY <1>1, <1>5, <2>1, <2>2, BaselineIs
<1> QED BY <1>1, <1>2, <1>3, <1>5, <1>6, <1>7, <1>8, BaselineIs, RowMoves DEF Works

\* A Git error leaves the row preparing, which takes a fault.
LEMMA CaptureFailsStep ==
    ASSUME Invariant, NEW c \in Calls, CaptureFails(c)
    PROVE  Invariant'
<1> USE DEF Invariant, Up, rows, told
<1>1. calls \in [Calls -> CallShape] /\ faults \in Nat
  BY DEF OtherShapes
<1>2. /\ calls' \in [Calls -> CallShape]
      /\ calls'[c] = Done /\ Done.pc = "done"
      /\ \A d \in Calls : d # c => calls'[d] = calls[d]
  BY <1>1, CallPut, CallShapes DEF CaptureFails, End
<1>3. /\ faults' \in Nat /\ faults' > 0
      /\ UNCHANGED <<del, ops, last, git, notes, gone, unavail, phase, rec, missed>>
  BY <1>1 DEF CaptureFails, Fault
<1>4. calls[c].pc = "capture" /\ Up
  BY DEF CaptureFails, At
<1>5. RowShapes' /\ OtherShapes'
  BY <1>2, <1>3 DEF RowShapes, OtherShapes
<1>6. OneRuns' /\ Evidence'
  BY <1>3 DEF OneRuns, Running, Evidence, Succeeded
<1>7. \A d \in Calls : Works(d)' <=> Works(d)
  BY <1>2, <1>4 DEF Works
<1>8. Workers'
  BY <1>2, <1>3, <1>4, <1>7 DEF Workers, Running, Works
<1>9. Capturers'
  BY <1>2, <1>3 DEF Capturers
<1>10. \A k : Told(k) => Told(k)'
  BY <1>2, <1>3, <1>4 DEF Told, Teller
<1>11. Telling'
  BY <1>3, <1>10 DEF Telling, Picked
<1> QED BY <1>5, <1>6, <1>8, <1>9, <1>11

(***************************************************************************)
(* Operations.                                                             *)
(***************************************************************************)
\* A new row of task_delivery_ops.
LEMMA OpAppended ==
    ASSUME ops \in Seq(OpShape), NEW x \in OpShape, ops' = Append(ops, x)
    PROVE  /\ ops' \in Seq(OpShape) /\ Len(ops') = Len(ops) + 1
           /\ DOMAIN ops' = DOMAIN ops \cup {Len(ops) + 1} /\ Len(ops) + 1 \notin DOMAIN ops
           /\ \A o \in DOMAIN ops : ops'[o] = ops[o]
           /\ ops'[Len(ops) + 1] = x
  OBVIOUS

\* Ledger facts that another row cannot disturb.
LEMMA EvidenceKept ==
    ASSUME Evidence, UNCHANGED <<last, git, rec>>,
           del'.pushed = del.pushed, del'.pr = del.pr, del'.base = del.base,
           del'.status \in {del.status, "delivering"},
           DOMAIN ops \subseteq DOMAIN ops', \A o \in DOMAIN ops : ops'[o] = ops[o],
           \A o \in DOMAIN ops' \ DOMAIN ops : ops'[o].kind \in GoalKinds => del.base,
           last.succeeded \in Keys, last.failed \in Keys
    PROVE  Evidence'
<1>1. \A k : Succeeded(k) => Succeeded(k)'
  BY DEF Succeeded
<1>2. del'.pushed => git'.remote # NoBranch /\ Succeeded("push")'
  BY <1>1 DEF Evidence
<1>3. del'.pr => git'.pr /\ Succeeded("pull_request")' /\ last'.succeeded # Unscoped
  BY <1>1 DEF Evidence
<1>4. \A w \in {"succeeded", "failed"} : last'[w] # Unscoped =>
         last'[w] \in DOMAIN ops' /\ ops'[last'[w]].state = w /\ ops'[last'[w]].kind \in GoalKinds
  BY DEF Evidence
<1>5. \A o \in DOMAIN ops' : ops'[o].kind \in GoalKinds => del'.base
  BY DEF Evidence
<1>6. del'.status = "delivered" =>
         /\ last'.succeeded # Unscoped
         /\ ops'[last'.succeeded].kind \in External \/ del'.pr
         /\ \E k \in External : Succeeded(k)'
  BY <1>1 DEF Evidence
<1> QED BY <1>2, <1>3, <1>4, <1>5, <1>6 DEF Evidence

\* An operation that could not be started stays planned, and its request ends.
LEMMA PlannedStep ==
    ASSUME Invariant, NEW c \in Calls, NEW k \in Kinds, Up, calls[c].pc \in Opening,
           Len(ops) < MaxOps, ops' = Append(ops, Planned(k)), k \in GoalKinds => del.base, End(c),
           UNCHANGED <<del, last, git, told, gone, phase, rec, faults>>
    PROVE  Invariant'
<1> USE DEF Invariant, Up, told
<1>1. /\ calls \in [Calls -> CallShape] /\ faults \in Nat /\ ops \in Seq(OpShape)
      /\ last \in [succeeded : Keys, failed : Keys]
  BY DEF OtherShapes, RowShapes, OpShape
<1>2. /\ calls' \in [Calls -> CallShape]
      /\ calls'[c] = Done /\ Done.pc = "done"
      /\ \A d \in Calls : d # c => calls'[d] = calls[d]
  BY <1>1, CallPut, CallShapes DEF End
<1>3. Planned(k) \in OpShape /\ Planned(k).kind = k /\ Planned(k).state = "planned"
  BY DEF Planned, OpShape, OpStates
<1>4. /\ ops' \in Seq(OpShape) /\ Len(ops') = Len(ops) + 1
      /\ DOMAIN ops' = DOMAIN ops \cup {Len(ops) + 1} /\ Len(ops) + 1 \notin DOMAIN ops
      /\ \A o \in DOMAIN ops : ops'[o] = ops[o]
      /\ ops'[Len(ops) + 1] = Planned(k)
  BY <1>1, <1>3, OpAppended
<1>5. RowShapes'
  BY <1>4, BoundsAssumption DEF RowShapes, OpShape
<1>6. OtherShapes'
  BY <1>2 DEF OtherShapes
<1>7. Running(ops)' = Running(ops)
  BY <1>3, <1>4 DEF Running
<1>8. \A o \in Running(ops) : ops'[o] = ops[o]
  BY <1>4 DEF Running
<1>9. OneRuns'
  BY <1>7, <1>8 DEF OneRuns
<1>10. Evidence'
  BY <1>1, <1>3, <1>4, EvidenceKept
<1>11. \A d \in Calls : Works(d)' <=> Works(d)
  BY <1>2 DEF Works, Opening
<1>12. Workers'
  <2>1. \A d \in Calls : Works(d) => d # c
    BY DEF Works, Opening
  <2>2. \A d \in Calls : Works(d)' => calls'[d].op \in Running(ops)' /\ calls'[d].kind = ops'[calls'[d].op].kind
    <3> SUFFICES ASSUME NEW d \in Calls, Works(d)'
                 PROVE  calls'[d].op \in Running(ops)' /\ calls'[d].kind = ops'[calls'[d].op].kind
      OBVIOUS
    <3>1. Works(d) /\ d # c
      BY <1>11, <2>1
    <3>2. calls[d].op \in Running(ops) /\ calls[d].kind = ops[calls[d].op].kind
      BY <3>1 DEF Workers
    <3> QED BY <1>2, <1>7, <1>8, <3>1, <3>2
  <2>3. \A d, e \in Calls : Works(d)' /\ Works(e)' => d = e
    BY <1>11 DEF Workers
  <2>4. \A o \in Running(ops)' : ops'[o].kind = "pull_request" \/ \E d \in Calls : Works(d)' /\ calls'[d].op = o
    <3> SUFFICES ASSUME NEW o \in Running(ops), ops[o].kind # "pull_request"
                 PROVE  \E d \in Calls : Works(d)' /\ calls'[d].op = o
      BY <1>7, <1>8
    <3>1. PICK d \in Calls : Works(d) /\ calls[d].op = o
      BY DEF Workers
    <3> QED BY <1>2, <1>11, <2>1, <3>1
  <2>5. \A d \in Calls : calls'[d].pc = "begin" => calls'[d].kind \in GoalKinds /\ del'.base
    BY <1>2 DEF Workers
  <2>6. \A d \in Calls : calls'[d].pc = "finish" /\ calls'[d].res = "ok" =>
           /\ calls'[d].kind = "push" => git'.remote # NoBranch
           /\ calls'[d].kind = "pull_request" => git'.pr
    BY <1>2 DEF Workers
  <2>7. \A d \in Calls : calls'[d].pc = "finish" => calls'[d].res # "none"
    BY <1>2 DEF Workers
  <2> QED BY <2>2, <2>3, <2>4, <2>5, <2>6, <2>7 DEF Workers
<1>13. Capturers'
  BY <1>2 DEF Capturers, Opening
<1>14. \A q : Told(q) => Told(q)'
  BY <1>2 DEF Told, Teller, Opening
<1>15. Telling'
  BY <1>14 DEF Telling, Picked
<1> QED BY <1>5, <1>6, <1>9, <1>10, <1>12, <1>13, <1>15

\* An operation that starts: the only one, with the request that works on it.
LEMMA StartedStep ==
    ASSUME Invariant, NEW c \in Calls, NEW k \in Kinds, Up, calls[c].pc \in Opening,
           Len(ops) < MaxOps, ops' = Append(ops, Started(k)), k \in GoalKinds => del.base,
           Running(ops) = {}, del.status # "preparing",
           NEW r \in CallShape, calls' = [calls EXCEPT ![c] = r],
           r.pc = "execute", r.kind = k, r.op = Len(ops) + 1,
           UNCHANGED <<last, git, told, gone, phase, rec, faults>>, RowShapes',
           del'.pushed = del.pushed, del'.pr = del.pr, del'.base = del.base,
           del'.status = IF k \in GoalKinds THEN "delivering" ELSE del.status
    PROVE  Invariant'
<1> USE DEF Invariant, Up, told
<1>1. /\ calls \in [Calls -> CallShape] /\ faults \in Nat /\ ops \in Seq(OpShape)
      /\ last \in [succeeded : Keys, failed : Keys]
  BY DEF OtherShapes, RowShapes, OpShape
<1>2. /\ calls' \in [Calls -> CallShape]
      /\ calls'[c] = r
      /\ \A d \in Calls : d # c => calls'[d] = calls[d]
  BY <1>1, CallPut
<1>3. Started(k) \in OpShape /\ Started(k).kind = k /\ Started(k).state = "running"
  BY DEF Started, OpShape, OpStates
<1>4. /\ ops' \in Seq(OpShape) /\ Len(ops') = Len(ops) + 1
      /\ DOMAIN ops' = DOMAIN ops \cup {Len(ops) + 1} /\ Len(ops) + 1 \notin DOMAIN ops
      /\ \A o \in DOMAIN ops : ops'[o] = ops[o]
      /\ ops'[Len(ops) + 1] = Started(k)
  BY <1>1, <1>3, OpAppended
<1>6. OtherShapes'
  BY <1>2 DEF OtherShapes
<1>7. Running(ops)' = {Len(ops) + 1}
  BY <1>3, <1>4 DEF Running
<1>8. OneRuns'
  BY <1>3, <1>4, <1>7 DEF OneRuns
<1>9. del'.status \in {del.status, "delivering"}
  OBVIOUS
<1>10. Evidence'
  BY <1>1, <1>3, <1>4, <1>9, EvidenceKept
<1>11. \A d \in Calls : ~Works(d)
  BY DEF Workers
<1>12. \A d \in Calls : Works(d)' <=> d = c
  BY <1>2, <1>11 DEF Works
<1>13. Workers'
  <2>1. \A d \in Calls : Works(d)' => calls'[d].op \in Running(ops)' /\ calls'[d].kind = ops'[calls'[d].op].kind
    BY <1>2, <1>3, <1>4, <1>7, <1>12
  <2>2. Works(c)' /\ calls'[c].op = Len(ops) + 1
    BY <1>2, <1>12
  <2> QED BY <1>2, <1>7, <1>12, <2>1, <2>2 DEF Workers
<1>14. Capturers'
  BY <1>2 DEF Capturers, Opening
<1>15. \A q : Told(q) => Told(q)'
  BY <1>2 DEF Told, Teller, Opening
<1>16. Telling'
  BY <1>15 DEF Telling, Picked, Terminal
<1> QED BY <1>6, <1>8, <1>10, <1>13, <1>14, <1>16

\* A goal operation starts only if none runs.
LEMMA BeginStep ==
    ASSUME Invariant, NEW c \in Calls, Begin(c)
    PROVE  Invariant'
<1>1. calls \in [Calls -> CallShape] /\ faults \in Nat /\ RowShapes
  BY DEF Invariant, OtherShapes
<1>2. /\ calls[c].pc = "begin" /\ Up /\ calls[c].kind \in GoalKinds /\ del.base /\ Len(ops) < MaxOps
      /\ UNCHANGED <<last, git, told, gone, phase, rec, faults>>
  BY DEF Begin, At, Invariant, Workers
<1>3. calls[c].kind \in Kinds /\ calls[c].pc \in Opening
  BY <1>2 DEF Kinds, Opening
<1>4. CASE ~CanStart(GoalStart)
  <2>1. ops' = Append(ops, Planned(calls[c].kind)) /\ End(c) /\ UNCHANGED del
    BY <1>4 DEF Begin
  <2> QED BY <1>2, <1>3, <2>1, PlannedStep
<1>5. CASE CanStart(GoalStart)
  <2> DEFINE r == [calls[c] EXCEPT !.pc = "execute", !.op = Len(ops) + 1]
  <2>1. Len(ops) + 1 \in Keys
    BY <1>1, <1>2, BoundsAssumption DEF Keys, OpIds, RowShapes
  <2>2. "execute" \in CallSteps /\ calls[c] \in CallShape
    BY <1>1 DEF CallSteps
  <2>3. r \in CallShape /\ r.pc = "execute" /\ r.kind = calls[c].kind /\ r.op = Len(ops) + 1
    BY <2>1, <2>2 DEF CallShape
  <2>4. calls' = [calls EXCEPT ![c] = r]
    BY <1>5 DEF Begin
  <2> HIDE DEF r
  <2>5. ops' = Append(ops, Started(calls[c].kind)) /\ del' = [del EXCEPT !.status = "delivering"]
    BY <1>5 DEF Begin
  <2>6. /\ del'.pushed = del.pushed /\ del'.pr = del.pr /\ del'.base = del.base
        /\ del'.status = "delivering"
        /\ del' \in [status : Statuses, reason : Reasons, base : BOOLEAN, dirty : BOOLEAN,
                     ahead : BOOLEAN, pushed : BOOLEAN, pr : BOOLEAN]
    BY <1>1, <2>5 DEF RowShapes, Statuses
  <2>7. Started(calls[c].kind) \in OpShape
    BY <1>3 DEF Started, OpShape, OpStates
  <2>8. ops' \in Seq(OpShape) /\ Len(ops') <= MaxOps
    BY <1>1, <1>2, <2>5, <2>7, OpAppended, BoundsAssumption DEF RowShapes, OpShape
  <2>9. RowShapes'
    BY <1>1, <1>2, <2>6, <2>8 DEF RowShapes, OpShape
  <2>10. Running(ops) = {} /\ del.status # "preparing"
    BY <1>5 DEF CanStart, GoalStart
  <2> QED BY <1>2, <1>3, <2>3, <2>4, <2>5, <2>6, <2>9, <2>10, StartedStep
<1> QED BY <1>4, <1>5

\* An operation of a teardown, planned or started.
LEMMA BeginTeardownOpStep ==
    ASSUME Invariant, NEW c \in Calls, NEW k \in Teardowns, BeginTeardownOp(c, k), Up,
           calls[c].pc \in Opening, UNCHANGED <<del, last, git, told, gone, phase, rec, faults>>
    PROVE  Invariant'
<1>1. calls \in [Calls -> CallShape] /\ faults \in Nat /\ RowShapes
  BY DEF Invariant, OtherShapes
<1>2. k \in Kinds /\ k \notin GoalKinds /\ Len(ops) < MaxOps
  BY DEF Kinds, Teardowns, GoalKinds, BeginTeardownOp
<1>3. CASE ~CanStart(TeardownStart)
  BY <1>2, <1>3, PlannedStep DEF BeginTeardownOp
<1>4. CASE CanStart(TeardownStart)
  <2> DEFINE p == IF k = "worktree_remove" THEN del.pushed ELSE calls[c].pushed
  <2> DEFINE r == [calls[c] EXCEPT !.pc = "execute", !.kind = k, !.op = Len(ops) + 1, !.pushed = p]
  <2>1. Len(ops) + 1 \in Keys
    BY <1>1, <1>2, BoundsAssumption DEF Keys, OpIds, RowShapes
  <2>2. "execute" \in CallSteps /\ calls[c] \in CallShape
    BY <1>1 DEF CallSteps
  <2>3. p \in BOOLEAN
    BY <1>1, <2>2 DEF RowShapes, CallShape
  <2> HIDE DEF p
  <2>4. r \in CallShape /\ r.pc = "execute" /\ r.kind = k /\ r.op = Len(ops) + 1
    BY <1>2, <2>1, <2>2, <2>3 DEF CallShape
  <2>5. calls' = [calls EXCEPT ![c] = r] /\ ops' = Append(ops, Started(k))
    BY <1>1, <1>4 DEF BeginTeardownOp, p, CallShape
  <2> HIDE DEF r
  <2>6. Started(k) \in OpShape
    BY <1>2 DEF Started, OpShape, OpStates
  <2>7. ops' \in Seq(OpShape) /\ Len(ops') <= MaxOps
    BY <1>1, <1>2, <2>5, <2>6, OpAppended, BoundsAssumption DEF RowShapes, OpShape
  <2>8. RowShapes'
    BY <1>1, <2>7 DEF RowShapes, OpShape
  <2>9. Running(ops) = {} /\ del.status # "preparing"
    BY <1>4 DEF CanStart, TeardownStart, GoalStart
  <2> QED BY <1>2, <2>4, <2>5, <2>8, <2>9, StartedStep
<1> QED BY <1>3, <1>4

\* The retention keeps the tree, refuses, or begins the removal.
LEMMA RetainStep ==
    ASSUME Invariant, NEW c \in Calls, Retain(c)
    PROVE  Invariant'
<1>1. calls \in [Calls -> CallShape] /\ faults \in Nat /\ RowShapes
  BY DEF Invariant, OtherShapes
<1>2. /\ Up /\ calls[c].pc \in Opening
      /\ UNCHANGED <<del, last, git, told, gone, phase, rec, faults>>
  BY DEF Retain, At, Opening
<1>3. faults' \in Nat /\ faults' >= faults
  BY <1>1, <1>2
<1>4. CASE calls[c].policy = "keep" \/ git.tree = "none"
  <2> DEFINE r == [calls[c] EXCEPT !.pc = "branch", !.pushed = del.pushed]
  <2>1. "branch" \in CallSteps /\ calls[c] \in CallShape /\ del.pushed \in BOOLEAN
    BY <1>1 DEF CallSteps, Opening, RowShapes
  <2>2. r \in CallShape /\ r.pc = "branch"
    BY <2>1 DEF CallShape
  <2>3. calls' = [calls EXCEPT ![c] = r] /\ UNCHANGED rows
    BY <1>2, <1>4 DEF Retain, rows
  <2> HIDE DEF r
  <2>4. r.pc \in Opening /\ r.pc # "begin"
    BY <2>2 DEF Opening
  <2> QED BY <1>2, <1>3, <2>2, <2>3, <2>4, CallMoves
<1>5. CASE ~(calls[c].policy = "keep" \/ git.tree = "none") /\ git.tree = "dirty" /\ ~calls[c].dirtyOk
  <2>1. End(c) /\ UNCHANGED rows
    BY <1>2, <1>5 DEF Retain, rows
  <2> QED BY <1>2, <1>3, <2>1, RefusedStep
<1>6. CASE ~(calls[c].policy = "keep" \/ git.tree = "none") /\ ~(git.tree = "dirty" /\ ~calls[c].dirtyOk)
  <2>1. BeginTeardownOp(c, "worktree_remove") /\ "worktree_remove" \in Teardowns
    BY <1>6 DEF Retain, Teardowns
  <2> QED BY <1>2, <2>1, BeginTeardownOpStep
<1> QED BY <1>4, <1>5, <1>6

\* The same for the branch.
LEMMA BranchRetentionStep ==
    ASSUME Invariant, NEW c \in Calls, BranchRetention(c)
    PROVE  Invariant'
<1>1. calls \in [Calls -> CallShape] /\ faults \in Nat /\ RowShapes
  BY DEF Invariant, OtherShapes
<1>2. /\ Up /\ calls[c].pc \in Opening
      /\ UNCHANGED <<del, last, git, told, gone, phase, rec, faults>>
  BY DEF BranchRetention, At, Opening
<1>3. faults' \in Nat /\ faults' >= faults
  BY <1>1, <1>2
<1>4. CASE calls[c].policy # "remove_all"
  <2> DEFINE r == [calls[c] EXCEPT !.pc = "snapshot"]
  <2>1. "snapshot" \in CallSteps /\ calls[c] \in CallShape
    BY <1>1 DEF CallSteps, Opening
  <2>2. r \in CallShape /\ r.pc = "snapshot"
    BY <2>1 DEF CallShape
  <2>3. calls' = [calls EXCEPT ![c] = r] /\ UNCHANGED rows
    BY <1>2, <1>4 DEF BranchRetention, Go, rows
  <2> HIDE DEF r
  <2>4. r.pc \in Opening /\ r.pc # "begin"
    BY <2>2 DEF Opening
  <2> QED BY <1>2, <1>3, <2>2, <2>3, <2>4, CallMoves
<1>5. CASE calls[c].policy = "remove_all" /\ ~calls[c].pushed /\ ~calls[c].loseOk
  <2>1. End(c) /\ UNCHANGED rows
    BY <1>2, <1>5 DEF BranchRetention, rows
  <2> QED BY <1>2, <1>3, <2>1, RefusedStep
<1>6. CASE calls[c].policy = "remove_all" /\ ~(~calls[c].pushed /\ ~calls[c].loseOk)
  <2>1. BeginTeardownOp(c, "branch_delete") /\ "branch_delete" \in Teardowns
    BY <1>6 DEF BranchRetention, Teardowns
  <2> QED BY <1>2, <2>1, BeginTeardownOpStep
<1> QED BY <1>4, <1>5, <1>6

(***************************************************************************)
(* The effects outside.                                                    *)
(***************************************************************************)
\* What a remote or a platform has, it keeps.
Grows == /\ git' \in GitShape
         /\ git.remote # NoBranch => git'.remote # NoBranch
         /\ git.pr => git'.pr

\* Whatever the effect was, the request goes on to settle it.
LEMMA DidStep ==
    ASSUME Invariant, NEW c \in Calls, NEW res \in Results, Did(c, res), Grows, Effect, Up,
           calls[c].pc = "execute",
           res = "ok" /\ calls[c].kind = "push" => git'.remote # NoBranch,
           res = "ok" /\ calls[c].kind = "pull_request" => git'.pr,
           faults' \in Nat, faults' >= faults
    PROVE  Invariant'
<1> USE DEF Invariant, Up, told, rows, Effect
<1> DEFINE r == [calls[c] EXCEPT !.pc = "finish", !.res = res]
<1>1. calls \in [Calls -> CallShape] /\ calls[c] \in CallShape /\ "finish" \in CallSteps
  BY DEF OtherShapes, CallSteps
<1>2. r \in CallShape /\ r.pc = "finish" /\ r.res = res /\ r.kind = calls[c].kind /\ r.op = calls[c].op
  BY <1>1 DEF CallShape, Results
<1>3. calls' = [calls EXCEPT ![c] = r]
  BY <1>1 DEF Did
<1> HIDE DEF r
<1>4. /\ calls' \in [Calls -> CallShape]
      /\ calls'[c] = r
      /\ \A d \in Calls : d # c => calls'[d] = calls[d]
  BY <1>1, <1>2, <1>3, CallPut
<1>5. RowShapes'
  BY DEF RowShapes, Grows, GitShape
<1>6. OtherShapes'
  BY <1>4 DEF OtherShapes
<1>7. OneRuns'
  BY DEF OneRuns, Running
<1>8. Evidence'
  BY DEF Evidence, Succeeded, Grows
<1>9. \A d \in Calls : Works(d)' <=> Works(d)
  BY <1>2, <1>4 DEF Works
<1>10. \A d \in Calls : calls'[d].kind = calls[d].kind /\ calls'[d].op = calls[d].op
  BY <1>2, <1>4
<1>11. \A d \in Calls : calls'[d].pc = "finish" /\ calls'[d].res = "ok" =>
           /\ calls'[d].kind = "push" => git'.remote # NoBranch
           /\ calls'[d].kind = "pull_request" => git'.pr
  BY <1>2, <1>4 DEF Workers, Grows
<1>12. \A d \in Calls : calls'[d].pc = "begin" => calls'[d].kind \in GoalKinds /\ del'.base
  BY <1>2, <1>4 DEF Workers
<1>17. \A d \in Calls : calls'[d].pc = "finish" => calls'[d].res # "none"
  BY <1>2, <1>4 DEF Workers, Results
<1>13. Workers'
  BY <1>9, <1>10, <1>11, <1>12, <1>17 DEF Workers, Running
<1>14. Capturers'
  BY <1>2, <1>4 DEF Capturers, OtherShapes
<1>15. \A q : Told(q) => Told(q)'
  BY <1>2, <1>4 DEF Told, Teller
<1>16. Telling'
  BY <1>15 DEF Telling, Picked
<1> QED BY <1>5, <1>6, <1>7, <1>8, <1>13, <1>14, <1>16

\* Git, and the platform, do it, find nothing to do, refuse or fail.
LEMMA WorkStep ==
    ASSUME Invariant, NEW c \in Calls,
           \/ Commit(c) \/ Push(c) \/ OpenPR(c) \/ Merge(c) \/ Fails(c)
           \/ RemoveWorktree(c) \/ DeleteBranch(c)
    PROVE  Invariant'
<1>1. git \in GitShape /\ faults \in Nat
  BY DEF Invariant, OtherShapes, RowShapes, GitShape
<1>2. Results = {"ok", "error", "conflict"}
  BY DEF Results
<1>3. UNCHANGED git => Grows
  BY <1>1 DEF Grows
<1>4. \A t \in {"none", "clean", "dirty"}, b \in Nat \cup {NoBranch} :
         git' = [git EXCEPT !.tree = t, !.branch = b] => Grows
  BY <1>1 DEF Grows, GitShape
<1>5. git.branch \in Nat \cup {NoBranch} /\ NoBranch \notin Nat /\ git.branch + 1 \in Nat
  BY <1>1 DEF GitShape, NoBranch
<1>6. CASE Commit(c)
  <2>1. Up /\ calls[c].pc = "execute" /\ calls[c].kind = "commit" /\ Effect
    BY <1>6 DEF Commit, Doing, At
  <2>2. CASE git.tree = "none"
    BY <1>1, <1>2, <1>3, <1>6, <2>1, <2>2, DidStep DEF Commit
  <2>3. CASE git.tree # "none"
    <3>1. /\ git' = [git EXCEPT !.tree = "clean",
                                !.branch = IF git.tree = "dirty" THEN git.branch + 1 ELSE git.branch]
          /\ Did(c, "ok") /\ faults' = faults
      BY <1>1, <1>6, <2>3 DEF Commit, GitShape
    <3>2. Grows
      BY <1>4, <1>5, <3>1
    <3> QED BY <1>1, <1>2, <2>1, <3>1, <3>2, DidStep
  <2> QED BY <2>2, <2>3
<1>7. CASE Push(c)
  <2>1. Up /\ calls[c].pc = "execute" /\ calls[c].kind = "push" /\ Effect
    BY <1>7 DEF Push, Doing, At
  <2>2. CASE git.branch = NoBranch
    BY <1>1, <1>2, <1>3, <1>7, <2>1, <2>2, DidStep DEF Push
  <2>3. CASE git.branch # NoBranch
    <3>1. git' = [git EXCEPT !.remote = git.branch] /\ Did(c, "ok") /\ faults' = faults
      BY <1>7, <2>3 DEF Push
    <3>2. Grows /\ git'.remote # NoBranch
      BY <1>1, <2>3, <3>1 DEF Grows, GitShape
    <3> QED BY <1>1, <1>2, <2>1, <3>1, <3>2, DidStep
  <2> QED BY <2>2, <2>3
<1>8. CASE OpenPR(c)
  <2>1. Up /\ calls[c].pc = "execute" /\ calls[c].kind = "pull_request" /\ Effect
    BY <1>8 DEF OpenPR, Doing, At
  <2>2. CASE git.remote = NoBranch
    BY <1>1, <1>2, <1>3, <1>8, <2>1, <2>2, DidStep DEF OpenPR
  <2>3. CASE git.remote # NoBranch
    <3>1. git' = [git EXCEPT !.pr = TRUE] /\ Did(c, "ok") /\ faults' = faults
      BY <1>8, <2>3 DEF OpenPR
    <3>2. Grows /\ git'.pr
      BY <1>1, <3>1 DEF Grows, GitShape
    <3> QED BY <1>1, <1>2, <2>1, <3>1, <3>2, DidStep
  <2> QED BY <2>2, <2>3
<1>9. CASE Merge(c)
  <2>1. Up /\ calls[c].pc = "execute" /\ calls[c].kind = "merge" /\ Effect
    BY <1>9 DEF Merge, Doing, At
  <2>2. faults' \in Nat /\ faults' >= faults
    BY <1>1, <1>9 DEF Merge, Fault
  <2>3. (git.branch # NoBranch /\ git' = [git EXCEPT !.merged = git.branch]) \/ UNCHANGED git
    BY <1>9 DEF Merge
  <2>4. Grows
    BY <1>1, <1>3, <2>3 DEF Grows, GitShape
  <2>5. Did(c, "ok") \/ Did(c, "conflict")
    BY <1>9 DEF Merge
  <2> QED BY <1>2, <2>1, <2>2, <2>4, <2>5, DidStep
<1>10. CASE Fails(c)
  <2>1. Up /\ calls[c].pc = "execute" /\ Effect /\ Did(c, "error")
    BY <1>10 DEF Fails, At
  <2>2. faults' \in Nat /\ faults' >= faults
    BY <1>1, <1>10 DEF Fails, Fault
  <2>3. \/ UNCHANGED git
        \/ git' = [git EXCEPT !.tree = "clean", !.branch = git.branch + 1]
        \/ git.branch # NoBranch /\ git' = [git EXCEPT !.remote = git.branch]
    BY <1>1, <1>10 DEF Fails, GitShape
  <2>4. Grows
    BY <1>1, <1>3, <1>4, <1>5, <2>3 DEF Grows, GitShape
  <2> QED BY <1>2, <2>1, <2>2, <2>4, DidStep
<1>11. CASE RemoveWorktree(c)
  <2>1. Up /\ calls[c].pc = "execute" /\ calls[c].kind = "worktree_remove" /\ Effect /\ faults' = faults
    BY <1>11 DEF RemoveWorktree, Doing, At
  <2>2. UNCHANGED git \/ git' = [git EXCEPT !.tree = "none"]
    BY <1>11 DEF RemoveWorktree
  <2>3. Grows
    BY <1>1, <1>3, <2>2 DEF Grows, GitShape
  <2>4. Did(c, "ok") \/ Did(c, "error")
    BY <1>11 DEF RemoveWorktree
  <2> QED BY <1>1, <1>2, <2>1, <2>3, <2>4, DidStep
<1>12. CASE DeleteBranch(c)
  <2>1. Up /\ calls[c].pc = "execute" /\ calls[c].kind = "branch_delete" /\ Effect /\ faults' = faults
    BY <1>12 DEF DeleteBranch, Doing, At
  <2>2. UNCHANGED git \/ git' = [git EXCEPT !.branch = NoBranch]
    BY <1>12 DEF DeleteBranch
  <2>3. Grows
    BY <1>1, <1>3, <2>2 DEF Grows, GitShape
  <2>4. Did(c, "ok") \/ Did(c, "error")
    BY <1>12 DEF DeleteBranch
  <2> QED BY <1>1, <1>2, <2>1, <2>3, <2>4, DidStep
<1> QED BY <1>6, <1>7, <1>8, <1>9, <1>10, <1>11, <1>12

\* The error that nobody catches leaves a pull request running without a request.
LEMMA EscapesStep ==
    ASSUME Invariant, NEW c \in Calls, Escapes(c)
    PROVE  Invariant'
<1> USE DEF Invariant, Up, told, rows
<1>1. calls \in [Calls -> CallShape] /\ faults \in Nat
  BY DEF OtherShapes
<1>2. /\ calls' \in [Calls -> CallShape]
      /\ calls'[c] = Done /\ Done.pc = "done"
      /\ \A d \in Calls : d # c => calls'[d] = calls[d]
  BY <1>1, CallPut, CallShapes DEF Escapes, End
<1>3. /\ faults' \in Nat /\ faults' > faults
      /\ UNCHANGED <<del, ops, last, notes, gone, unavail, phase, rec, missed>>
  BY <1>1 DEF Escapes, Fault, Effect
<1>4. Up /\ calls[c].pc = "execute" /\ calls[c].kind = "pull_request"
  BY DEF Escapes, Doing, At
<1>5. Grows
  BY DEF Escapes, Grows, GitShape, RowShapes
<1>6. RowShapes' /\ OtherShapes'
  BY <1>2, <1>3, <1>5 DEF RowShapes, OtherShapes, Grows, GitShape
<1>7. OneRuns'
  BY <1>3 DEF OneRuns, Running
<1>8. Evidence'
  BY <1>3, <1>5 DEF Evidence, Succeeded, Grows
<1>9. \A d \in Calls : Works(d)' <=> Works(d) /\ d # c
  BY <1>2, <1>4 DEF Works
<1>10. Workers'
  <2>1. \A o \in Running(ops) : ops[o].kind = "pull_request"
    BY <1>4 DEF Workers, OneRuns, Works
  <2> QED BY <1>2, <1>3, <1>5, <1>9, <2>1 DEF Workers, Running, Grows
<1>11. Capturers'
  BY <1>2, <1>3, <1>4 DEF Capturers, OtherShapes
<1>12. \A q : Told(q) => Told(q)'
  BY <1>2, <1>3, <1>4 DEF Told, Teller
<1>13. Telling'
  BY <1>3, <1>12 DEF Telling, Picked
<1> QED BY <1>6, <1>7, <1>8, <1>10, <1>11, <1>13

\* An operation that was settled: no other runs, and each that had succeeded still has.
LEMMA OpEnded ==
    ASSUME Invariant, NEW o \in Running(ops), NEW state \in {"succeeded", "failed"}, Ended(o, state)
    PROVE  /\ ops' \in Seq(OpShape) /\ DOMAIN ops' = DOMAIN ops /\ Len(ops') = Len(ops)
           /\ \A p \in DOMAIN ops : ops'[p].kind = ops[p].kind
           /\ \A p \in DOMAIN ops : p # o => ops'[p] = ops[p]
           /\ o \in DOMAIN ops /\ ops'[o].state = state
           /\ Running(ops)' = {}
           /\ \A k : Succeeded(k) => Succeeded(k)'
           /\ last' \in [succeeded : Keys, failed : Keys]
           /\ ops[o].kind \in GoalKinds => last' = [last EXCEPT ![state] = o]
           /\ ops[o].kind \notin GoalKinds => last' = last
<1>1. ops \in Seq(OpShape) /\ Len(ops) <= MaxOps /\ last \in [succeeded : Keys, failed : Keys]
  BY DEF Invariant, RowShapes, OpShape
<1>2. o \in DOMAIN ops /\ ops[o].state = "running" /\ \A p \in DOMAIN ops : ops[p].state = "running" => p = o
  BY DEF Running, Invariant, OneRuns
<1>3. ops' = [ops EXCEPT ![o].state = state] /\ state \in OpStates
  BY DEF Ended, OpStates
<1> DEFINE x == [ops[o] EXCEPT !.state = state]
<1>11. x \in OpShape /\ x.kind = ops[o].kind /\ x.state = state
  <2>1. ops[o] \in OpShape
    BY <1>1, <1>2
  <2> QED BY <1>3, <2>1 DEF OpShape
<1>12. ops' = [ops EXCEPT ![o] = x]
  BY <1>3
<1> HIDE DEF x
<1>4. /\ ops' \in Seq(OpShape) /\ DOMAIN ops' = DOMAIN ops /\ Len(ops') = Len(ops)
  BY <1>1, <1>2, <1>11, <1>12
<1>5. /\ \A p \in DOMAIN ops : ops'[p].kind = ops[p].kind
      /\ \A p \in DOMAIN ops : p # o => ops'[p] = ops[p]
      /\ ops'[o].state = state
  BY <1>1, <1>2, <1>11, <1>12
<1>6. Running(ops)' = {}
  BY <1>2, <1>4, <1>5 DEF Running
<1>7. \A k : Succeeded(k) => Succeeded(k)'
  BY <1>2, <1>4, <1>5 DEF Succeeded
<1>8. o \in Keys
  BY <1>1, <1>2, BoundsAssumption DEF Keys, OpIds
<1>9. last' \in [succeeded : Keys, failed : Keys]
  <2>1. \A w \in {"succeeded", "failed"} : [last EXCEPT ![w] = o] \in [succeeded : Keys, failed : Keys]
    BY <1>1, <1>8
  <2> QED BY <1>1, <2>1 DEF Ended
<1>10. /\ ops[o].kind \in GoalKinds => last' = [last EXCEPT ![state] = o]
       /\ ops[o].kind \notin GoalKinds => last' = last
  BY DEF Ended
<1> QED BY <1>2, <1>4, <1>5, <1>6, <1>7, <1>9, <1>10

\* What a goal operation makes of the row.
LEMMA SettledIs ==
    ASSUME RowShapes, NEW k \in GoalKinds, NEW res \in Results
    PROVE  /\ Settled(k, res) \in [status : Statuses, reason : Reasons, base : BOOLEAN, dirty : BOOLEAN,
                                   ahead : BOOLEAN, pushed : BOOLEAN, pr : BOOLEAN]
           /\ Settled(k, res).base = del.base
           /\ Settled(k, res).pushed = (del.pushed \/ (k = "push" /\ res = "ok"))
           /\ Settled(k, res).pr = (del.pr \/ (k = "pull_request" /\ res = "ok"))
           /\ res # "ok" => Settled(k, res).status \in {"blocked", "conflicted"}
           /\ res = "ok" /\ k = "commit" => Settled(k, res).status = "ready"
           /\ res = "ok" /\ k # "commit" => Settled(k, res).status = "delivered"
<1>1. "conflict" \in Reasons /\ "op_failed" \in Reasons /\ "none" \in Reasons
  BY DEF Reasons
<1>2. {"conflicted", "blocked", "ready", "delivered"} \subseteq Statuses
  BY DEF Statuses, Terminal
<1>3. CASE res = "conflict"
  BY <1>1, <1>2, <1>3 DEF RowShapes, Settled
<1>4. CASE res = "error"
  BY <1>1, <1>2, <1>4 DEF RowShapes, Settled
<1>5. CASE res = "ok"
  <2> DEFINE s == IF k = "commit" THEN "ready" ELSE "delivered"
             d == IF k = "commit" THEN FALSE ELSE del.dirty
             a == IF k = "commit" THEN git.branch > 0 ELSE del.ahead
             p == del.pushed \/ k = "push"
             q == del.pr \/ k = "pull_request"
  <2>1. Settled(k, res) = [del EXCEPT !.status = s, !.reason = "none", !.dirty = d, !.ahead = a,
                                      !.pushed = p, !.pr = q]
    BY <1>5 DEF Settled, RowShapes
  <2>2. /\ s \in Statuses
        /\ (k = "commit" => s = "ready") /\ (k # "commit" => s = "delivered")
    BY <1>2
  <2>3. d \in BOOLEAN /\ a \in BOOLEAN
    <3>1. (git.branch > 0) \in BOOLEAN /\ del.dirty \in BOOLEAN /\ del.ahead \in BOOLEAN
      BY DEF RowShapes
    <3>2. d = FALSE \/ d = del.dirty
      OBVIOUS
    <3>3. a = (git.branch > 0) \/ a = del.ahead
      OBVIOUS
    <3> QED BY <3>1, <3>2, <3>3
  <2>4. p \in BOOLEAN /\ q \in BOOLEAN
    OBVIOUS
  <2> HIDE DEF s, d, a
  <2>5. /\ Settled(k, res) \in [status : Statuses, reason : Reasons, base : BOOLEAN, dirty : BOOLEAN,
                                 ahead : BOOLEAN, pushed : BOOLEAN, pr : BOOLEAN]
        /\ Settled(k, res).status = s /\ Settled(k, res).base = del.base
        /\ Settled(k, res).pushed = p /\ Settled(k, res).pr = q
    <3> HIDE DEF p, q
    <3>1. del \in [status : Statuses, reason : Reasons, base : BOOLEAN, dirty : BOOLEAN,
                   ahead : BOOLEAN, pushed : BOOLEAN, pr : BOOLEAN]
      BY DEF RowShapes
    <3> QED BY <1>1, <2>1, <2>2, <2>3, <2>4, <3>1
  <2> QED BY <1>5, <2>2, <2>5
<1> QED BY <1>3, <1>4, <1>5 DEF Results

\* The row, the operation and what will be told move together.
LEMMA FinishOpStep ==
    ASSUME Invariant, NEW c \in Calls, FinishOp(c)
    PROVE  Invariant'
<1> USE DEF Invariant, Up, told
<1>0. PICK o, k, res, state : /\ o = calls[c].op /\ k = calls[c].kind /\ res = calls[c].res
                              /\ state = IF res = "ok" THEN "succeeded" ELSE "failed"
  OBVIOUS
<1>1. calls \in [Calls -> CallShape] /\ calls[c] \in CallShape /\ faults \in Nat /\ RowShapes
  BY DEF OtherShapes
<1>2. /\ Up /\ calls[c].pc = "finish" /\ k \in GoalKinds /\ Works(c)
      /\ Ended(o, state) /\ del' = Settled(k, res)
      /\ UNCHANGED <<git, told, gone, phase, rec, faults>>
  BY <1>0 DEF FinishOp, At, Works
<1>3. o \in Running(ops) /\ ops[o].kind = k /\ del.status = "delivering"
  <2>1. o \in Running(ops) /\ ops[o].kind = k
    BY <1>0, <1>2 DEF Workers
  <2> QED BY <1>2, <2>1 DEF OneRuns
<1>4. res \in Results
  BY <1>0, <1>1, <1>2 DEF Workers, CallShape, Results
<1>5. state \in {"succeeded", "failed"} /\ (res = "ok" <=> state = "succeeded")
  BY <1>0
<1>6. calls' = [calls EXCEPT ![c] = [calls[c] EXCEPT !.pc = "settled", !.status = del'.status]]
  BY <1>1 DEF FinishOp
<1> DEFINE r == [calls[c] EXCEPT !.pc = "settled", !.status = del'.status]
<1>7. /\ del' \in [status : Statuses, reason : Reasons, base : BOOLEAN, dirty : BOOLEAN,
                   ahead : BOOLEAN, pushed : BOOLEAN, pr : BOOLEAN]
      /\ del'.base = del.base
      /\ del'.pushed = (del.pushed \/ (k = "push" /\ res = "ok"))
      /\ del'.pr = (del.pr \/ (k = "pull_request" /\ res = "ok"))
      /\ res # "ok" => del'.status \in {"blocked", "conflicted"}
      /\ res = "ok" /\ k = "commit" => del'.status = "ready"
      /\ res = "ok" /\ k # "commit" => del'.status = "delivered"
  BY <1>1, <1>2, <1>4, SettledIs
<1>8. r \in CallShape /\ r.pc = "settled" /\ r.status = del'.status /\ r.op = o
  BY <1>0, <1>1, <1>7 DEF CallShape, CallSteps
<1>9. /\ calls' \in [Calls -> CallShape]
      /\ calls'[c] = r
      /\ \A d \in Calls : d # c => calls'[d] = calls[d]
  BY <1>1, <1>6, <1>8, CallPut
<1> HIDE DEF r
<1>10. /\ ops' \in Seq(OpShape) /\ DOMAIN ops' = DOMAIN ops /\ Len(ops') = Len(ops)
       /\ \A p \in DOMAIN ops : ops'[p].kind = ops[p].kind
       /\ \A p \in DOMAIN ops : p # o => ops'[p] = ops[p]
       /\ o \in DOMAIN ops /\ ops'[o].state = state
       /\ Running(ops)' = {}
       /\ \A q : Succeeded(q) => Succeeded(q)'
       /\ last' \in [succeeded : Keys, failed : Keys]
       /\ last' = [last EXCEPT ![state] = o]
  BY <1>2, <1>3, <1>5, OpEnded
<1>11. RowShapes'
  BY <1>1, <1>2, <1>7, <1>10 DEF RowShapes, OpShape
<1>12. OtherShapes'
  BY <1>2, <1>9 DEF OtherShapes
<1>13. del'.status \notin {"delivering", "preparing"}
  BY <1>7
<1>14. OneRuns'
  BY <1>2, <1>10, <1>13 DEF OneRuns
<1>15. res = "ok" => Succeeded(k)'
  BY <1>3, <1>5, <1>10 DEF Succeeded
<1>16. /\ state = "succeeded" => last'.succeeded = o /\ last'.failed = last.failed
       /\ state = "failed" => last'.failed = o /\ last'.succeeded = last.succeeded
  BY <1>5, <1>10 DEF RowShapes
<1>17. Evidence'
  <2>1. del'.pushed => git'.remote # NoBranch /\ Succeeded("push")'
    BY <1>0, <1>2, <1>7, <1>10, <1>15 DEF Evidence, Workers
  <2>2. del'.pr => git'.pr /\ Succeeded("pull_request")'
    BY <1>0, <1>2, <1>7, <1>10, <1>15 DEF Evidence, Workers
  <2>8. del'.pr => last'.succeeded # Unscoped
    <3>1. o # Unscoped
      BY <1>1, <1>3 DEF RowShapes, Running, Unscoped
    <3>2. CASE res = "ok"
      BY <1>5, <1>16, <3>1, <3>2
    <3>3. CASE res # "ok"
      BY <1>5, <1>7, <1>16, <3>3 DEF Evidence
    <3> QED BY <3>2, <3>3
  <2>3. rec'.pc = "record" => git'.pr
    BY <1>2 DEF Evidence
  <2>4. \A w \in {"succeeded", "failed"} : last[w] # Unscoped =>
           last[w] \in DOMAIN ops /\ ops[last[w]].state = w /\ ops[last[w]].kind \in GoalKinds /\ last[w] # o
    BY <1>3 DEF Evidence, Running
  <2>5. \A w \in {"succeeded", "failed"} : last'[w] # Unscoped =>
           last'[w] \in DOMAIN ops' /\ ops'[last'[w]].state = w /\ ops'[last'[w]].kind \in GoalKinds
    BY <1>2, <1>3, <1>5, <1>10, <1>16, <2>4 
  <2>6. \A p \in DOMAIN ops' : ops'[p].kind \in GoalKinds => del'.base
    BY <1>7, <1>10 DEF Evidence
  <2>7. del'.status = "delivered" =>
           /\ last'.succeeded # Unscoped
           /\ ops'[last'.succeeded].kind \in External \/ del'.pr
           /\ \E q \in External : Succeeded(q)'
    <3>1. SUFFICES ASSUME del'.status = "delivered"
                   PROVE  /\ last'.succeeded # Unscoped
                          /\ ops'[last'.succeeded].kind \in External
                          /\ \E q \in External : Succeeded(q)'
      OBVIOUS
    <3>2. res = "ok" /\ k \in External
      BY <1>2, <1>7, <3>1 DEF GoalKinds, External
    <3>3. o # Unscoped
      BY <1>1, <1>3 DEF RowShapes, Running, Unscoped
    <3> QED BY <1>3, <1>5, <1>10, <1>15, <1>16, <3>2, <3>3
  <2> QED BY <2>1, <2>2, <2>3, <2>5, <2>6, <2>7, <2>8 DEF Evidence
<1>18. \A d \in Calls : ~Works(d)'
  BY <1>2, <1>8, <1>9 DEF Workers, Works
<1>19. Workers'
  <2>1. \A d \in Calls : calls'[d].pc # "finish"
    BY <1>18 DEF Works
  <2>2. \A d \in Calls : calls'[d].pc = "begin" => calls'[d].kind \in GoalKinds /\ del'.base
    BY <1>7, <1>8, <1>9 DEF Workers
  <2>3. Up'
    BY <1>2
  <2> QED BY <1>10, <1>18, <2>1, <2>2, <2>3 DEF Workers
<1>20. Capturers'
  BY <1>3, <1>8, <1>9, <1>13 DEF Capturers
<1>21. Telling'
  <2>1. SUFFICES ASSUME del'.status \in Terminal
                 PROVE  Told(Picked)'
    BY DEF Telling
  <2>2. Picked' = o
    BY <1>7, <1>4, <1>5, <1>16, <2>1 DEF Picked, Results, Terminal
  <2>3. Teller(c, o)'
    BY <1>8, <1>9, <2>1 DEF Teller
  <2> QED BY <2>2, <2>3 DEF Told
<1> QED BY <1>11, <1>12, <1>14, <1>17, <1>19, <1>20, <1>21

\* A teardown operation ends and leaves what the delivery had come to.
LEMMA FinishTeardownOpStep ==
    ASSUME Invariant, NEW c \in Calls, FinishTeardownOp(c)
    PROVE  Invariant'
<1> USE DEF Invariant, Up, told
<1> DEFINE o     == calls[c].op
           state == IF calls[c].res = "ok" THEN "succeeded" ELSE "failed"
           next  == IF calls[c].kind = "worktree_remove" THEN "branch" ELSE "snapshot"
           r     == [calls[c] EXCEPT !.pc = next]
<1>1. calls \in [Calls -> CallShape] /\ calls[c] \in CallShape /\ faults \in Nat /\ RowShapes
  BY DEF OtherShapes
<1>2. /\ Up /\ calls[c].pc = "finish" /\ calls[c].kind \in Teardowns /\ Works(c)
      /\ Ended(o, state) /\ del' = [del EXCEPT !.reason = "none"]
      /\ UNCHANGED <<git, told, gone, phase, rec, faults>>
      /\ calls' = [calls EXCEPT ![c] = r]
  BY DEF FinishTeardownOp, At, Works, Go
<1>3. o \in Running(ops) /\ ops[o].kind = calls[c].kind /\ ops[o].kind \notin GoalKinds
  BY <1>2 DEF Workers, Teardowns, GoalKinds
<1>4. state \in {"succeeded", "failed"} /\ next \in {"branch", "snapshot"}
  OBVIOUS
<1>5. r \in CallShape /\ r.pc \in {"branch", "snapshot"}
  BY <1>1, <1>4 DEF CallShape, CallSteps, Opening
<1> HIDE DEF r, o, next, state
<1>6. /\ calls' \in [Calls -> CallShape]
      /\ calls'[c] = r
      /\ \A d \in Calls : d # c => calls'[d] = calls[d]
  BY <1>1, <1>2, <1>5, CallPut
<1>7. /\ del' \in [status : Statuses, reason : Reasons, base : BOOLEAN, dirty : BOOLEAN,
                   ahead : BOOLEAN, pushed : BOOLEAN, pr : BOOLEAN]
      /\ del'.base = del.base /\ del'.pushed = del.pushed /\ del'.pr = del.pr
      /\ del'.status = del.status
  BY <1>1, <1>2 DEF RowShapes, Reasons
<1>8. /\ ops' \in Seq(OpShape) /\ DOMAIN ops' = DOMAIN ops /\ Len(ops') = Len(ops)
      /\ \A p \in DOMAIN ops : ops'[p].kind = ops[p].kind
      /\ \A p \in DOMAIN ops : p # o => ops'[p] = ops[p]
      /\ o \in DOMAIN ops /\ ops'[o].state = state
      /\ Running(ops)' = {}
      /\ \A q : Succeeded(q) => Succeeded(q)'
      /\ last' = last
  BY <1>2, <1>3, <1>4, OpEnded
<1>9. RowShapes'
  BY <1>1, <1>2, <1>7, <1>8 DEF RowShapes, OpShape
<1>10. OtherShapes'
  BY <1>2, <1>6 DEF OtherShapes
<1>11. del.status # "delivering"
  BY <1>3 DEF OneRuns
<1>12. OneRuns'
  BY <1>2, <1>7, <1>8, <1>11 DEF OneRuns
<1>13. Evidence'
  <2>1. \A w \in {"succeeded", "failed"} : last[w] # Unscoped => last[w] # o
    BY <1>3 DEF Evidence
  <2>2. git' = git /\ rec' = rec
    BY <1>2
  <2>3. (del'.pushed => git'.remote # NoBranch /\ Succeeded("push")') /\ (rec'.pc = "record" => git'.pr)
    BY <1>7, <1>8, <2>2 DEF Evidence
  <2>4. del'.pr => git'.pr /\ Succeeded("pull_request")' /\ last'.succeeded # Unscoped
    BY <1>7, <1>8, <2>2 DEF Evidence
  <2>5. \A w \in {"succeeded", "failed"} : last'[w] # Unscoped =>
           last'[w] \in DOMAIN ops' /\ ops'[last'[w]].state = w /\ ops'[last'[w]].kind \in GoalKinds
    BY <1>8, <2>1 DEF Evidence
  <2>6. \A p \in DOMAIN ops' : ops'[p].kind \in GoalKinds => del'.base
    BY <1>7, <1>8 DEF Evidence
  <2>7. del'.status = "delivered" =>
           /\ last'.succeeded # Unscoped
           /\ ops'[last'.succeeded].kind \in External \/ del'.pr
           /\ \E k \in External : Succeeded(k)'
    BY <1>7, <1>8, <2>1 DEF Evidence
  <2> QED BY <2>3, <2>4, <2>5, <2>6, <2>7 DEF Evidence
<1>14. \A d \in Calls : ~Works(d)'
  BY <1>2, <1>5, <1>6 DEF Workers, Works
<1>15. Workers'
  BY <1>2, <1>5, <1>6, <1>7, <1>8, <1>14 DEF Workers, Works
<1>16. Capturers'
  BY <1>2, <1>5, <1>6, <1>7 DEF Capturers
<1>17. \A q : Told(q) => Told(q)'
  BY <1>2, <1>6 DEF Told, Teller
<1>18. Telling'
  BY <1>2, <1>7, <1>8, <1>17 DEF Telling, Picked
<1> QED BY <1>9, <1>10, <1>12, <1>13, <1>15, <1>16, <1>18

(***************************************************************************)
(* Telling.                                                                *)
(***************************************************************************)
\* What Tell leaves: the key is used, or it was recorded that it cannot be.
LEMMA TellIs ==
    ASSUME OtherShapes, NEW k \in Keys, NEW s \in Statuses, Tell(k, s)
    PROVE  /\ notes' \in [Keys -> Statuses \cup {"erased"}] /\ unavail' \in BOOLEAN /\ missed' = missed
           /\ \A q \in Keys : notes[q] # "none" => notes'[q] # "none"
           /\ unavail => unavail'
           /\ s # "none" => notes'[k] # "none" \/ unavail'
  BY DEF OtherShapes, Tell

\* A settled or published call that ends, or reads the row again.
LEMMA PublishStep ==
    ASSUME Invariant, NEW c \in Calls, Publish(c)
    PROVE  Invariant'
<1> USE DEF Invariant, Up, rows
<1>1. calls \in [Calls -> CallShape] /\ calls[c] \in CallShape /\ faults \in Nat /\ RowShapes /\ OtherShapes
  BY DEF OtherShapes
<1>2. /\ calls' \in [Calls -> CallShape]
      /\ calls'[c] = Done /\ Done.pc = "done"
      /\ \A d \in Calls : d # c => calls'[d] = calls[d]
  BY <1>1, CallPut, CallShapes DEF Publish, End
<1>3. /\ calls[c].pc \in {"settled", "publish"} /\ Up
      /\ UNCHANGED <<del, ops, last, git, gone, phase, rec, faults>>
  BY DEF Publish
<1>4. calls[c].op \in Keys /\ calls[c].status \in Statuses
  BY <1>1 DEF CallShape
<1>5. /\ notes' \in [Keys -> Statuses \cup {"erased"}] /\ unavail' \in BOOLEAN /\ missed' = missed
      /\ \A q \in Keys : notes[q] # "none" => notes'[q] # "none"
      /\ unavail => unavail'
      /\ calls[c].status \in Terminal => notes'[calls[c].op] # "none" \/ unavail'
  <2>1. CASE calls[c].status \in Terminal
    BY <1>1, <1>4, <2>1, TellIs DEF Publish, Terminal
  <2>2. CASE calls[c].status \notin Terminal
    BY <1>1, <2>2 DEF Publish, told, OtherShapes
  <2> QED BY <2>1, <2>2
<1>6. RowShapes'
  BY <1>1, <1>3 DEF RowShapes
<1>7. OtherShapes'
  BY <1>1, <1>2, <1>3, <1>5 DEF OtherShapes
<1>8. OneRuns' /\ Evidence'
  BY <1>3 DEF OneRuns, Running, Evidence, Succeeded
<1>9. \A d \in Calls : Works(d)' <=> Works(d)
  BY <1>2, <1>3 DEF Works
<1>10. Workers'
  BY <1>2, <1>3, <1>9 DEF Workers, Running, Works
<1>11. Capturers'
  BY <1>2, <1>3 DEF Capturers, OtherShapes
<1>12. \A q \in Keys : Told(q) => Told(q)' \/ unavail'
  <2> SUFFICES ASSUME NEW q \in Keys, Told(q), ~unavail'
               PROVE  Told(q)'
    OBVIOUS
  <2>1. CASE notes[q] # "none"
    BY <1>5, <2>1 DEF Told
  <2>2. CASE rec.pc = "notify" /\ rec.op = q /\ rec.status \in Terminal
    BY <1>3, <2>2 DEF Told
  <2>3. CASE \E d \in Calls : Teller(d, q)
    <3>1. PICK d \in Calls : Teller(d, q)
      BY <2>3
    <3>2. CASE d = c
      BY <1>5, <3>1, <3>2 DEF Teller, Told
    <3>3. CASE d # c
      BY <1>2, <3>1, <3>3 DEF Teller, Told
    <3> QED BY <3>2, <3>3
  <2> QED BY <2>1, <2>2, <2>3 DEF Told
<1>13. Telling'
  <2>1. Picked' = Picked /\ Picked \in Keys /\ Unscoped \in Keys
    BY <1>1, <1>3, PickedIs DEF Picked, Keys
  <2> QED BY <1>3, <1>5, <1>12, <2>1 DEF Telling
<1> QED BY <1>6, <1>7, <1>8, <1>10, <1>11, <1>13

\* A report that fails is recorded as missed.
LEMMA PublishFailsStep ==
    ASSUME Invariant, NEW c \in Calls, PublishFails(c)
    PROVE  Invariant'
<1> USE DEF Invariant, Up, rows
<1>1. calls \in [Calls -> CallShape] /\ calls[c] \in CallShape /\ faults \in Nat /\ RowShapes /\ OtherShapes
  BY DEF OtherShapes
<1>2. /\ calls' \in [Calls -> CallShape]
      /\ calls'[c] = Done /\ Done.pc = "done"
      /\ \A d \in Calls : d # c => calls'[d] = calls[d]
  BY <1>1, CallPut, CallShapes DEF PublishFails, End
<1>3. /\ calls[c].pc \in {"settled", "publish"} /\ Up /\ missed' = TRUE
      /\ UNCHANGED <<del, ops, last, git, gone, notes, unavail, phase, rec>>
      /\ faults' \in Nat /\ faults' > faults
  BY <1>1 DEF PublishFails, Fault
<1>6. RowShapes'
  BY <1>1, <1>3 DEF RowShapes
<1>7. OtherShapes'
  BY <1>1, <1>2, <1>3 DEF OtherShapes
<1>8. OneRuns' /\ Evidence'
  BY <1>3 DEF OneRuns, Running, Evidence, Succeeded
<1>9. \A d \in Calls : Works(d)' <=> Works(d)
  BY <1>2, <1>3 DEF Works
<1>10. Workers'
  BY <1>2, <1>3, <1>9 DEF Workers, Running, Works
<1>11. Capturers'
  BY <1>1, <1>2, <1>3 DEF Capturers
<1>12. Telling'
  BY <1>3 DEF Telling
<1> QED BY <1>6, <1>7, <1>8, <1>10, <1>11, <1>12

\* The status told is the one the row has by then.
LEMMA SupersedeStep ==
    ASSUME Invariant, NEW c \in Calls, Supersede(c)
    PROVE  Invariant'
<1> USE DEF Invariant, Up, rows, told
<1>1. calls \in [Calls -> CallShape] /\ calls[c] \in CallShape /\ faults \in Nat /\ RowShapes /\ OtherShapes
  BY DEF OtherShapes
<1> DEFINE r == [calls[c] EXCEPT !.pc = "publish", !.status = del.status]
<1>2. r \in CallShape /\ r.pc = "publish" /\ r.status = del.status /\ r.op = calls[c].op
  BY <1>1 DEF CallShape, CallSteps, RowShapes
<1>3. calls' = [calls EXCEPT ![c] = r]
  BY <1>1 DEF Supersede
<1> HIDE DEF r
<1>4. /\ calls' \in [Calls -> CallShape]
      /\ calls'[c] = r
      /\ \A d \in Calls : d # c => calls'[d] = calls[d]
  BY <1>1, <1>2, <1>3, CallPut
<1>5. /\ calls[c].pc = "settled" /\ Up
      /\ UNCHANGED <<del, ops, last, git, gone, notes, unavail, missed, phase, rec, faults>>
  BY DEF Supersede, At
<1>6. RowShapes'
  BY <1>1, <1>5 DEF RowShapes
<1>7. OtherShapes'
  BY <1>1, <1>4, <1>5 DEF OtherShapes
<1>8. OneRuns' /\ Evidence'
  BY <1>5 DEF OneRuns, Running, Evidence, Succeeded
<1>9. \A d \in Calls : Works(d)' <=> Works(d)
  BY <1>2, <1>4, <1>5 DEF Works
<1>10. Workers'
  BY <1>2, <1>4, <1>5, <1>9 DEF Workers, Running, Works
<1>11. Capturers'
  BY <1>2, <1>4, <1>5 DEF Capturers
<1>12. del.status \in Terminal => \A q \in Keys : Told(q) => Told(q)'
  BY <1>2, <1>4, <1>5 DEF Told, Teller
<1>13. Telling'
  <2>1. Picked' = Picked /\ Picked \in Keys /\ Unscoped \in Keys
    BY <1>1, <1>5, PickedIs DEF Picked, Keys
  <2> QED BY <1>5, <1>12, <2>1 DEF Telling
<1> QED BY <1>6, <1>7, <1>8, <1>10, <1>11, <1>13

(***************************************************************************)
(* Crash, boot and reconciliation.                                         *)
(***************************************************************************)
\* A crash forgets the requests and keeps the rows.
LEMMA CrashStep ==
    ASSUME Invariant, Crash
    PROVE  Invariant'
<1> USE DEF Invariant, Up, rows, told
<1>1. calls \in [Calls -> CallShape] /\ faults \in Nat /\ RowShapes /\ OtherShapes
  BY DEF OtherShapes
<1>2. \A d \in Calls : calls'[d] \in CallShape /\ calls'[d].pc \in {"idle", "done"}
  BY <1>1, CallShapes DEF Crash
<1>3. calls' \in [Calls -> CallShape]
  BY <1>1, <1>2 DEF Crash
<1>4. /\ rec' \in [pc : {"done", "list", "record", "notify"}, op : Keys, status : Statuses]
      /\ rec'.pc = "done"
  BY DEF Crash, Keys, Unscoped, Statuses
<1>5. /\ phase' = "down" /\ faults' \in Nat
      /\ UNCHANGED <<del, ops, last, git, gone, notes, unavail, missed>>
  BY <1>1 DEF Crash, Fault
<1>6. RowShapes'
  BY <1>1, <1>5 DEF RowShapes
<1>7. OtherShapes'
  BY <1>1, <1>3, <1>4, <1>5 DEF OtherShapes
<1>8. OneRuns' /\ Evidence'
  BY <1>4, <1>5 DEF OneRuns, Running, Evidence, Succeeded
<1>9. \A d \in Calls : calls'[d].pc \notin {"execute", "finish", "begin", "capture"}
  BY <1>2
<1>10. Workers'
  BY <1>2, <1>5, <1>9 DEF Workers, Works
<1>11. Capturers'
  BY <1>5, <1>9 DEF Capturers
<1>12. Telling'
  BY <1>5 DEF Telling
<1> QED BY <1>6, <1>7, <1>8, <1>10, <1>11, <1>12

\* The row a boot finds is never left preparing or delivering.
LEMMA RecoveredRow ==
    ASSUME Invariant, RecoverRows
    PROVE  /\ del' \in [status : Statuses, reason : Reasons, base : BOOLEAN, dirty : BOOLEAN,
                        ahead : BOOLEAN, pushed : BOOLEAN, pr : BOOLEAN]
           /\ del'.pushed = del.pushed /\ del'.pr = del.pr /\ del'.base = del.base
           /\ del'.status \notin {"preparing", "delivering"}
           /\ del'.status = "delivered" => del.status = "delivered" \/ del.pr
<1> DEFINE R     == [status : Statuses, reason : Reasons, base : BOOLEAN, dirty : BOOLEAN,
                     ahead : BOOLEAN, pushed : BOOLEAN, pr : BOOLEAN]
           cut   == IF Running(ops) = {} THEN del
                    ELSE [del EXCEPT !.status = "blocked", !.reason = "interrupted"]
           reset == [cut EXCEPT !.status = IF cut.status = "preparing" THEN "pending" ELSE cut.status]
<1>1. del \in R /\ (del.status = "delivering" => Running(ops) # {})
  BY DEF Invariant, RowShapes, OneRuns
<1>2. {"pending", "blocked", "delivered"} \subseteq Statuses /\ {"interrupted", "none"} \subseteq Reasons
  BY DEF Statuses, Terminal, Reasons
<1>3. /\ cut \in R /\ cut.pushed = del.pushed /\ cut.pr = del.pr /\ cut.base = del.base
      /\ cut.status # "delivering" /\ cut.status \in {del.status, "blocked"}
  <2>1. CASE Running(ops) = {}
    BY <1>1, <2>1
  <2>2. CASE Running(ops) # {}
    BY <1>1, <1>2, <2>2
  <2> QED BY <2>1, <2>2
<1>4. del' = IF reset.status = "blocked" /\ reset.pr
             THEN [reset EXCEPT !.status = "delivered", !.reason = "none"] ELSE reset
  BY <1>1, <1>3 DEF RecoverRows
<1> HIDE DEF cut
<1>5. /\ reset \in R /\ reset.pushed = del.pushed /\ reset.pr = del.pr /\ reset.base = del.base
      /\ reset.status \notin {"delivering", "preparing"}
      /\ reset.status \in {del.status, "blocked", "pending"}
  BY <1>2, <1>3
<1> HIDE DEF reset
<1>6. CASE reset.status = "blocked" /\ reset.pr
  BY <1>2, <1>4, <1>5, <1>6
<1>7. CASE ~(reset.status = "blocked" /\ reset.pr)
  BY <1>4, <1>5, <1>7
<1> QED BY <1>6, <1>7

\* The boot interrupts what ran, and no claim about the outside is lost.
LEMMA RecoverRowsStep ==
    ASSUME Invariant, RecoverRows
    PROVE  Invariant'
<1> USE DEF Invariant, Up, rows, told
<1>1. calls \in [Calls -> CallShape] /\ faults \in Nat /\ RowShapes /\ OtherShapes
  BY DEF OtherShapes
<1>2. /\ phase = "down" /\ phase' = "boot"
      /\ UNCHANGED <<last, git, calls, notes, unavail, missed, gone, rec, faults>>
  BY DEF RecoverRows
<1>3. ops \in Seq(OpShape) /\ ops' = [o \in DOMAIN ops |->
                 [ops[o] EXCEPT !.state = IF ops[o].state = "running" THEN "interrupted" ELSE ops[o].state]]
  BY <1>1 DEF RecoverRows, RowShapes, OpShape
<1>4. \A o \in DOMAIN ops : /\ ops'[o] \in OpShape /\ ops'[o].kind = ops[o].kind
                            /\ ops'[o].state = IF ops[o].state = "running" THEN "interrupted" ELSE ops[o].state
  <2> SUFFICES ASSUME NEW o \in DOMAIN ops
               PROVE  /\ ops'[o] \in OpShape /\ ops'[o].kind = ops[o].kind
                      /\ ops'[o].state = IF ops[o].state = "running" THEN "interrupted" ELSE ops[o].state
    OBVIOUS
  <2>1. ops[o] \in OpShape
    BY <1>3
  <2> QED BY <1>3, <2>1 DEF OpShape, OpStates
<1>5. DOMAIN ops' = 1..Len(ops) /\ DOMAIN ops = 1..Len(ops)
  BY <1>3
<1>6. ops' \in Seq(OpShape) /\ Len(ops') = Len(ops)
  <2>1. ops' = [o \in 1..Len(ops) |-> ops'[o]] /\ Len(ops) \in Nat
    BY <1>3, <1>5
  <2>2. \A o \in 1..Len(ops) : ops'[o] \in OpShape
    BY <1>4, <1>5
  <2> QED BY <2>1, <2>2
<1>7. Running(ops)' = {}
  BY <1>4, <1>5 DEF Running
<1>8. \A k : Succeeded(k) => Succeeded(k)'
  BY <1>4, <1>5 DEF Succeeded
<1>9. RowShapes'
  BY <1>1, <1>2, <1>6, RecoveredRow DEF RowShapes, OpShape
<1>10. OtherShapes'
  BY <1>1, <1>2 DEF OtherShapes
<1>11. OneRuns'
  BY <1>7, RecoveredRow DEF OneRuns
<1>12. Evidence'
  <2>1. \A w \in {"succeeded", "failed"} : last'[w] # Unscoped =>
           last'[w] \in DOMAIN ops' /\ ops'[last'[w]].state = w /\ ops'[last'[w]].kind \in GoalKinds
    BY <1>2, <1>4, <1>5 DEF Evidence
  <2>2. \A o \in DOMAIN ops' : ops'[o].kind \in GoalKinds => del'.base
    BY <1>4, <1>5, RecoveredRow DEF Evidence
  <2>3. del'.pushed => git'.remote # NoBranch /\ Succeeded("push")'
    BY <1>2, <1>8, RecoveredRow DEF Evidence
  <2>4. del'.pr => git'.pr /\ Succeeded("pull_request")' /\ last'.succeeded # Unscoped
    BY <1>2, <1>8, RecoveredRow DEF Evidence
  <2>5. del'.status = "delivered" =>
           /\ last'.succeeded # Unscoped
           /\ ops'[last'.succeeded].kind \in External \/ del'.pr
           /\ \E k \in External : Succeeded(k)'
    <3>1. CASE del.pr
      BY <2>4, <3>1, RecoveredRow DEF External
    <3>2. CASE ~del.pr /\ del.status = "delivered"
      <4>1. last.succeeded # Unscoped /\ ops[last.succeeded].kind \in External /\ last.succeeded \in DOMAIN ops
        BY <3>2 DEF Evidence
      <4>2. PICK k \in External : Succeeded(k)
        BY <3>2 DEF Evidence
      <4> QED BY <1>2, <1>4, <1>8, <4>1, <4>2
    <3> QED BY <3>1, <3>2, RecoveredRow
  <2> QED BY <1>2, <2>1, <2>2, <2>3, <2>4, <2>5 DEF Evidence
<1>13. \A d \in Calls : calls'[d].pc \in {"idle", "done"}
  BY <1>2 DEF Workers
<1>14. Workers'
  BY <1>2, <1>13 DEF Workers, Works
<1>15. Capturers'
  BY <1>2, <1>13 DEF Capturers
<1>16. Telling'
  BY <1>2 DEF Telling
<1> QED BY <1>9, <1>10, <1>11, <1>12, <1>14, <1>15, <1>16

\* After the rebuilt outbox the server is up and every settled delivery told.
LEMMA RebuildNoticesStep ==
    ASSUME Invariant, RebuildNotices
    PROVE  Invariant'
<1> USE DEF Invariant, Up, rows
<1>1. calls \in [Calls -> CallShape] /\ faults \in Nat /\ RowShapes /\ OtherShapes
  BY DEF OtherShapes
<1>2. /\ phase = "boot" /\ phase' = "up"
      /\ UNCHANGED <<del, ops, last, git, calls, gone>>
  BY DEF RebuildNotices
<1>3. PICK p \in {"list", "done"} : rec' = [rec EXCEPT !.pc = p]
  BY DEF RebuildNotices
<1>4. /\ rec' \in [pc : {"done", "list", "record", "notify"}, op : Keys, status : Statuses]
      /\ rec'.pc \in {"list", "done"}
  BY <1>1, <1>3 DEF OtherShapes
<1>5. faults' \in Nat
  BY <1>1 DEF RebuildNotices, Fault
<1>6. Picked \in Keys
  BY <1>1, PickedIs
<1>7. /\ missed' \in BOOLEAN /\ unavail' \in BOOLEAN
      /\ notes' \in [Keys -> Statuses \cup {"erased"}]
      /\ ~missed' /\ del.status \in Terminal => notes'[Picked] # "none" \/ unavail'
  <2>1. CASE del.status \in Terminal /\ Fault /\ missed' = TRUE /\ UNCHANGED <<notes, unavail>>
    BY <1>1, <2>1 DEF OtherShapes
  <2>2. CASE missed' = FALSE /\ ~(del.status \in Terminal /\ notes[Picked] \in {"none", "erased"})
             /\ UNCHANGED <<notes, unavail>>
    BY <1>1, <2>2 DEF OtherShapes
  <2>3. CASE missed' = FALSE /\ unavail' = TRUE /\ UNCHANGED notes
    BY <1>1, <2>3 DEF OtherShapes
  <2>4. CASE missed' = FALSE /\ del.status \in Terminal /\ UNCHANGED unavail
             /\ notes' = [notes EXCEPT ![Picked] = del.status]
    <3>1. del.status \in Statuses /\ del.status # "none"
      BY <2>4 DEF Terminal, Statuses
    <3> QED BY <1>1, <1>6, <2>4, <3>1 DEF OtherShapes
  <2> QED BY <2>1, <2>2, <2>3, <2>4 DEF RebuildNotices
<1>8. RowShapes'
  BY <1>1, <1>2 DEF RowShapes
<1>9. OtherShapes'
  BY <1>1, <1>2, <1>4, <1>5, <1>7 DEF OtherShapes
<1>10. OneRuns' /\ Evidence'
  BY <1>2, <1>4 DEF OneRuns, Running, Evidence, Succeeded
<1>11. Running(ops) = {} /\ del.status # "preparing"
  BY <1>2 DEF OneRuns
<1>12. \A d \in Calls : calls[d].pc \in {"idle", "done"}
  BY <1>2 DEF Workers
<1>13. Workers'
  BY <1>2, <1>11, <1>12 DEF Workers, Works, Running
<1>14. Capturers'
  BY <1>2, <1>11, <1>12 DEF Capturers
<1>15. Telling'
  BY <1>2, <1>7 DEF Telling, Picked, Told
<1> QED BY <1>8, <1>9, <1>10, <1>13, <1>14, <1>15

\* The reconciliation moves on, and so does what it is about to tell.
LEMMA ReconcileListStep ==
    ASSUME Invariant, ReconcileList
    PROVE  Invariant'
<1> USE DEF Invariant, Up, rows, told
<1>1. faults \in Nat /\ RowShapes /\ OtherShapes
  BY DEF OtherShapes
<1>2. /\ Up /\ rec.pc = "list"
      /\ UNCHANGED <<del, ops, last, calls, git, notes, unavail, missed, gone, phase, faults>>
  BY DEF ReconcileList
<1>3. \/ git.pr /\ \E o \in Keys : rec' = [rec EXCEPT !.pc = "record", !.op = o]
      \/ rec' = [rec EXCEPT !.pc = "done"]
  <2>1. InterruptedPRs \subseteq Keys
    BY <1>1, BoundsAssumption DEF InterruptedPRs, RowShapes, Keys, OpIds
  <2> QED BY <2>1 DEF ReconcileList
<1>4. /\ rec' \in [pc : {"done", "list", "record", "notify"}, op : Keys, status : Statuses]
      /\ rec'.pc \in {"record", "done"} /\ (rec'.pc = "record" => git.pr)
  BY <1>1, <1>3 DEF OtherShapes
<1>5. RowShapes' /\ OtherShapes'
  BY <1>1, <1>2, <1>4 DEF RowShapes, OtherShapes
<1>6. OneRuns'
  BY <1>2 DEF OneRuns, Running
<1>7. Evidence'
  BY <1>2, <1>4 DEF Evidence, Succeeded
<1>8. Workers' /\ Capturers'
  BY <1>2 DEF Workers, Works, Running, Capturers
<1>9. \A q : Told(q) => Told(q)'
  BY <1>2 DEF Told, Teller
<1>10. Telling'
  BY <1>2, <1>9 DEF Telling, Picked
<1> QED BY <1>5, <1>6, <1>7, <1>8, <1>10

\* The reconciliation settles the interrupted pull request, or leaves the rows to whoever
\* changed them meanwhile.
LEMMA ReconciledStep ==
    ASSUME Invariant, RecordPR, Unreconciled, rec.op \in InterruptedPRs
    PROVE  Invariant'
<1> USE DEF Invariant, Up, told
<1>1. faults \in Nat /\ RowShapes /\ OtherShapes
  BY DEF OtherShapes
<1>2. /\ Up /\ rec.pc = "record" /\ del.status = "blocked"
      /\ UNCHANGED <<calls, git, notes, unavail, missed, gone, phase, faults>>
  BY DEF RecordPR, Unreconciled
<1>3. /\ ops' = [ops EXCEPT ![rec.op].state = "succeeded"]
      /\ last' = [last EXCEPT !.succeeded = rec.op]
      /\ del' = [del EXCEPT !.status = "delivered", !.reason = "none", !.pr = TRUE]
      /\ rec' = [rec EXCEPT !.pc = "notify", !.status = "delivered"]
  BY DEF RecordPR
<1>4. ops \in Seq(OpShape) /\ Len(ops) <= MaxOps
  BY <1>1 DEF RowShapes, OpShape
<1>5. PICK o \in DOMAIN ops : o = rec.op /\ ops[o].kind = "pull_request" /\ ops[o].state = "interrupted"
  BY DEF InterruptedPRs
<1>6. o \in Keys /\ o # Unscoped
  BY <1>4, <1>5, BoundsAssumption DEF Keys, OpIds, Unscoped
<1>7. /\ ops' \in Seq(OpShape) /\ DOMAIN ops' = DOMAIN ops /\ Len(ops') = Len(ops)
      /\ ops'[o].kind = "pull_request" /\ ops'[o].state = "succeeded"
      /\ \A p \in DOMAIN ops : p # o => ops'[p] = ops[p]
  <2>0. ops[o] \in OpShape
    BY <1>4, <1>5
  <2>1. [ops[o] EXCEPT !.state = "succeeded"] \in OpShape
    BY <2>0 DEF OpShape, OpStates
  <2>2. ops' = [ops EXCEPT ![o] = [ops[o] EXCEPT !.state = "succeeded"]]
    BY <1>3, <1>5
  <2> QED BY <1>4, <1>5, <2>0, <2>1, <2>2 DEF OpShape
<1>8. \A p \in DOMAIN ops : ops'[p].kind = ops[p].kind
  BY <1>5, <1>7
<1>9. Running(ops)' = Running(ops)
  BY <1>5, <1>7 DEF Running
<1>10. /\ del'.status = "delivered" /\ del'.pr /\ del'.pushed = del.pushed /\ del'.base = del.base
       /\ del' \in [status : Statuses, reason : Reasons, base : BOOLEAN, dirty : BOOLEAN,
                    ahead : BOOLEAN, pushed : BOOLEAN, pr : BOOLEAN]
  BY <1>1, <1>3 DEF RowShapes, Statuses, Terminal, Reasons
<1>11. /\ last'.succeeded = o /\ last'.failed = last.failed
       /\ last' \in [succeeded : Keys, failed : Keys]
  BY <1>1, <1>3, <1>5, <1>6 DEF RowShapes
<1>12. /\ rec' \in [pc : {"done", "list", "record", "notify"}, op : Keys, status : Statuses]
       /\ rec'.pc = "notify" /\ rec'.op = o /\ rec'.status = "delivered"
  BY <1>1, <1>3, <1>5 DEF OtherShapes, Statuses, Terminal
<1>13. RowShapes'
  BY <1>1, <1>2, <1>4, <1>7, <1>10, <1>11 DEF RowShapes, OpShape
<1>14. OtherShapes'
  BY <1>1, <1>2, <1>12 DEF OtherShapes
<1>15. OneRuns'
  BY <1>2, <1>8, <1>9, <1>10 DEF OneRuns, Running
<1>16. \A k : Succeeded(k) => Succeeded(k)'
  BY <1>5, <1>7 DEF Succeeded
<1>17. Succeeded("pull_request")'
  BY <1>7, <1>5 DEF Succeeded
<1>18. Evidence'
  <2>1. del'.pushed => git'.remote # NoBranch /\ Succeeded("push")'
    BY <1>2, <1>10, <1>16 DEF Evidence
  <2>2. git'.pr /\ last'.succeeded # Unscoped
    BY <1>2, <1>6, <1>11 DEF Evidence
  <2>3. last'.failed # Unscoped =>
           /\ last'.failed \in DOMAIN ops' /\ ops'[last'.failed].state = "failed"
           /\ ops'[last'.failed].kind \in GoalKinds
    BY <1>5, <1>7, <1>8, <1>11 DEF Evidence
  <2>4. \A w \in {"succeeded", "failed"} : last'[w] # Unscoped =>
           last'[w] \in DOMAIN ops' /\ ops'[last'[w]].state = w /\ ops'[last'[w]].kind \in GoalKinds
    BY <1>5, <1>7, <1>11, <2>3 DEF GoalKinds
  <2>5. \A p \in DOMAIN ops' : ops'[p].kind \in GoalKinds => del'.base
    BY <1>7, <1>8, <1>10 DEF Evidence
  <2> QED BY <1>10, <1>12, <1>17, <2>1, <2>2, <2>4, <2>5 DEF Evidence, External
<1>19. Workers'
  BY <1>2, <1>8, <1>9, <1>10 DEF Workers, Works, Running
<1>20. Capturers'
  BY <1>2, <1>10 DEF Capturers
<1>21. Telling'
  BY <1>10, <1>11, <1>12 DEF Telling, Told, Picked, Terminal
<1> QED BY <1>13, <1>14, <1>15, <1>18, <1>19, <1>20, <1>21

\* Either way, the record of the reconciliation.
LEMMA RecordPRStep ==
    ASSUME Invariant, RecordPR
    PROVE  Invariant'
<1>1. CASE Unreconciled /\ rec.op \in InterruptedPRs
  BY <1>1, ReconciledStep
<1>2. CASE ~(Unreconciled /\ rec.op \in InterruptedPRs)
  <2> USE DEF Invariant, Up, told, rows
  <2>1. faults \in Nat /\ RowShapes /\ OtherShapes
    BY DEF OtherShapes
  <2>2. /\ Up /\ rec.pc = "record"
        /\ UNCHANGED <<del, ops, last, calls, git, notes, unavail, missed, gone, phase, faults>>
    BY <1>2 DEF RecordPR
  <2>3. PICK p \in {"notify", "done"} : rec' = [rec EXCEPT !.pc = p, !.op = Unscoped, !.status = del.status]
    BY <1>2 DEF RecordPR
  <2>4. /\ rec' \in [pc : {"done", "list", "record", "notify"}, op : Keys, status : Statuses]
        /\ rec'.pc # "record"
    BY <2>1, <2>3 DEF OtherShapes, RowShapes, Keys
  <2>5. RowShapes' /\ OtherShapes'
    BY <2>1, <2>2, <2>4 DEF RowShapes, OtherShapes
  <2>6. OneRuns' /\ Evidence'
    BY <2>2, <2>4 DEF OneRuns, Running, Evidence, Succeeded
  <2>7. Workers' /\ Capturers'
    BY <2>2 DEF Workers, Works, Running, Capturers
  <2>8. \A q : Told(q) => Told(q)'
    BY <2>2 DEF Told, Teller
  <2>9. Telling'
    BY <2>2, <2>8 DEF Telling, Picked
  <2> QED BY <2>5, <2>6, <2>7, <2>9
<1> QED BY <1>1, <1>2

\* The reconciliation tells what it read when it recorded.
LEMMA ReconcileNotifyStep ==
    ASSUME Invariant, ReconcileNotify
    PROVE  Invariant'
<1> USE DEF Invariant, Up, rows
<1>1. faults \in Nat /\ RowShapes /\ OtherShapes
  BY DEF OtherShapes
<1>2. /\ Up /\ rec.pc = "notify"
      /\ UNCHANGED <<del, ops, last, calls, git, gone, phase, faults>>
  BY DEF ReconcileNotify
<1>3. rec.op \in Keys /\ rec.status \in Statuses /\ Tell(rec.op, rec.status)
  BY <1>1 DEF OtherShapes, ReconcileNotify
<1>4. /\ notes' \in [Keys -> Statuses \cup {"erased"}] /\ unavail' \in BOOLEAN /\ missed' = missed
      /\ \A q \in Keys : notes[q] # "none" => notes'[q] # "none"
      /\ unavail => unavail'
      /\ rec.status # "none" => notes'[rec.op] # "none" \/ unavail'
  BY <1>1, <1>3, TellIs
<1>5. /\ rec' \in [pc : {"done", "list", "record", "notify"}, op : Keys, status : Statuses]
      /\ rec'.pc = "done"
  BY <1>1 DEF OtherShapes, ReconcileNotify
<1>6. RowShapes' /\ OtherShapes'
  BY <1>1, <1>2, <1>4, <1>5 DEF RowShapes, OtherShapes
<1>7. OneRuns' /\ Evidence'
  BY <1>2, <1>5 DEF OneRuns, Running, Evidence, Succeeded
<1>8. Workers' /\ Capturers'
  BY <1>2 DEF Workers, Works, Running, Capturers
<1>9. \A q \in Keys : Told(q) => Told(q)' \/ unavail'
  BY <1>2, <1>4 DEF Told, Teller, Terminal
<1>10. Telling'
  <2>1. Picked' = Picked /\ Picked \in Keys /\ Unscoped \in Keys
    BY <1>1, <1>2, PickedIs DEF Picked, Keys
  <2> QED BY <1>2, <1>4, <1>9, <2>1 DEF Telling
<1> QED BY <1>6, <1>7, <1>8, <1>10

(***************************************************************************)
(* Everybody else.                                                         *)
(***************************************************************************)
\* A worker edits the tree or commits.
LEMMA EditWorktreeStep ==
    ASSUME Invariant, EditWorktree
    PROVE  Invariant'
<1> USE DEF Invariant, Up, rows, told
<1>1. faults \in Nat /\ RowShapes /\ OtherShapes /\ git \in GitShape
  BY DEF OtherShapes, RowShapes, GitShape
<1>2. /\ faults' \in Nat /\ faults' > faults
      /\ UNCHANGED <<del, ops, last, calls, notes, unavail, missed, gone, phase, rec>>
  BY <1>1 DEF EditWorktree, Fault
<1>3. /\ git' \in GitShape
      /\ git'.remote = git.remote /\ git'.pr = git.pr
  BY <1>1 DEF EditWorktree, GitShape, NoBranch
<1>4. RowShapes' /\ OtherShapes'
  BY <1>1, <1>2, <1>3 DEF RowShapes, OtherShapes, GitShape
<1>5. OneRuns' /\ Evidence'
  BY <1>2, <1>3 DEF OneRuns, Running, Evidence, Succeeded
<1>6. Workers' /\ Capturers'
  BY <1>1, <1>2, <1>3 DEF Workers, Works, Running, Capturers
<1>7. Telling'
  BY <1>2 DEF Telling, Told, Teller, Picked
<1> QED BY <1>4, <1>5, <1>6, <1>7

\* The notes of a deleted session count as used.
LEMMA DeleteOriginStep ==
    ASSUME Invariant, DeleteOrigin
    PROVE  Invariant'
<1> USE DEF Invariant, Up, rows
<1>1. faults \in Nat /\ RowShapes /\ OtherShapes
  BY DEF OtherShapes
<1>2. /\ UNCHANGED <<del, ops, last, calls, git, unavail, missed, phase, rec, faults>> /\ gone' = TRUE
  BY DEF DeleteOrigin
<1>3. /\ notes' \in [Keys -> Statuses \cup {"erased"}]
      /\ \A q \in Keys : notes[q] # "none" => notes'[q] # "none"
  BY <1>1 DEF DeleteOrigin, OtherShapes, Statuses
<1>4. RowShapes' /\ OtherShapes'
  BY <1>1, <1>2, <1>3 DEF RowShapes, OtherShapes
<1>5. OneRuns' /\ Evidence'
  BY <1>2 DEF OneRuns, Running, Evidence, Succeeded
<1>6. Workers' /\ Capturers'
  BY <1>2 DEF Workers, Works, Running, Capturers
<1>7. \A q \in Keys : Told(q) => Told(q)'
  BY <1>2, <1>3 DEF Told, Teller
<1>8. Telling'
  <2>1. Picked' = Picked /\ Picked \in Keys /\ Unscoped \in Keys
    BY <1>1, <1>2, PickedIs DEF Picked, Keys
  <2> QED BY <1>2, <1>7, <2>1 DEF Telling
<1> QED BY <1>4, <1>5, <1>6, <1>8

(***************************************************************************)
(* The theorems.                                                           *)
(***************************************************************************)
\* A run that has completed and asked nothing.
LEMMA Initial ==
    ASSUME Init
    PROVE  Invariant
<1> USE DEF Init
<1>1. \A c \in Calls : calls[c] = Idle
  OBVIOUS
<1>2. Idle \in CallShape /\ Idle.pc = "idle"
  BY DEF Idle, CallShape, CallSteps, Opening, Retentions, Statuses, Keys, Unscoped
<1>3. ops = <<>> /\ DOMAIN ops = {} /\ Len(ops) = 0 /\ Running(ops) = {}
  BY DEF Running
<1>4. PICK s \in Starts :
         /\ del = [status |-> "none", reason |-> "none", base |-> s.base, dirty |-> FALSE,
                   ahead |-> FALSE, pushed |-> FALSE, pr |-> FALSE]
         /\ git = [tree |-> s.tree, branch |-> s.commits, remote |-> NoBranch, merged |-> 0, pr |-> FALSE]
  OBVIOUS
<1>5. s.base \in BOOLEAN /\ s.tree \in {"clean", "dirty"} /\ s.commits \in Nat
  BY <1>4, StartsAssumption
<1>6. RowShapes
  BY <1>3, <1>4, <1>5, BoundsAssumption DEF RowShapes, Statuses, Reasons, Keys
<1>7. OtherShapes
  BY <1>1, <1>2 DEF OtherShapes, Keys, Statuses, Unscoped
<1>8. OneRuns
  BY <1>3, <1>4 DEF OneRuns
<1>9. Evidence
  BY <1>3, <1>4 DEF Evidence
<1>10. Workers
  BY <1>1, <1>2, <1>3 DEF Workers, Works
<1>11. Capturers
  BY <1>1, <1>2, <1>4 DEF Capturers
<1>12. Telling
  BY <1>4 DEF Telling, Terminal
<1> QED BY <1>6, <1>7, <1>8, <1>9, <1>10, <1>11, <1>12 DEF Invariant

\* Every step keeps the invariant: one lemma per action.
LEMMA Kept ==
    ASSUME Invariant, [Next]_vars
    PROVE  Invariant'
<1>1. ASSUME NEW c \in Calls, Request(c) PROVE Invariant'
  BY <1>1, AcceptStep, DeliverOpStep, TeardownStep DEF Request
<1>2. ASSUME NEW c \in Calls, Serve(c) PROVE Invariant'
  <2>1. CASE Accepting(c)
    BY <2>1, ResolveBaseStep, StartAcceptStep, CaptureBaselineStep, CaptureFailsStep DEF Accepting
  <2>2. CASE Working(c)
    BY <2>2, WorkStep, EscapesStep DEF Working
  <2>3. CASE Settling(c)
    BY <2>3, FinishOpStep, FinishTeardownOpStep, TerminalSnapshotStep, SupersedeStep, PublishStep,
       PublishFailsStep DEF Settling
  <2> QED BY <1>2, <2>1, <2>2, <2>3, BeginStep, RetainStep, BranchRetentionStep, GateClosedStep DEF Serve
<1>3. ASSUME Crash \/ Boot \/ Reconcile PROVE Invariant'
  BY <1>3, CrashStep, RecoverRowsStep, RebuildNoticesStep, ReconcileListStep, RecordPRStep,
     ReconcileNotifyStep DEF Boot, Reconcile
<1>4. ASSUME EditWorktree \/ DeleteOrigin PROVE Invariant'
  BY <1>4, EditWorktreeStep, DeleteOriginStep
<1>5. ASSUME UNCHANGED vars PROVE Invariant'
  BY <1>5 DEF vars, rows, told, Invariant, RowShapes, OtherShapes, OneRuns, Running, Evidence, Succeeded,
     Workers, Works, Up, Capturers, Telling, Told, Teller, Picked
<1> QED BY <1>1, <1>2, <1>3, <1>4, <1>5 DEF Next

\* The invariant holds in every state of every behaviour.
LEMMA Always == Spec => []Invariant
<1>1. Init => Invariant
  BY Initial
<1>2. Invariant /\ [Next]_vars => Invariant'
  BY Kept
<1> QED BY <1>1, <1>2, PTL DEF Spec

\* Every variable of a delivery keeps to its domain: the row, its operations, Git's refs, the
\* requests in progress and the keys under which the outcome is told.
THEOREM TypeCorrect == Spec => []TypeOK
<1>1. Invariant => TypeOK
  <2> SUFFICES ASSUME Invariant
               PROVE  TypeOK
    OBVIOUS
  <2> USE DEF Invariant
  <2>1. ops \in Seq(OpShape) /\ Len(ops) <= MaxOps
    BY DEF RowShapes, OpShape
  <2>2. \A o \in DOMAIN ops : ops[o] \in OpShape
    BY <2>1
  <2>3. {last.succeeded, last.failed} \subseteq {Unscoped} \cup DOMAIN ops
    BY DEF Evidence
  <2>4. \A c \in Calls : calls[c] \in CallShape
    BY DEF OtherShapes
  <2>5. \A c \in Calls : calls[c].op \in 0..MaxOps /\ calls[c].status \in Statuses
    BY <2>4, BoundsAssumption DEF CallShape, Keys, OpIds, Unscoped
  <2> QED BY <2>1, <2>2, <2>3, <2>5 DEF TypeOK, RowShapes, OtherShapes, OpShape, Kinds, Reasons
<1> QED BY <1>1, Always, PTL

\* Whatever requests of people and agents overlap and wherever the server dies, the status of
\* a delivery says who works on it (at most one operation at a time) and what Git and the
\* hosting platform really hold.
THEOREM Honest == Spec => []StatusIsHonest
<1>1. Invariant => StatusIsHonest
  <2> SUFFICES ASSUME Invariant
               PROVE  DeliveringIsOwned /\ RunningIsServed /\ DeliveredIsReal
    BY DEF StatusIsHonest
  <2> USE DEF Invariant
  <2>1. DeliveringIsOwned
    BY DEF DeliveringIsOwned, OneRuns, Capturers, OtherShapes, Up
  <2>2. RunningIsServed
    BY DEF RunningIsServed, Workers, Works
  <2>3. DeliveredIsReal
    BY DEF DeliveredIsReal, Evidence, Picked
  <2> QED BY <2>1, <2>2, <2>3
<1> QED BY <1>1, Always, PTL

\* A settled delivery is told, under its own key, or nobody can be told, once nothing is on the
\* way any more.
THEOREM SettlesTold == Spec => []SettleIsTold
<1>1. Invariant => SettleIsTold
  <2> SUFFICES ASSUME Invariant, Quiet, ~missed, del.status \in Terminal
               PROVE  \/ notes[Picked] # "none" \/ unavail
                      \/ del.status = "failed" /\ notes[Unscoped] # "none"
    BY DEF SettleIsTold
  <2>1. \A q : Told(q) => notes[q] # "none"
    BY DEF Told, Teller, Quiet
  <2> QED BY <2>1 DEF Invariant, Telling, Quiet
<1> QED BY <1>1, Always, PTL

\* A teardown takes uncommitted changes, or commits that are nowhere else, only with the
\* consent of its own request: Git's refusal holds whatever came after the checks.
THEOREM KeptWork == Spec => WorkIsKept
<1> DEFINE Consent ==
      /\ git.tree = "dirty" /\ git'.tree = "none" =>
           \E c \in Calls : calls[c].pc = "execute" /\ calls[c].dirtyOk
      /\ git.branch # NoBranch /\ git'.branch = NoBranch /\ git.branch > git.remote =>
           \E c \in Calls : calls[c].pc = "execute" /\ calls[c].loseOk
<1>1. Invariant /\ [Next]_vars => [Consent]_vars
  <2> SUFFICES ASSUME Invariant, Next
               PROVE  Consent
    OBVIOUS
  <2>1. git \in GitShape
    BY DEF Invariant, RowShapes, GitShape
  <2>2. CASE UNCHANGED git
    BY <2>2
  <2>3. ASSUME NEW c \in Calls, Commit(c) \/ Push(c) \/ OpenPR(c) \/ Merge(c) \/ Fails(c) \/ Escapes(c)
        PROVE  Consent
    <3>1. CASE Commit(c) \/ Fails(c)
      <4>1. \/ git' = git
            \/ git' = [git EXCEPT !.tree = "clean", !.branch = git.branch + 1]
            \/ git' = [git EXCEPT !.tree = "clean", !.branch = git.branch]
            \/ git' = [git EXCEPT !.remote = git.branch]
        BY <2>1, <3>1 DEF GitShape, Commit, Fails
      <4>2. /\ git'.tree = git.tree \/ git'.tree = "clean"
            /\ git'.branch = git.branch \/ git'.branch = git.branch + 1
        BY <2>1, <4>1 DEF GitShape
      <4>3. git.branch # NoBranch => git.branch \in Nat
        BY <2>1 DEF GitShape
      <4> QED BY <4>2, <4>3 DEF NoBranch
    <3>3. CASE Push(c) \/ OpenPR(c) \/ Merge(c) \/ Escapes(c)
      <4>1. git'.tree = git.tree /\ git'.branch = git.branch
        BY <2>1, <3>3 DEF GitShape, Push, OpenPR, Merge, Escapes
      <4> QED BY <4>1
    <3> QED BY <2>3, <3>1, <3>3
  <2>4. ASSUME NEW c \in Calls, RemoveWorktree(c) PROVE Consent
    BY <2>1, <2>4 DEF GitShape, RemoveWorktree, Doing, At
  <2>5. ASSUME NEW c \in Calls, DeleteBranch(c) PROVE Consent
    BY <2>1, <2>5 DEF GitShape, NoBranch, DeleteBranch, Doing, At
  <2>6. CASE EditWorktree
    BY <2>1, <2>6 DEF GitShape, NoBranch, EditWorktree
  <2>7. ASSUME NEW c \in Calls, Request(c) PROVE UNCHANGED git
    BY <2>7 DEF Request, Accept, DeliverOp, Teardown
  <2>8. ASSUME NEW c \in Calls,
               \/ Accepting(c) \/ Begin(c) \/ Settling(c)
               \/ Retain(c) \/ BranchRetention(c) \/ GateClosed(c)
        PROVE  UNCHANGED git
    BY <2>8 DEF Accepting, ResolveBase, StartAccept, CaptureBaseline, CaptureFails, Begin, Settling,
       FinishOp, FinishTeardownOp, TerminalSnapshot, Supersede, Publish, PublishFails, Retain,
       BranchRetention, GateClosed
  <2>9. ASSUME Crash \/ Boot \/ Reconcile \/ DeleteOrigin PROVE UNCHANGED git
    BY <2>9 DEF Crash, Boot, RecoverRows, RebuildNotices, Reconcile, ReconcileList, RecordPR,
       ReconcileNotify, DeleteOrigin
  <2> HIDE DEF Consent
  <2>10. ASSUME NEW c \in Calls, Serve(c) PROVE Consent
    BY <2>2, <2>3, <2>4, <2>5, <2>8, <2>10 DEF Serve, Working
  <2> QED BY <2>2, <2>6, <2>7, <2>9, <2>10 DEF Next
<1>2. WorkIsKept <=> [][Consent]_vars
  BY DEF WorkIsKept
<1> QED BY <1>1, <1>2, Always, PTL DEF Spec
=============================================================================
