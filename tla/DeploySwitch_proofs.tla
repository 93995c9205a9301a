------------------------- MODULE DeploySwitch_proofs -------------------------
(***************************************************************************)
(* What holds of DeploySwitch for every set of boards and revisions, every *)
(* number of releases and switches and every budget of faults: the rows    *)
(* agree with each other, with the operations and with the slots, what is  *)
(* live is what is served, and a restored snapshot takes no user's work.   *)
(* The invariant has a part per concern (the database, the stages, the     *)
(* calls, the switchers, the journal, probation, snapshots, what is        *)
(* served, what users did); each part is preserved in a section of its own.*)
(***************************************************************************)
EXTENDS DeploySwitch, WellFoundedInduction, TLAPS

--------------------------------------------------------------------------------
(* The inductive invariant. *)

\* Where calls and switchers are: past the census that let a call go on, and while a snapshot
\* may still be restored.
Past     == {"snapshot", "journal", "begin", "spawn"}
Waiting  == {"census", "drain"}
PreFlip  == {"wait", "flip"}
Flipped  == {"poll", "kill", "flip_back"}
Active   == {o \in Ops : sw[o] \notin {"none", "done"}}
Callers   == {o \in Ops : swc[o].pc # "none"}
Closing  == {o \in Ops : swc[o].pc \in Past}
SnapLive == {o \in Ops : swc[o].pc \in Past \ {"snapshot"}
                         \/ sw[o] \in PreFlip \cup Flipped \cup {"restore"}}
Journaled == {o \in Ops : jr[o].tail # "none"}
Alive    == srv.phase \in {"up", "stopping"}
Runs(D)  == {o \in Ops : D.op[o].state = "running"}

\* What every database the program writes keeps, a snapshot included.
Sound(D) ==
    /\ \A d \in Rows : D.row[d].rel # "none" =>
         \A x \in Locked : (D.row[d].rel = x) <=> (D.row[d].dep = x)
    /\ \A d, e \in Rows : D.row[d].dep \in Locked /\ D.row[e].dep \in Locked => d = e
    /\ \A d, e \in LiveRows(D) : d = e
    /\ \A d \in Rows : D.row[d].dep = "switching" => D.row[d].bound \in Runs(D)
    /\ \A d \in Rows : D.row[d].bound \in Runs(D) => D.row[d].dep = "switching"
    /\ \A d \in Rows : D.row[d].rel = "absent" => D.row[d].dep = "absent"
    /\ \A o \in Ops : D.op[o].kind = "none" =>
         D.op[o].state = "absent" /\ \A d \in Rows : D.row[d].bound # o

\* A revision a rollback was to bring back, by the journal j; what is staged or switching is in
\* its slot, by the checkouts c.
Returned(D, j, d) ==
    \E o \in Ops : j[o].tail # "none" /\ D.op[o].kind = "rollback" /\ j[o].to = D.row[d].slot
                   /\ j[o].new = D.row[d].sha
BuiltOn(D, c, j) == \A d \in Rows : D.row[d].dep \in {"staged", "switching"} =>
                        c[D.row[d].slot] = D.row[d].sha \/ Returned(D, j, d)
Built(D) == BuiltOn(D, content, jr)
LiveIs(D, s) == \E d \in LiveRows(D) : D.row[d].slot = s /\ content[s] = D.row[d].sha

\* The stages.
Stages == \A d \in Rows :
    /\ stg[d] # "none" => Alive /\ db.row[d].stage = "running" /\ Active = {}
    /\ stg[d] = "admitted" => db.row[d].rel = "planned" /\ db.row[d].dep = "absent"
    /\ stg[d] \in {"build", "building"} =>
         /\ db.row[d].rel = "staging" /\ db.row[d].dep = "staging" /\ db.row[d].slot # current
         /\ \A e \in Rows : db.row[e].dep = "staged" => db.row[e].slot # db.row[d].slot
    /\ stg[d] = "settle" => db.row[d].dep # "staging" /\ db.row[d].rel # "staging"
    /\ Alive /\ db.row[d].dep = "staging" => db.row[d].stage = "running"

\* The calls.
CallOK(o) ==
    /\ Alive /\ o \in Runs(db) /\ sw[o] = "none" /\ o # prob
    /\ swc[o].target \in Rows
    /\ srv.phase = "up" => swc[o].from = current
    /\ swc[o].pc \notin {"begin", "spawn"} => o \notin Journaled
    /\ swc[o].pc \in {"begin", "spawn"} =>
         /\ jr[o].tail = "handoff" /\ jr[o].from = swc[o].from
         /\ jr[o].to = db.row[swc[o].target].slot /\ jr[o].new = db.row[swc[o].target].sha
    /\ swc[o].pc = "spawn" => db.row[swc[o].target].bound = o
    /\ swc[o].pc # "spawn" => \A d \in Rows : db.row[d].bound # o
    /\ \A p \in Active : sw[p] = "wait" /\ swc[o].pc \in Waiting
    /\ swc[o].pc \notin Waiting => \A p \in Runs(db) \ {o} : swc[p].pc \in Waiting
    /\ o \in Closing => /\ srv.phase = "up" /\ closed /\ turn = "none" /\ prob = NoOp
                        /\ \A d \in Rows : db.row[d].stage # "running"
CallsOK == \A o \in Callers : CallOK(o)

\* The switchers.
Switchers ==
    /\ \A o, p \in Active : o = p
    /\ \A o \in Ops :
         /\ sw[o] = "none" => jr[o].tail \in {"none", "handoff"}
         /\ sw[o] = "wait" => jr[o].tail = "handoff" /\ srv.phase \in {"stopping", "down"}
         /\ sw[o] \in {"flip", "poll"} => jr[o].tail = "flip_done"
         /\ sw[o] \in {"kill", "flip_back", "restore", "poll_old"} => jr[o].tail = "rollback_begin"
         /\ sw[o] = "done" => jr[o].tail # "none"
         /\ sw[o] \in {"flip", "flip_back", "restore"} => srv.phase = "down"
         /\ sw[o] \in PreFlip => o \in Runs(db) /\ jr[o].from = current
         /\ sw[o] \in Flipped => jr[o].to = current
         /\ sw[o] = "restore" => jr[o].from = current
    /\ srv.phase # "down" => srv.slot = current

\* The journal and the database.
Journals ==
    /\ \A o \in Active \cup (Journaled \cap Runs(db)), p \in Journaled \cap Runs(db) : o = p
    /\ \A o \in Journaled : db.op[o].kind # "none"
    /\ \A o \in Runs(db) :
         jr[o].tail \in {"flip_done", "old_wont_die", "switched_ok"} \/ sw[o] = "wait" =>
           \E d \in Rows : db.row[d].bound = o /\ db.row[d].slot = jr[o].to
                           /\ db.row[d].sha = jr[o].new
    /\ \A o \in Runs(db) : jr[o].tail = "switched_ok" =>
         jr[o].to = current /\ content[current] = jr[o].new
    /\ \A o \in Ops : jr[o].tail \in {"flip_done", "rollback_begin"} =>
         db.op[o].state \in {"running", "interrupted"}

Probation ==
    prob # NoOp => /\ srv.phase \in {"boot", "up", "stopping"} /\ prob \in Runs(db)
                   /\ srv.phase = "boot" => prob < srv.at
                   /\ jr[prob].tail \notin {"none", "handoff", "old_wont_die", "switch_error"}

\* Snapshots.
From(o) == IF swc[o].pc # "none" THEN swc[o].from ELSE jr[o].from
Excuse(o) == \/ jr[o].tail = "rollback_incomplete"
             \/ /\ jr[o].tail \in {"flip_done", "rollback_begin", "switched_ok"}
                /\ db.op[o].state \in {"running", "interrupted"} /\ sw[o] # "poll_old"
Snapshots == \A o \in SnapLive :
    /\ snap[o] \in Databases /\ Sound(snap[o]) /\ Built(snap[o])
    /\ snap[o].work \subseteq given
    /\ \A d \in Rows : snap[o].row[d].dep \notin Locked /\ snap[o].row[d].bound # o
                       /\ snap[o].row[d].stage # "running"
    /\ o \in Runs(snap[o]) /\ Journaled \cap Runs(snap[o]) \subseteq {o}
    /\ \A p \in Journaled \ {o} : snap[o].op[p] = db.op[p]
    /\ LiveIs(snap[o], From(o)) \/ \E p \in Ops \ {o} : Excuse(p)

Served == LiveIs(db, current) \/ \E o \in Ops : Excuse(o)

WorkKept == \A o \in SnapLive \ aged :
    /\ db.work \subseteq snap[o].work /\ turn = "none"
    /\ sw[o] \in {"wait", "flip", "poll", "kill"} => o \in Runs(db)
    /\ srv.phase = "up" => closed
    /\ srv.phase = "up" /\ sw[o] # "none" => prob = o
    /\ srv.phase = "boot" /\ o < srv.at => prob = o
    /\ sw[o] = "kill" => srv.phase = "down"

Invariant == TypeOK /\ Sound(db) /\ Built(db) /\ Stages /\ CallsOK /\ Switchers /\ Journals
             /\ Probation /\ Snapshots /\ Served /\ WorkKept

--------------------------------------------------------------------------------
(* The operators of the model. *)

\* A set of rows that is not empty has a newest one.
LEMMA NewestIn ==
    ASSUME NEW S \in SUBSET Rows, S # {}
    PROVE  Newest(S) \in S
<1> DEFINE L == Len(Asks)
           T == {L - d : d \in S}
<1>1. L \in Nat /\ Rows = 1..L
  BY BoundsAssumption DEF Rows
<1> HIDE DEF L
<1>2. T \subseteq Nat /\ T # {}
  <2>1. \A d \in S : L - d \in Nat
    BY <1>1
  <2> QED BY <2>1
<1>3. \E x \in T : \A y \in T : ~(<<y, x>> \in OpToRel(<, Nat))
  BY <1>2, NatLessThanWellFounded, WFMin
<1>4. PICK x \in T : \A y \in T : ~(y < x)
  BY <1>2, <1>3 DEF OpToRel
<1>5. PICK d \in S : x = L - d
  BY <1>4
<1>6. \A e \in S : e <= d
  <2> SUFFICES ASSUME NEW e \in S PROVE e <= d
    OBVIOUS
  <2>1. ~(L - e < x)
    BY <1>4
  <2> QED BY <1>1, <1>5, <2>1
<1> QED BY <1>6 DEF Newest

\* Superseding deployments touches nothing else of them.
LEMMA SupersededIs ==
    ASSUME NEW D \in Databases, NEW S \in SUBSET Rows
    PROVE  /\ Superseded(D, S) \in Databases
           /\ Superseded(D, S).op = D.op /\ Superseded(D, S).work = D.work
           /\ \A e \in Rows : Superseded(D, S).row[e] =
                IF e \in S THEN [D.row[e] EXCEPT !.dep = "superseded"] ELSE D.row[e]
<1> DEFINE R == [d \in Rows |-> IF d \in S THEN [D.row[d] EXCEPT !.dep = "superseded"] ELSE D.row[d]]
           P == {p \in D.past : p[1] \notin S} \cup ((Rows \ S) \X S)
<1>1. /\ D.row \in [Rows -> Releases] /\ D.op \in [Ops -> Operations]
      /\ D.past \in SUBSET (Rows \X Rows) /\ D.work \in SUBSET Works
      /\ D = [row |-> D.row, op |-> D.op, past |-> D.past, work |-> D.work]
  BY DEF Databases
<1>2. \A r \in Releases : [r EXCEPT !.dep = "superseded"] \in Releases
  BY DEF Releases, RowStates
<1>3. R \in [Rows -> Releases]
  BY <1>1, <1>2
<1>4. P \in SUBSET (Rows \X Rows)
  BY <1>1
<1>5. Superseded(D, S) = [row |-> R, op |-> D.op, past |-> P, work |-> D.work]
  <2>1. Superseded(D, S) = [D EXCEPT !.row = R, !.past = P]
    BY DEF Superseded
  <2> HIDE DEF R, P
  <2> QED BY <1>1, <2>1
<1> HIDE DEF P
<1>6. Superseded(D, S) \in Databases
  BY <1>1, <1>3, <1>4, <1>5 DEF Databases
<1> QED BY <1>5, <1>6

\* What becomes of the row that is made live or set back, of another one, and of all when
\* none is found.
Retiring(r, dep) == [r EXCEPT !.rel = IF dep = "live" /\ @ = "live" THEN "superseded" ELSE @]
Yielding(r, dep) == [Retiring(r, dep) EXCEPT !.dep = IF dep = "live" /\ @ = "live" THEN "superseded" ELSE @]
Fates == {"live", "rolled_back", "failed", "staged"}

\* Each of these rows is a row, in the same place; only release, deployment and binding change.
LEMMA RowsMade ==
    ASSUME NEW r \in Releases, NEW o \in Ops, NEW dep \in Fates
    PROVE  /\ Retiring(r, dep) \in Releases /\ Yielding(r, dep) \in Releases /\ Made(r, o, dep) \in Releases
           /\ \A q \in {Retiring(r, dep), Yielding(r, dep), Made(r, o, dep)} :
                q.board = r.board /\ q.sha = r.sha /\ q.slot = r.slot /\ q.stage = r.stage
           /\ \A q \in {Retiring(r, dep), Yielding(r, dep)} :
                q.bound = r.bound /\ (q.rel = r.rel \/ (q.rel = "superseded" /\ r.rel = "live"))
           /\ Retiring(r, dep).dep = r.dep
           /\ Yielding(r, dep).dep = IF dep = "live" /\ r.dep = "live" THEN "superseded" ELSE r.dep
           /\ Made(r, o, dep).dep = dep /\ Made(r, o, dep).bound = o
           /\ Made(r, o, dep).rel = IF r.rel = "none" THEN "none" ELSE dep
<1>1. Retiring(r, dep) \in Releases
  BY DEF Retiring, Releases, RowStates, Fates
<1>2. Yielding(r, dep) \in Releases
  BY <1>1 DEF Yielding, Releases, RowStates, Fates
<1>3. Made(r, o, dep) \in Releases
  BY DEF Made, Releases, RowStates, Fates
<1>4. /\ Retiring(r, dep).board = r.board /\ Retiring(r, dep).sha = r.sha /\ Retiring(r, dep).slot = r.slot
      /\ Retiring(r, dep).stage = r.stage /\ Retiring(r, dep).bound = r.bound /\ Retiring(r, dep).dep = r.dep
      /\ \/ Retiring(r, dep).rel = r.rel
         \/ Retiring(r, dep).rel = "superseded" /\ r.rel = "live"
  BY DEF Retiring, Releases
<1>5. /\ Yielding(r, dep).board = r.board /\ Yielding(r, dep).sha = r.sha /\ Yielding(r, dep).slot = r.slot
      /\ Yielding(r, dep).stage = r.stage /\ Yielding(r, dep).bound = r.bound
      /\ \/ Yielding(r, dep).rel = r.rel
         \/ Yielding(r, dep).rel = "superseded" /\ r.rel = "live"
      /\ Yielding(r, dep).dep = IF dep = "live" /\ r.dep = "live" THEN "superseded" ELSE r.dep
  BY <1>1, <1>4 DEF Yielding, Releases
<1>6. /\ Made(r, o, dep).board = r.board /\ Made(r, o, dep).sha = r.sha /\ Made(r, o, dep).slot = r.slot
      /\ Made(r, o, dep).stage = r.stage /\ Made(r, o, dep).bound = o /\ Made(r, o, dep).dep = dep
      /\ Made(r, o, dep).rel = IF r.rel = "none" THEN "none" ELSE dep
  BY DEF Made, Releases
<1>7. \A q \in {Retiring(r, dep), Yielding(r, dep), Made(r, o, dep)} :
                q.board = r.board /\ q.sha = r.sha /\ q.slot = r.slot /\ q.stage = r.stage
  BY <1>4, <1>5, <1>6
<1>8. \A q \in {Retiring(r, dep), Yielding(r, dep)} :
                q.bound = r.bound /\ (q.rel = r.rel \/ (q.rel = "superseded" /\ r.rel = "live"))
  <2> SUFFICES ASSUME NEW q, q = Retiring(r, dep) \/ q = Yielding(r, dep)
               PROVE  q.bound = r.bound /\ (q.rel = r.rel \/ (q.rel = "superseded" /\ r.rel = "live"))
    OBVIOUS
  <2>1. CASE q = Retiring(r, dep)
    BY <1>4, <2>1
  <2>2. CASE q = Yielding(r, dep)
    BY <1>5, <2>2
  <2> QED BY <2>1, <2>2
<1> QED BY <1>1, <1>2, <1>3, <1>4, <1>5, <1>6, <1>7, <1>8

\* The rows an operation may be about.
LEMMA LocatedRows ==
    ASSUME NEW D, NEW o
    PROVE  /\ Located(D, o) \in SUBSET Rows
           /\ \A d \in Located(D, o) :
                \/ D.row[d].bound = o
                \/ /\ \A e \in Rows : D.row[e].bound # o
                   /\ o \in Ops => o \in Journaled
                   /\ D.row[d].dep \in {"staged", "switching", "superseded"}
           /\ (\E d \in Rows : D.row[d].bound = o) =>
                Located(D, o) # {} /\ \A d \in Located(D, o) : D.row[d].bound = o
BY DEF Located, BoundTo, Journaled

\* The transaction that settles an operation.
LEMMA FinalizedIs ==
    ASSUME NEW D \in Databases, NEW o \in Ops, NEW state \in OpStates, NEW dep \in Fates,
           NEW R, R = Finalized(D, o, state, dep)
    PROVE  /\ R \in Databases /\ R.work = D.work
           /\ R.op = [D.op EXCEPT ![o] = [@ EXCEPT !.state = state]]
           /\ Located(D, o) = {} => \A e \in Rows : R.row[e] = Retiring(D.row[e], dep)
           /\ Located(D, o) # {} =>
                \E d \in Located(D, o) : /\ R.row[d] = Made(D.row[d], o, dep)
                                         /\ \A e \in Rows \ {d} : R.row[e] = Yielding(D.row[e], dep)
<1> DEFINE E == [D EXCEPT !.op[o].state = state]
           Ret(X) == [X EXCEPT !.row = [e \in Rows |-> IF @[e].rel = "live"
                                           THEN [@[e] EXCEPT !.rel = "superseded"] ELSE @[e]]]
           d == Newest(Located(D, o))
           Put(X) == [X EXCEPT !.row[d] = Made(@, o, dep)]
<1>1. /\ E \in Databases /\ E.op = [D.op EXCEPT ![o] = [@ EXCEPT !.state = state]]
      /\ E.work = D.work /\ E.row = D.row
  BY DEF Databases, Operations
<1> HIDE DEF E
<1>2. ASSUME NEW X \in Databases
      PROVE  /\ Ret(X) \in Databases /\ Ret(X).op = X.op /\ Ret(X).work = X.work
             /\ \A e \in Rows : Ret(X).row[e] = Retiring(X.row[e], "live")
  <2> DEFINE Q == [e \in Rows |-> IF X.row[e].rel = "live"
                                  THEN [X.row[e] EXCEPT !.rel = "superseded"] ELSE X.row[e]]
  <2>1. X.row \in [Rows -> Releases] /\ X = [row |-> X.row, op |-> X.op, past |-> X.past, work |-> X.work]
        /\ X.op \in [Ops -> Operations] /\ X.past \in SUBSET (Rows \X Rows) /\ X.work \in SUBSET Works
    BY DEF Databases
  <2>2. \A r \in Releases : [r EXCEPT !.rel = "superseded"] \in Releases
    BY DEF Releases, RowStates
  <2>3. \A r \in Releases : Retiring(r, "live") = IF r.rel = "live" THEN [r EXCEPT !.rel = "superseded"] ELSE r
    BY DEF Retiring, Releases
  <2>4. Q \in [Rows -> Releases] /\ \A e \in Rows : Q[e] = Retiring(X.row[e], "live")
    BY <2>1, <2>2, <2>3
  <2>5. Ret(X) = [row |-> Q, op |-> X.op, past |-> X.past, work |-> X.work]
    BY <2>1
  <2> HIDE DEF Q, Ret
  <2>6. Ret(X) \in Databases
    BY <2>1, <2>4, <2>5 DEF Databases
  <2> QED BY <2>4, <2>5, <2>6
<1> HIDE DEF Ret
<1>3. ASSUME dep # "live" PROVE \A r \in Releases : Retiring(r, dep) = r /\ Yielding(r, dep) = r
  BY <1>3 DEF Retiring, Yielding, Releases
<1>4. D.row \in [Rows -> Releases]
  BY DEF Databases
<1>5. CASE Located(D, o) = {}
  <2>1. R = IF dep = "live" THEN Ret(E) ELSE E
    BY <1>5 DEF Finalized, Ret, E
  <2> QED BY <1>1, <1>2, <1>3, <1>4, <1>5, <2>1
<1>6. CASE Located(D, o) # {}
  <2>1. d \in Located(D, o) /\ d \in Rows
    BY <1>6, NewestIn, LocatedRows
  <2> DEFINE Y == IF dep = "live" THEN Ret(Superseded(E, LiveRows(E) \ {d})) ELSE E
  <2>2. R = Put(Y)
    BY <1>6 DEF Finalized, Ret, E
  <2> HIDE DEF d
  <2>3. /\ Y \in Databases /\ Y.op = E.op /\ Y.work = D.work
        /\ \A e \in Rows \ {d} : Y.row[e] = Yielding(D.row[e], dep)
        /\ Y.row[d] = Retiring(D.row[d], dep)
    <3>1. CASE dep # "live"
      BY <1>1, <1>3, <1>4, <2>1, <3>1
    <3>2. CASE dep = "live"
      <4> DEFINE L == LiveRows(E) \ {d}
                 X == Superseded(E, L)
      <4>1. L \in SUBSET Rows
        BY DEF LiveRows
      <4>3. \A e \in Rows : e \in L <=> D.row[e].dep = "live" /\ e # d
        BY <1>1 DEF LiveRows
      <4> HIDE DEF L
      <4>2. X \in Databases /\ X.op = E.op /\ X.work = E.work
            /\ \A e \in Rows : X.row[e] = IF e \in L THEN [E.row[e] EXCEPT !.dep = "superseded"] ELSE E.row[e]
        BY <1>1, <4>1, SupersededIs
      <4> HIDE DEF X
      <4>4. Y = Ret(X)
        BY <3>2 DEF X, L
      <4>5. \A r \in Releases : Retiring([r EXCEPT !.dep = "superseded"], "live")
                 = [Retiring(r, "live") EXCEPT !.dep = "superseded"]
        BY DEF Retiring, Releases
      <4>6. \A r \in Releases : Yielding(r, "live") = IF r.dep = "live"
                 THEN [Retiring(r, "live") EXCEPT !.dep = "superseded"] ELSE Retiring(r, "live")
        BY DEF Retiring, Yielding, Releases
      <4>7. \A e \in Rows : Y.row[e] = Retiring(X.row[e], "live")
        BY <1>2, <4>2, <4>4
      <4>8. Y \in Databases /\ Y.op = E.op /\ Y.work = D.work
        BY <1>1, <1>2, <4>2, <4>4
      <4>9. ASSUME NEW e \in Rows, e # d PROVE Y.row[e] = Yielding(D.row[e], "live")
        <5> DEFINE r == D.row[e]
        <5>1. r \in Releases /\ E.row[e] = r
          BY <1>1, <1>4
        <5>2. Y.row[e] = Retiring(X.row[e], "live") /\ (e \in L <=> r.dep = "live")
              /\ X.row[e] = IF e \in L THEN [r EXCEPT !.dep = "superseded"] ELSE r
          BY <1>1, <4>2, <4>3, <4>7, <4>9
        <5> HIDE DEF r
        <5>3. Y.row[e] = Yielding(r, "live")
          BY <4>5, <4>6, <5>1, <5>2
        <5> QED BY <5>3 DEF r
      <4>10. Y.row[d] = Retiring(D.row[d], "live")
        BY <1>1, <2>1, <4>2, <4>3, <4>7
      <4> QED BY <3>2, <4>8, <4>9, <4>10
    <3> QED BY <3>1, <3>2
  <2> HIDE DEF Y
  <2>4. /\ Put(Y).op = Y.op /\ Put(Y).work = Y.work
        /\ \A e \in Rows \ {d} : Put(Y).row[e] = Y.row[e]
        /\ Put(Y).row[d] = Made(Y.row[d], o, dep)
        /\ Put(Y) \in Databases
    <3>1. Y.row \in [Rows -> Releases] /\ Y = [row |-> Y.row, op |-> Y.op, past |-> Y.past, work |-> Y.work]
          /\ Y.op \in [Ops -> Operations] /\ Y.past \in SUBSET (Rows \X Rows) /\ Y.work \in SUBSET Works
      BY <2>3 DEF Databases
    <3> DEFINE q == [Y.row EXCEPT ![d] = Made(Y.row[d], o, dep)]
    <3>5. Put(Y) = [Y EXCEPT !.row = q]
      BY <2>1, <3>1
    <3>2. Put(Y) = [row |-> q, op |-> Y.op, past |-> Y.past, work |-> Y.work]
      <4> HIDE DEF q, Put
      <4> QED BY <3>1, <3>5
    <3>3. Made(Y.row[d], o, dep) \in Releases
      BY <2>1, <3>1, RowsMade
    <3> HIDE DEF Put
    <3>4. Put(Y) \in Databases
      BY <2>1, <3>1, <3>2, <3>3 DEF Databases
    <3> QED BY <2>1, <3>1, <3>2, <3>4
  <2>5. Made(Retiring(D.row[d], dep), o, dep) = Made(D.row[d], o, dep)
    <3>1. \A r \in Releases : Made(Retiring(r, dep), o, dep) = Made(r, o, dep)
      BY DEF Made, Retiring, Releases, Fates
    <3> QED BY <1>4, <2>1, <3>1
  <2> QED BY <1>1, <1>6, <2>1, <2>2, <2>3, <2>4, <2>5
<1> QED BY <1>5, <1>6

--------------------------------------------------------------------------------
(* What each action writes to the database. *)

\* A database with other rows is a database.
LEMMA RowsPut ==
    ASSUME NEW D \in Databases, NEW f \in [Rows -> Releases]
    PROVE  /\ [D EXCEPT !.row = f] \in Databases /\ [D EXCEPT !.row = f].row = f
           /\ [D EXCEPT !.row = f].op = D.op /\ [D EXCEPT !.row = f].work = D.work
BY DEF Databases

\* A database with other operations is a database.
LEMMA OpsPut ==
    ASSUME NEW D \in Databases, NEW f \in [Ops -> Operations]
    PROVE  /\ [D EXCEPT !.op = f] \in Databases /\ [D EXCEPT !.op = f].op = f
           /\ [D EXCEPT !.op = f].row = D.row /\ [D EXCEPT !.op = f].work = D.work
BY DEF Databases

\* A row that keeps its release, its place and its operation, and one that is left alone.
SameSpot(r, q) == q.board = r.board /\ q.sha = r.sha /\ q.slot = r.slot
Kept(r, q)  == /\ q.board = r.board /\ q.sha = r.sha /\ q.slot = r.slot /\ q.bound = r.bound
               /\ q.dep = r.dep /\ q.stage = r.stage
OnlyRows == db' \in Databases /\ db'.op = db.op /\ db'.work = db.work
OnlyOps  == db' \in Databases /\ db'.row = db.row /\ db'.work = db.work

\* What PlanRelease writes: the new row, and the releases of its board that it replaces.
LEMMA PlanReleaseWrites ==
    ASSUME db \in Databases, NEW d \in Rows, NEW b \in Boards, NEW s \in Shas, PlanRelease(d, b, s)
    PROVE  /\ OnlyRows /\ db.row[d].rel = "absent"
           /\ db'.row[d].rel = "planned" /\ db'.row[d].dep = "absent" /\ db'.row[d].bound = NoOp
           /\ db'.row[d].stage = "running"
           /\ \A e \in Rows \ {d} :
                /\ Kept(db.row[e], db'.row[e])
                /\ \/ db'.row[e].rel = db.row[e].rel
                   \/ /\ db'.row[e].rel = "superseded" /\ db.row[e].rel \in {"planned", "staged"}
                      /\ db.row[e].stage # "running"
<1> DEFINE n == [NoRow EXCEPT !.rel = "planned", !.board = b, !.sha = s, !.stage = "running"]
           Gives(e) == db.row[e].board = b /\ db.row[e].rel \in {"planned", "staged"} /\ ~OpRunning(db, e)
           f == [e \in Rows |-> IF e = d THEN n
                                ELSE IF Gives(e) THEN [db.row[e] EXCEPT !.rel = "superseded"] ELSE db.row[e]]
<1>1. db.row \in [Rows -> Releases]
  BY DEF Databases
<1>2. /\ n \in Releases /\ n.rel = "planned" /\ n.dep = "absent" /\ n.bound = NoOp /\ n.stage = "running"
  <2>1. Home \in Boards /\ Sample \in Shas
    BY ShaAssumption DEF Home, Sample
  <2> QED BY <2>1 DEF NoRow, Releases, RowStates, OpStates, Slots
<1>3. \A r \in Releases : LET q == [r EXCEPT !.rel = "superseded"] IN
         q \in Releases /\ q.rel = "superseded" /\ Kept(r, q) /\ Kept(r, r)
  BY DEF Releases, RowStates, Kept
<1>4. \A e \in Rows : Gives(e) => db.row[e].rel \in {"planned", "staged"} /\ db.row[e].stage # "running"
  BY DEF OpRunning
<1>5. db' = [db EXCEPT !.row = f]
  BY DEF PlanRelease
<1>6. db.row[d].rel = "absent"
  BY DEF PlanRelease
<1> HIDE DEF n, Gives
<1>7. f \in [Rows -> Releases]
  BY <1>1, <1>2, <1>3
<1>8. f[d] = n /\ \A e \in Rows \ {d} : IF Gives(e) THEN f[e] = [db.row[e] EXCEPT !.rel = "superseded"]
                                        ELSE f[e] = db.row[e]
  OBVIOUS
<1> HIDE DEF f
<1>9. OnlyRows /\ db'.row = f
  BY <1>5, <1>7, RowsPut DEF OnlyRows
<1>10. ASSUME NEW e \in Rows \ {d}
       PROVE  /\ Kept(db.row[e], db'.row[e])
              /\ \/ db'.row[e].rel = db.row[e].rel
                 \/ /\ db'.row[e].rel = "superseded" /\ db.row[e].rel \in {"planned", "staged"}
                    /\ db.row[e].stage # "running"
  <2>1. CASE Gives(e)
    <3> DEFINE r == db.row[e]
    <3>1. r \in Releases /\ r.rel \in {"planned", "staged"} /\ r.stage # "running"
      BY <1>1, <1>4, <2>1
    <3>2. db'.row[e] = [r EXCEPT !.rel = "superseded"]
      BY <1>8, <1>9, <2>1
    <3> HIDE DEF r
    <3>3. Kept(r, db'.row[e]) /\ db'.row[e].rel = "superseded"
      BY <1>3, <3>1, <3>2
    <3> QED BY <3>1, <3>3 DEF r
  <2>2. CASE ~Gives(e)
    BY <1>1, <1>3, <1>8, <1>9, <2>2
  <2> QED BY <2>1, <2>2
<1> QED BY <1>2, <1>6, <1>8, <1>9, <1>10

\* What BeginStaging writes: a failed release, or both locks and the candidates given up.
LEMMA BeginStagingWrites ==
    ASSUME TypeOK, NEW d \in Rows, BeginStaging(d)
    PROVE  /\ OnlyRows
           /\ \/ /\ db'.row[d].rel = "failed" /\ db'.row[d].stage = "failed" /\ stg'[d] = "none"
                 /\ db'.row[d].dep = db.row[d].dep /\ db'.row[d].bound = db.row[d].bound
                 /\ db'.row[d].slot = db.row[d].slot /\ db'.row[d].sha = db.row[d].sha
                 /\ \A e \in Rows \ {d} : db'.row[e] = db.row[e]
              \/ /\ ~LockHeld(db, d)
                 /\ db'.row[d].rel = "staging" /\ db'.row[d].dep = "staging" /\ stg'[d] = "build"
                 /\ db'.row[d].slot = Other(current) /\ db'.row[d].stage = db.row[d].stage
                 /\ db'.row[d].bound = db.row[d].bound
                 /\ \A e \in Rows \ {d} :
                      /\ db'.row[e].rel = db.row[e].rel /\ SameSpot(db.row[e], db'.row[e])
                      /\ db'.row[e].slot = db.row[e].slot /\ db'.row[e].bound = db.row[e].bound
                      /\ db'.row[e].stage = db.row[e].stage
                      /\ IF db.row[e].dep = "staged" /\ db.row[e].slot = Other(current)
                         THEN db'.row[e].dep = "superseded" ELSE db'.row[e].dep = db.row[e].dep
<1>1. db \in Databases /\ db.row \in [Rows -> Releases] /\ current \in Slots
      /\ stg \in [Rows -> {"none", "admitted", "build", "building", "settle"}]
  BY DEF TypeOK, Databases
<1>2. CASE LockHeld(db, d)
  <2> DEFINE q == [db.row[d] EXCEPT !.rel = "failed", !.stage = "failed"]
             f == [db.row EXCEPT ![d] = q]
  <2>1. q \in Releases
    <3>1. "failed" \in RowStates /\ "failed" \in OpStates
      BY DEF RowStates, OpStates
    <3>2. \A r \in Releases, x \in RowStates, y \in OpStates : [r EXCEPT !.rel = x, !.stage = y] \in Releases
      BY DEF Releases
    <3> QED BY <1>1, <3>1, <3>2
  <2>2. f \in [Rows -> Releases] /\ f[d] = q /\ \A e \in Rows \ {d} : f[e] = db.row[e]
    BY <1>1, <2>1
  <2>3. db' = [db EXCEPT !.row = f] /\ stg'[d] = "none"
    <3>1. /\ db' = [db EXCEPT !.row[d].rel = "failed", !.row[d].stage = "failed"]
          /\ stg' = [stg EXCEPT ![d] = "none"]
      BY <1>2 DEF BeginStaging
    <3>2. [db EXCEPT !.row[d].rel = "failed", !.row[d].stage = "failed"] = [db EXCEPT !.row = f]
      BY <1>1 DEF Databases
    <3> QED BY <1>1, <3>1, <3>2
  <2>4. q.rel = "failed" /\ q.stage = "failed" /\ q.dep = db.row[d].dep /\ q.bound = db.row[d].bound
        /\ q.slot = db.row[d].slot /\ q.sha = db.row[d].sha
    BY <1>1 DEF Releases
  <2> HIDE DEF f, q
  <2>5. OnlyRows /\ db'.row = f
    BY <1>1, <2>2, <2>3, RowsPut DEF OnlyRows
  <2> QED BY <2>2, <2>3, <2>4, <2>5
<1>3. CASE ~LockHeld(db, d)
  <2> DEFINE S == StagedIn(db, Other(current))
             X == Superseded(db, S)
             q == [X.row[d] EXCEPT !.rel = "staging", !.dep = "staging", !.slot = Other(current)]
             f == [X.row EXCEPT ![d] = q]
  <2>1. S \in SUBSET Rows /\ \A e \in Rows : e \in S <=> db.row[e].dep = "staged" /\ db.row[e].slot = Other(current)
    BY DEF StagedIn
  <2>2. X \in Databases /\ X.op = db.op /\ X.work = db.work
        /\ \A e \in Rows : X.row[e] = IF e \in S THEN [db.row[e] EXCEPT !.dep = "superseded"] ELSE db.row[e]
    BY <1>1, <2>1, SupersededIs
  <2>3. db' = [X EXCEPT !.row[d].rel = "staging", !.row[d].dep = "staging", !.row[d].slot = Other(current)]
        /\ stg'[d] = "build"
    BY <1>1, <1>3 DEF BeginStaging
  <2> HIDE DEF S, X
  <2>4. X.row \in [Rows -> Releases]
    BY <2>2 DEF Databases
  <2>5. q \in Releases
    <3>1. X.row[d] \in Releases /\ Other(current) \in Slots
      BY <1>1, <2>4 DEF Slots, Other
    <3>2. "staging" \in RowStates \ {"none", "planned"}
      BY DEF RowStates
    <3>3. \A r \in Releases, x \in RowStates \ {"none", "planned"}, s \in Slots :
             [r EXCEPT !.rel = x, !.dep = x, !.slot = s] \in Releases
      BY DEF Releases
    <3> QED BY <3>1, <3>2, <3>3
  <2>6. f \in [Rows -> Releases] /\ f[d] = q /\ \A e \in Rows \ {d} : f[e] = X.row[e]
    BY <2>4, <2>5
  <2>7. db' = [X EXCEPT !.row = f]
    BY <2>2, <2>3, <2>4
  <2>8. q.rel = "staging" /\ q.dep = "staging" /\ q.slot = Other(current) /\ q.stage = db.row[d].stage
        /\ q.bound = db.row[d].bound
    <3>1. \A r \in Releases, s \in Slots : LET n == [r EXCEPT !.rel = "staging", !.dep = "staging", !.slot = s] IN
             n.rel = "staging" /\ n.dep = "staging" /\ n.slot = s /\ n.stage = r.stage /\ n.bound = r.bound
      BY DEF Releases
    <3>2. Other(current) \in Slots /\ X.row[d] \in Releases
      BY <1>1, <2>4 DEF Slots, Other
    <3>3. X.row[d].stage = db.row[d].stage /\ X.row[d].bound = db.row[d].bound
      BY <1>1, <2>2 DEF Releases
    <3> QED BY <3>1, <3>2, <3>3
  <2> HIDE DEF f, q
  <2>9. OnlyRows /\ db'.row = f
    BY <2>2, <2>6, <2>7, RowsPut DEF OnlyRows
  <2>10. ASSUME NEW e \in Rows \ {d}
         PROVE  /\ db'.row[e].rel = db.row[e].rel /\ SameSpot(db.row[e], db'.row[e])
                /\ db'.row[e].slot = db.row[e].slot /\ db'.row[e].bound = db.row[e].bound
                /\ db'.row[e].stage = db.row[e].stage
                /\ IF db.row[e].dep = "staged" /\ db.row[e].slot = Other(current)
                   THEN db'.row[e].dep = "superseded" ELSE db'.row[e].dep = db.row[e].dep
    <3> DEFINE r == db.row[e]
    <3>1. r \in Releases
      BY <1>1
    <3>2. db'.row[e] = IF r.dep = "staged" /\ r.slot = Other(current)
                       THEN [r EXCEPT !.dep = "superseded"] ELSE r
      BY <2>1, <2>2, <2>6, <2>9
    <3> HIDE DEF r
    <3>3. CASE r.dep = "staged" /\ r.slot = Other(current)
      BY <3>1, <3>2, <3>3 DEF Releases, SameSpot, r
    <3>4. CASE ~(r.dep = "staged" /\ r.slot = Other(current))
      BY <3>1, <3>2, <3>4 DEF SameSpot, r
    <3> QED BY <3>3, <3>4
  <2> QED BY <1>3, <2>3, <2>6, <2>8, <2>9, <2>10
<1> QED BY <1>2, <1>3

\* The action writes one row: what is not named of it stays.
OneRow(d) == OnlyRows /\ \A e \in Rows \ {d} : db'.row[e] = db.row[e]

\* A transaction that writes one row writes nothing else.
LEMMA OneRowPut ==
    ASSUME db \in Databases, NEW d \in Rows, NEW q \in Releases,
           db' = [db EXCEPT !.row = [db.row EXCEPT ![d] = q]]
    PROVE  OneRow(d) /\ db'.row[d] = q
<1> DEFINE f == [db.row EXCEPT ![d] = q]
<1>1. f \in [Rows -> Releases] /\ f[d] = q /\ \A e \in Rows \ {d} : f[e] = db.row[e]
  BY DEF Databases
<1>2. db' = [db EXCEPT !.row = f]
  OBVIOUS
<1> HIDE DEF f
<1>3. /\ [db EXCEPT !.row = f] \in Databases /\ [db EXCEPT !.row = f].row = f
      /\ [db EXCEPT !.row = f].op = db.op /\ [db EXCEPT !.row = f].work = db.work
  BY <1>1, RowsPut
<1>4. OnlyRows /\ db'.row = f
  BY <1>2, <1>3 DEF OnlyRows
<1> QED BY <1>1, <1>4 DEF OneRow

\* What mark_release_staged and mark_release_failed write.
LEMMA StageEndsWrites ==
    ASSUME db \in Databases, NEW d \in Rows, StageDone(d) \/ StageFailed(d)
    PROVE  /\ OneRow(d) /\ SameSpot(db.row[d], db'.row[d])
           /\ db'.row[d].bound = db.row[d].bound /\ db'.row[d].stage = db.row[d].stage
           /\ IF StageDone(d) THEN db'.row[d].rel = "staged" /\ db'.row[d].dep = "staged"
                              ELSE db'.row[d].rel = "failed" /\ db'.row[d].dep = "failed"
<1>1. db.row[d] \in Releases /\ db.row \in [Rows -> Releases]
  BY DEF Databases
<1> DEFINE q(x) == [db.row[d] EXCEPT !.rel = x, !.dep = x]
<1>a. \A x \in {"staged", "failed"} : x \in RowStates \ {"none", "planned"}
  BY DEF RowStates
<1>2. \A x \in {"staged", "failed"} :
         /\ q(x) \in Releases /\ SameSpot(db.row[d], q(x)) /\ q(x).bound = db.row[d].bound
         /\ q(x).stage = db.row[d].stage /\ q(x).rel = x /\ q(x).dep = x
  BY <1>1, <1>a DEF Releases, SameSpot
<1>3. \A x \in {"staged", "failed"} :
         [db EXCEPT !.row[d].rel = x, !.row[d].dep = x] = [db EXCEPT !.row = [db.row EXCEPT ![d] = q(x)]]
  BY <1>1 DEF Databases
<1> HIDE DEF q
<1>4. CASE StageDone(d)
  <2>1. db' = [db EXCEPT !.row[d].rel = "staged", !.row[d].dep = "staged"]
    BY <1>4 DEF StageDone
  <2>2. OneRow(d) /\ db'.row[d] = q("staged")
    BY <1>2, <1>3, <2>1, OneRowPut
  <2> QED BY <1>2, <1>4, <2>2
<1>5. CASE ~StageDone(d)
  <2>1. db' = [db EXCEPT !.row[d].rel = "failed", !.row[d].dep = "failed"]
    BY <1>5 DEF StageFailed
  <2>2. OneRow(d) /\ db'.row[d] = q("failed")
    BY <1>2, <1>3, <2>1, OneRowPut
  <2> QED BY <1>2, <1>5, <2>2
<1> QED BY <1>4, <1>5

\* What the end of a stage operation writes.
LEMMA FinishStageWrites ==
    ASSUME db \in Databases, NEW d \in Rows, FinishStage(d)
    PROVE  /\ OneRow(d) /\ SameSpot(db.row[d], db'.row[d])
           /\ db'.row[d].bound = db.row[d].bound /\ db'.row[d].rel = db.row[d].rel
           /\ db'.row[d].dep = db.row[d].dep /\ db'.row[d].stage # "running"
<1> DEFINE x == IF db.row[d].rel = "failed" THEN "failed" ELSE "succeeded"
           q == [db.row[d] EXCEPT !.stage = x]
<1>1. db.row[d] \in Releases /\ db.row \in [Rows -> Releases]
  BY DEF Databases
<1>2. x \in OpStates \ {"running"}
  BY DEF OpStates
<1>3. db' = [db EXCEPT !.row[d].stage = x]
  BY DEF FinishStage
<1> HIDE DEF x
<1>4. /\ q \in Releases /\ SameSpot(db.row[d], q) /\ q.bound = db.row[d].bound
      /\ q.stage = x /\ q.rel = db.row[d].rel /\ q.dep = db.row[d].dep
  BY <1>1, <1>2 DEF Releases, SameSpot
<1>5. db' = [db EXCEPT !.row = [db.row EXCEPT ![d] = q]]
  BY <1>1, <1>3 DEF Databases
<1> HIDE DEF q
<1> QED BY <1>2, <1>4, <1>5, OneRowPut

\* The three ends of begin_release_switching: refused, escaped, or both locks taken.
LEMMA BeginSwitchingWrites ==
    ASSUME db \in Databases, swc \in [Ops -> Calls], NEW o \in Ops, BeginSwitching(o), swc[o].target \in Rows
    PROVE  LET t == swc[o].target IN
           \/ OnlyOps /\ Abort(o) /\ closed' = FALSE
           \/ UNCHANGED db /\ Escaped(o)
           \/ /\ ~LockHeld(db, t) /\ OneRow(t) /\ SameSpot(db.row[t], db'.row[t])
              /\ db'.row[t].stage = db.row[t].stage
              /\ db'.row[t].bound = o /\ db'.row[t].dep = "switching"
              /\ db'.row[t].rel = IF db.row[t].rel = "none" THEN "none" ELSE "switching"
              /\ db.row[t].dep = IF db.op[o].kind = "switch" THEN "staged" ELSE "superseded"
              /\ db.row[t].rel \in {db.row[t].dep, "none"}
              /\ Step(o, "spawn") /\ closed' = closed
<1> DEFINE t == swc[o].target
           expected == IF db.op[o].kind = "switch" THEN "staged" ELSE "superseded"
<1>1. db.row[t] \in Releases /\ db.row \in [Rows -> Releases] /\ db.op \in [Ops -> Operations]
  BY DEF Databases
<1>2. CASE LockHeld(db, t)
  <2>1. Abort(o) /\ closed' = FALSE
    BY <1>2 DEF BeginSwitching
  <2>2. [db.op EXCEPT ![o].state = "failed"] \in [Ops -> Operations]
    BY <1>1 DEF Operations, OpStates
  <2>3. db' = [db EXCEPT !.op = [db.op EXCEPT ![o].state = "failed"]]
    BY <2>1, <1>1 DEF Abort
  <2>4. OnlyOps
    BY <2>2, <2>3, OpsPut DEF OnlyOps
  <2> QED BY <2>1, <2>4
<1>3. CASE ~LockHeld(db, t) /\ (db.row[t].dep # expected \/ db.row[t].rel \notin {expected, "none"})
  BY <1>3 DEF BeginSwitching
<1>4. CASE ~LockHeld(db, t) /\ ~(db.row[t].dep # expected \/ db.row[t].rel \notin {expected, "none"})
  <2> DEFINE x == IF db.row[t].rel = "none" THEN "none" ELSE "switching"
             q == [db.row[t] EXCEPT !.dep = "switching", !.bound = o, !.rel = x]
  <2>1. x \in RowStates
    BY DEF RowStates
  <2>2. /\ db' = [db EXCEPT !.row[t].dep = "switching", !.row[t].bound = o, !.row[t].rel = x]
        /\ Step(o, "spawn") /\ closed' = closed
    BY <1>4 DEF BeginSwitching
  <2> HIDE DEF x
  <2>3. /\ q \in Releases /\ SameSpot(db.row[t], q) /\ q.stage = db.row[t].stage /\ q.bound = o
        /\ q.dep = "switching" /\ q.rel = x
    BY <1>1, <2>1 DEF Releases, SameSpot, RowStates
  <2>4. db' = [db EXCEPT !.row = [db.row EXCEPT ![t] = q]]
    BY <1>1, <2>2 DEF Databases
  <2> HIDE DEF q
  <2>5. OneRow(t) /\ db'.row[t] = q
    BY <2>3, <2>4, OneRowPut
  <2> QED BY <1>4, <2>2, <2>3, <2>5 DEF x
<1> QED BY <1>2, <1>3, <1>4

\* What a request for a switch or a rollback writes.
LEMMA StartedWrites ==
    ASSUME db \in Databases, NEW o \in Ops, NEW k \in {"switch", "rollback"}, NEW d \in Rows, NEW t \in Rows,
           Started(o, k, d, t)
    PROVE  /\ OnlyOps /\ db'.op[o].kind = k /\ db'.op[o].state = "running"
           /\ \A p \in Ops \ {o} : db'.op[p] = db.op[p]
<1> DEFINE q == [kind |-> k, of |-> d, state |-> "running"]
           f == [db.op EXCEPT ![o] = q]
<1>1. db.op \in [Ops -> Operations] /\ q \in Operations
  BY DEF Databases, Operations, OpStates
<1>2. f \in [Ops -> Operations] /\ f[o] = q /\ \A p \in Ops \ {o} : f[p] = db.op[p]
  BY <1>1
<1>3. db' = [db EXCEPT !.op = f]
  BY DEF Started
<1>4. q.kind = k /\ q.state = "running"
  OBVIOUS
<1> HIDE DEF f, q
<1> QED BY <1>2, <1>3, <1>4, OpsPut DEF OnlyOps

\* What _fail_release_switch writes.
LEMMA AbortWrites ==
    ASSUME db \in Databases, NEW o \in Ops, Abort(o)
    PROVE  /\ OnlyOps /\ db'.op[o].kind = db.op[o].kind /\ db'.op[o].state = "failed"
           /\ \A p \in Ops \ {o} : db'.op[p] = db.op[p]
<1> DEFINE q == [db.op[o] EXCEPT !.state = "failed"]
           f == [db.op EXCEPT ![o] = q]
<1>1. db.op \in [Ops -> Operations]
  BY DEF Databases
<1>2. q \in Operations /\ q.kind = db.op[o].kind /\ q.state = "failed"
  BY <1>1 DEF Operations, OpStates
<1>3. f \in [Ops -> Operations] /\ f[o] = q /\ \A p \in Ops \ {o} : f[p] = db.op[p]
  BY <1>1, <1>2
<1>4. db' = [db EXCEPT !.op = f]
  BY <1>1 DEF Abort
<1> HIDE DEF f, q
<1> QED BY <1>2, <1>3, <1>4, OpsPut DEF OnlyOps

\* What a boot makes of stage operations that still run.
LEMMA InterruptStagesWrites ==
    ASSUME db \in Databases, InterruptStages
    PROVE  /\ OnlyRows
           /\ \A e \in Rows : /\ SameSpot(db.row[e], db'.row[e]) /\ db'.row[e].bound = db.row[e].bound
                              /\ db'.row[e].rel = db.row[e].rel /\ db'.row[e].dep = db.row[e].dep
                              /\ db'.row[e].stage # "running"
<1> DEFINE f == [d \in Rows |-> IF db.row[d].stage = "running"
                THEN [db.row[d] EXCEPT !.stage = "interrupted"] ELSE db.row[d]]
<1>1. db.row \in [Rows -> Releases]
  BY DEF Databases
<1>2. \A r \in Releases : LET q == [r EXCEPT !.stage = "interrupted"] IN
         /\ q \in Releases /\ SameSpot(r, q) /\ SameSpot(r, r) /\ q.bound = r.bound /\ q.rel = r.rel
         /\ q.dep = r.dep /\ q.stage = "interrupted"
  BY DEF Releases, OpStates, SameSpot
<1>3. f \in [Rows -> Releases]
  BY <1>1, <1>2
<1>4. db' = [db EXCEPT !.row = f]
  BY DEF InterruptStages
<1>5. ASSUME NEW e \in Rows
      PROVE  /\ SameSpot(db.row[e], f[e]) /\ f[e].bound = db.row[e].bound
             /\ f[e].rel = db.row[e].rel /\ f[e].dep = db.row[e].dep /\ f[e].stage # "running"
  <2> DEFINE r == db.row[e]
  <2>1. r \in Releases /\ f[e] = IF r.stage = "running" THEN [r EXCEPT !.stage = "interrupted"] ELSE r
    BY <1>1
  <2> HIDE DEF r, f
  <2>2. SameSpot(r, f[e]) /\ f[e].bound = r.bound /\ f[e].rel = r.rel /\ f[e].dep = r.dep
        /\ f[e].stage # "running"
    BY <1>2, <2>1
  <2> QED BY <2>2 DEF r
<1> HIDE DEF f
<1> QED BY <1>3, <1>4, <1>5, RowsPut DEF OnlyRows

\* What a boot makes of releases that nobody stages any more.
LEMMA RecoverWrites ==
    ASSUME db \in Databases, Recover
    PROVE  /\ OnlyRows
           /\ \A e \in Rows :
                /\ SameSpot(db.row[e], db'.row[e]) /\ db'.row[e].bound = db.row[e].bound
                /\ db'.row[e].stage = db.row[e].stage
                /\ db'.row[e].rel = IF db.row[e].rel = "staging" THEN "failed" ELSE db.row[e].rel
                /\ db'.row[e].dep = IF db.row[e].dep = "staging" THEN "failed" ELSE db.row[e].dep
<1> DEFINE Dead(x) == IF x = "staging" THEN "failed" ELSE x
           f == [d \in Rows |-> [db.row[d] EXCEPT !.rel = Dead(db.row[d].rel), !.dep = Dead(db.row[d].dep)]]
<1>1. db.row \in [Rows -> Releases]
  BY DEF Databases
<1>2. ASSUME NEW r \in Releases
      PROVE  LET q == [r EXCEPT !.rel = Dead(r.rel), !.dep = Dead(r.dep)] IN
             /\ q \in Releases /\ SameSpot(r, q) /\ q.bound = r.bound /\ q.stage = r.stage
             /\ q.rel = Dead(r.rel) /\ q.dep = Dead(r.dep)
  <2> DEFINE x == Dead(r.rel)
             y == Dead(r.dep)
  <2>1. x \in RowStates /\ y \in RowStates \ {"none", "planned"}
    BY DEF Releases, RowStates
  <2> HIDE DEF x, y
  <2>2. LET q == [r EXCEPT !.rel = x, !.dep = y] IN
             /\ q \in Releases /\ SameSpot(r, q) /\ q.bound = r.bound /\ q.stage = r.stage
             /\ q.rel = x /\ q.dep = y
    BY <2>1 DEF Releases, SameSpot
  <2> QED BY <2>2 DEF x, y
<1>3. f \in [Rows -> Releases]
  BY <1>1, <1>2
<1>4. db' = [db EXCEPT !.row = f]
  BY DEF Recover, OrphansFailed
<1>5. ASSUME NEW e \in Rows
      PROVE  /\ SameSpot(db.row[e], f[e]) /\ f[e].bound = db.row[e].bound
             /\ f[e].stage = db.row[e].stage /\ f[e].rel = Dead(db.row[e].rel) /\ f[e].dep = Dead(db.row[e].dep)
  BY <1>1, <1>2
<1> HIDE DEF f
<1> QED BY <1>3, <1>4, <1>5, RowsPut DEF OnlyRows

\* A verdict or the lack of one.
LEMMA AppliedIs ==
    ASSUME NEW D \in Databases, NEW o \in Ops
    PROVE  /\ Outcome(o).op \in OpStates \ {"running", "absent"} /\ Outcome(o).row \in Fates
           /\ Outcome(o).row = "live" <=> jr[o].tail = "switched_ok"
           /\ Outcome(o).row = "staged" <=> jr[o].tail = "old_wont_die"
           /\ jr[o].tail \in {"flip_done", "rollback_begin"} => Outcome(o).op = "interrupted"
           /\ Applied(D, o) \in Databases /\ Applied(D, o).work = D.work
           /\ Applied(D, o).op = [D.op EXCEPT ![o] = [@ EXCEPT !.state = Outcome(o).op]]
           /\ Located(D, o) = {} =>
                \A e \in Rows : Applied(D, o).row[e] = Retiring(D.row[e], Outcome(o).row)
           /\ Located(D, o) # {} =>
                \E d \in Located(D, o) :
                  /\ Applied(D, o).row[d] = Made(D.row[d], o, Outcome(o).row)
                  /\ \A e \in Rows \ {d} : Applied(D, o).row[e] = Yielding(D.row[e], Outcome(o).row)
<1>1. Outcome(o).op \in OpStates \ {"running", "absent"} /\ Outcome(o).row \in Fates
  BY DEF Outcome, OpStates, Fates
<1>2. /\ Outcome(o).row = "live" <=> jr[o].tail = "switched_ok"
      /\ Outcome(o).row = "staged" <=> jr[o].tail = "old_wont_die"
      /\ jr[o].tail \in {"flip_done", "rollback_begin"} => Outcome(o).op = "interrupted"
  BY DEF Outcome
<1> QED BY <1>1, <1>2, FinalizedIs DEF Applied

--------------------------------------------------------------------------------
(* Types. *)

PCs == {"none", "census", "drain", "close", "snapshot", "journal", "begin", "spawn"}
SWs == {"none", "wait", "flip", "poll", "kill", "flip_back", "restore", "poll_old", "done"}

\* The values that steps give to the server process.
LEMMA ServerShapes ==
    ASSUME srv \in Servers
    PROVE  /\ \A x \in {"down", "boot", "up", "stopping"} : [srv EXCEPT !.phase = x] \in Servers
           /\ \A x \in {"down", "boot", "up", "stopping"} : [srv EXCEPT !.phase = x, !.at = 1] \in Servers
           /\ \A n \in 1..Switches + 2 : [srv EXCEPT !.at = n] \in Servers
           /\ \A s \in Slots : [phase |-> "boot", slot |-> s, at |-> 1] \in Servers
<1>1. 1 \in 1..Switches + 2
  BY BoundsAssumption
<1>2. \A x \in {"down", "boot", "up", "stopping"} :
         [srv EXCEPT !.phase = x] \in Servers /\ [srv EXCEPT !.phase = x, !.at = 1] \in Servers
  BY <1>1 DEF Servers
<1>3. \A n \in 1..Switches + 2 : [srv EXCEPT !.at = n] \in Servers
  BY DEF Servers
<1>4. \A s \in Slots : [phase |-> "boot", slot |-> s, at |-> 1] \in Servers
  BY <1>1 DEF Servers
<1> QED BY <1>2, <1>3, <1>4

\* The values that steps give to calls.
LEMMA CallShapes ==
    ASSUME swc \in [Ops -> Calls], NEW o \in Ops
    PROVE  /\ NoCall \in Calls /\ swc[o] \in Calls
           /\ \A pc \in PCs : [swc EXCEPT ![o].pc = pc] \in [Ops -> Calls]
           /\ [swc EXCEPT ![o] = NoCall] \in [Ops -> Calls]
           /\ [p \in Ops |-> NoCall] \in [Ops -> Calls]
BY DEF Calls, NoCall, PCs, Slots

\* A journal whose tail is a step is a journal.
LEMMA EntryShapes ==
    ASSUME jr \in [Ops -> Entries], NEW o \in Ops, NEW x \in Steps
    PROVE  [jr EXCEPT ![o].tail = x] \in [Ops -> Entries]
BY DEF Entries

\* A server that is gone leaves values of the right type.
LEMMA GoneTypes ==
    ASSUME TypeOK, Gone
    PROVE  /\ srv' \in Servers /\ closed' \in BOOLEAN /\ prob' \in Ops \cup {NoOp}
           /\ turn' = "none" /\ swc' \in [Ops -> Calls]
           /\ stg' \in [Rows -> {"none", "admitted", "build", "building", "settle"}]
<1>1. NoCall \in Calls
  BY DEF NoCall, Calls, Slots
<1>2. srv' \in Servers
  BY ServerShapes DEF TypeOK, Gone
<1>3. swc' \in [Ops -> Calls]
  BY <1>1 DEF Gone
<1> QED BY <1>2, <1>3 DEF Gone

\* The initial state has the right types.
LEMMA TypeInit == Init => TypeOK
<1> SUFFICES ASSUME Init PROVE TypeOK
  OBVIOUS
<1>1. /\ Home \in Boards /\ Sample \in Shas
  BY ShaAssumption DEF Home, Sample
<1>2. /\ NoRow \in Releases
      /\ \A x \in {"none", "live"} : [NoRow EXCEPT !.rel = x, !.dep = "live"] \in Releases
  BY <1>1 DEF NoRow, Releases, RowStates, OpStates, Slots
<1>3. NewOp \in Operations /\ NoEntry \in Entries /\ NoCall \in Calls
  BY <1>1 DEF NewOp, Operations, OpStates, NoEntry, Entries, Steps, NoCall, Calls, Slots
<1>4. (IF Era THEN "none" ELSE "live") \in {"none", "live"}
  OBVIOUS
<1> DEFINE x == IF Era THEN "none" ELSE "live"
<1>5. [NoRow EXCEPT !.rel = x, !.dep = "live"] \in Releases
  BY <1>2, <1>4
<1>6. db.row = [d \in Rows |-> IF d = 1 THEN [NoRow EXCEPT !.rel = x, !.dep = "live"] ELSE NoRow]
  BY DEF Init
<1> HIDE DEF x
<1>7. db.row \in [Rows -> Releases]
  BY <1>2, <1>5, <1>6
<1>8. db = [row |-> db.row, op |-> [o \in Ops |-> NewOp], past |-> {}, work |-> {}]
  BY DEF Init
<1>9. db \in Databases /\ db.work = {}
  BY <1>3, <1>7, <1>8 DEF Databases
<1>10. jr \in [Ops -> Entries] /\ swc \in [Ops -> Calls]
  BY <1>3 DEF Init
<1>11. srv \in Servers /\ faults \in 0..Faults
  BY BoundsAssumption DEF Init, Servers, Slots
<1>12. content \in [Slots -> Shas \cup {"junk"}] /\ current \in Slots
  BY <1>1 DEF Init, Slots
<1>13. snap \in [Ops -> Databases \cup {<<>>}]
  BY DEF Init
<1> QED BY <1>9, <1>10, <1>11, <1>12, <1>13 DEF TypeOK, Init

\* The writes to the database keep its shape and record only what users have asked for.
LEMMA DbType ==
    ASSUME Invariant, Next
    PROVE  db' \in Databases /\ db'.work \subseteq given'
<1>0. /\ db \in Databases /\ db.work \subseteq given /\ swc \in [Ops -> Calls] /\ given \subseteq Works
      /\ turn \in given \cup {"none"} /\ TypeOK /\ prob \in Ops \cup {NoOp}
  BY DEF Invariant, TypeOK
<1>1. ASSUME UNCHANGED <<db, given>> PROVE db' \in Databases /\ db'.work \subseteq given'
  BY <1>0, <1>1
<1>2. ASSUME OnlyRows \/ OnlyOps, UNCHANGED given PROVE db' \in Databases /\ db'.work \subseteq given'
  BY <1>0, <1>2 DEF OnlyRows, OnlyOps
<1>3. ASSUME NEW o \in Ops, db' = Applied(db, o), UNCHANGED given
      PROVE  db' \in Databases /\ db'.work \subseteq given'
  BY <1>0, <1>3, AppliedIs
<1>4. ASSUME NEW w \in Works, AdmitTurn(w) PROVE db' \in Databases /\ db'.work \subseteq given'
  BY <1>0, <1>4 DEF AdmitTurn
<1>5. ASSUME FinishTurn PROVE db' \in Databases /\ db'.work \subseteq given'
  <2> DEFINE W == db.work \cup {turn}
  <2>1. turn \in given /\ W \subseteq given /\ given' = given
    BY <1>0, <1>5 DEF FinishTurn
  <2>2. db' = [db EXCEPT !.work = W]
    BY <1>5 DEF FinishTurn
  <2> HIDE DEF W
  <2> QED BY <1>0, <2>1, <2>2 DEF Databases
<1>6. ASSUME NEW d \in Rows, NEW b \in Boards, NEW s \in Shas, PlanRelease(d, b, s)
      PROVE  OnlyRows /\ UNCHANGED given
  BY <1>0, <1>6, PlanReleaseWrites DEF PlanRelease
<1>7. ASSUME NEW d \in Rows, Staging(d)
      PROVE  (OnlyRows \/ UNCHANGED db) /\ UNCHANGED given
  BY <1>0, <1>7, BeginStagingWrites, StageEndsWrites, FinishStageWrites
     DEF Staging, OneRow, BeginStaging, StageSlot, StageDone, StageFailed, FinishStage
<1>8. ASSUME NEW o \in Ops, NEW b \in Boards, RequestSwitch(o, b) \/ RequestRollback(o, b)
      PROVE  OnlyOps /\ UNCHANGED given
  <2>1. \E k \in {"switch", "rollback"}, d \in Rows, t \in Rows : Started(o, k, d, t)
    <3>1. CASE RequestSwitch(o, b)
      <4>1. Newest(StagedOf(b)) \in Rows
        <5>1. StagedOf(b) \in SUBSET Rows /\ StagedOf(b) # {}
          BY <3>1 DEF RequestSwitch, StagedOf
        <5> QED BY <5>1, NewestIn
      <4> QED BY <3>1, <4>1 DEF RequestSwitch
    <3>2. CASE RequestRollback(o, b)
      BY <3>2 DEF RequestRollback, LiveRows
    <3> QED BY <1>8, <3>1, <3>2
  <2>2. PICK k \in {"switch", "rollback"}, d \in Rows, t \in Rows : Started(o, k, d, t)
    BY <2>1
  <2>3. OnlyOps
    BY <1>0, <2>2, StartedWrites
  <2> QED BY <2>2, <2>3 DEF Started
<1>9. ASSUME NEW o \in Ops, Calling(o)
      PROVE  (OnlyOps \/ OnlyRows \/ UNCHANGED db) /\ UNCHANGED given
  <2>1. Abort(o) => OnlyOps
    BY <1>0, AbortWrites
  <2>2. ASSUME BeginSwitching(o) PROVE OnlyOps \/ OnlyRows \/ UNCHANGED db
    <3>1. o \in Callers
      BY <2>2 DEF BeginSwitching, Callers
    <3>2. swc[o].target \in Rows
      BY <3>1 DEF Invariant, CallsOK, CallOK
    <3> QED BY <1>0, <2>2, <3>2, BeginSwitchingWrites DEF OneRow
  <2>3. UNCHANGED given
    BY <1>9 DEF Calling, FirstCensus, Drain, FinalCensus, Snapshot, Handoff, BeginSwitching, SpawnSwitcher,
                Escape
  <2>4. Abort(o) \/ UNCHANGED db \/ BeginSwitching(o)
    BY <1>9 DEF Calling, FirstCensus, Drain, FinalCensus, Snapshot, Handoff, SpawnSwitcher, Escape
  <2> QED BY <2>1, <2>2, <2>3, <2>4
<1>10. ASSUME NEW o \in Ops, RestoreSnapshot(o)
       PROVE  db' \in Databases /\ db'.work \subseteq given'
  <2>1. o \in SnapLive
    BY <1>10 DEF RestoreSnapshot, At, SnapLive
  <2> QED BY <1>10, <2>1 DEF Invariant, Snapshots, RestoreSnapshot
<1>11. ASSUME NEW o \in Ops, Switcher(o), ~RestoreSnapshot(o)
       PROVE  UNCHANGED <<db, given>>
  BY <1>11 DEF Switcher, OldWontDie, FlipDone, Flip, SwitchedOk, RollbackBegin, TerminateNew, FlipBack,
               RolledBack, RollbackIncomplete, SwitchError, PortHeld
<1>12. ASSUME Exit \/ Crash \/ Reboot \/ Restart \/ BootFails \/ \E o \in Ops : HealthWindowPasses(o)
       PROVE  UNCHANGED <<db, given>>
  BY <1>12 DEF Exit, Crash, Reboot, Restart, BootFails, HealthWindowPasses
<1>13. ASSUME NEW o \in Ops, Reconcile(o)
       PROVE  (db' = db \/ db' = Applied(db, o)) /\ UNCHANGED given
  BY <1>13 DEF Reconcile
<1>14. ASSUME InterruptStages \/ Recover PROVE OnlyRows /\ UNCHANGED given
  BY <1>0, <1>14, InterruptStagesWrites, RecoverWrites DEF InterruptStages, Recover
<1>15. ASSUME ProbationEnds PROVE prob \in Ops /\ db' = Applied(db, prob) /\ UNCHANGED given
  BY <1>0, <1>15 DEF ProbationEnds
<1> QED BY <1>1, <1>2, <1>3, <1>4, <1>5, <1>6, <1>7, <1>8, <1>9, <1>10, <1>11, <1>12, <1>13, <1>14, <1>15
        DEF Next, Boot

StgShape == [Rows -> {"none", "admitted", "build", "building", "settle"}]

\* Everything but the database.
RestTyped ==
    /\ given \subseteq Works /\ current \in Slots /\ content \in [Slots -> Shas \cup {"junk"}]
    /\ jr \in [Ops -> Entries] /\ aged \subseteq Ops /\ snap \in [Ops -> Databases \cup {<<>>}]
    /\ srv \in Servers /\ closed \in BOOLEAN /\ prob \in Ops \cup {NoOp}
    /\ turn \in given \cup {"none"} /\ stg \in StgShape /\ swc \in [Ops -> Calls]
    /\ sw \in [Ops -> SWs] /\ faults \in 0..Faults

\* Type correctness apart from the database.
LEMMA RestIs == TypeOK <=> db \in Databases /\ db.work \subseteq given /\ RestTyped
BY DEF TypeOK, RestTyped, StgShape, SWs

\* Faults stay within their budget.
LEMMA FaultType == ASSUME faults \in 0..Faults, Fault PROVE faults' \in 0..Faults
BY BoundsAssumption DEF Fault

\* Every step keeps the types apart from the database.
LEMMA RestType ==
    ASSUME Invariant, Next
    PROVE  RestTyped'
<1>0. /\ TypeOK /\ RestTyped /\ db \in Databases
  BY RestIs DEF Invariant, TypeOK
<1>a. db.row \in [Rows -> Releases]
  BY <1>0 DEF Databases
<1>b. \A d \in Rows : db.row[d].slot \in Slots /\ db.row[d].sha \in Shas
  BY <1>a DEF Releases
<1>1. ASSUME NEW w \in Works, AdmitTurn(w) PROVE RestTyped'
  BY <1>0, <1>1 DEF AdmitTurn, RestTyped, disk
<1>2. ASSUME FinishTurn PROVE RestTyped'
  BY <1>0, <1>2 DEF FinishTurn, RestTyped, disk
<1>3. ASSUME NEW d \in Rows, NEW b \in Boards, NEW s \in Shas, PlanRelease(d, b, s) PROVE RestTyped'
  BY <1>0, <1>3 DEF PlanRelease, RestTyped, disk, StgShape
<1>4. ASSUME NEW d \in Rows, Staging(d) PROVE RestTyped'
  <2>1. faults' \in 0..Faults
    BY <1>0, <1>4, FaultType
       DEF RestTyped, Staging, BeginStaging, StageSlot, StageDone, StageFailed, FinishStage
  <2>2. content' \in [Slots -> Shas \cup {"junk"}]
    BY <1>0, <1>b, <1>4
       DEF RestTyped, Staging, BeginStaging, StageSlot, StageDone, StageFailed, FinishStage, disk
  <2>3. stg' \in StgShape
    BY <1>0, <1>4 DEF RestTyped, Staging, BeginStaging, StageSlot, StageDone, StageFailed, FinishStage,
                      StgShape
  <2> QED BY <1>0, <1>4, <2>1, <2>2, <2>3
          DEF RestTyped, Staging, BeginStaging, StageSlot, StageDone, StageFailed, FinishStage, disk
<1>5. ASSUME NEW o \in Ops, NEW b \in Boards, RequestSwitch(o, b) \/ RequestRollback(o, b)
      PROVE  RestTyped'
  <2>1. \E k \in {"switch", "rollback"}, d \in Rows, t \in Rows : Started(o, k, d, t)
    <3>1. CASE RequestSwitch(o, b)
      <4>1. Newest(StagedOf(b)) \in Rows
        <5>1. StagedOf(b) \in SUBSET Rows /\ StagedOf(b) # {}
          BY <3>1 DEF RequestSwitch, StagedOf
        <5> QED BY <5>1, NewestIn
      <4> QED BY <3>1, <4>1 DEF RequestSwitch
    <3>2. CASE RequestRollback(o, b)
      BY <3>2 DEF RequestRollback, LiveRows
    <3> QED BY <1>5, <3>1, <3>2
  <2>2. PICK k \in {"switch", "rollback"}, d \in Rows, t \in Rows : Started(o, k, d, t)
    BY <2>1
  <2>3. [pc |-> "census", target |-> t, from |-> current] \in Calls
    BY <1>0 DEF RestTyped, Calls
  <2>4. swc' \in [Ops -> Calls]
    BY <1>0, <2>2, <2>3 DEF Started, RestTyped
  <2> QED BY <1>0, <2>2, <2>4 DEF Started, RestTyped, disk
<1>6. ASSUME NEW o \in Ops, Calling(o) PROVE RestTyped'
  <2>1. swc' \in [Ops -> Calls]
    <3>1. swc \in [Ops -> Calls]
      BY <1>0 DEF RestTyped
    <3>2. \/ \E pc \in PCs : swc' = [swc EXCEPT ![o].pc = pc]
          \/ swc' = [swc EXCEPT ![o] = NoCall]
      BY <1>6 DEF Calling, FirstCensus, Drain, FinalCensus, Snapshot, Handoff, BeginSwitching,
                  SpawnSwitcher, Escape, Step, Abort, Escaped, PCs
    <3> QED BY <3>1, <3>2, CallShapes
  <2>2. faults' \in 0..Faults
    BY <1>0, <1>6, FaultType
       DEF RestTyped, Calling, FirstCensus, Drain, FinalCensus, Snapshot, Handoff, BeginSwitching,
           SpawnSwitcher, Escape
  <2>3. snap' \in [Ops -> Databases \cup {<<>>}]
    BY <1>0, <1>6
       DEF RestTyped, Calling, FirstCensus, Drain, FinalCensus, Snapshot, Handoff, BeginSwitching,
           SpawnSwitcher, Escape, disk
  <2>4. jr' \in [Ops -> Entries]
    <3>1. ASSUME Handoff(o) PROVE jr' \in [Ops -> Entries]
      <4> DEFINE t == swc[o].target
                 old == IF LiveRows(db) = {} THEN content[current] ELSE db.row[Newest(LiveRows(db))].sha
                 q == [tail |-> "handoff", from |-> swc[o].from, to |-> db.row[t].slot, old |-> old,
                       new |-> db.row[t].sha]
      <4>1. t \in Rows
        BY <3>1 DEF Invariant, CallsOK, CallOK, Callers, Handoff
      <4>2. old \in Shas \cup {"junk"}
        <5>1. LiveRows(db) \in SUBSET Rows
          BY DEF LiveRows
        <5>2. LiveRows(db) # {} => Newest(LiveRows(db)) \in Rows
          BY <5>1, NewestIn
        <5> QED BY <1>0, <1>b, <5>2 DEF RestTyped
      <4>3. swc[o].from \in Slots
        BY <1>0 DEF RestTyped, Calls
      <4>4. jr' = [jr EXCEPT ![o] = q]
        BY <3>1 DEF Handoff
      <4> HIDE DEF old
      <4>5. q \in Entries
        BY <1>b, <4>1, <4>2, <4>3 DEF Entries, Steps
      <4> HIDE DEF q
      <4> QED BY <1>0, <4>4, <4>5 DEF RestTyped
    <3> QED BY <1>0, <1>6, <3>1
        DEF RestTyped, Calling, FirstCensus, Drain, FinalCensus, Snapshot, BeginSwitching, SpawnSwitcher,
            Escape, disk
  <2>5. srv' \in Servers /\ sw' \in [Ops -> SWs] /\ closed' \in BOOLEAN
    BY <1>0, <1>6, ServerShapes
       DEF RestTyped, Calling, FirstCensus, Drain, FinalCensus, Snapshot, Handoff, BeginSwitching,
           SpawnSwitcher, Escape, Escaped, SWs
  <2>6. UNCHANGED <<given, current, content, aged, prob, turn, stg>>
    BY <1>6 DEF Calling, FirstCensus, Drain, FinalCensus, Snapshot, Handoff, BeginSwitching,
                SpawnSwitcher, Escape, disk
  <2> QED BY <1>0, <2>1, <2>2, <2>3, <2>4, <2>5, <2>6 DEF RestTyped
<1>7. ASSUME NEW o \in Ops, Switcher(o) PROVE RestTyped'
  <2>1. jr' \in [Ops -> Entries]
    <3>1. (\E x \in Steps : jr' = [jr EXCEPT ![o].tail = x]) \/ jr' = jr
      BY <1>7
         DEF Switcher, OldWontDie, FlipDone, Flip, SwitchedOk, RollbackBegin, TerminateNew, FlipBack,
             RestoreSnapshot, RolledBack, RollbackIncomplete, SwitchError, PortHeld, Journal, Steps, Verdicts, disk
    <3>2. jr \in [Ops -> Entries]
      BY <1>0 DEF RestTyped
    <3> QED BY <3>1, <3>2, EntryShapes
  <2>2. sw' \in [Ops -> SWs]
    BY <1>0, <1>7
       DEF RestTyped, Switcher, OldWontDie, FlipDone, Flip, SwitchedOk, RollbackBegin, TerminateNew, FlipBack,
           RestoreSnapshot, RolledBack, RollbackIncomplete, SwitchError, PortHeld, At, SWs
  <2>3. current' \in Slots
    BY <1>0, <1>7
       DEF RestTyped, Switcher, OldWontDie, FlipDone, Flip, SwitchedOk, RollbackBegin, TerminateNew, FlipBack,
           RestoreSnapshot, RolledBack, RollbackIncomplete, SwitchError, PortHeld, disk, Entries
  <2>4. faults' \in 0..Faults
    BY <1>0, <1>7, FaultType
       DEF RestTyped, Switcher, OldWontDie, FlipDone, Flip, SwitchedOk, RollbackBegin, TerminateNew, FlipBack,
           RestoreSnapshot, RolledBack, RollbackIncomplete, SwitchError, PortHeld
  <2>5. UNCHANGED <<given, content, aged, snap>>
    BY <1>7
       DEF Switcher, OldWontDie, FlipDone, Flip, SwitchedOk, RollbackBegin, TerminateNew, FlipBack,
           RestoreSnapshot, RolledBack, RollbackIncomplete, SwitchError, PortHeld, disk
  <2>6. \/ UNCHANGED proc \/ Gone
        \/ (\E s \in Slots : srv' = [phase |-> "boot", slot |-> s, at |-> 1]) /\ UNCHANGED <<closed, prob, turn, stg, swc>>
    BY <1>0, <1>7
       DEF RestTyped, Entries, Switcher, OldWontDie, FlipDone, Flip, SwitchedOk, RollbackBegin, TerminateNew,
           FlipBack, RestoreSnapshot, RolledBack, RollbackIncomplete, SwitchError, PortHeld, Start
  <2>7. /\ srv' \in Servers /\ closed' \in BOOLEAN /\ prob' \in Ops \cup {NoOp}
        /\ turn' \in given \cup {"none"} /\ stg' \in StgShape /\ swc' \in [Ops -> Calls]
    <3>1. CASE UNCHANGED proc
      BY <1>0, <3>1 DEF RestTyped, proc
    <3>2. CASE Gone
      BY <1>0, <3>2, GoneTypes DEF StgShape
    <3>3. CASE \E s \in Slots : srv' = [phase |-> "boot", slot |-> s, at |-> 1]
               /\ UNCHANGED <<closed, prob, turn, stg, swc>>
      BY <1>0, <3>3, ServerShapes DEF RestTyped
    <3> QED BY <2>6, <3>1, <3>2, <3>3
  <2> QED BY <1>0, <2>1, <2>2, <2>3, <2>4, <2>5, <2>7 DEF RestTyped
<1>8. ASSUME NEW o \in Ops, HealthWindowPasses(o) PROVE RestTyped'
  BY <1>0, <1>8 DEF RestTyped, HealthWindowPasses, proc
<1>9. ASSUME Exit \/ Crash \/ Reboot \/ BootFails PROVE RestTyped'
  <2>1. Gone /\ UNCHANGED <<disk, given>>
    BY <1>9 DEF Exit, Crash, Reboot, BootFails
  <2>2. faults' \in 0..Faults
    BY <1>0, <1>9, FaultType DEF RestTyped, Exit, Crash, Reboot, BootFails
  <2>3. sw' \in [Ops -> SWs]
    BY <1>0, <1>9 DEF RestTyped, SWs, Exit, Crash, Reboot, BootFails
  <2> QED BY <1>0, <2>1, <2>2, <2>3, GoneTypes DEF RestTyped, StgShape, disk
<1>10. ASSUME Restart PROVE RestTyped'
  BY <1>0, <1>10, ServerShapes DEF RestTyped, Restart, Start, disk
<1>11. ASSUME NEW o \in Ops, Reconcile(o) PROVE RestTyped'
  <2>1. srv' \in Servers /\ prob' \in Ops \cup {NoOp}
    <3>1. o + 1 \in 1..Switches + 2
      BY BoundsAssumption DEF Ops
    <3> QED BY <1>0, <1>11, <3>1, ServerShapes DEF RestTyped, Reconcile
  <2> QED BY <1>0, <1>11, <2>1 DEF RestTyped, Reconcile, disk
<1>12. ASSUME InterruptStages PROVE RestTyped'
  <2>1. srv' \in Servers
    <3>1. Switches + 2 \in 1..Switches + 2
      BY BoundsAssumption
    <3> QED BY <1>0, <1>12, <3>1, ServerShapes DEF RestTyped, InterruptStages
  <2> QED BY <1>0, <1>12, <2>1 DEF RestTyped, InterruptStages, disk
<1>13. ASSUME Recover PROVE RestTyped'
  BY <1>0, <1>13, ServerShapes DEF RestTyped, Recover, disk
<1>14. ASSUME ProbationEnds PROVE RestTyped'
  BY <1>0, <1>14 DEF RestTyped, ProbationEnds, disk
<1> QED BY <1>1, <1>2, <1>3, <1>4, <1>5, <1>6, <1>7, <1>8, <1>9, <1>10, <1>11, <1>12, <1>13, <1>14
        DEF Next, Boot

\* Every step keeps the types.
LEMMA TypeStep ==
    ASSUME Invariant, Next
    PROVE  TypeOK'
<1>1. (db \in Databases /\ db.work \subseteq given /\ RestTyped)'
  BY DbType, RestType
<1> QED BY <1>1 DEF TypeOK, RestTyped, StgShape, SWs

--------------------------------------------------------------------------------
(* The database stays sound. *)

\* Soundness is a matter of rows and operations only.
LEMMA SoundSame ==
    ASSUME NEW D, NEW E, E.row = D.row, E.op = D.op, Sound(D)
    PROVE  Sound(E)
BY DEF Sound, LiveRows, Runs

\* An operation that holds no row starts or ends.
LEMMA SoundOps ==
    ASSUME NEW D, NEW E, E.row = D.row, Sound(D), NEW o \in Ops,
           \A p \in Ops \ {o} : E.op[p] = D.op[p], E.op[o].kind # "none",
           \A d \in Rows : D.row[d].bound # o
    PROVE  Sound(E)
<1>1. \A d \in Rows : D.row[d].bound \in Runs(D) <=> E.row[d].bound \in Runs(E)
  BY DEF Runs
<1> QED BY <1>1 DEF Sound, LiveRows

\* One row changes and takes no lock that another holds.
LEMMA SoundRow ==
    ASSUME NEW D \in Databases, NEW E \in Databases, E.op = D.op, Sound(D), NEW d \in Rows,
           \A e \in Rows \ {d} : E.row[e] = D.row[e],
           E.row[d].rel # "none" =>
             \A x \in Locked : (E.row[d].rel = x) <=> (E.row[d].dep = x),
           E.row[d].dep \in Locked => \A e \in Rows \ {d} : D.row[e].dep \notin Locked,
           E.row[d].dep = "live" => D.row[d].dep = "live",
           E.row[d].dep = "switching" <=> E.row[d].bound \in Runs(D),
           E.row[d].rel = "absent" => E.row[d].dep = "absent",
           E.row[d].bound # D.row[d].bound =>
             E.row[d].bound = NoOp \/ (E.row[d].bound \in Ops /\ D.op[E.row[d].bound].kind # "none")
    PROVE  Sound(E)
<1>1. Runs(E) = Runs(D)
  BY DEF Runs
<1>2. \A e \in Rows : E.row[e].rel # "none" =>
         \A x \in Locked : (E.row[e].rel = x) <=> (E.row[e].dep = x)
  BY DEF Sound
<1>3. \A e, g \in Rows : E.row[e].dep \in Locked /\ E.row[g].dep \in Locked => e = g
  BY DEF Sound
<1>4. \A e, g \in LiveRows(E) : e = g
  BY DEF Sound, LiveRows
<1>5. \A e \in Rows : E.row[e].dep = "switching" <=> E.row[e].bound \in Runs(E)
  BY <1>1 DEF Sound
<1>6. \A e \in Rows : E.row[e].rel = "absent" => E.row[e].dep = "absent"
  BY DEF Sound
<1>7. \A o \in Ops : E.op[o].kind = "none" =>
         E.op[o].state = "absent" /\ \A e \in Rows : E.row[e].bound # o
  BY DEF Sound, NoOp, Ops
<1> QED BY <1>2, <1>3, <1>4, <1>5, <1>6, <1>7 DEF Sound

\* A running operation is settled.
LEMMA SoundApplied ==
    ASSUME NEW D \in Databases, Sound(D), NEW o \in Runs(D)
    PROVE  Sound(Applied(D, o))
<1> DEFINE E == Applied(D, o)
           x == Outcome(o).row
           L == Located(D, o)
<1>1. /\ x \in Fates /\ Outcome(o).op \notin {"running", "absent"}
      /\ o \in Ops /\ D.op[o].state = "running" /\ D.row \in [Rows -> Releases]
      /\ D.op \in [Ops -> Operations]
  BY AppliedIs DEF Runs, Databases
<1>2. /\ \A p \in Ops \ {o} : E.op[p] = D.op[p]
      /\ E.op[o].kind = D.op[o].kind /\ E.op[o].state = Outcome(o).op
  <2>1. E.op = [D.op EXCEPT ![o] = [@ EXCEPT !.state = Outcome(o).op]]
    BY <1>1, AppliedIs
  <2> HIDE DEF E
  <2> QED BY <1>1, <2>1 DEF Operations
<1>3. Runs(E) = Runs(D) \ {o}
  BY <1>1, <1>2 DEF Runs
<1>4. \A d, e \in Rows : D.row[d].bound = o /\ D.row[e].bound = o => d = e
  BY DEF Sound, Locked
<1>5. CASE L = {}
  <2>1. \A e \in Rows : E.row[e] = Retiring(D.row[e], x)
    BY <1>1, <1>5, AppliedIs
  <2>2. \A e \in Rows : /\ E.row[e].dep = D.row[e].dep /\ E.row[e].bound = D.row[e].bound
                        /\ (E.row[e].rel = D.row[e].rel \/ (E.row[e].rel = "superseded" /\ D.row[e].rel = "live"))
    BY <1>1, <2>1, RowsMade
  <2>3. \A e \in Rows : D.row[e].bound # o
    BY <1>5, LocatedRows
  <2> HIDE DEF E, L, x
  <2>4. Sound(E)
    BY <1>1, <1>2, <1>3, <2>2, <2>3 DEF Sound, LiveRows, Locked
  <2> QED BY <2>4 DEF E
<1>6. CASE L # {}
  <2>1. PICK d \in L : E.row[d] = Made(D.row[d], o, x) /\ \A e \in Rows \ {d} : E.row[e] = Yielding(D.row[e], x)
    BY <1>1, <1>6, AppliedIs
  <2>2. /\ d \in Rows /\ D.row[d].dep \in {"staged", "switching", "superseded"}
        /\ \A e \in Rows \ {d} : D.row[e].bound # o
    BY <1>1, <1>4, <2>1, LocatedRows DEF Sound
  <2>3. E.row[d].dep = x /\ E.row[d].bound = o /\ E.row[d].rel = IF D.row[d].rel = "none" THEN "none" ELSE x
    BY <1>1, <2>1, <2>2, RowsMade
  <2>4. \A e \in Rows \ {d} :
          /\ E.row[e].dep = IF x = "live" /\ D.row[e].dep = "live" THEN "superseded" ELSE D.row[e].dep
          /\ E.row[e].bound = D.row[e].bound
          /\ (E.row[e].rel = D.row[e].rel \/ (E.row[e].rel = "superseded" /\ D.row[e].rel = "live"))
    BY <1>1, <2>1, RowsMade
  <2> HIDE DEF E, L, x
  <2>5. \A e \in Rows : E.row[e].rel # "none" =>
         \A y \in Locked : (E.row[e].rel = y) <=> (E.row[e].dep = y)
    BY <1>1, <2>2, <2>3, <2>4 DEF Sound, Locked, Fates
  <2>6. \A e, g \in Rows : E.row[e].dep \in Locked /\ E.row[g].dep \in Locked => e = g
    BY <1>1, <2>2, <2>3, <2>4 DEF Sound, Locked, Fates
  <2>7. \A e, g \in LiveRows(E) : e = g
    BY <1>1, <2>2, <2>3, <2>4 DEF Sound, LiveRows
  <2>8. \A e \in Rows : E.row[e].dep = "switching" <=> E.row[e].bound \in Runs(E)
    BY <1>1, <1>3, <2>2, <2>3, <2>4 DEF Sound, Fates
  <2>9. \A e \in Rows : E.row[e].rel = "absent" => E.row[e].dep = "absent"
    BY <1>1, <2>2, <2>3, <2>4 DEF Sound, Fates
  <2>10. \A p \in Ops : E.op[p].kind = "none" =>
         E.op[p].state = "absent" /\ \A e \in Rows : E.row[e].bound # p
    BY <1>1, <1>2, <2>2, <2>3, <2>4 DEF Sound
  <2>11. Sound(E)
    BY <2>5, <2>6, <2>7, <2>8, <2>9, <2>10 DEF Sound
  <2> QED BY <2>11 DEF E
<1> QED BY <1>5, <1>6

\* A request starts one unused operation, while no switcher is past its flip.
LEMMA StartsOne ==
    ASSUME NEW o \in Ops, NEW b \in Boards, RequestSwitch(o, b) \/ RequestRollback(o, b)
    PROVE  /\ Unused(o) /\ Serving /\ \A p \in Ops : sw[p] \in {"none", "wait", "done"}
           /\ \E k \in {"switch", "rollback"}, d \in Rows, t \in Rows : Started(o, k, d, t)
<1>1. CASE RequestSwitch(o, b)
  <2>1. Newest(StagedOf(b)) \in Rows
    <3>1. StagedOf(b) \in SUBSET Rows /\ StagedOf(b) # {}
      BY <1>1 DEF RequestSwitch, StagedOf
    <3> QED BY <3>1, NewestIn
  <2> QED BY <1>1, <2>1 DEF RequestSwitch, Asked
<1>2. CASE RequestRollback(o, b)
  BY <1>2 DEF RequestRollback, LiveRows, Asked
<1> QED BY <1>1, <1>2

\* What a call has in its hands when it aborts or goes on.
LEMMA CallerIs ==
    ASSUME Invariant, NEW o \in Ops, swc[o].pc # "none"
    PROVE  /\ o \in Runs(db) /\ swc[o].target \in Rows /\ db.op[o].kind # "none"
           /\ swc[o].pc # "spawn" => \A d \in Rows : db.row[d].bound # o
<1>1. o \in Callers
  BY DEF Callers
<1>2. o \in Runs(db) /\ swc[o].target \in Rows
      /\ (swc[o].pc # "spawn" => \A d \in Rows : db.row[d].bound # o)
  BY <1>1 DEF Invariant, CallsOK, CallOK
<1> QED BY <1>2 DEF Invariant, Sound, Runs

\* A call writes to the database only to abort or to take the locks, and only while it serves.
LEMMA AbortsBeforeSpawn ==
    ASSUME NEW o \in Ops, Calling(o)
    PROVE  /\ swc[o].pc # "none" /\ Serving
           /\ \/ UNCHANGED db
              \/ Abort(o) /\ swc[o].pc # "spawn"
              \/ BeginSwitching(o)
BY DEF Calling, FirstCensus, Drain, FinalCensus, Snapshot, Handoff, SpawnSwitcher, Escape, BeginSwitching

\* Every step leaves the database sound.
LEMMA SoundStep ==
    ASSUME Invariant, Next
    PROVE  Sound(db')
<1>0. /\ TypeOK /\ db \in Databases /\ Sound(db) /\ swc \in [Ops -> Calls] /\ db' \in Databases
      /\ prob \in Ops \cup {NoOp} /\ current \in Slots
  BY DbType DEF Invariant, TypeOK
<1>a. ASSUME db'.row = db.row, db'.op = db.op PROVE Sound(db')
  BY <1>0, <1>a, SoundSame
<1>1. ASSUME NEW w \in Works, AdmitTurn(w) PROVE Sound(db')
  BY <1>0, <1>1 DEF AdmitTurn
<1>2. ASSUME FinishTurn PROVE Sound(db')
  BY <1>0, <1>2, <1>a DEF FinishTurn, Databases
<1>3. ASSUME NEW d \in Rows, NEW b \in Boards, NEW s \in Shas, PlanRelease(d, b, s) PROVE Sound(db')
  <2> DEFINE D == db
             E == db'
  <2>1. /\ E.op = D.op /\ D.row[d].rel = "absent"
        /\ E.row[d].rel = "planned" /\ E.row[d].dep = "absent" /\ E.row[d].bound = NoOp
        /\ \A e \in Rows \ {d} :
             /\ E.row[e].dep = D.row[e].dep /\ E.row[e].bound = D.row[e].bound
             /\ \/ E.row[e].rel = D.row[e].rel
                \/ E.row[e].rel = "superseded" /\ D.row[e].rel \in {"planned", "staged"}
    BY <1>0, <1>3, PlanReleaseWrites DEF OnlyRows, Kept
  <2>2. D.row[d].dep = "absent" /\ Sound(D)
    BY <1>0, <2>1 DEF Sound
  <2> HIDE DEF D, E
  <2>3. Runs(E) = Runs(D) /\ NoOp \notin Ops
    BY <2>1 DEF Runs, NoOp, Ops
  <2>4. Sound(E)
    BY <2>1, <2>2, <2>3 DEF Sound, LiveRows, Locked, Runs
  <2> QED BY <2>4 DEF E
<1>4. ASSUME NEW d \in Rows, BeginStaging(d) PROVE Sound(db')
  <2> DEFINE D == db
             E == db'
  <2>1. stg[d] = "admitted" /\ D.row[d].rel = "planned" /\ D.row[d].dep = "absent" /\ Sound(D)
    BY <1>0, <1>4 DEF BeginStaging, Invariant, Stages
  <2>2. D.row[d].bound \notin Runs(D)
    BY <2>1 DEF Sound
  <2>3. E.op = D.op /\ Runs(E) = Runs(D)
    BY <1>0, <1>4, BeginStagingWrites DEF OnlyRows, Runs
  <2>4. CASE db'.row[d].rel = "failed"
    <3>1. /\ E.row[d].rel = "failed" /\ E.row[d].dep = "absent" /\ E.row[d].bound = D.row[d].bound
          /\ \A e \in Rows \ {d} : E.row[e] = D.row[e]
      BY <1>0, <1>4, <2>1, <2>4, BeginStagingWrites
    <3> HIDE DEF D, E
    <3>2. Sound(E)
      BY <2>1, <2>2, <2>3, <3>1 DEF Sound, LiveRows, Locked
    <3> QED BY <3>2 DEF E
  <2>5. CASE db'.row[d].rel # "failed"
    <3>1. /\ E.row[d].rel = "staging" /\ E.row[d].dep = "staging" /\ E.row[d].bound = D.row[d].bound
          /\ ~LockHeld(D, d)
          /\ \A e \in Rows \ {d} :
               /\ E.row[e].rel = D.row[e].rel /\ E.row[e].bound = D.row[e].bound
               /\ \/ E.row[e].dep = D.row[e].dep
                  \/ E.row[e].dep = "superseded" /\ D.row[e].dep = "staged"
      BY <1>0, <1>4, <2>1, <2>5, BeginStagingWrites
    <3>2. \A e \in Rows \ {d} : D.row[e].dep \notin Locked /\ D.row[e].rel \notin Locked
      BY <3>1 DEF LockHeld
    <3> HIDE DEF D, E
    <3>3. Sound(E)
      BY <2>1, <2>2, <2>3, <3>1, <3>2 DEF Sound, LiveRows, Locked
    <3> QED BY <3>3 DEF E
  <2> QED BY <2>4, <2>5
<1>5. ASSUME NEW d \in Rows, StageDone(d) \/ StageFailed(d) PROVE Sound(db')
  <2>1. db.row[d].rel = "staging" /\ db.row[d].dep = "staging"
    BY <1>5 DEF StageDone, StageFailed, Invariant, Stages
  <2>2. /\ OneRow(d) /\ db'.row[d].bound = db.row[d].bound
        /\ db'.row[d].rel = db'.row[d].dep /\ db'.row[d].dep \in {"staged", "failed"}
    BY <1>0, <1>5, StageEndsWrites
  <2>3. db.row[d].bound \notin Runs(db)
    BY <1>0, <2>1 DEF Sound
  <2> QED BY <1>0, <2>2, <2>3, SoundRow DEF OneRow, OnlyRows, Locked
<1>6. ASSUME NEW d \in Rows, FinishStage(d) PROVE Sound(db')
  <2>1. /\ OneRow(d) /\ db'.row[d].bound = db.row[d].bound
        /\ db'.row[d].rel = db.row[d].rel /\ db'.row[d].dep = db.row[d].dep
    BY <1>0, <1>6, FinishStageWrites
  <2>2. db.row[d].dep \in Locked => \A e \in Rows \ {d} : db.row[e].dep \notin Locked
    BY <1>0 DEF Sound
  <2>3. db.row[d].rel # "none" => \A x \in Locked : (db.row[d].rel = x) <=> (db.row[d].dep = x)
    BY <1>0 DEF Sound
  <2>4. /\ db.row[d].dep = "switching" <=> db.row[d].bound \in Runs(db)
        /\ db.row[d].rel = "absent" => db.row[d].dep = "absent"
    BY <1>0 DEF Sound
  <2> QED BY <1>0, <2>1, <2>2, <2>3, <2>4, SoundRow DEF OneRow, OnlyRows
<1>7. ASSUME NEW o \in Ops, NEW b \in Boards, RequestSwitch(o, b) \/ RequestRollback(o, b)
      PROVE  Sound(db')
  <2>1. PICK k \in {"switch", "rollback"}, d \in Rows, t \in Rows : Started(o, k, d, t)
    BY <1>7, StartsOne
  <2>2. \A e \in Rows : db.row[e].bound # o
    BY <1>0, <1>7, StartsOne DEF Unused, Sound
  <2>3. OnlyOps /\ db'.op[o].kind # "none" /\ \A p \in Ops \ {o} : db'.op[p] = db.op[p]
    BY <1>0, <2>1, StartedWrites
  <2> QED BY <1>0, <2>2, <2>3, SoundOps DEF OnlyOps
<1>8. ASSUME NEW o \in Ops, Calling(o) PROVE Sound(db')
  <2>1. /\ o \in Runs(db) /\ swc[o].target \in Rows /\ db.op[o].kind # "none"
        /\ swc[o].pc # "spawn" => \A d \in Rows : db.row[d].bound # o
    BY <1>8, CallerIs, AbortsBeforeSpawn
  <2>2. ASSUME Abort(o), swc[o].pc # "spawn" PROVE Sound(db')
    <3>1. OnlyOps /\ db'.op[o].kind # "none" /\ \A p \in Ops \ {o} : db'.op[p] = db.op[p]
      BY <1>0, <2>1, <2>2, AbortWrites
    <3> QED BY <1>0, <2>1, <2>2, <3>1, SoundOps DEF OnlyOps
  <2>3. ASSUME BeginSwitching(o) PROVE Sound(db')
    <3> DEFINE t == swc[o].target
    <3>0. swc[o].pc # "spawn"
      BY <2>3 DEF BeginSwitching
    <3>1. CASE UNCHANGED db
      BY <1>0, <3>1
    <3>2. CASE Abort(o)
      BY <2>2, <3>0, <3>2
    <3>3. CASE /\ ~LockHeld(db, t) /\ OneRow(t)
               /\ db'.row[t].bound = o /\ db'.row[t].dep = "switching"
               /\ db'.row[t].rel = IF db.row[t].rel = "none" THEN "none" ELSE "switching"
      <4>1. \A e \in Rows \ {t} : db.row[e].dep \notin Locked
        BY <3>3 DEF LockHeld
      <4>2. t \in Rows /\ o \in Ops
        BY <2>1
      <4> HIDE DEF t
      <4> QED BY <1>0, <2>1, <3>3, <4>1, <4>2, SoundRow DEF OneRow, OnlyRows, Locked
    <3> QED BY <1>0, <2>1, <2>3, <3>1, <3>2, <3>3, BeginSwitchingWrites
  <2> QED BY <1>0, <1>8, <2>2, <2>3, AbortsBeforeSpawn
<1>9. ASSUME NEW o \in Ops, RestoreSnapshot(o) PROVE Sound(db')
  <2>1. o \in SnapLive
    BY <1>9 DEF RestoreSnapshot, At, SnapLive
  <2> QED BY <1>9, <2>1 DEF Invariant, Snapshots, RestoreSnapshot
<1>10. ASSUME NEW o \in Ops, Switcher(o), ~RestoreSnapshot(o) PROVE Sound(db')
  BY <1>0, <1>10 DEF Switcher, OldWontDie, FlipDone, Flip, SwitchedOk, RollbackBegin, TerminateNew, FlipBack,
               RolledBack, RollbackIncomplete, SwitchError, PortHeld
<1>11. ASSUME Exit \/ Crash \/ Reboot \/ Restart \/ BootFails \/ \E o \in Ops : HealthWindowPasses(o)
       PROVE  Sound(db')
  BY <1>0, <1>11 DEF Exit, Crash, Reboot, Restart, BootFails, HealthWindowPasses
<1>12. ASSUME NEW o \in Ops, Reconcile(o) PROVE Sound(db')
  <2>1. db' = db \/ (o \in Runs(db) /\ db' = Applied(db, o))
    BY <1>12 DEF Reconcile, Runs
  <2> QED BY <1>0, <2>1, SoundApplied
<1>13. ASSUME InterruptStages \/ Recover PROVE Sound(db')
  <2> DEFINE D == db
             E == db'
  <2>1. /\ Sound(D) /\ E.op = D.op
        /\ \A e \in Rows :
             /\ E.row[e].bound = D.row[e].bound
             /\ \/ E.row[e].rel = D.row[e].rel /\ E.row[e].dep = D.row[e].dep
                \/ /\ E.row[e].rel = IF D.row[e].rel = "staging" THEN "failed" ELSE D.row[e].rel
                   /\ E.row[e].dep = IF D.row[e].dep = "staging" THEN "failed" ELSE D.row[e].dep
    BY <1>0, <1>13, InterruptStagesWrites, RecoverWrites DEF OnlyRows
  <2>2. Runs(E) = Runs(D)
    BY <2>1 DEF Runs
  <2> HIDE DEF D, E
  <2>3. Sound(E)
    BY <2>1, <2>2 DEF Sound, LiveRows, Locked
  <2> QED BY <2>3 DEF E
<1>14. ASSUME ProbationEnds PROVE Sound(db')
  <2>1. prob \in Runs(db) /\ db' = Applied(db, prob)
    BY <1>14 DEF ProbationEnds, Invariant, Probation
  <2> QED BY <1>0, <2>1, SoundApplied
<1> QED BY <1>1, <1>2, <1>3, <1>4, <1>5, <1>6, <1>7, <1>8, <1>9, <1>10, <1>11, <1>12, <1>13, <1>14, <1>0
        DEF Next, Boot, Staging, StageSlot

--------------------------------------------------------------------------------
(* The stages. *)

\* Steps that touch no row and no stage keep the stages.
LEMMA StagesSame ==
    ASSUME Stages, UNCHANGED <<stg, current>>, db'.row = db.row, Alive' = Alive, Active' \subseteq Active
    PROVE  Stages'
BY DEF Stages, Alive

\* Nobody stages: only the locks have to be accounted for.
LEMMA StagesIdle ==
    ASSUME \A d \in Rows : stg'[d] = "none",
           ~Alive' \/ \A d \in Rows : db'.row[d].dep = "staging" => db'.row[d].stage = "running"
    PROVE  Stages'
BY DEF Stages

\* A switcher at work and a call past its census have the instance to themselves.
LEMMA NobodyStages ==
    ASSUME Invariant, Active # {} \/ Closing # {} \/ ~Alive
    PROVE  \A d \in Rows : stg[d] = "none"
<1>1. CASE Active # {} \/ ~Alive
  BY <1>1 DEF Invariant, Stages
<1>2. CASE Closing # {}
  <2>1. PICK o \in Closing : o \in Callers
    BY <1>2 DEF Closing, Callers, Past
  <2>2. \A d \in Rows : db.row[d].stage # "running"
    BY <2>1 DEF Invariant, CallsOK, CallOK
  <2> QED BY <2>2 DEF Invariant, Stages
<1> QED BY <1>1, <1>2

\* Only a switcher at work takes a step.
LEMMA ActiveIs ==
    ASSUME NEW o \in Ops, Switcher(o)
    PROVE  o \in Active
BY DEF Switcher, OldWontDie, FlipDone, Flip, SwitchedOk, RollbackBegin, TerminateNew, FlipBack,
       RestoreSnapshot, RolledBack, RollbackIncomplete, SwitchError, PortHeld, At, Active

\* What a verdict does to each row.
Passed(r, q, x) == /\ SameSpot(r, q) /\ q.stage = r.stage /\ q.bound = r.bound
                   /\ (q.rel = r.rel \/ (q.rel = "superseded" /\ r.rel = "live"))
                   /\ (q.dep = r.dep \/ (q.dep = "superseded" /\ r.dep = "live" /\ x = "live"))
                   /\ (q.dep = "live" => x # "live")
Taken(r, q, o, x) == /\ SameSpot(r, q) /\ q.stage = r.stage /\ q.bound = o /\ q.dep = x
                     /\ q.rel = IF r.rel = "none" THEN "none" ELSE x

\* What a verdict makes of the rows: one is taken, if one is found, and the others pass.
LEMMA AppliedRows ==
    ASSUME NEW D \in Databases, NEW o \in Ops, NEW E, E = Applied(D, o)
    PROVE  /\ Located(D, o) = {} => \A e \in Rows :
                /\ SameSpot(D.row[e], E.row[e]) /\ E.row[e].stage = D.row[e].stage
                /\ E.row[e].bound = D.row[e].bound /\ E.row[e].dep = D.row[e].dep
                /\ (E.row[e].rel = D.row[e].rel \/ (E.row[e].rel = "superseded" /\ D.row[e].rel = "live"))
           /\ Located(D, o) # {} =>
                \E d \in Located(D, o) : /\ Taken(D.row[d], E.row[d], o, Outcome(o).row)
                                         /\ \A e \in Rows \ {d} : Passed(D.row[e], E.row[e], Outcome(o).row)
<1> DEFINE x == Outcome(o).row
           L == Located(D, o)
<1>1. D.row \in [Rows -> Releases] /\ x \in Fates /\ L \in SUBSET Rows
  BY AppliedIs, LocatedRows DEF Databases
<1>2. L = {} => \A e \in Rows : E.row[e] = Retiring(D.row[e], x)
  BY AppliedIs
<1>3. L # {} => \E d \in L : E.row[d] = Made(D.row[d], o, x)
                             /\ \A e \in Rows \ {d} : E.row[e] = Yielding(D.row[e], x)
  <2> DEFINE A == Applied(D, o)
  <2>1. Located(D, o) # {} =>
          \E d \in Located(D, o) : /\ A.row[d] = Made(D.row[d], o, Outcome(o).row)
                                   /\ \A e \in Rows \ {d} : A.row[e] = Yielding(D.row[e], Outcome(o).row)
    BY AppliedIs
  <2> HIDE DEF A, x, L
  <2>2. A = E
    BY DEF A
  <2> QED BY <2>1, <2>2 DEF x, L
<1> HIDE DEF x, L
<1>4. CASE L = {}
  BY <1>1, <1>2, <1>4, RowsMade DEF SameSpot, L
<1>5. CASE L # {}
  <2>1. PICK d \in L : E.row[d] = Made(D.row[d], o, x)
                       /\ \A e \in Rows \ {d} : E.row[e] = Yielding(D.row[e], x)
    BY <1>3, <1>5
  <2>2. d \in Rows /\ D.row[d] \in Releases
    BY <1>1
  <2>3. Taken(D.row[d], E.row[d], o, x)
    BY <1>1, <2>1, <2>2, RowsMade DEF SameSpot, Taken
  <2>4. \A e \in Rows \ {d} : Passed(D.row[e], E.row[e], x)
    BY <1>1, <2>1, RowsMade DEF SameSpot, Passed
  <2> QED BY <1>5, <2>3, <2>4 DEF L, x
<1> QED BY <1>4, <1>5 DEF L

\* What a verdict does to the rows that are being staged.
LEMMA AppliedStages ==
    ASSUME Invariant, NEW o \in Runs(db), db' = Applied(db, o)
    PROVE  \A d \in Rows :
             /\ SameSpot(db.row[d], db'.row[d]) /\ db'.row[d].stage = db.row[d].stage
             /\ db.row[d].dep \in {"absent", "staging"} =>
                  db'.row[d].dep = db.row[d].dep
                  /\ (db.row[d].rel \in {"planned", "staging"} => db'.row[d].rel = db.row[d].rel)
             /\ db'.row[d].dep = "staging" => db.row[d].dep = "staging"
             /\ db'.row[d].rel = "staging" => db.row[d].rel = "staging"
             /\ db'.row[d].dep = "staged" => db.row[d].dep = "staged" \/ jr[o].tail = "old_wont_die"
<1> DEFINE D == db
           E == db'
           x == Outcome(o).row
           L == Located(D, o)
<1>1. /\ D \in Databases /\ o \in Ops /\ Sound(D)
  BY DEF Invariant, TypeOK, Runs
<1>2. x \in Fates /\ (x = "staged" <=> jr[o].tail = "old_wont_die")
  BY <1>1, AppliedIs
<1>3. \A d \in L : d \in Rows /\ D.row[d].dep \in {"staged", "switching", "superseded"}
  BY <1>1, LocatedRows DEF Sound
<1>4. /\ L = {} => \A e \in Rows :
                /\ SameSpot(D.row[e], E.row[e]) /\ E.row[e].stage = D.row[e].stage
                /\ E.row[e].bound = D.row[e].bound /\ E.row[e].dep = D.row[e].dep
                /\ (E.row[e].rel = D.row[e].rel \/ (E.row[e].rel = "superseded" /\ D.row[e].rel = "live"))
      /\ L # {} => \E d \in L : /\ Taken(D.row[d], E.row[d], o, x)
                                /\ \A e \in Rows \ {d} : Passed(D.row[e], E.row[e], x)
  <2>1. E = Applied(D, o)
    OBVIOUS
  <2> HIDE DEF D, E
  <2> QED BY <1>1, <2>1, AppliedRows DEF x, L
<1> HIDE DEF E, D, x, L
<1>5. ASSUME NEW d \in Rows
      PROVE  /\ SameSpot(D.row[d], E.row[d]) /\ E.row[d].stage = D.row[d].stage
             /\ D.row[d].dep \in {"absent", "staging"} =>
                  E.row[d].dep = D.row[d].dep
                  /\ (D.row[d].rel \in {"planned", "staging"} => E.row[d].rel = D.row[d].rel)
             /\ E.row[d].dep = "staging" => D.row[d].dep = "staging"
             /\ E.row[d].rel = "staging" => D.row[d].rel = "staging"
             /\ E.row[d].dep = "staged" => D.row[d].dep = "staged" \/ jr[o].tail = "old_wont_die"
  <2>1. CASE L = {}
    BY <1>4, <2>1
  <2>2. CASE L # {}
    <3>1. PICK g \in L : /\ Taken(D.row[g], E.row[g], o, x)
                         /\ \A e \in Rows \ {g} : Passed(D.row[e], E.row[e], x)
      BY <1>4, <2>2
    <3>2. CASE d = g
      BY <1>2, <1>3, <3>1, <3>2 DEF Taken, Fates
    <3>3. CASE d # g
      BY <3>1, <3>3 DEF Passed
    <3> QED BY <3>2, <3>3
  <2> QED BY <2>1, <2>2
<1> QED BY <1>5 DEF E, D

\* Every step keeps the stages.
LEMMA StagesStep ==
    ASSUME Invariant, Next
    PROVE  Stages'
<1>0. /\ TypeOK /\ Stages /\ db \in Databases /\ Sound(db) /\ swc \in [Ops -> Calls]
      /\ stg \in StgShape /\ current \in Slots /\ prob \in Ops \cup {NoOp}
  BY DEF Invariant, TypeOK, StgShape
<1>1. ASSUME FinishTurn \/ \E w \in Works : AdmitTurn(w) PROVE Stages'
  <2>1. db'.row = db.row
    BY <1>0, <1>1 DEF AdmitTurn, FinishTurn, Databases
  <2> QED BY <1>0, <1>1, <2>1, StagesSame DEF AdmitTurn, FinishTurn, disk, Active, Alive
<1>2. ASSUME NEW d \in Rows, NEW b \in Boards, NEW s \in Shas, PlanRelease(d, b, s) PROVE Stages'
  <2>1. Active = {} /\ Active' = {} /\ Alive /\ Alive' /\ UNCHANGED current
    BY <1>2 DEF PlanRelease, Asked, Active, Alive, Serving, Invariant, Switchers, disk
  <2>2. /\ db'.row[d].rel = "planned" /\ db'.row[d].dep = "absent" /\ db'.row[d].stage = "running"
        /\ \A e \in Rows \ {d} :
             /\ Kept(db.row[e], db'.row[e])
             /\ \/ db'.row[e].rel = db.row[e].rel
                \/ /\ db'.row[e].rel = "superseded" /\ db.row[e].stage # "running"
    BY <1>0, <1>2, PlanReleaseWrites
  <2>3. stg' = [stg EXCEPT ![d] = "admitted"]
    BY <1>2 DEF PlanRelease
  <2>4. \A e \in Rows \ {d} : stg'[e] = stg[e] /\ (stg[e] # "none" => db'.row[e].rel = db.row[e].rel)
    BY <1>0, <2>2, <2>3 DEF Stages, StgShape
  <2>5. stg'[d] = "admitted"
    BY <1>0, <2>3 DEF StgShape
  <2>6. ASSUME NEW e \in Rows
        PROVE  /\ stg'[e] # "none" => db'.row[e].stage = "running"
               /\ stg'[e] = "admitted" => db'.row[e].rel = "planned" /\ db'.row[e].dep = "absent"
               /\ stg'[e] \in {"build", "building"} =>
                    /\ db'.row[e].rel = "staging" /\ db'.row[e].dep = "staging" /\ db'.row[e].slot # current
                    /\ \A g \in Rows : db'.row[g].dep = "staged" => db'.row[g].slot # db'.row[e].slot
               /\ stg'[e] = "settle" => db'.row[e].dep # "staging" /\ db'.row[e].rel # "staging"
               /\ db'.row[e].dep = "staging" => db'.row[e].stage = "running"
    <3>1. CASE e = d
      BY <2>2, <2>5, <3>1
    <3>2. CASE e # d
      BY <1>0, <2>1, <2>2, <2>4, <3>2 DEF Stages, Kept
    <3> QED BY <3>1, <3>2
  <2> QED BY <2>1, <2>6 DEF Stages
<1>3. ASSUME NEW d \in Rows, BeginStaging(d) PROVE Stages'
  <2>1. /\ Active' = Active /\ Active = {} /\ Alive /\ Alive' /\ UNCHANGED current
        /\ stg[d] = "admitted" /\ db.row[d].dep = "absent" /\ db.row[d].stage = "running"
    BY <1>0, <1>3 DEF BeginStaging, Active, Alive, Serving, disk, Stages
  <2>2. \A e \in Rows \ {d} : stg'[e] = stg[e]
    BY <1>0, <1>3 DEF BeginStaging, StgShape
  <2>3. CASE stg'[d] = "none"
    <3>1. /\ db'.row[d].stage = "failed" /\ db'.row[d].dep = "absent"
          /\ \A e \in Rows \ {d} : db'.row[e] = db.row[e]
      BY <1>0, <1>3, <2>1, <2>3, BeginStagingWrites
    <3> QED BY <1>0, <2>1, <2>2, <2>3, <3>1 DEF Stages
  <2>4. CASE stg'[d] # "none"
    <3>1. /\ ~LockHeld(db, d)
          /\ db'.row[d].rel = "staging" /\ db'.row[d].dep = "staging" /\ stg'[d] = "build"
          /\ db'.row[d].slot = Other(current) /\ db'.row[d].stage = db.row[d].stage
          /\ \A e \in Rows \ {d} :
               /\ db'.row[e].rel = db.row[e].rel
               /\ db'.row[e].slot = db.row[e].slot
               /\ db'.row[e].stage = db.row[e].stage
               /\ IF db.row[e].dep = "staged" /\ db.row[e].slot = Other(current)
                  THEN db'.row[e].dep = "superseded" ELSE db'.row[e].dep = db.row[e].dep
      BY <1>0, <1>3, <2>4, BeginStagingWrites
    <3>2. \A e \in Rows \ {d} : db.row[e].dep \notin Locked
      BY <3>1 DEF LockHeld
    <3>3. Other(current) # current
      BY <1>0 DEF Slots, Other
    <3>4. \A e \in Rows : db'.row[e].dep = "staged" => db'.row[e].slot # Other(current)
      BY <3>1
    <3>5. ASSUME NEW e \in Rows \ {d}
          PROVE  /\ stg'[e] # "none" => db'.row[e].stage = "running"
                 /\ stg'[e] = "admitted" => db'.row[e].rel = "planned" /\ db'.row[e].dep = "absent"
                 /\ stg'[e] \notin {"build", "building"}
                 /\ stg'[e] = "settle" => db'.row[e].dep # "staging" /\ db'.row[e].rel # "staging"
                 /\ db'.row[e].dep # "staging"
      BY <1>0, <2>1, <2>2, <3>1, <3>2 DEF Stages, Locked
    <3> QED BY <2>1, <3>1, <3>3, <3>4, <3>5 DEF Stages
  <2> QED BY <2>3, <2>4
<1>4. ASSUME NEW d \in Rows, StageSlot(d) PROVE Stages'
  BY <1>0, <1>4 DEF StageSlot, Stages, Active, Alive, StgShape
<1>5. ASSUME NEW d \in Rows, StageDone(d) \/ StageFailed(d) PROVE Stages'
  <2>1. /\ Active' = Active /\ Active = {} /\ Alive /\ Alive' /\ UNCHANGED current
        /\ stg[d] = "building" /\ db.row[d].dep = "staging" /\ db.row[d].stage = "running"
        /\ stg'[d] = "settle" /\ \A e \in Rows \ {d} : stg'[e] = stg[e]
    BY <1>0, <1>5 DEF StageDone, StageFailed, Active, Alive, Serving, disk, Stages, StgShape
  <2>2. /\ OneRow(d) /\ db'.row[d].stage = "running"
        /\ db'.row[d].rel \in {"staged", "failed"} /\ db'.row[d].dep \in {"staged", "failed"}
    BY <1>0, <1>5, <2>1, StageEndsWrites
  <2>3. \A e \in Rows \ {d} : db.row[e].dep \notin Locked
    BY <1>0, <2>1 DEF Sound, Locked
  <2>4. ASSUME NEW e \in Rows \ {d}
        PROVE  /\ stg'[e] # "none" => db'.row[e].stage = "running"
               /\ stg'[e] = "admitted" => db'.row[e].rel = "planned" /\ db'.row[e].dep = "absent"
               /\ stg'[e] \notin {"build", "building"}
               /\ stg'[e] = "settle" => db'.row[e].dep # "staging" /\ db'.row[e].rel # "staging"
               /\ db'.row[e].dep # "staging"
    BY <1>0, <2>1, <2>2, <2>3 DEF Stages, OneRow, Locked
  <2> QED BY <2>1, <2>2, <2>4 DEF Stages
<1>6. ASSUME NEW d \in Rows, FinishStage(d) PROVE Stages'
  <2>1. /\ Active' = Active /\ Active = {} /\ Alive /\ Alive' /\ UNCHANGED current
        /\ stg[d] = "settle" /\ db.row[d].dep # "staging"
        /\ stg'[d] = "none" /\ \A e \in Rows \ {d} : stg'[e] = stg[e]
    BY <1>0, <1>6 DEF FinishStage, Active, Alive, Serving, disk, Stages, StgShape
  <2>2. /\ OneRow(d) /\ SameSpot(db.row[d], db'.row[d]) /\ db'.row[d].dep = db.row[d].dep
    BY <1>0, <1>6, FinishStageWrites
  <2> QED BY <1>0, <2>1, <2>2 DEF Stages, OneRow, SameSpot
<1>7. ASSUME NEW o \in Ops, NEW b \in Boards, RequestSwitch(o, b) \/ RequestRollback(o, b)
      PROVE  Stages'
  <2>1. PICK k \in {"switch", "rollback"}, d \in Rows, t \in Rows : Started(o, k, d, t)
    BY <1>7, StartsOne
  <2>2. OnlyOps
    BY <1>0, <2>1, StartedWrites
  <2> QED BY <1>0, <2>1, <2>2, StagesSame DEF OnlyOps, Started, disk, Active, Alive
<1>8. ASSUME NEW o \in Ops, Calling(o), ~BeginSwitching(o), ~SpawnSwitcher(o) PROVE Stages'
  <2>1. db'.row = db.row
    BY <1>0, <1>8, AbortsBeforeSpawn, AbortWrites DEF OnlyOps
  <2>2. UNCHANGED <<stg, current, sw, srv>>
    BY <1>8 DEF Calling, FirstCensus, Drain, FinalCensus, Snapshot, Handoff, Escape, disk
  <2> QED BY <1>0, <2>1, <2>2, StagesSame DEF Active, Alive
<1>9. ASSUME NEW o \in Ops, BeginSwitching(o) \/ SpawnSwitcher(o) PROVE Stages'
  <2>1. o \in Closing /\ UNCHANGED stg
    BY <1>9 DEF BeginSwitching, SpawnSwitcher, Closing, Past
  <2>2. \A d \in Rows : stg[d] = "none"
    BY <2>1, NobodyStages
  <2>3. o \in Callers
    BY <2>1 DEF Callers, Closing, Past
  <2>4. \A d \in Rows : db.row[d].stage # "running"
    BY <2>1, <2>3 DEF Invariant, CallsOK, CallOK
  <2>5. \A d \in Rows : db.row[d].dep # "staging"
    BY <1>0, <2>3, <2>4 DEF Stages, Invariant, CallsOK, CallOK
  <2>6. \A d \in Rows : db'.row[d].dep # "staging"
    <3>1. CASE SpawnSwitcher(o)
      BY <2>5, <3>1 DEF SpawnSwitcher
    <3>2. CASE BeginSwitching(o)
      <4>1. swc[o].target \in Rows
        BY <2>3 DEF Invariant, CallsOK, CallOK
      <4> DEFINE t == swc[o].target
      <4>2. \/ UNCHANGED db
            \/ OnlyOps
            \/ OneRow(t) /\ db'.row[t].dep = "switching"
        BY <1>0, <3>2, <4>1, BeginSwitchingWrites
      <4> HIDE DEF t
      <4> QED BY <2>5, <4>2 DEF OnlyOps, OneRow
    <3> QED BY <1>9, <3>1, <3>2
  <2> QED BY <2>1, <2>2, <2>6, StagesIdle
<1>10. ASSUME NEW o \in Ops, Switcher(o), ~RestoreSnapshot(o), ~Flip(o), ~TerminateNew(o), ~FlipBack(o) PROVE Stages'
  <2>1. o \in Active
    BY <1>10, ActiveIs
  <2>2. \A d \in Rows : stg[d] = "none"
    BY <2>1, NobodyStages
  <2>3. UNCHANGED <<db, stg, srv>>
    BY <1>10 DEF Switcher, OldWontDie, FlipDone, SwitchedOk, RollbackBegin,
         RolledBack, RollbackIncomplete, SwitchError, PortHeld, proc
  <2> QED BY <1>0, <2>2, <2>3, StagesIdle DEF Stages, Alive
<1>11. ASSUME NEW o \in Ops, RestoreSnapshot(o) \/ Flip(o) \/ TerminateNew(o) \/ FlipBack(o) PROVE Stages'
  <2>1. o \in Active
    BY <1>11, ActiveIs DEF Switcher
  <2>2. \A d \in Rows : stg[d] = "none"
    BY <2>1, NobodyStages
  <2>3. ~Alive' /\ \A d \in Rows : stg'[d] = "none"
    <3>1. CASE RestoreSnapshot(o) \/ Flip(o)
      BY <2>2, <3>1 DEF RestoreSnapshot, Flip, Start, Alive
    <3>2. CASE TerminateNew(o)
      BY <1>0, <3>2 DEF TerminateNew, Gone, Alive, TypeOK, Servers
    <3>3. CASE FlipBack(o)
      BY <2>2, <3>3 DEF FlipBack, At, Invariant, Switchers, Alive, proc
    <3> QED BY <1>11, <3>1, <3>2, <3>3
  <2> QED BY <2>3, StagesIdle
<1>12. ASSUME Exit \/ Crash \/ Reboot \/ BootFails PROVE Stages'
  <2>1. Gone
    BY <1>12 DEF Exit, Crash, Reboot, BootFails
  <2>2. srv' = [srv EXCEPT !.phase = "down", !.at = 1] /\ srv \in Servers
    BY <1>0, <2>1 DEF Gone, TypeOK
  <2>3. srv'.phase = "down"
    BY <2>2 DEF Servers
  <2>4. ~Alive' /\ \A d \in Rows : stg'[d] = "none"
    BY <2>1, <2>3 DEF Gone, Alive
  <2> QED BY <2>4, StagesIdle
<1>13. ASSUME Restart PROVE Stages'
  <2>1. \A d \in Rows : stg[d] = "none"
    BY <1>13, NobodyStages DEF Restart, Alive
  <2> QED BY <1>13, <2>1, StagesIdle DEF Restart, Start, Alive
<1>14. ASSUME NEW o \in Ops, HealthWindowPasses(o) PROVE Stages'
  BY <1>0, <1>14, StagesSame DEF HealthWindowPasses, proc, Active, Alive
<1>15. ASSUME Recover \/ InterruptStages \/ \E o \in Ops : Reconcile(o) PROVE Stages'
  <2>1. ~Alive /\ UNCHANGED stg
    BY <1>15 DEF Recover, InterruptStages, Reconcile, Boots, Alive
  <2>2. \A d \in Rows : stg[d] = "none"
    BY <2>1, NobodyStages
  <2>3. CASE Recover
    <3>1. \A d \in Rows : db'.row[d].dep # "staging"
      BY <1>0, <2>3, RecoverWrites
    <3> QED BY <2>1, <2>2, <3>1, StagesIdle
  <2>4. CASE ~Recover
    <3>1. ~Alive'
      BY <1>0, <1>15, <2>4 DEF InterruptStages, Reconcile, Boots, Alive, TypeOK, Servers
    <3> QED BY <2>1, <2>2, <3>1, StagesIdle
  <2> QED BY <2>3, <2>4
<1>16. ASSUME ProbationEnds PROVE Stages'
  <2>1. /\ prob \in Runs(db) /\ db' = Applied(db, prob) /\ jr[prob].tail # "old_wont_die"
        /\ UNCHANGED <<stg, current>> /\ Alive' = Alive /\ Active' = Active
    BY <1>16 DEF ProbationEnds, Invariant, Probation, disk, Alive, Active
  <2>2. \A d \in Rows :
             /\ SameSpot(db.row[d], db'.row[d]) /\ db'.row[d].stage = db.row[d].stage
             /\ db.row[d].dep \in {"absent", "staging"} =>
                  db'.row[d].dep = db.row[d].dep
                  /\ (db.row[d].rel \in {"planned", "staging"} => db'.row[d].rel = db.row[d].rel)
             /\ db'.row[d].dep = "staging" => db.row[d].dep = "staging"
             /\ db'.row[d].rel = "staging" => db.row[d].rel = "staging"
             /\ db'.row[d].dep = "staged" => db.row[d].dep = "staged"
    BY <2>1, AppliedStages
  <2> QED BY <1>0, <2>1, <2>2 DEF Stages, SameSpot
<1>17. ASSUME NEW o \in Ops, Calling(o) \/ Switcher(o) \/ HealthWindowPasses(o) PROVE Stages'
  BY <1>8, <1>9, <1>10, <1>11, <1>14, <1>17
<1>18. ASSUME NEW d \in Rows, Staging(d) PROVE Stages'
  BY <1>3, <1>4, <1>5, <1>6, <1>18 DEF Staging
<1>19. ASSUME Boot PROVE Stages'
  BY <1>12, <1>15, <1>16, <1>19 DEF Boot
<1> QED BY <1>1, <1>2, <1>7, <1>12, <1>13, <1>17, <1>18, <1>19 DEF Next

--------------------------------------------------------------------------------
(* What the other parts of the invariant say of one step. *)

\* A switcher at work, and a call past its census, have every other operation idle or waiting.
LEMMA Alone ==
    ASSUME Invariant, NEW o \in Ops, o \in Active \/ swc[o].pc \notin Waiting \cup {"none"}
    PROVE  /\ \A p \in Ops \ {o} : p \notin Active /\ swc[p].pc \in Waiting \cup {"none"}
           /\ \A p \in Journaled \cap Runs(db) : p = o
           /\ o \in Active => swc[o].pc = "none"
           /\ swc[o].pc # "none" => Active = {} /\ \A p \in Runs(db) \ {o} : swc[p].pc \in Waiting
<1>1. /\ \A q \in Callers : /\ sw[q] = "none" /\ q \in Runs(db)
                            /\ swc[q].pc \notin {"begin", "spawn"} => q \notin Journaled
                            /\ \A p \in Active : swc[q].pc \in Waiting
                            /\ swc[q].pc \notin Waiting => \A p \in Runs(db) \ {q} : swc[p].pc \in Waiting
      /\ \A q, p \in Active : q = p
      /\ \A q \in Active, p \in Journaled \cap Runs(db) : q = p
  BY DEF Invariant, CallsOK, CallOK, Switchers, Journals
<1>2. \A p \in Ops : p \in Callers <=> swc[p].pc # "none"
  BY DEF Callers
<1>3. \A p \in Waiting : p # "none" /\ p \notin {"begin", "spawn"}
  BY DEF Waiting
<1>4. \A p \in Ops : p \in Active <=> sw[p] \notin {"none", "done"}
  BY DEF Active
<1>5. CASE o \in Active
  BY <1>1, <1>2, <1>4, <1>5
<1>6. CASE o \notin Active
  <2>1. o \in Callers /\ swc[o].pc \notin Waiting
    BY <1>2, <1>6
  <2>2. Active = {} /\ \A p \in Runs(db) \ {o} : swc[p].pc \in Waiting
    BY <1>1, <2>1
  <2>3. \A p \in Journaled \cap Runs(db) : p = o
    <3> SUFFICES ASSUME NEW p \in Journaled \cap Runs(db), p # o PROVE FALSE
      OBVIOUS
    <3>1. p \in Ops /\ swc[p].pc \in Waiting
      BY <2>2 DEF Journaled
    <3> QED BY <1>1, <1>2, <1>3, <3>1
  <2>4. \A p \in Ops \ {o} : swc[p].pc \in Waiting \cup {"none"}
    BY <1>1, <1>2, <2>2
  <2> QED BY <1>6, <2>2, <2>3, <2>4
<1> QED BY <1>5, <1>6

\* A snapshot may be restored by one switcher only, that of the call that took it.
LEMMA SnapLiveIs ==
    ASSUME Invariant, NEW o \in SnapLive
    PROVE  /\ o \in Ops /\ (o \in Active \/ swc[o].pc \notin Waiting \cup {"none"})
           /\ o \in Active \/ o \in Closing
BY DEF SnapLive, Active, Past, PreFlip, Flipped, Waiting, Closing

\* The journal only grows.
LEMMA JournalStep ==
    ASSUME Invariant, Next
    PROVE  \A o \in Journaled : /\ jr'[o].tail # "none" /\ jr'[o].from = jr[o].from /\ jr'[o].to = jr[o].to
                                /\ jr'[o].old = jr[o].old /\ jr'[o].new = jr[o].new
<1> SUFFICES ASSUME NEW o \in Journaled
             PROVE  /\ jr'[o].tail # "none" /\ jr'[o].from = jr[o].from /\ jr'[o].to = jr[o].to
                    /\ jr'[o].old = jr[o].old /\ jr'[o].new = jr[o].new
  OBVIOUS
<1>0. o \in Ops /\ jr[o].tail # "none" /\ jr \in [Ops -> Entries]
  BY DEF Journaled, Invariant, TypeOK
<1>1. CASE UNCHANGED jr
  BY <1>0, <1>1
<1>2. ASSUME NEW p \in Ops, Handoff(p) PROVE jr'[o] = jr[o]
  <2>1. p \in Callers /\ p \notin Journaled
    BY <1>2 DEF Handoff, Callers, Invariant, CallsOK, CallOK
  <2> QED BY <1>0, <1>2, <2>1 DEF Handoff
<1>3. ASSUME NEW p \in Ops, NEW x \in Steps \ {"none"}, jr' = [jr EXCEPT ![p].tail = x]
      PROVE  /\ jr'[o].tail # "none" /\ jr'[o].from = jr[o].from /\ jr'[o].to = jr[o].to
             /\ jr'[o].old = jr[o].old /\ jr'[o].new = jr[o].new
  BY <1>0, <1>3 DEF Entries
<1>4. ASSUME NEW p \in Ops, Switcher(p)
      PROVE  UNCHANGED jr \/ \E x \in Steps \ {"none"} : jr' = [jr EXCEPT ![p].tail = x]
  BY <1>4 DEF Switcher, OldWontDie, FlipDone, Flip, SwitchedOk, RollbackBegin, TerminateNew, FlipBack,
       RestoreSnapshot, RolledBack, RollbackIncomplete, SwitchError, PortHeld, Journal, Steps, Verdicts, disk
<1>5. ASSUME NEW p \in Ops, Calling(p), ~Handoff(p) PROVE UNCHANGED jr
  BY <1>5 DEF Calling, FirstCensus, Drain, FinalCensus, Snapshot, BeginSwitching, SpawnSwitcher, Escape, disk
<1>6. ASSUME NEW d \in Rows, Staging(d) PROVE UNCHANGED jr
  BY <1>6 DEF Staging, BeginStaging, StageSlot, StageDone, StageFailed, FinishStage, disk
<1>7. ASSUME NEW p \in Ops, NEW b \in Boards, RequestSwitch(p, b) \/ RequestRollback(p, b) PROVE UNCHANGED jr
  <2>1. PICK k \in {"switch", "rollback"}, d \in Rows, t \in Rows : Started(p, k, d, t)
    BY <1>7, StartsOne
  <2> QED BY <2>1 DEF Started, disk
<1>8. ASSUME ~\E p \in Ops : Calling(p) \/ Switcher(p), ~\E d \in Rows : Staging(d),
             ~\E p \in Ops, b \in Boards : RequestRollback(p, b) \/ RequestSwitch(p, b)
      PROVE  UNCHANGED jr
  BY <1>8 DEF Next, AdmitTurn, FinishTurn, PlanRelease, HealthWindowPasses, Exit, Crash, Reboot, Restart,
       Boot, BootFails, Reconcile, InterruptStages, Recover, ProbationEnds, disk
<1>9. CASE \E p \in Ops : Calling(p) \/ Switcher(p)
  <2>1. PICK p \in Ops : Calling(p) \/ Switcher(p)
    BY <1>9
  <2>2. CASE Switcher(p)
    BY <1>1, <1>3, <1>4, <2>2
  <2>3. CASE Calling(p)
    <3>1. CASE Handoff(p)
      BY <1>0, <1>2, <3>1
    <3>2. CASE ~Handoff(p)
      BY <1>1, <1>5, <2>3, <3>2
    <3> QED BY <3>1, <3>2
  <2> QED BY <2>1, <2>2, <2>3
<1> QED BY <1>1, <1>6, <1>7, <1>8, <1>9

\* A verdict settles its own operation and no other.
LEMMA AppliedOps ==
    ASSUME NEW D \in Databases, NEW o \in Ops, NEW E, E = Applied(D, o)
    PROVE  /\ \A p \in Ops \ {o} : E.op[p] = D.op[p]
           /\ E.op[o].kind = D.op[o].kind /\ E.op[o].state = Outcome(o).op
           /\ Runs(E) = Runs(D) \ {o} /\ E.work = D.work
           /\ Outcome(o).op \notin {"running", "absent"}
<1>1. E.op = [D.op EXCEPT ![o] = [@ EXCEPT !.state = Outcome(o).op]] /\ E.work = D.work
      /\ Outcome(o).op \notin {"running", "absent"} /\ D.op \in [Ops -> Operations]
  BY AppliedIs DEF Databases
<1>2. /\ \A p \in Ops \ {o} : E.op[p] = D.op[p]
      /\ E.op[o].kind = D.op[o].kind /\ E.op[o].state = Outcome(o).op
  BY <1>1 DEF Operations
<1> QED BY <1>1, <1>2 DEF Runs

--------------------------------------------------------------------------------
(* What is staged or switching is in its slot. *)

\* What is staged stays built if the slots stay, and rows only leave the candidates.
LEMMA BuiltKept ==
    ASSUME NEW D, NEW E, NEW c, NEW j, NEW k, BuiltOn(D, c, j),
           \A o \in Ops : j[o].tail # "none" => /\ k[o].tail # "none" /\ k[o].to = j[o].to
                                                /\ k[o].new = j[o].new /\ E.op[o].kind = D.op[o].kind,
           \A d \in Rows : E.row[d].dep \in {"staged", "switching"} =>
                /\ D.row[d].dep \in {"staged", "switching"} \/ Returned(E, k, d)
                /\ E.row[d].slot = D.row[d].slot /\ E.row[d].sha = D.row[d].sha
    PROVE  BuiltOn(E, c, k)
BY DEF BuiltOn, Returned

\* An operation is started by a request, failed by its call and settled by a boot or by the end
\* of probation; nothing else but a restored snapshot changes it.
OpStarts(p)  == db.op[p].kind = "none" /\ db.op[p].state = "absent" /\ db'.op[p].state = "running"
                /\ Serving /\ sw[p] = "none" /\ p \notin Journaled /\ db'.row = db.row
                /\ \A d \in Rows : db.row[d].bound # p
OpAborts(p)  == Calling(p) /\ Abort(p) /\ swc[p].pc \notin {"none", "spawn"} /\ db'.row = db.row
                /\ db'.op[p].kind = db.op[p].kind /\ db'.op[p].state = "failed"
OpSettles(p) == p \in Runs(db) /\ db' = Applied(db, p)
                /\ (Reconcile(p) \/ (ProbationEnds /\ p = prob))
                /\ db'.op[p].kind = db.op[p].kind /\ db'.op[p].state = Outcome(p).op

\* An operation nobody has used yet has left no trace.
LEMMA UnusedIs ==
    ASSUME Invariant, NEW p \in Ops, Unused(p)
    PROVE  /\ db.op[p].kind = "none" /\ db.op[p].state = "absent" /\ sw[p] = "none"
           /\ p \notin Journaled /\ p \notin Runs(db) /\ \A d \in Rows : db.row[d].bound # p
<1>1. db.op[p].kind = "none" /\ db.op[p].state = "absent" /\ \A d \in Rows : db.row[d].bound # p
  BY DEF Unused, Invariant, Sound
<1>2. p \notin Journaled
  BY <1>1 DEF Invariant, Journals
<1>3. sw[p] = "none"
  <2>1. jr[p].tail = "none"
    BY <1>2 DEF Journaled
  <2>2. sw[p] \in SWs
    BY DEF Invariant, TypeOK, SWs
  <2> QED BY <2>1, <2>2 DEF Invariant, Switchers, SWs
<1> QED BY <1>1, <1>2, <1>3 DEF Runs

\* So every step does one of these to an operation, or leaves it alone.
LEMMA OpsStep ==
    ASSUME Invariant, Next, \A o \in Ops : ~RestoreSnapshot(o)
    PROVE  \A p \in Ops : db'.op[p] = db.op[p] \/ OpStarts(p) \/ OpAborts(p) \/ OpSettles(p)
<1> DEFINE Fine == \A p \in Ops : db'.op[p] = db.op[p] \/ OpStarts(p) \/ OpAborts(p) \/ OpSettles(p)
<1>0. /\ TypeOK /\ db \in Databases /\ swc \in [Ops -> Calls] /\ prob \in Ops \cup {NoOp}
  BY DEF Invariant, TypeOK
<1>a. ASSUME db'.op = db.op PROVE Fine
  BY <1>a
<1>1. ASSUME FinishTurn \/ \E w \in Works : AdmitTurn(w) PROVE db'.op = db.op
  BY <1>0, <1>1 DEF AdmitTurn, FinishTurn, Databases
<1>2. ASSUME NEW d \in Rows, NEW b \in Boards, NEW s \in Shas, PlanRelease(d, b, s) PROVE db'.op = db.op
  BY <1>0, <1>2, PlanReleaseWrites DEF OnlyRows
<1>3. ASSUME NEW d \in Rows, Staging(d) PROVE db'.op = db.op
  BY <1>0, <1>3, BeginStagingWrites, StageEndsWrites, FinishStageWrites
     DEF Staging, OneRow, OnlyRows, StageSlot
<1>4. ASSUME NEW o \in Ops, NEW b \in Boards, RequestRollback(o, b) \/ RequestSwitch(o, b) PROVE Fine
  <2>1. PICK k \in {"switch", "rollback"}, d \in Rows, t \in Rows : Started(o, k, d, t)
    BY <1>4, StartsOne
  <2>2. OnlyOps /\ db'.op[o].state = "running" /\ \A p \in Ops \ {o} : db'.op[p] = db.op[p]
    BY <1>0, <2>1, StartedWrites
  <2>3. OpStarts(o)
    BY <1>4, <2>2, StartsOne, UnusedIs DEF OpStarts, OnlyOps
  <2> QED BY <2>2, <2>3
<1>5. ASSUME NEW o \in Ops, Calling(o) PROVE Fine
  <2>1. ASSUME Abort(o), swc[o].pc # "spawn" PROVE Fine
    <3>1. OnlyOps /\ db'.op[o].kind = db.op[o].kind /\ db'.op[o].state = "failed"
          /\ \A p \in Ops \ {o} : db'.op[p] = db.op[p]
      BY <1>0, <2>1, AbortWrites
    <3>2. OpAborts(o)
      BY <1>5, <2>1, <3>1, AbortsBeforeSpawn DEF OpAborts, OnlyOps
    <3> QED BY <3>1, <3>2
  <2>2. ASSUME BeginSwitching(o) PROVE Fine
    <3>1. swc[o].target \in Rows /\ swc[o].pc # "spawn"
      BY <2>2, CallerIs DEF BeginSwitching
    <3>2. Abort(o) \/ db'.op = db.op
      BY <1>0, <2>2, <3>1, BeginSwitchingWrites DEF OneRow, OnlyRows
    <3> QED BY <1>a, <2>1, <3>1, <3>2
  <2> QED BY <1>5, <1>a, <2>1, <2>2, AbortsBeforeSpawn
<1>6. ASSUME NEW o \in Ops, Switcher(o) PROVE db'.op = db.op
  BY <1>6 DEF Switcher, OldWontDie, FlipDone, Flip, SwitchedOk, RollbackBegin, TerminateNew, FlipBack,
               RolledBack, RollbackIncomplete, SwitchError, PortHeld
<1>7. ASSUME Exit \/ Crash \/ Reboot \/ Restart \/ BootFails \/ \E o \in Ops : HealthWindowPasses(o)
      PROVE  db'.op = db.op
  BY <1>7 DEF Exit, Crash, Reboot, Restart, BootFails, HealthWindowPasses
<1>8. ASSUME NEW o \in Ops, o \in Runs(db), db' = Applied(db, o), Reconcile(o) \/ (ProbationEnds /\ o = prob)
      PROVE  Fine
  <2> DEFINE D == db
             E == db'
  <2>1. /\ \A p \in Ops \ {o} : E.op[p] = D.op[p]
        /\ E.op[o].kind = D.op[o].kind /\ E.op[o].state = Outcome(o).op
    <3>1. E = Applied(D, o) /\ D \in Databases
      BY <1>0, <1>8
    <3> HIDE DEF D, E
    <3> QED BY <3>1, AppliedOps
  <2>2. OpSettles(o)
    BY <1>8, <2>1 DEF OpSettles
  <2> QED BY <2>1, <2>2
<1>9. ASSUME NEW o \in Ops, Reconcile(o) PROVE Fine
  <2>1. db' = db \/ (o \in Runs(db) /\ db' = Applied(db, o))
    BY <1>9 DEF Reconcile, Runs
  <2> QED BY <1>8, <1>9, <1>a, <2>1
<1>10. ASSUME InterruptStages \/ Recover PROVE db'.op = db.op
  BY <1>0, <1>10, InterruptStagesWrites, RecoverWrites DEF OnlyRows
<1>11. ASSUME ProbationEnds PROVE Fine
  <2>1. prob \in Ops /\ prob \in Runs(db) /\ db' = Applied(db, prob)
    BY <1>0, <1>11 DEF ProbationEnds, Invariant, Probation
  <2> QED BY <1>8, <1>11, <2>1
<1> HIDE DEF Fine
<1>12. ASSUME Boot PROVE Fine
  BY <1>12, <1>a, <1>7, <1>9, <1>10, <1>11 DEF Boot
<1>13. ASSUME NEW o \in Ops, Calling(o) \/ Switcher(o) \/ HealthWindowPasses(o) PROVE Fine
  BY <1>13, <1>a, <1>5, <1>6, <1>7
<1>14. Fine
  BY <1>a, <1>1, <1>2, <1>3, <1>4, <1>7, <1>12, <1>13 DEF Next
<1> QED BY <1>14 DEF Fine

\* Once used, an operation stays a switch or a rollback.
LEMMA KindsStay ==
    ASSUME Invariant, Next, \A o \in Ops : ~RestoreSnapshot(o)
    PROVE  \A p \in Ops : db.op[p].kind # "none" => db'.op[p].kind = db.op[p].kind
BY OpsStep DEF OpStarts, OpAborts, OpSettles

\* Every step keeps what is staged or switching in its slot.
LEMMA BuiltStep ==
    ASSUME Invariant, Next
    PROVE  BuiltOn(db', content', jr')
<1> DEFINE Stays == \A d \in Rows : db'.row[d].dep \in {"staged", "switching"} =>
                /\ db.row[d].dep \in {"staged", "switching"} \/ Returned(db', jr', d)
                /\ db'.row[d].slot = db.row[d].slot /\ db'.row[d].sha = db.row[d].sha
           D == db
           E == db'
<1>0. /\ TypeOK /\ db \in Databases /\ Sound(db) /\ swc \in [Ops -> Calls] /\ current \in Slots
      /\ content \in [Slots -> Shas \cup {"junk"}] /\ db.row \in [Rows -> Releases] /\ stg \in StgShape
      /\ BuiltOn(db, content, jr)
  BY DEF Invariant, TypeOK, Databases, Built, StgShape
<1>a. \A o \in Ops : jr[o].tail # "none" => jr'[o].tail # "none" /\ jr'[o].to = jr[o].to /\ jr'[o].new = jr[o].new
  BY JournalStep DEF Journaled
<1>b. \A o \in Journaled : db.op[o].kind # "none"
  BY DEF Invariant, Journals
<1>1. ASSUME NEW o \in Ops, RestoreSnapshot(o) PROVE BuiltOn(db', content', jr')
  <2>1. o \in SnapLive /\ db' = snap[o] /\ UNCHANGED <<content, jr>>
    BY <1>1 DEF RestoreSnapshot, At, SnapLive, disk
  <2> QED BY <2>1 DEF Invariant, Snapshots, Built
<1>2. CASE \A o \in Ops : ~RestoreSnapshot(o)
  <2>1. \A o \in Ops : jr[o].tail # "none" => /\ jr'[o].tail # "none" /\ jr'[o].to = jr[o].to
                                              /\ jr'[o].new = jr[o].new /\ db'.op[o].kind = db.op[o].kind
    BY <1>2, <1>a, <1>b, KindsStay DEF Journaled
  <2>2. ASSUME content' = content, Stays PROVE BuiltOn(db', content', jr')
    <3> DEFINE c == content
               j == jr
               k == jr'
    <3>1. BuiltOn(D, c, j) /\ content' = c
      BY <1>0, <2>2
    <3>2. \A o \in Ops : j[o].tail # "none" => /\ k[o].tail # "none" /\ k[o].to = j[o].to
                                                /\ k[o].new = j[o].new /\ E.op[o].kind = D.op[o].kind
      BY <2>1
    <3>3. \A d \in Rows : E.row[d].dep \in {"staged", "switching"} =>
                /\ D.row[d].dep \in {"staged", "switching"} \/ Returned(E, k, d)
                /\ E.row[d].slot = D.row[d].slot /\ E.row[d].sha = D.row[d].sha
      BY <2>2
    <3> HIDE DEF D, E, c, j, k
    <3>4. BuiltOn(E, c, k)
      BY <3>1, <3>2, <3>3, BuiltKept
    <3> QED BY <3>1, <3>4 DEF E, k
  <2>3. ASSUME NEW d \in Rows, StageSlot(d) \/ StageDone(d) PROVE BuiltOn(db', content', jr')
    <3>1. /\ stg[d] \in {"build", "building"} /\ db.row[d].dep = "staging" /\ jr' = jr
          /\ db.row[d].slot \in Slots
          /\ \A e \in Rows : db.row[e].dep = "staged" => db.row[e].slot # db.row[d].slot
          /\ \A e \in Rows \ {d} : db.row[e].dep # "switching"
      BY <1>0, <2>3 DEF StageSlot, StageDone, Invariant, Stages, Releases, Sound, Locked
    <3>2. \A e \in Rows : db.row[e].dep \in {"staged", "switching"} => db.row[e].slot # db.row[d].slot
      BY <3>1
    <3>3. \A e \in Rows : db'.op = db.op /\ (e # d => db'.row[e] = db.row[e])
      BY <1>0, <2>3, StageEndsWrites DEF StageSlot, OneRow, OnlyRows
    <3>4. \A s \in Slots \ {db.row[d].slot} : content'[s] = content[s]
      BY <1>0, <2>3 DEF StageSlot, StageDone
    <3>5. \A e \in Rows \ {d} : db'.row[e].dep \in {"staged", "switching"} =>
            content'[db'.row[e].slot] = db'.row[e].sha \/ Returned(db', jr', e)
      <4> SUFFICES ASSUME NEW e \in Rows \ {d}, db'.row[e].dep \in {"staged", "switching"}
                   PROVE  content'[db'.row[e].slot] = db'.row[e].sha \/ Returned(db', jr', e)
        OBVIOUS
      <4>1. db'.row[e] = db.row[e] /\ db'.op = db.op
        BY <3>3
      <4>2. db.row[e].slot \in Slots
        BY <1>0 DEF Releases
      <4>3. content[db.row[e].slot] = db.row[e].sha \/ Returned(db, jr, e)
        BY <1>0, <4>1 DEF BuiltOn
      <4>4. content'[db.row[e].slot] = content[db.row[e].slot]
        BY <3>2, <3>4, <4>1, <4>2
      <4> QED BY <3>1, <4>1, <4>3, <4>4 DEF Returned
    <3>6. db'.row[d].dep \in {"staged", "switching"} => content'[db'.row[d].slot] = db'.row[d].sha
      <4>1. CASE StageSlot(d)
        BY <3>1, <4>1 DEF StageSlot
      <4>2. CASE StageDone(d)
        BY <1>0, <3>1, <4>2, StageEndsWrites DEF StageDone, SameSpot
      <4> QED BY <2>3, <4>1, <4>2
    <3> QED BY <3>5, <3>6 DEF BuiltOn
  <2>4. ASSUME db'.row = db.row PROVE Stays
    BY <2>4
  <2>5. ASSUME NEW d \in Rows, BeginStaging(d) \/ StageFailed(d) \/ FinishStage(d) PROVE Stays /\ content' = content
    <3>1. CASE BeginStaging(d)
      <4>1. stg[d] = "admitted" /\ db.row[d].dep = "absent" /\ content' = content
        BY <3>1 DEF BeginStaging, Invariant, Stages, disk
      <4>2. /\ db'.row[d].dep \in {"absent", "staging"}
            /\ \A e \in Rows \ {d} : \/ db'.row[e] = db.row[e]
                                     \/ /\ db'.row[e].dep \in {"superseded", db.row[e].dep}
                                        /\ db'.row[e].slot = db.row[e].slot /\ db'.row[e].sha = db.row[e].sha
        BY <1>0, <3>1, <4>1, BeginStagingWrites DEF SameSpot
      <4> QED BY <4>1, <4>2
    <3>2. CASE StageFailed(d)
      <4>1. ~StageDone(d)
        <5>1. faults \in Int
          BY <1>0, BoundsAssumption DEF TypeOK
        <5> QED BY <3>2, <5>1 DEF StageFailed, StageDone, Fault
      <4>2. OneRow(d) /\ SameSpot(db.row[d], db'.row[d]) /\ db'.row[d].dep = "failed"
        BY <1>0, <3>2, <4>1, StageEndsWrites
      <4> QED BY <3>2, <4>2 DEF OneRow, StageFailed, disk
    <3>3. CASE FinishStage(d)
      BY <1>0, <3>3, FinishStageWrites DEF OneRow, FinishStage, disk, SameSpot
    <3> QED BY <2>5, <3>1, <3>2, <3>3
  <2>6. ASSUME NEW d \in Rows, NEW b \in Boards, NEW s \in Shas, PlanRelease(d, b, s)
        PROVE  Stays /\ content' = content
    <3>1. db'.row[d].dep = "absent" /\ \A e \in Rows \ {d} : Kept(db.row[e], db'.row[e])
      BY <1>0, <2>6, PlanReleaseWrites
    <3> QED BY <2>6, <3>1 DEF Kept, PlanRelease, disk
  <2>7. ASSUME NEW o \in Ops, NEW b \in Boards, RequestRollback(o, b) \/ RequestSwitch(o, b)
        PROVE  Stays /\ content' = content
    <3>1. PICK k \in {"switch", "rollback"}, d \in Rows, t \in Rows : Started(o, k, d, t)
      BY <2>7, StartsOne
    <3>2. OnlyOps
      BY <1>0, <3>1, StartedWrites
    <3> QED BY <3>1, <3>2 DEF OnlyOps, Started, disk
  <2>8. ASSUME NEW o \in Ops, Calling(o) PROVE Stays /\ content' = content
    <3>1. content' = content
      BY <2>8 DEF Calling, FirstCensus, Drain, FinalCensus, Snapshot, Handoff, BeginSwitching, SpawnSwitcher,
                  Escape, disk
    <3>2. CASE ~BeginSwitching(o)
      <4>1. db'.row = db.row
        BY <1>0, <2>8, <3>2, AbortsBeforeSpawn, AbortWrites DEF OnlyOps
      <4> QED BY <3>1, <4>1
    <3>3. CASE BeginSwitching(o)
      <4> DEFINE t == swc[o].target
      <4>1. /\ swc[o].pc = "begin" /\ o \in Callers /\ t \in Rows /\ jr' = jr /\ db.op[o].kind # "none"
            /\ db.op[o].kind \in {"none", "switch", "rollback"}
        BY <1>0, <3>3, CallerIs DEF BeginSwitching, Callers, disk, Databases, Operations
      <4>2. jr[o].tail = "handoff" /\ jr[o].to = db.row[t].slot /\ jr[o].new = db.row[t].sha
        BY <4>1 DEF Invariant, CallsOK, CallOK
      <4>3. \/ db'.row = db.row
            \/ /\ OneRow(t) /\ SameSpot(db.row[t], db'.row[t])
               /\ db.row[t].dep = IF db.op[o].kind = "switch" THEN "staged" ELSE "superseded"
        BY <1>0, <3>3, <4>1, BeginSwitchingWrites DEF OnlyOps
      <4>4. CASE db'.row = db.row
        BY <3>1, <4>4
      <4>5. CASE /\ OneRow(t) /\ SameSpot(db.row[t], db'.row[t])
                 /\ db.row[t].dep = IF db.op[o].kind = "switch" THEN "staged" ELSE "superseded"
        <5>1. db.row[t].dep = "staged" \/ db.op[o].kind = "rollback"
          BY <4>1, <4>5
        <5>2. db.op[o].kind = "rollback" => Returned(db', jr', t)
          BY <4>1, <4>2, <4>5 DEF Returned, OneRow, OnlyRows, SameSpot
        <5> HIDE DEF t
        <5> QED BY <3>1, <4>5, <5>1, <5>2 DEF OneRow, SameSpot
      <4> QED BY <4>3, <4>4, <4>5
    <3> QED BY <3>2, <3>3
  <2>9. ASSUME NEW o \in Ops, Switcher(o) PROVE db'.row = db.row /\ content' = content
    BY <1>2, <2>9 DEF Switcher, OldWontDie, FlipDone, Flip, SwitchedOk, RollbackBegin, TerminateNew, FlipBack,
                 RolledBack, RollbackIncomplete, SwitchError, PortHeld, disk
  <2>10. ASSUME Exit \/ Crash \/ Reboot \/ Restart \/ BootFails \/ \E o \in Ops : HealthWindowPasses(o)
        PROVE  db'.row = db.row /\ content' = content
    BY <2>10 DEF Exit, Crash, Reboot, Restart, BootFails, HealthWindowPasses, disk
  <2>11. ASSUME NEW o \in Ops, o \in Runs(db), db' = Applied(db, o) PROVE Stays
    <3>1. \A d \in Rows :
             /\ SameSpot(db.row[d], db'.row[d])
             /\ db'.row[d].dep = "staged" => db.row[d].dep = "staged" \/ jr[o].tail = "old_wont_die"
      BY <2>11, AppliedStages
    <3> DEFINE x == Outcome(o).row
    <3>2. x \in Fates /\ (x = "staged" <=> jr[o].tail = "old_wont_die")
      BY <1>0, AppliedIs
    <3>3. /\ Located(D, o) = {} => \A e \in Rows : E.row[e].dep = D.row[e].dep
          /\ Located(D, o) # {} =>
                \E d \in Located(D, o) : /\ Taken(D.row[d], E.row[d], o, x)
                                         /\ \A e \in Rows \ {d} : Passed(D.row[e], E.row[e], x)
      <4>1. E = Applied(D, o) /\ D \in Databases
        BY <1>0, <2>11
      <4> HIDE DEF D, E, x
      <4> QED BY <4>1, AppliedRows DEF x
    <3>4. x = "staged" => \A d \in Located(D, o) : D.row[d].dep = "switching"
      <4> SUFFICES ASSUME x = "staged" PROVE \A d \in Located(D, o) : D.row[d].dep = "switching"
        OBVIOUS
      <4>1. \E d \in Rows : D.row[d].bound = o
        BY <2>11, <3>2 DEF Invariant, Journals
      <4> HIDE DEF D
      <4>2. \A d \in Located(D, o) : d \in Rows /\ D.row[d].bound = o
        BY <4>1, LocatedRows
      <4> QED BY <1>0, <2>11, <4>2 DEF Sound, D
    <3> HIDE DEF D, E, x
    <3>5. \A d \in Rows : E.row[d].dep \in {"staged", "switching"} => D.row[d].dep \in {"staged", "switching"}
      <4>1. CASE Located(D, o) = {}
        BY <3>3, <4>1
      <4>2. CASE Located(D, o) # {}
        <5>1. PICK d \in Located(D, o) : /\ Taken(D.row[d], E.row[d], o, x)
                                         /\ \A e \in Rows \ {d} : Passed(D.row[e], E.row[e], x)
          BY <3>3, <4>2
        <5> QED BY <3>2, <3>4, <5>1 DEF Taken, Passed, Fates
      <4> QED BY <4>1, <4>2
    <3> QED BY <3>1, <3>5 DEF SameSpot, D, E
  <2>12. ASSUME NEW o \in Ops, Reconcile(o) PROVE Stays /\ content' = content
    <3>1. db' = db \/ (o \in Runs(db) /\ db' = Applied(db, o))
      BY <2>12 DEF Reconcile, Runs
    <3> QED BY <2>4, <2>11, <2>12, <3>1 DEF Reconcile, disk
  <2>13. ASSUME InterruptStages \/ Recover PROVE Stays /\ content' = content
    <3>1. \A e \in Rows : /\ SameSpot(db.row[e], db'.row[e])
                          /\ db'.row[e].dep \in {db.row[e].dep, "failed"}
      BY <1>0, <2>13, InterruptStagesWrites, RecoverWrites
    <3> QED BY <2>13, <3>1 DEF SameSpot, InterruptStages, Recover, disk
  <2>14. ASSUME ProbationEnds PROVE Stays /\ content' = content
    <3>1. prob \in Runs(db) /\ db' = Applied(db, prob)
      BY <2>14 DEF ProbationEnds, Invariant, Probation
    <3> QED BY <2>11, <2>14, <3>1 DEF ProbationEnds, disk, Runs
  <2>15. ASSUME FinishTurn \/ \E w \in Works : AdmitTurn(w) PROVE db'.row = db.row /\ content' = content
    BY <1>0, <2>15 DEF AdmitTurn, FinishTurn, Databases, disk
  <2> HIDE DEF Stays
  <2>16. ASSUME Boot PROVE Stays /\ content' = content
    BY <2>16, <2>4, <2>10, <2>12, <2>13, <2>14 DEF Boot
  <2>17. ASSUME NEW o \in Ops, Calling(o) \/ Switcher(o) \/ HealthWindowPasses(o) PROVE Stays /\ content' = content
    BY <2>17, <2>4, <2>8, <2>9, <2>10
  <2>18. ASSUME NEW d \in Rows, Staging(d) PROVE BuiltOn(db', content', jr')
    BY <2>18, <2>2, <2>3, <2>5 DEF Staging
  <2> QED BY <2>2, <2>4, <2>6, <2>7, <2>10, <2>15, <2>16, <2>17, <2>18 DEF Next
<1> QED BY <1>1, <1>2

--------------------------------------------------------------------------------
(* The calls. *)

\* Nobody calls.
LEMMA CallsGone == ASSUME \A q \in Ops : swc'[q].pc = "none" PROVE CallsOK'
BY DEF CallsOK, Callers

\* A call that waits has little to lose.
LEMMA WaitingCall ==
    ASSUME Invariant, NEW q \in Ops, swc[q].pc \in Waiting, swc'[q] = swc[q], jr'[q] = jr[q],
           sw'[q] = sw[q], q \in Runs(db'), Alive', prob' \in {prob, NoOp},
           srv'.phase = "up" => srv.phase = "up", current' = current,
           \A d \in Rows : db'.row[d].bound # q,
           \A p \in Active' : sw'[p] = "wait"
    PROVE  CallOK(q)'
<1>1. q \in Callers /\ swc[q].pc \notin Past \cup {"begin", "spawn"}
  BY DEF Callers, Waiting, Past
<1>2. CallOK(q)
  BY <1>1 DEF Invariant, CallsOK
<1>3. /\ q # prob' /\ q \notin Journaled /\ swc[q].target \in Rows
      /\ srv.phase = "up" => swc[q].from = current
  BY <1>1, <1>2 DEF CallOK, NoOp, Ops
<1>4. q \notin Closing' /\ q \notin Journaled'
  BY <1>1, <1>3 DEF Closing, Journaled
<1> QED BY <1>1, <1>2, <1>3, <1>4 DEF CallOK, Runs

\* A step of others.
LEMMA CallsQuiet ==
    ASSUME Invariant, UNCHANGED <<swc, sw, current>>, \A o \in Callers : jr'[o] = jr[o],
           srv'.phase = srv.phase,
           \A d \in Rows : db'.row[d].bound \notin Callers \/ db'.row[d].bound = db.row[d].bound,
           \A o \in Callers : o \in Runs(db'), Runs(db') \subseteq Runs(db), prob' \in {prob, NoOp},
           Closing # {} => /\ closed' = closed /\ turn' \in {turn, "none"} /\ db'.row = db.row
    PROVE  CallsOK'
<1> SUFFICES ASSUME NEW q \in Callers PROVE CallOK(q)'
  BY DEF CallsOK, Callers
<1>1. CallOK(q) /\ q \in Ops /\ swc[q].pc # "none" /\ jr'[q] = jr[q]
  BY DEF Invariant, CallsOK, Callers
<1>2. /\ Alive' /\ q \in Runs(db)' /\ sw'[q] = "none" /\ q # prob' /\ swc'[q].target \in Rows
      /\ srv'.phase = "up" => swc'[q].from = current'
  BY <1>1 DEF CallOK, Alive, NoOp, Ops, Runs
<1>3. /\ swc'[q].pc \notin {"begin", "spawn"} => q \notin Journaled'
      /\ swc'[q].pc \in {"begin", "spawn"} => jr'[q].tail = "handoff" /\ jr'[q].from = swc'[q].from
  BY <1>1 DEF CallOK, Journaled
<1>4. swc[q].pc \in {"begin", "spawn"} => db'.row = db.row
  BY DEF Closing, Past, Callers
<1>5. /\ swc'[q].pc \in {"begin", "spawn"} =>
           jr'[q].to = db'.row[swc'[q].target].slot /\ jr'[q].new = db'.row[swc'[q].target].sha
      /\ swc'[q].pc = "spawn" => db'.row[swc'[q].target].bound = q
      /\ swc'[q].pc # "spawn" => \A d \in Rows : db'.row[d].bound # q
  BY <1>1, <1>4 DEF CallOK
<1>6. /\ \A p \in Active' : sw'[p] = "wait" /\ swc'[q].pc \in Waiting
      /\ swc'[q].pc \notin Waiting => \A p \in Runs(db)' \ {q} : swc'[p].pc \in Waiting
  <2>1. Active' = Active /\ Runs(db)' = Runs(db')
    BY DEF Active, Runs
  <2> QED BY <1>1, <2>1 DEF CallOK
<1>7. q \in Closing' => /\ srv'.phase = "up" /\ closed' /\ turn' = "none" /\ prob' = NoOp
                        /\ \A d \in Rows : db'.row[d].stage # "running"
  <2>1. q \in Closing' => q \in Closing
    BY DEF Closing
  <2> QED BY <1>1, <2>1 DEF CallOK
<1> QED BY <1>2, <1>3, <1>5, <1>6, <1>7 DEF CallOK

\* Nobody but the operation runs, so nobody but it calls and no switcher is at work.
LEMMA NotBusy ==
    ASSUME Invariant, NEW o \in Callers, ~Busy(o)
    PROVE  /\ turn = "none" /\ prob = NoOp /\ Active = {} /\ Callers = {o} /\ Runs(db) = {o}
           /\ \A d \in Rows : db.row[d].stage # "running"
<1>1. /\ CallOK(o) /\ o \in Ops /\ \A q \in Callers : q \in Runs(db)
      /\ \A p \in Active : sw[p] = "wait" => p \in Runs(db)
      /\ prob \in Ops \cup {NoOp} /\ (prob # NoOp => prob \in Runs(db))
  BY DEF Invariant, CallsOK, CallOK, Callers, Switchers, PreFlip, Probation, TypeOK, Active
<1>2. /\ turn = "none" /\ (\A d \in Rows : db.row[d].stage # "running")
      /\ \A p \in Ops \ {o} : db.op[p].state # "running"
  BY DEF Busy
<1>3. \A p \in Runs(db) : p = o
  BY <1>2 DEF Runs
<1>4. /\ \A p \in Active : sw[p] = "wait" /\ p # o
      /\ o # prob /\ o \in Runs(db)
  BY <1>1 DEF CallOK, Active
<1>5. Active = {}
  BY <1>1, <1>3, <1>4
<1>6. prob = NoOp
  BY <1>1, <1>3, <1>4
<1> QED BY <1>1, <1>2, <1>3, <1>4, <1>5, <1>6

\* Every step keeps the calls.
LEMMA CallsStep ==
    ASSUME Invariant, Next
    PROVE  CallsOK'
<1>0. /\ TypeOK /\ db \in Databases /\ Sound(db) /\ swc \in [Ops -> Calls] /\ stg \in StgShape
      /\ prob \in Ops \cup {NoOp} /\ current \in Slots /\ CallsOK /\ sw \in [Ops -> SWs]
      /\ jr \in [Ops -> Entries] /\ srv \in Servers
  BY DEF Invariant, TypeOK, StgShape, SWs
<1>a. \A q \in Callers : q \in Ops /\ swc[q].pc # "none" /\ CallOK(q)
  BY <1>0 DEF CallsOK, Callers
<1>b. ASSUME NEW E, E.op = db.op PROVE Runs(E) = Runs(db)
  BY <1>b DEF Runs
<1>1. ASSUME FinishTurn \/ \E w \in Works : AdmitTurn(w) PROVE CallsOK'
  <2>1. db'.row = db.row /\ db'.op = db.op
    BY <1>0, <1>1 DEF AdmitTurn, FinishTurn, Databases
  <2>2. Runs(db') = Runs(db)
    BY <2>1 DEF Runs
  <2>3. UNCHANGED <<swc, sw, current, jr, prob, closed, srv>> /\ (turn' \in {turn, "none"} \/ ~closed)
    BY <1>1 DEF AdmitTurn, FinishTurn, disk
  <2>4. Closing # {} => closed
    BY <1>a DEF CallOK, Closing, Callers, Past
  <2> QED BY <1>0, <1>a, <2>1, <2>2, <2>3, <2>4, CallsQuiet DEF CallOK
<1>2. ASSUME NEW d \in Rows, NEW b \in Boards, NEW s \in Shas, PlanRelease(d, b, s) PROVE CallsOK'
  <2>1. /\ db'.op = db.op /\ db'.row[d].bound = NoOp
        /\ \A e \in Rows \ {d} : db'.row[e].bound = db.row[e].bound
    BY <1>0, <1>2, PlanReleaseWrites DEF OnlyRows, Kept
  <2>2. Runs(db') = Runs(db) /\ NoOp \notin Callers
    BY <2>1 DEF Runs, Callers, NoOp, Ops
  <2>3. UNCHANGED <<swc, sw, current, jr, prob, closed, srv>> /\ ~closed
    BY <1>2 DEF PlanRelease, disk
  <2>4. Closing = {}
    BY <1>a, <2>3 DEF CallOK, Closing, Callers, Past
  <2> QED BY <1>0, <1>a, <2>1, <2>2, <2>3, <2>4, CallsQuiet DEF CallOK
<1>3. ASSUME NEW d \in Rows, Staging(d) PROVE CallsOK'
  <2>1. db'.op = db.op /\ \A e \in Rows : db'.row[e].bound = db.row[e].bound
    BY <1>0, <1>3, BeginStagingWrites, StageEndsWrites, FinishStageWrites
       DEF Staging, OneRow, OnlyRows, StageSlot
  <2>2. Runs(db') = Runs(db)
    BY <2>1 DEF Runs
  <2>3. UNCHANGED <<swc, sw, current, jr, prob, closed, srv>> /\ stg[d] # "none"
    BY <1>3 DEF Staging, BeginStaging, StageSlot, StageDone, StageFailed, FinishStage, disk
  <2>4. Closing = {}
    BY <2>3, NobodyStages
  <2> QED BY <1>0, <1>a, <2>1, <2>2, <2>3, <2>4, CallsQuiet DEF CallOK
<1>4. ASSUME NEW o \in Ops, NEW b \in Boards, RequestRollback(o, b) \/ RequestSwitch(o, b) PROVE CallsOK'
  <2>1. PICK k \in {"switch", "rollback"}, d \in Rows, t \in Rows : Started(o, k, d, t)
    BY <1>4, StartsOne
  <2>2. OnlyOps /\ db'.op[o].state = "running" /\ \A p \in Ops \ {o} : db'.op[p] = db.op[p]
    BY <1>0, <2>1, StartedWrites
  <2>3. /\ Unused(o) /\ srv.phase = "up" /\ \A p \in Active : sw[p] = "wait"
    BY <1>4, StartsOne DEF Serving, Active
  <2>4. sw[o] = "none" /\ o \notin Journaled /\ o \notin Runs(db) /\ \A e \in Rows : db.row[e].bound # o
    BY <2>3, UnusedIs
  <2>5. /\ swc'[o].pc = "census" /\ swc'[o].target = t /\ swc'[o].from = current
        /\ \A p \in Ops \ {o} : swc'[p] = swc[p]
        /\ UNCHANGED <<disk, srv, closed, prob, turn, sw>>
    BY <1>0, <2>1 DEF Started
  <2>6. Runs(db)' = Runs(db) \cup {o} /\ Active' = Active /\ db'.row = db.row
        /\ Journaled' = Journaled /\ current' = current /\ jr' = jr
    BY <2>2, <2>5 DEF Runs, Active, OnlyOps, Journaled, disk
  <2>7. o # prob
    BY <2>4 DEF Invariant, Probation, NoOp, Ops
  <2>8. CallOK(o)'
    BY <2>3, <2>4, <2>5, <2>6, <2>7 DEF CallOK, Alive, Waiting, Closing, Past
  <2>9. ASSUME NEW q \in Ops \ {o}, swc[q].pc # "none" PROVE CallOK(q)'
    <3>1. CallOK(q) /\ swc'[q] = swc[q] /\ q \in Callers
      BY <1>a, <2>5, <2>9 DEF Callers
    <3>2. /\ Alive' /\ q \in Runs(db)' /\ sw'[q] = "none" /\ q # prob' /\ swc'[q].target \in Rows
          /\ srv'.phase = "up" => swc'[q].from = current'
      BY <2>5, <2>6, <3>1 DEF CallOK, Alive
    <3>3. /\ swc'[q].pc \notin {"begin", "spawn"} => q \notin Journaled'
          /\ swc'[q].pc \in {"begin", "spawn"} =>
               /\ jr'[q].tail = "handoff" /\ jr'[q].from = swc'[q].from
               /\ jr'[q].to = db'.row[swc'[q].target].slot /\ jr'[q].new = db'.row[swc'[q].target].sha
          /\ swc'[q].pc = "spawn" => db'.row[swc'[q].target].bound = q
          /\ swc'[q].pc # "spawn" => \A e \in Rows : db'.row[e].bound # q
      BY <2>6, <3>1 DEF CallOK
    <3>4. /\ \A p \in Active' : sw'[p] = "wait" /\ swc'[q].pc \in Waiting
          /\ swc'[q].pc \notin Waiting => \A p \in Runs(db)' \ {q} : swc'[p].pc \in Waiting
      BY <2>5, <2>6, <3>1 DEF CallOK, Waiting, Runs
    <3>5. q \in Closing' => /\ srv'.phase = "up" /\ closed' /\ turn' = "none" /\ prob' = NoOp
                            /\ \A e \in Rows : db'.row[e].stage # "running"
      <4>1. q \in Closing' => q \in Closing
        BY <3>1 DEF Closing
      <4> QED BY <2>5, <2>6, <3>1, <4>1 DEF CallOK
    <3> QED BY <3>2, <3>3, <3>4, <3>5 DEF CallOK
  <2> QED BY <2>5, <2>8, <2>9 DEF CallsOK, Callers
<1>5. ASSUME NEW o \in Ops, Calling(o), swc[o].pc \in Waiting PROVE CallsOK'
  <2>1. /\ (FirstCensus(o) \/ Drain(o)) /\ o \in Callers /\ CallOK(o)
        /\ UNCHANGED <<disk, srv, closed, prob, turn, stg, sw>>
    BY <1>5, <1>a DEF Calling, FirstCensus, Drain, FinalCensus, Snapshot, Handoff, BeginSwitching,
       SpawnSwitcher, Escape, Waiting, Callers
  <2>2. /\ srv' = srv /\ prob' = prob /\ turn' = turn /\ closed' = closed /\ sw' = sw /\ jr' = jr
        /\ current' = current /\ Active' = Active /\ Journaled' = Journaled
    BY <2>1 DEF disk, Active, Journaled
  <2>3. CASE ~Busy(o) /\ Step(o, "close") /\ UNCHANGED db
    <3>1. swc'[o].pc = "close" /\ swc'[o].target = swc[o].target /\ swc'[o].from = swc[o].from
          /\ \A p \in Ops \ {o} : swc'[p] = swc[p]
      BY <1>0, <2>3 DEF Step, Calls
    <3>2. Active = {} /\ Callers = {o} /\ Runs(db) = {o}
      BY <2>1, <2>3, NotBusy
    <3>3. o \notin Journaled /\ \A e \in Rows : db.row[e].bound # o
      BY <1>5, <2>1 DEF CallOK, Waiting
    <3>4. CallOK(o)'
      BY <2>1, <2>2, <2>3, <3>1, <3>2, <3>3 DEF CallOK, Alive, Runs, Closing, Past
    <3>5. Callers' = {o}
      BY <3>1, <3>2 DEF Callers
    <3> QED BY <3>4, <3>5 DEF CallsOK
  <2>4. CASE Step(o, "drain") /\ UNCHANGED db
    <3>1. swc'[o].pc = "drain" /\ swc'[o].target = swc[o].target /\ swc'[o].from = swc[o].from
          /\ \A p \in Ops \ {o} : swc'[p] = swc[p]
      BY <1>0, <2>4 DEF Step, Calls
    <3>2. o \notin Journaled /\ (\A e \in Rows : db.row[e].bound # o) /\ \A p \in Active : sw[p] = "wait"
      BY <1>5, <2>1 DEF CallOK, Waiting
    <3>3. CallOK(o)'
      BY <2>1, <2>2, <2>4, <3>1, <3>2 DEF CallOK, Alive, Runs, Closing, Past, Waiting
    <3>4. ASSUME NEW q \in Ops \ {o}, swc[q].pc # "none" PROVE CallOK(q)'
      <4>1. CallOK(q) /\ swc'[q] = swc[q]
        BY <1>a, <3>1, <3>4 DEF Callers
      <4>2. swc'[q].pc \notin Waiting => \A p \in Runs(db)' \ {q} : swc'[p].pc \in Waiting
        BY <2>4, <3>1, <4>1 DEF CallOK, Waiting, Runs
      <4>3. Runs(db)' = Runs(db) /\ (q \in Closing' => q \in Closing) /\ Alive' = Alive
        BY <2>2, <2>4, <4>1 DEF Runs, Closing, Alive
      <4> QED BY <2>2, <2>4, <4>1, <4>2, <4>3 DEF CallOK
    <3> QED BY <3>1, <3>3, <3>4 DEF CallsOK, Callers
  <2>5. CASE Abort(o)
    <3>1. OnlyOps /\ db'.op[o].state = "failed" /\ \A p \in Ops \ {o} : db'.op[p] = db.op[p]
      BY <1>0, <2>5, AbortWrites
    <3>2. swc'[o].pc = "none" /\ \A p \in Ops \ {o} : swc'[p] = swc[p]
      BY <1>0, <2>5 DEF Abort, NoCall
    <3>3. Runs(db)' = Runs(db) \ {o} /\ db'.row = db.row
      BY <3>1 DEF Runs, OnlyOps
    <3>4. ASSUME NEW q \in Ops \ {o}, swc[q].pc # "none" PROVE CallOK(q)'
      <4>1. CallOK(q) /\ swc'[q] = swc[q]
        BY <1>a, <3>2, <3>4 DEF Callers
      <4>2. swc'[q].pc \notin Waiting => \A p \in Runs(db)' \ {q} : swc'[p].pc \in Waiting
        BY <3>2, <3>3, <4>1 DEF CallOK, Runs
      <4>3. q \in Runs(db)' /\ (q \in Closing' => q \in Closing) /\ Alive' = Alive
        BY <2>2, <3>3, <4>1 DEF CallOK, Closing, Alive
      <4> QED BY <2>2, <3>3, <4>1, <4>2, <4>3 DEF CallOK
    <3> QED BY <3>2, <3>4 DEF CallsOK, Callers
  <2> QED BY <2>1, <2>3, <2>4, <2>5 DEF FirstCensus, Drain
<1>6. ASSUME NEW o \in Ops, Calling(o), swc[o].pc \notin Waiting PROVE CallsOK'
  <2>1. swc[o].pc # "none" /\ srv.phase = "up" /\ o \in Callers /\ CallOK(o)
    BY <1>6, <1>a, AbortsBeforeSpawn DEF Serving, Callers
  <2>2. /\ Active = {} /\ \A p \in Ops \ {o} : swc[p].pc \in Waiting \cup {"none"}
        /\ \A p \in Runs(db) \ {o} : swc[p].pc \in Waiting
    BY <1>6, <2>1, Alone
  <2>3. /\ UNCHANGED <<current, prob, turn>>
        /\ \A p \in Ops \ {o} : swc'[p] = swc[p] /\ jr'[p] = jr[p] /\ sw'[p] = sw[p]
        /\ Alive' /\ (SpawnSwitcher(o) \/ (sw' = sw /\ srv' = srv))
    BY <1>0, <1>6, <2>1 DEF Calling, FirstCensus, Drain, FinalCensus, Snapshot, Handoff, BeginSwitching,
       SpawnSwitcher, Escape, Escaped, Abort, Step, disk, Alive, Servers, Waiting
  <2>4. \A p \in Active' : p = o /\ sw'[p] = "wait"
    BY <1>0, <2>2, <2>3 DEF Active, SpawnSwitcher
  <2>5. /\ \A p \in Ops \ {o} : db'.op[p] = db.op[p]
        /\ \A d \in Rows : db'.row[d].bound \in {db.row[d].bound, o}
    <3>1. CASE UNCHANGED db
      BY <3>1
    <3>2. CASE Abort(o)
      BY <1>0, <3>2, AbortWrites DEF OnlyOps
    <3>3. CASE BeginSwitching(o)
      <4>1. swc[o].target \in Rows
        BY <2>1 DEF CallOK
      <4> DEFINE t == swc[o].target
      <4>2. \/ Abort(o)
            \/ UNCHANGED db
            \/ OneRow(t) /\ db'.row[t].bound = o
        BY <1>0, <3>3, <4>1, BeginSwitchingWrites
      <4> HIDE DEF t
      <4> QED BY <3>1, <3>2, <4>2 DEF OneRow, OnlyRows
    <3> QED BY <1>6, <3>1, <3>2, <3>3, AbortsBeforeSpawn
  <2>6. ASSUME NEW q \in Ops \ {o}, swc[q].pc # "none" PROVE CallOK(q)'
    <3>1. swc[q].pc \in Waiting /\ q \in Callers /\ CallOK(q)
      BY <1>a, <2>2, <2>6 DEF Callers
    <3>2. q \in Runs(db') /\ \A d \in Rows : db'.row[d].bound # q
      BY <2>5, <3>1 DEF CallOK, Runs, Waiting
    <3> QED BY <2>1, <2>3, <2>4, <3>1, <3>2, WaitingCall
  <2>7. ASSUME swc'[o].pc # "none" PROVE CallOK(o)'
    <3>1. CASE SpawnSwitcher(o) \/ Escape(o) \/ Abort(o) \/ Escaped(o)
      BY <1>0, <2>7, <3>1 DEF SpawnSwitcher, Escape, Escaped, Abort, NoCall
    <3>a. \A pc \in PCs : Step(o, pc) => swc'[o].pc = pc /\ swc'[o].target = swc[o].target
                                         /\ swc'[o].from = swc[o].from
      BY <1>0 DEF Step, Calls
    <3>b. Active' = {} \/ SpawnSwitcher(o)
      BY <2>2, <2>3 DEF Active
    <3>2. CASE FinalCensus(o) /\ ~Abort(o)
      <4>1. /\ ~Busy(o) /\ Step(o, "snapshot") /\ closed' = TRUE /\ UNCHANGED db /\ jr' = jr /\ srv' = srv
            /\ sw' = sw /\ swc[o].pc = "close"
        BY <3>2 DEF FinalCensus, disk
      <4>2. /\ turn = "none" /\ prob = NoOp /\ Runs(db) = {o}
            /\ \A d \in Rows : db.row[d].stage # "running"
        BY <2>1, <4>1, NotBusy
      <4>3. o \notin Journaled' /\ (\A d \in Rows : db'.row[d].bound # o) /\ Active' = {}
        BY <2>1, <2>2, <4>1 DEF CallOK, Journaled, Active
      <4>4. swc'[o].pc = "snapshot" /\ swc'[o].target = swc[o].target /\ swc'[o].from = swc[o].from
        BY <3>a, <4>1 DEF PCs
      <4> QED BY <2>1, <2>3, <4>1, <4>2, <4>3, <4>4 DEF CallOK, Alive, Runs
    <3>3. CASE (Snapshot(o) \/ Handoff(o)) /\ ~Abort(o)
      <4>1. /\ UNCHANGED db /\ closed' = closed /\ srv' = srv /\ sw' = sw /\ o \in Closing
            /\ \/ swc[o].pc = "snapshot" /\ Step(o, "journal") /\ jr' = jr
               \/ swc[o].pc = "journal" /\ Step(o, "begin") /\ Handoff(o)
        BY <3>3 DEF Snapshot, Handoff, disk, Closing, Past
      <4>2. /\ swc'[o].pc = (IF swc[o].pc = "snapshot" THEN "journal" ELSE "begin")
            /\ swc'[o].target = swc[o].target /\ swc'[o].from = swc[o].from
        BY <3>a, <4>1 DEF PCs
      <4>3. Active' = {}
        BY <2>2, <4>1 DEF Active
      <4>4. Handoff(o) => /\ jr'[o].tail = "handoff" /\ jr'[o].from = swc[o].from
                          /\ jr'[o].to = db.row[swc[o].target].slot /\ jr'[o].new = db.row[swc[o].target].sha
        BY <1>0 DEF Handoff
      <4>5. swc[o].pc = "snapshot" => o \notin Journaled'
        BY <2>1, <4>1 DEF CallOK, Journaled
      <4>6. \A p \in Runs(db)' \ {o} : swc'[p].pc \in Waiting
        BY <2>2, <2>3, <4>1 DEF Runs
      <4>7. /\ Alive' /\ o \in Runs(db)' /\ sw'[o] = "none" /\ o # prob' /\ swc'[o].target \in Rows
            /\ srv'.phase = "up" => swc'[o].from = current'
        BY <2>1, <2>3, <4>1, <4>2 DEF CallOK, Runs
      <4>8. swc'[o].pc # "spawn" /\ \A d \in Rows : db'.row[d].bound # o
        BY <2>1, <4>1, <4>2 DEF CallOK
      <4>9. srv'.phase = "up" /\ closed' /\ turn' = "none" /\ prob' = NoOp
            /\ \A d \in Rows : db'.row[d].stage # "running"
        BY <2>1, <2>3, <4>1 DEF CallOK
      <4>10. /\ swc'[o].pc \notin {"begin", "spawn"} => o \notin Journaled'
             /\ swc'[o].pc \in {"begin", "spawn"} =>
                  /\ jr'[o].tail = "handoff" /\ jr'[o].from = swc'[o].from
                  /\ jr'[o].to = db'.row[swc'[o].target].slot /\ jr'[o].new = db'.row[swc'[o].target].sha
        BY <4>1, <4>2, <4>4, <4>5
      <4> QED BY <4>3, <4>6, <4>7, <4>8, <4>9, <4>10 DEF CallOK
    <3>4. CASE BeginSwitching(o) /\ ~Abort(o) /\ ~Escaped(o)
      <4> DEFINE t == swc[o].target
      <4>1. t \in Rows /\ swc[o].pc = "begin" /\ o \in Closing /\ UNCHANGED <<jr, srv, sw>>
        BY <2>1, <3>4 DEF CallOK, BeginSwitching, Closing, Past, disk
      <4>2. /\ OneRow(t) /\ SameSpot(db.row[t], db'.row[t]) /\ db'.row[t].stage = db.row[t].stage
            /\ db'.row[t].bound = o /\ Step(o, "spawn") /\ closed' = closed
        BY <1>0, <3>4, <4>1, BeginSwitchingWrites
      <4>3. swc'[o].pc = "spawn" /\ swc'[o].target = t /\ swc'[o].from = swc[o].from
        BY <3>a, <4>2 DEF PCs
      <4>4. jr'[o].tail = "handoff" /\ jr'[o].from = swc'[o].from
            /\ jr'[o].to = db'.row[t].slot /\ jr'[o].new = db'.row[t].sha
        BY <2>1, <4>1, <4>2, <4>3 DEF CallOK, SameSpot
      <4> HIDE DEF t
      <4>5. Runs(db') = Runs(db)
        BY <4>2 DEF Runs, OneRow, OnlyRows
      <4>6. \A p \in Runs(db)' \ {o} : swc'[p].pc \in Waiting
        BY <2>2, <2>3, <4>5 DEF Runs
      <4>7. /\ Alive' /\ o \in Runs(db)' /\ sw'[o] = "none" /\ o # prob' /\ swc'[o].target \in Rows
            /\ srv'.phase = "up" => swc'[o].from = current'
        BY <2>1, <2>3, <4>1, <4>3, <4>5 DEF CallOK, Runs
      <4>8. srv'.phase = "up" /\ closed' /\ turn' = "none" /\ prob' = NoOp
            /\ \A d \in Rows : db'.row[d].stage # "running"
        BY <2>1, <2>3, <4>1, <4>2 DEF CallOK, OneRow
      <4>9. Active' = {}
        BY <2>2, <4>1 DEF Active
      <4> QED BY <4>2, <4>3, <4>4, <4>6, <4>7, <4>8, <4>9 DEF CallOK
    <3> QED BY <1>6, <3>1, <3>2, <3>3, <3>4 DEF Calling, FirstCensus, Drain, Waiting
  <2> QED BY <2>3, <2>6, <2>7 DEF CallsOK, Callers
<1>7. ASSUME NEW o \in Ops, OldWontDie(o) \/ SwitchError(o) PROVE CallsOK'
  <2>1. /\ sw[o] = "wait" /\ sw'[o] = "done" /\ \A p \in Ops \ {o} : sw'[p] = sw[p] /\ jr'[p] = jr[p]
        /\ UNCHANGED <<db, current, proc>>
    BY <1>0, <1>7 DEF OldWontDie, SwitchError, At, Journal
  <2>2. /\ o \notin Callers /\ Active' \subseteq Active /\ Runs(db)' = Runs(db)
        /\ UNCHANGED <<srv, closed, prob, turn, swc>>
    BY <1>a, <2>1 DEF CallOK, Active, Runs, proc
  <2> SUFFICES ASSUME NEW q \in Callers PROVE CallOK(q)'
    BY <2>2 DEF CallsOK, Callers
  <2>3. CallOK(q) /\ q \in Ops \ {o} /\ jr'[q] = jr[q] /\ sw'[q] = sw[q]
    BY <1>a, <2>1, <2>2
  <2>4. (q \in Closing' => q \in Closing) /\ Alive' = Alive /\ (q \in Journaled' => q \in Journaled)
    BY <2>2, <2>3 DEF Closing, Alive, Journaled
  <2>5. \A p \in Active' : sw'[p] = "wait" /\ swc'[q].pc \in Waiting
    <3>1. \A p \in Active' : p # o /\ p \in Ops
      BY <2>1 DEF Active
    <3> QED BY <2>1, <2>2, <2>3, <3>1 DEF CallOK
  <2> QED BY <2>1, <2>2, <2>3, <2>4, <2>5 DEF CallOK
<1>8. ASSUME NEW o \in Ops, Switcher(o), ~OldWontDie(o), ~SwitchError(o) PROVE CallsOK'
  <2>1. Callers = {}
    <3>1. CASE FlipDone(o)
      BY <1>a, <3>1 DEF FlipDone, CallOK, Alive
    <3>2. CASE ~FlipDone(o)
      <4>1. o \in Active /\ sw[o] # "wait"
        BY <1>8, <3>2 DEF Switcher, Flip, SwitchedOk, RollbackBegin, TerminateNew, FlipBack,
           RestoreSnapshot, RolledBack, RollbackIncomplete, PortHeld, At, Active
      <4> QED BY <1>a, <4>1 DEF CallOK
    <3> QED BY <3>1, <3>2
  <2>2. swc' = swc \/ Gone
    BY <1>8 DEF Switcher, FlipDone, Flip, SwitchedOk, RollbackBegin, TerminateNew, FlipBack,
           RestoreSnapshot, RolledBack, RollbackIncomplete, PortHeld, proc
  <2>3. \A q \in Ops : swc[q].pc = "none"
    BY <2>1 DEF Callers
  <2>4. \A q \in Ops : swc'[q].pc = "none"
    BY <2>2, <2>3 DEF Gone, NoCall
  <2> QED BY <2>4, CallsGone
<1>9. ASSUME NEW o \in Ops, HealthWindowPasses(o) PROVE CallsOK'
  BY <1>0, <1>9, <1>a, CallsQuiet DEF HealthWindowPasses, proc, CallOK
<1>10. ASSUME Exit \/ Crash \/ Reboot \/ BootFails PROVE CallsOK'
  <2>1. \A q \in Ops : swc'[q].pc = "none"
    BY <1>10 DEF Exit, Crash, Reboot, BootFails, Gone, NoCall
  <2> QED BY <2>1, CallsGone
<1>11. ASSUME Restart \/ InterruptStages \/ Recover \/ \E o \in Ops : Reconcile(o) PROVE CallsOK'
  <2>1. ~Alive /\ UNCHANGED swc
    BY <1>11 DEF Restart, InterruptStages, Recover, Reconcile, Boots, Alive
  <2>2. \A q \in Ops : swc[q].pc = "none"
    BY <1>a, <2>1 DEF CallOK, Callers
  <2> QED BY <2>1, <2>2, CallsGone
<1>12. ASSUME ProbationEnds PROVE CallsOK'
  <2>1. /\ prob # NoOp /\ prob \in Ops /\ prob \in Runs(db) /\ db' = Applied(db, prob) /\ prob' = NoOp
        /\ UNCHANGED <<swc, sw, current, jr, srv, turn>>
    BY <1>0, <1>12 DEF ProbationEnds, Invariant, Probation, disk
  <2>2. Closing = {} /\ prob \notin Callers
    BY <1>a, <2>1 DEF CallOK, Closing, Callers, Past
  <2>3. Runs(db') = Runs(db) \ {prob}
    BY <1>0, <2>1, AppliedOps
  <2>4. \A d \in Rows : db'.row[d].bound \in {db.row[d].bound, prob}
    <3> DEFINE E == db'
    <3>1. E = Applied(db, prob)
      BY <2>1
    <3> HIDE DEF E
    <3>2. /\ Located(db, prob) = {} => \A e \in Rows : E.row[e].bound = db.row[e].bound
          /\ Located(db, prob) # {} =>
                \E d \in Located(db, prob) : /\ E.row[d].bound = prob
                                             /\ \A e \in Rows \ {d} : E.row[e].bound = db.row[e].bound
      BY <1>0, <2>1, <3>1, AppliedRows DEF Taken, Passed
    <3> QED BY <3>2 DEF E
  <2> QED BY <1>0, <1>a, <2>1, <2>2, <2>3, <2>4, CallsQuiet DEF CallOK
<1>13. ASSUME Boot PROVE CallsOK'
  BY <1>13, <1>10, <1>11, <1>12 DEF Boot
<1>14. ASSUME NEW o \in Ops, Calling(o) \/ Switcher(o) \/ HealthWindowPasses(o) PROVE CallsOK'
  BY <1>14, <1>5, <1>6, <1>7, <1>8, <1>9
<1> QED BY <1>1, <1>2, <1>3, <1>4, <1>10, <1>11, <1>13, <1>14 DEF Next

--------------------------------------------------------------------------------
(* The switchers. *)

\* Steps that touch neither switchers nor journal nor link keep the switchers.
LEMMA SwitchersSame ==
    ASSUME Switchers, UNCHANGED <<sw, jr, current>>, srv'.phase = srv.phase, srv'.slot = srv.slot,
           \A o \in Ops : sw[o] \in PreFlip => o \in Runs(db')
    PROVE  Switchers'
<1>1. Active' = Active /\ Runs(db)' = Runs(db')
  BY DEF Active, Runs
<1> QED BY <1>1 DEF Switchers

\* Every step keeps the switchers.
LEMMA SwitchersStep ==
    ASSUME Invariant, Next
    PROVE  Switchers'
<1>0. /\ TypeOK /\ Switchers /\ db \in Databases /\ swc \in [Ops -> Calls] /\ sw \in [Ops -> SWs]
      /\ jr \in [Ops -> Entries] /\ srv \in Servers /\ prob \in Ops \cup {NoOp} /\ current \in Slots
      /\ \A q \in Callers : CallOK(q)
  BY DEF Invariant, TypeOK, SWs, CallsOK
<1>a. \A o \in Ops : sw[o] \in PreFlip => o \in Runs(db) /\ srv.phase \in {"stopping", "down"}
  BY <1>0 DEF Switchers, PreFlip
<1>b. ASSUME UNCHANGED <<sw, jr, current>>, srv'.phase = srv.phase, srv'.slot = srv.slot,
             srv.phase \notin {"stopping", "down"} \/ db'.op = db.op
      PROVE  Switchers'
  <2>1. \A o \in Ops : sw[o] \in PreFlip => o \in Runs(db')
    BY <1>a, <1>b DEF Runs
  <2> QED BY <1>0, <1>b, <2>1, SwitchersSame
<1>1. ASSUME FinishTurn \/ \E w \in Works : AdmitTurn(w) PROVE Switchers'
  <2>1. db'.op = db.op
    BY <1>0, <1>1 DEF AdmitTurn, FinishTurn, Databases
  <2> QED BY <1>1, <1>b, <2>1 DEF AdmitTurn, FinishTurn, disk
<1>2. ASSUME NEW d \in Rows, NEW b \in Boards, NEW s \in Shas, PlanRelease(d, b, s) PROVE Switchers'
  <2>1. db'.op = db.op
    BY <1>0, <1>2, PlanReleaseWrites DEF OnlyRows
  <2> QED BY <1>2, <1>b, <2>1 DEF PlanRelease, disk
<1>3. ASSUME NEW d \in Rows, Staging(d) PROVE Switchers'
  <2>1. db'.op = db.op
    BY <1>0, <1>3, BeginStagingWrites, StageEndsWrites, FinishStageWrites
       DEF Staging, OneRow, OnlyRows, StageSlot
  <2> QED BY <1>3, <1>b, <2>1 DEF Staging, BeginStaging, StageSlot, StageDone, StageFailed, FinishStage, disk
<1>4. ASSUME NEW o \in Ops, NEW b \in Boards, RequestRollback(o, b) \/ RequestSwitch(o, b) PROVE Switchers'
  <2>1. PICK k \in {"switch", "rollback"}, d \in Rows, t \in Rows : Started(o, k, d, t)
    BY <1>4, StartsOne
  <2> QED BY <1>4, <1>b, <2>1, StartsOne DEF Started, disk, Serving
<1>5. ASSUME NEW o \in Ops, Calling(o), ~SpawnSwitcher(o), ~Handoff(o) PROVE Switchers'
  BY <1>5, <1>b DEF Calling, FirstCensus, Drain, FinalCensus, Snapshot, BeginSwitching, Escape, disk, Serving
<1>6. ASSUME NEW o \in Ops, Handoff(o) PROVE Switchers'
  <2>1. /\ o \in Callers /\ srv' = srv /\ sw' = sw /\ current' = current /\ db' = db
        /\ jr'[o].tail = "handoff" /\ \A p \in Ops \ {o} : jr'[p] = jr[p]
    BY <1>0, <1>6 DEF Handoff, Callers
  <2>2. sw[o] = "none"
    BY <1>0, <2>1 DEF CallOK
  <2> QED BY <1>0, <2>1, <2>2 DEF Switchers, Active, Runs, PreFlip, Flipped
<1>7. ASSUME NEW o \in Ops, SpawnSwitcher(o) PROVE Switchers'
  <2>1. /\ o \in Callers /\ srv'.phase = "stopping" /\ srv'.slot = srv.slot /\ sw'[o] = "wait"
        /\ (\A p \in Ops \ {o} : sw'[p] = sw[p]) /\ jr' = jr /\ current' = current /\ db' = db
        /\ swc[o].pc = "spawn" /\ srv.phase = "up"
    BY <1>0, <1>7 DEF SpawnSwitcher, Callers, disk, Servers, Serving
  <2>2. /\ jr[o].tail = "handoff" /\ jr[o].from = swc[o].from /\ swc[o].from = current /\ o \in Runs(db)
    BY <1>0, <2>1 DEF CallOK
  <2>3. Active = {}
    BY <2>1, Alone DEF Waiting
  <2>4. \A p \in Ops \ {o} : sw'[p] \in {"none", "done"}
    BY <1>0, <2>1, <2>3 DEF Active, SWs
  <2>5. Runs(db)' = Runs(db)
    BY <2>1
  <2> QED BY <1>0, <2>1, <2>2, <2>4, <2>5 DEF Switchers, Active, PreFlip, Flipped
<1>8. ASSUME NEW o \in Ops, Switcher(o) PROVE Switchers'
  <2> DEFINE Go(pc, next, tail) ==
               /\ sw[o] = pc /\ sw'[o] = next /\ jr'[o].tail = tail
               /\ (\A p \in Ops \ {o} : sw'[p] = sw[p] /\ jr'[p] = jr[p])
               /\ jr'[o].to = jr[o].to /\ jr'[o].from = jr[o].from
  <2>0. /\ \A p \in Ops \ {o} : sw[p] \in {"none", "done"}
        /\ \A pc, next : At(o, pc, next) => sw[o] = pc /\ sw'[o] = next /\ \A p \in Ops \ {o} : sw'[p] = sw[p]
        /\ \A step : Journal(o, step) => /\ jr'[o].tail = step /\ jr'[o].to = jr[o].to /\ jr'[o].from = jr[o].from
                                         /\ \A p \in Ops \ {o} : jr'[p] = jr[p]
    <3>1. o \in Active
      BY <1>8, ActiveIs
    <3> QED BY <1>0, <3>1, Alone DEF Active, SWs, At, Journal, Entries
  <2>1. CASE OldWontDie(o) \/ SwitchError(o) \/ PortHeld(o) \/ SwitchedOk(o) \/ RolledBack(o)
             \/ RollbackIncomplete(o)
    <3>1. /\ sw'[o] = "done" /\ jr'[o].tail # "none" /\ srv' = srv /\ current' = current
          /\ \A p \in Ops \ {o} : sw'[p] = sw[p] /\ jr'[p] = jr[p]
      BY <2>0, <2>1 DEF OldWontDie, SwitchError, PortHeld, SwitchedOk, RolledBack, RollbackIncomplete, proc
    <3> QED BY <1>0, <2>0, <3>1 DEF Switchers, Active, PreFlip, Flipped
  <2>2. CASE FlipDone(o)
    <3>1. /\ Go("wait", "flip", "flip_done") /\ srv' = srv /\ srv.phase = "down" /\ current' = current /\ db' = db
      BY <2>0, <2>2 DEF FlipDone, proc
    <3>2. Runs(db)' = Runs(db) /\ o \in Runs(db) /\ jr[o].from = current
      BY <1>0, <3>1 DEF Runs, Switchers, PreFlip
    <3> QED BY <1>0, <2>0, <3>1, <3>2 DEF Switchers, Active, PreFlip, Flipped
  <2>3. CASE Flip(o)
    <3>1. /\ sw[o] = "flip" /\ sw'[o] = "poll" /\ (\A p \in Ops \ {o} : sw'[p] = sw[p])
          /\ jr' = jr /\ current' = jr[o].to /\ srv'.phase = "boot" /\ srv'.slot = jr[o].to
      BY <2>0, <2>3 DEF Flip
    <3> QED BY <1>0, <2>0, <3>1 DEF Switchers, Active, PreFlip, Flipped
  <2>4. CASE RollbackBegin(o)
    <3>1. /\ Go("poll", "kill", "rollback_begin") /\ srv' = srv /\ current' = current
      BY <2>0, <2>4 DEF RollbackBegin, proc
    <3> QED BY <1>0, <2>0, <3>1 DEF Switchers, Active, PreFlip, Flipped
  <2>5. CASE TerminateNew(o)
    <3>1. /\ sw[o] = "kill" /\ sw'[o] = "flip_back" /\ (\A p \in Ops \ {o} : sw'[p] = sw[p])
          /\ jr' = jr /\ current' = current /\ srv'.phase = "down"
      BY <1>0, <2>0, <2>5 DEF TerminateNew, Gone, disk, Servers
    <3> QED BY <1>0, <2>0, <3>1 DEF Switchers, Active, PreFlip, Flipped
  <2>6. CASE FlipBack(o)
    <3>1. /\ sw[o] = "flip_back" /\ sw'[o] = "restore" /\ (\A p \in Ops \ {o} : sw'[p] = sw[p])
          /\ jr' = jr /\ current' = jr[o].from /\ srv' = srv
      BY <2>0, <2>6 DEF FlipBack, proc
    <3> QED BY <1>0, <2>0, <3>1 DEF Switchers, Active, PreFlip, Flipped
  <2>7. CASE RestoreSnapshot(o)
    <3>1. /\ sw[o] = "restore" /\ sw'[o] = "poll_old" /\ (\A p \in Ops \ {o} : sw'[p] = sw[p])
          /\ jr' = jr /\ current' = current /\ srv'.phase = "boot" /\ srv'.slot = current
      BY <2>0, <2>7 DEF RestoreSnapshot, Start, disk
    <3> QED BY <1>0, <2>0, <3>1 DEF Switchers, Active, PreFlip, Flipped
  <2> QED BY <1>8, <2>1, <2>2, <2>3, <2>4, <2>5, <2>6, <2>7 DEF Switcher
<1>9. ASSUME NEW o \in Ops, HealthWindowPasses(o) PROVE Switchers'
  BY <1>9, <1>b DEF HealthWindowPasses, proc
<1>10. ASSUME Exit \/ Crash \/ Reboot \/ BootFails PROVE Switchers'
  <2>1. /\ srv'.phase = "down" /\ jr' = jr /\ current' = current /\ db' = db
    BY <1>0, <1>10 DEF Exit, Crash, Reboot, BootFails, Gone, disk, Servers
  <2>2. CASE sw' = sw
    BY <1>0, <2>1, <2>2 DEF Switchers, Active, Runs
  <2>3. CASE Reboot
    <3>1. \A o \in Ops : sw'[o] = IF sw[o] = "none" THEN "none" ELSE "done"
      BY <2>3 DEF Reboot
    <3>2. \A o \in Ops : sw[o] # "none" => jr[o].tail # "none"
      BY <1>0 DEF Switchers, SWs
    <3> QED BY <1>0, <2>1, <3>1, <3>2 DEF Switchers, Active, PreFlip, Flipped
  <2> QED BY <1>10, <2>2, <2>3 DEF Exit, Crash, BootFails
<1>11. ASSUME Restart PROVE Switchers'
  <2>1. /\ srv'.slot = current /\ srv'.phase = "boot" /\ UNCHANGED <<sw, jr, current, db>>
        /\ \A o \in Ops : sw[o] \in {"none", "done"}
    BY <1>11 DEF Restart, Start, disk
  <2> QED BY <1>0, <2>1 DEF Switchers, Active, PreFlip, Flipped
<1>12. ASSUME Recover \/ InterruptStages \/ \E o \in Ops : Reconcile(o) PROVE Switchers'
  <2>1. /\ srv.phase = "boot" /\ srv'.slot = srv.slot /\ srv'.phase \in {"boot", "up"}
        /\ UNCHANGED <<sw, jr, current>>
    BY <1>0, <1>12 DEF Recover, InterruptStages, Reconcile, Boots, disk, Servers
  <2>2. \A o \in Ops : sw[o] \notin {"wait", "flip", "flip_back", "restore"}
    BY <1>0, <2>1 DEF Switchers
  <2> QED BY <1>0, <2>1, <2>2 DEF Switchers, Active, PreFlip, Flipped
<1>13. ASSUME ProbationEnds PROVE Switchers'
  BY <1>13, <1>b DEF ProbationEnds, disk, Serving
<1>14. ASSUME Boot PROVE Switchers'
  BY <1>14, <1>10, <1>12, <1>13 DEF Boot
<1>15. ASSUME NEW o \in Ops, Calling(o) \/ Switcher(o) \/ HealthWindowPasses(o) PROVE Switchers'
  BY <1>15, <1>5, <1>6, <1>7, <1>8, <1>9
<1> QED BY <1>1, <1>2, <1>3, <1>4, <1>10, <1>11, <1>14, <1>15 DEF Next

--------------------------------------------------------------------------------
(* The journal. *)

\* Who writes to the journal, moves a switcher, flips the link and checks out a revision.
LEMMA WhoWrites ==
    ASSUME Invariant, Next
    PROVE  /\ \A o \in Ops : jr'[o] = jr[o] \/ Handoff(o) \/ Switcher(o)
           /\ \A o \in Ops : sw'[o] = sw[o] \/ SpawnSwitcher(o) \/ Switcher(o) \/ (Reboot /\ sw'[o] = "done")
           /\ current' = current \/ \E o \in Ops : Flip(o) \/ FlipBack(o)
           /\ content'[current] = content[current]
<1> DEFINE J == \A o \in Ops : jr'[o] = jr[o] \/ Handoff(o) \/ Switcher(o)
           S == \A o \in Ops : sw'[o] = sw[o] \/ SpawnSwitcher(o) \/ Switcher(o) \/ (Reboot /\ sw'[o] = "done")
           C == current' = current \/ \E o \in Ops : Flip(o) \/ FlipBack(o)
           K == content'[current] = content[current]
<1>0. /\ sw \in [Ops -> SWs] /\ jr \in [Ops -> Entries] /\ current \in Slots /\ db.row \in [Rows -> Releases]
      /\ content \in [Slots -> Shas \cup {"junk"}]
  BY DEF Invariant, TypeOK, SWs, Databases
<1>1. ASSUME UNCHANGED <<jr, sw, current, content>> PROVE J /\ S /\ C /\ K
  BY <1>1
<1>2. ASSUME NEW d \in Rows, Staging(d) PROVE J /\ S /\ C /\ K
  <2>1. UNCHANGED <<jr, sw, current>>
    BY <1>2 DEF Staging, BeginStaging, StageSlot, StageDone, StageFailed, FinishStage, disk
  <2>2. K
    <3>1. CASE StageSlot(d) \/ StageDone(d)
      <4>1. db.row[d].slot # current /\ db.row[d].slot \in Slots
        BY <1>0, <3>1 DEF StageSlot, StageDone, Invariant, Stages, Releases
      <4> QED BY <1>0, <3>1, <4>1 DEF StageSlot, StageDone
    <3>2. CASE ~(StageSlot(d) \/ StageDone(d))
      BY <1>2, <3>2 DEF Staging, BeginStaging, StageFailed, FinishStage, disk
    <3> QED BY <3>1, <3>2
  <2> QED BY <2>1, <2>2
<1>3. ASSUME NEW o \in Ops, NEW b \in Boards, RequestRollback(o, b) \/ RequestSwitch(o, b) PROVE J /\ S /\ C /\ K
  <2>1. PICK k \in {"switch", "rollback"}, d \in Rows, t \in Rows : Started(o, k, d, t)
    BY <1>3, StartsOne
  <2> QED BY <1>1, <2>1 DEF Started, disk
<1>4. ASSUME NEW o \in Ops, Calling(o) PROVE J /\ S /\ C /\ K
  <2>1. UNCHANGED <<current, content>>
    BY <1>4 DEF Calling, FirstCensus, Drain, FinalCensus, Snapshot, Handoff, BeginSwitching, SpawnSwitcher,
                Escape, disk
  <2>2. jr' = jr \/ (Handoff(o) /\ \A p \in Ops \ {o} : jr'[p] = jr[p])
    BY <1>0, <1>4 DEF Calling, FirstCensus, Drain, FinalCensus, Snapshot, Handoff, BeginSwitching, SpawnSwitcher,
                Escape, disk
  <2>3. sw' = sw \/ (SpawnSwitcher(o) /\ \A p \in Ops \ {o} : sw'[p] = sw[p])
    BY <1>0, <1>4 DEF Calling, FirstCensus, Drain, FinalCensus, Snapshot, Handoff, BeginSwitching, SpawnSwitcher,
                Escape, disk
  <2> QED BY <2>1, <2>2, <2>3
<1>5. ASSUME NEW o \in Ops, Switcher(o) PROVE J /\ S /\ C /\ K
  <2>1. /\ \A p \in Ops \ {o} : sw'[p] = sw[p] /\ jr'[p] = jr[p]
        /\ current' = current \/ Flip(o) \/ FlipBack(o)
        /\ content' = content
    BY <1>0, <1>5
       DEF Switcher, OldWontDie, FlipDone, Flip, SwitchedOk, RollbackBegin, TerminateNew, FlipBack,
           RestoreSnapshot, RolledBack, RollbackIncomplete, SwitchError, PortHeld, At, Journal, disk
  <2> QED BY <1>5, <2>1
<1>6. ASSUME Reboot PROVE J /\ S /\ C /\ K
  BY <1>0, <1>6 DEF Reboot, disk
<1>7. ASSUME Exit \/ Crash \/ Restart \/ FinishTurn \/ (\E o \in Ops : HealthWindowPasses(o))
             \/ (\E w \in Works : AdmitTurn(w)) \/ \E d \in Rows, b \in Boards, s \in Shas : PlanRelease(d, b, s)
      PROVE  J /\ S /\ C /\ K
  BY <1>1, <1>7 DEF Exit, Crash, Restart, HealthWindowPasses, AdmitTurn, FinishTurn, PlanRelease, disk
<1>8. ASSUME Boot PROVE J /\ S /\ C /\ K
  BY <1>1, <1>8 DEF Boot, BootFails, Reconcile, InterruptStages, Recover, ProbationEnds, disk
<1> HIDE DEF J, S, C, K
<1>9. J /\ S /\ C /\ K
  BY <1>2, <1>3, <1>4, <1>5, <1>6, <1>7, <1>8 DEF Next
<1> QED BY <1>9 DEF J, S, C, K

\* A verdict leaves the row that another operation, handed over as well, has bound.
LEMMA AppliedBounds ==
    ASSUME NEW D \in Databases, NEW o \in Ops, NEW E, E = Applied(D, o)
    PROVE  \A d \in Rows : /\ SameSpot(D.row[d], E.row[d])
                           /\ E.row[d].bound = D.row[d].bound \/ (E.row[d].bound = o /\ d \in Located(D, o))
<1> DEFINE L == Located(D, o)
<1>1. CASE L = {}
  BY <1>1, AppliedRows
<1>2. CASE L # {}
  <2>1. PICK d \in L : /\ Taken(D.row[d], E.row[d], o, Outcome(o).row)
                       /\ \A e \in Rows \ {d} : Passed(D.row[e], E.row[e], Outcome(o).row)
    BY <1>2, AppliedRows
  <2> HIDE DEF L
  <2>2. \A e \in Rows : /\ SameSpot(D.row[e], E.row[e])
                        /\ E.row[e].bound = D.row[e].bound \/ (E.row[e].bound = o /\ e \in L)
    BY <2>1 DEF Taken, Passed
  <2> QED BY <2>2 DEF L
<1> QED BY <1>1, <1>2

\* The row an operation that was handed over holds stays its own until it is settled.
LEMMA BoundStays ==
    ASSUME Invariant, Next, \A o \in Ops : ~RestoreSnapshot(o),
           NEW p \in Journaled \cap Runs(db), NEW d \in Rows, db.row[d].bound = p, db'.op[p].state = "running"
    PROVE  db'.row[d].bound = p /\ SameSpot(db.row[d], db'.row[d])
<1> DEFINE Fine == db'.row[d].bound = p /\ SameSpot(db.row[d], db'.row[d])
<1>0. /\ TypeOK /\ db \in Databases /\ Sound(db) /\ swc \in [Ops -> Calls] /\ prob \in Ops \cup {NoOp}
      /\ p \in Ops /\ p # NoOp /\ db.row[d].dep = "switching" /\ current \in Slots
  BY DEF Invariant, TypeOK, Sound, Journaled, Ops, NoOp
<1>a. ASSUME db'.row = db.row PROVE Fine
  BY <1>a DEF SameSpot
<1>1. ASSUME FinishTurn \/ \E w \in Works : AdmitTurn(w) PROVE Fine
  <2>1. db'.row = db.row
    BY <1>0, <1>1 DEF AdmitTurn, FinishTurn, Databases
  <2> QED BY <2>1, <1>a
<1>2. ASSUME NEW e \in Rows, NEW b \in Boards, NEW s \in Shas, PlanRelease(e, b, s) PROVE Fine
  <2>1. e # d
    BY <1>0, <1>2, PlanReleaseWrites DEF Sound
  <2> QED BY <1>0, <1>2, <2>1, PlanReleaseWrites DEF Kept, SameSpot
<1>3. ASSUME NEW e \in Rows, Staging(e) PROVE Fine
  <2>1. CASE BeginStaging(e)
    <3>1. db.row[e].dep = "absent"
      BY <2>1 DEF BeginStaging, Invariant, Stages
    <3>2. e # d
      BY <1>0, <3>1
    <3>3. \/ db'.row[d] = db.row[d]
          \/ SameSpot(db.row[d], db'.row[d]) /\ db'.row[d].bound = db.row[d].bound
      BY <1>0, <2>1, <3>2, BeginStagingWrites
    <3> QED BY <3>3 DEF SameSpot
  <2>2. CASE ~BeginStaging(e)
    BY <1>0, <1>3, <2>2, StageEndsWrites, FinishStageWrites DEF Staging, StageSlot, OneRow, SameSpot
  <2> QED BY <2>1, <2>2
<1>4. ASSUME NEW o \in Ops, NEW b \in Boards, RequestRollback(o, b) \/ RequestSwitch(o, b) PROVE Fine
  <2>1. PICK k \in {"switch", "rollback"}, g \in Rows, t \in Rows : Started(o, k, g, t)
    BY <1>4, StartsOne
  <2> QED BY <1>0, <1>a, <2>1, StartedWrites DEF OnlyOps
<1>5. ASSUME NEW o \in Ops, Calling(o) PROVE Fine
  <2>1. CASE ~BeginSwitching(o)
    BY <1>0, <1>5, <1>a, <2>1, AbortsBeforeSpawn, AbortWrites DEF OnlyOps
  <2>2. CASE BeginSwitching(o)
    <3> DEFINE t == swc[o].target
    <3>1. t \in Rows
      BY <2>2, CallerIs DEF BeginSwitching
    <3>2. \/ db'.row = db.row
          \/ OneRow(t) /\ db.row[t].dep \in {"staged", "superseded"}
      BY <1>0, <2>2, <3>1, BeginSwitchingWrites DEF OnlyOps
    <3> HIDE DEF t
    <3> QED BY <1>0, <1>a, <3>2 DEF OneRow, SameSpot
  <2> QED BY <2>1, <2>2
<1>6. ASSUME NEW o \in Ops, Switcher(o) PROVE Fine
  BY <1>6, <1>a DEF Switcher, OldWontDie, FlipDone, Flip, SwitchedOk, RollbackBegin, TerminateNew, FlipBack,
               RolledBack, RollbackIncomplete, SwitchError, PortHeld
<1>7. ASSUME Exit \/ Crash \/ Reboot \/ Restart \/ BootFails \/ \E o \in Ops : HealthWindowPasses(o)
      PROVE  Fine
  BY <1>7, <1>a DEF Exit, Crash, Reboot, Restart, BootFails, HealthWindowPasses
<1>8. ASSUME NEW o \in Ops, o \in Runs(db), db' = Applied(db, o) PROVE Fine
  <2> DEFINE E == db'
             D == db
  <2>1. E = Applied(D, o) /\ D \in Databases
    BY <1>0, <1>8
  <2>2. o # p
    <3> HIDE DEF E, D
    <3>1. E.op[o].state # "running"
      BY <2>1, AppliedOps
    <3> QED BY <3>1 DEF E
  <2>3. d \notin Located(D, o)
    <3> SUFFICES ASSUME d \in Located(D, o) PROVE FALSE
      OBVIOUS
    <3>1. o \in Journaled
      BY <1>8, <2>2, LocatedRows
    <3> QED BY <1>8, <2>2, <3>1 DEF Invariant, Journals
  <2> HIDE DEF E, D
  <2>4. SameSpot(D.row[d], E.row[d]) /\ E.row[d].bound = D.row[d].bound
    BY <2>1, <2>3, AppliedBounds
  <2> QED BY <2>4 DEF E, D
<1>9. ASSUME Boot PROVE Fine
  <2>1. CASE InterruptStages \/ Recover
    BY <1>0, <2>1, InterruptStagesWrites, RecoverWrites
  <2>2. CASE \E o \in Ops : Reconcile(o)
    BY <1>8, <1>a, <2>2 DEF Reconcile, Runs
  <2>3. CASE ProbationEnds
    <3>1. prob \in Ops /\ prob \in Runs(db) /\ db' = Applied(db, prob)
      BY <1>0, <2>3 DEF ProbationEnds, Invariant, Probation
    <3> QED BY <1>8, <3>1
  <2> QED BY <1>9, <1>7, <2>1, <2>2, <2>3 DEF Boot
<1> HIDE DEF Fine
<1>10. Fine
  BY <1>1, <1>2, <1>3, <1>4, <1>5, <1>6, <1>7, <1>9 DEF Next
<1> QED BY <1>10 DEF Fine

\* A restored database agrees with the journal: only the operation that restored it is in doubt.
LEMMA JournalsRestore ==
    ASSUME Invariant, NEW o \in Ops, RestoreSnapshot(o)
    PROVE  Journals'
<1>1. /\ o \in SnapLive /\ o \in Active /\ db' = snap[o] /\ UNCHANGED <<jr, content, current>>
      /\ jr[o].tail = "rollback_begin" /\ sw'[o] = "poll_old" /\ \A p \in Ops \ {o} : sw'[p] = sw[p]
  BY DEF RestoreSnapshot, At, SnapLive, Active, Invariant, Switchers, disk, TypeOK
<1>2. /\ o \in Runs(snap[o]) /\ Journaled \cap Runs(snap[o]) \subseteq {o} /\ Sound(snap[o])
      /\ \A p \in Journaled \ {o} : snap[o].op[p] = db.op[p]
  BY <1>1 DEF Invariant, Snapshots
<1>3. /\ Journaled' = Journaled /\ Runs(db)' = Runs(snap[o]) /\ Active' \subseteq Active
      /\ \A p \in Ops : p \in Active => p = o
  BY <1>1 DEF Journaled, Runs, Active, Invariant, Switchers
<1>4. \A q \in Active' \cup (Journaled' \cap Runs(db)'), p \in Journaled' \cap Runs(db)' : q = p
  BY <1>2, <1>3 DEF Active
<1>5. \A p \in Journaled' : db'.op[p].kind # "none"
  BY <1>1, <1>2, <1>3 DEF Invariant, Journals, Sound, Runs
<1>6. \A p \in Runs(db)' : jr'[p].tail \notin {"flip_done", "old_wont_die", "switched_ok"} /\ sw'[p] # "wait"
  <2> SUFFICES ASSUME NEW p \in Runs(db)',
                      jr'[p].tail \in {"flip_done", "old_wont_die", "switched_ok"} \/ sw'[p] = "wait"
               PROVE  FALSE
    OBVIOUS
  <2>1. p \in Journaled /\ p \in Ops
    BY <1>1 DEF Invariant, Switchers, Journaled, Runs
  <2> QED BY <1>1, <1>2, <1>3, <2>1
<1>7. \A p \in Ops : jr'[p].tail \in {"flip_done", "rollback_begin"} => db'.op[p].state \in {"running", "interrupted"}
  <2> SUFFICES ASSUME NEW p \in Ops, jr'[p].tail \in {"flip_done", "rollback_begin"}
               PROVE  db'.op[p].state \in {"running", "interrupted"}
    OBVIOUS
  <2>1. p \in Journaled
    BY <1>1 DEF Journaled
  <2> QED BY <1>1, <1>2, <2>1 DEF Invariant, Journals, Runs
<1> QED BY <1>4, <1>5, <1>6, <1>7 DEF Journals

\* What a step makes of the tail of an operation's journal.
LEMMA TailStep ==
    ASSUME Invariant, NEW o \in Ops, Switcher(o)
    PROVE  \/ jr'[o] = jr[o] /\ sw'[o] # "wait" /\ sw[o] # "wait"
           \/ UNCHANGED <<db, current, content>> /\ sw[o] = "wait" /\ sw'[o] # "wait"
              /\ jr'[o].tail \in {"flip_done", "old_wont_die", "switch_error"}
           \/ UNCHANGED <<db, current, content>> /\ sw[o] = "poll" /\ sw'[o] # "wait"
              /\ jr'[o].tail \in {"switched_ok", "rollback_begin"}
              /\ (jr'[o].tail = "switched_ok" => content[current] = jr[o].new)
           \/ UNCHANGED <<db, current, content>> /\ sw'[o] # "wait" /\ sw[o] # "wait"
              /\ jr'[o].tail \in {"rollback_incomplete", "rolled_back"}
<1>0. jr \in [Ops -> Entries] /\ sw \in [Ops -> SWs]
  BY DEF Invariant, TypeOK, SWs
<1>1. CASE SwitchError(o) \/ OldWontDie(o) \/ FlipDone(o)
  BY <1>0, <1>1 DEF SwitchError, OldWontDie, FlipDone, At, Journal, Entries
<1>2. CASE SwitchedOk(o)
  BY <1>0, <1>2 DEF SwitchedOk, At, Journal, Entries, Healthy
<1>3. CASE RollbackBegin(o)
  BY <1>0, <1>3 DEF RollbackBegin, At, Journal, Entries
<1>4. CASE RolledBack(o) \/ RollbackIncomplete(o) \/ PortHeld(o)
  BY <1>0, <1>4 DEF RolledBack, RollbackIncomplete, PortHeld, At, Journal, Entries
<1>5. CASE Flip(o) \/ TerminateNew(o) \/ FlipBack(o) \/ RestoreSnapshot(o)
  BY <1>0, <1>5 DEF Flip, TerminateNew, FlipBack, RestoreSnapshot, At, disk
<1> QED BY <1>1, <1>2, <1>3, <1>4, <1>5 DEF Switcher

\* Every step keeps the journal and the database in agreement.
LEMMA JournalsStep ==
    ASSUME Invariant, Next
    PROVE  Journals'
<1>0. /\ TypeOK /\ Journals /\ Switchers /\ CallsOK /\ Sound(db) /\ db \in Databases
      /\ jr \in [Ops -> Entries] /\ sw \in [Ops -> SWs] /\ db.op \in [Ops -> Operations]
      /\ \A q \in Ops : swc[q].pc # "none" => CallOK(q)
  BY DEF Invariant, TypeOK, SWs, Databases, CallsOK, Callers
<1>1. CASE \E o \in Ops : RestoreSnapshot(o)
  BY <1>1, JournalsRestore
<1>2. CASE \A o \in Ops : ~RestoreSnapshot(o)
  <2>1. \A p \in Ops : db'.op[p] = db.op[p] \/ OpStarts(p) \/ OpAborts(p) \/ OpSettles(p)
    BY <1>2, OpsStep
  <2>2. \A p \in Ops : OpStarts(p) => ~Handoff(p) /\ ~Switcher(p) /\ jr'[p] = jr[p] /\ p \notin Journaled
    <3> SUFFICES ASSUME NEW p \in Ops, OpStarts(p) PROVE ~Handoff(p) /\ ~Switcher(p) /\ jr'[p] = jr[p]
      BY DEF OpStarts
    <3>1. ~Switcher(p)
      BY ActiveIs DEF OpStarts, Active
    <3>2. ~Handoff(p)
      <4>1. p \notin Runs(db)
        BY DEF OpStarts, Runs
      <4> QED BY <4>1, CallerIs DEF Handoff
    <3> QED BY <3>1, <3>2, WhoWrites
  <2>3. \A p \in Runs(db') : \/ p \in Runs(db)
                             \/ jr'[p] = jr[p] /\ p \notin Journaled
    BY <2>1, <2>2 DEF OpAborts, OpSettles, Runs, AppliedIs
  <2>4. Runs(db)' = Runs(db') /\ \A p \in Journaled' : p \in Ops /\ (p \in Journaled \/ Handoff(p))
    <3> SUFFICES ASSUME NEW p \in Ops, p \in Journaled', p \notin Journaled PROVE Handoff(p)
      BY DEF Runs, Journaled
    <3>1. ~Switcher(p)
      <4>1. jr[p].tail = "none"
        BY DEF Journaled
      <4>2. p \notin Active
        BY <1>0, <4>1 DEF Switchers, Active, SWs
      <4> QED BY <4>2, ActiveIs
    <3> QED BY <3>1, WhoWrites DEF Journaled
  <2>5. \A q \in Active' : q \in Ops /\ (q \in Active \/ SpawnSwitcher(q))
    <3> SUFFICES ASSUME NEW q \in Ops, q \in Active', q \notin Active PROVE SpawnSwitcher(q)
      BY DEF Active
    <3> QED BY WhoWrites, ActiveIs DEF Active
  <2>6. \A q \in Active' \cup (Journaled' \cap Runs(db')), p \in Journaled' \cap Runs(db') : q = p
    <3> SUFFICES ASSUME NEW q \in Active' \cup (Journaled' \cap Runs(db')), NEW p \in Journaled' \cap Runs(db')
                 PROVE  q = p
      OBVIOUS
    <3>1. /\ p \in Ops /\ (p \in Journaled \cap Runs(db) \/ Handoff(p))
          /\ q \in Ops /\ (q \in Active \/ SpawnSwitcher(q) \/ q \in Journaled \cap Runs(db) \/ Handoff(q))
      BY <2>2, <2>3, <2>4, <2>5 DEF Journaled
    <3>2. CASE SpawnSwitcher(q) \/ Handoff(q)
      <4>1. swc[q].pc \notin Waiting \cup {"none"}
        BY <3>2 DEF SpawnSwitcher, Handoff, Waiting
      <4>2. (p \in Journaled \cap Runs(db) => p = q) /\ (Handoff(p) => p = q)
        BY <3>1, <4>1, Alone DEF Handoff, Waiting
      <4> QED BY <3>1, <4>2
    <3>3. CASE (q \in Active \/ q \in Journaled \cap Runs(db)) /\ Handoff(p)
      <4>1. swc[p].pc \notin Waiting \cup {"none"} /\ swc[p].pc # "none"
        BY <3>3 DEF Handoff, Waiting
      <4>2. Active = {} /\ (q \in Journaled \cap Runs(db) => q = p)
        BY <3>1, <4>1, Alone
      <4> QED BY <3>3, <4>2
    <3>4. CASE (q \in Active \/ q \in Journaled \cap Runs(db)) /\ p \in Journaled \cap Runs(db)
      BY <1>0, <3>4 DEF Journals
    <3> QED BY <3>1, <3>2, <3>3, <3>4
  <2>7. \A p \in Journaled' : db'.op[p].kind # "none"
    <3> SUFFICES ASSUME NEW p \in Journaled' PROVE db'.op[p].kind # "none"
      OBVIOUS
    <3>1. db.op[p].kind # "none" /\ p \in Ops
      BY <1>0, <2>4, CallerIs DEF Journals, Handoff
    <3> QED BY <1>2, <3>1, KindsStay
  <2>8. ASSUME NEW p \in Runs(db'),
               jr'[p].tail \in {"flip_done", "old_wont_die", "switched_ok"} \/ sw'[p] = "wait"
        PROVE  \E d \in Rows : db'.row[d].bound = p /\ db'.row[d].slot = jr'[p].to /\ db'.row[d].sha = jr'[p].new
    <3>0. p \in Ops
      BY DEF Runs
    <3>1. CASE SpawnSwitcher(p)
      <4>1. /\ swc[p].pc = "spawn" /\ jr' = jr /\ db' = db
        BY <3>1 DEF SpawnSwitcher, disk
      <4>2. CallOK(p)
        BY <1>0, <3>0, <4>1
      <4> QED BY <4>1, <4>2 DEF CallOK
    <3>2. CASE ~SpawnSwitcher(p)
      <4>1. /\ jr'[p].tail = jr[p].tail \/ Handoff(p) \/ Switcher(p)
            /\ sw'[p] = sw[p] \/ Switcher(p) \/ (Reboot /\ sw'[p] = "done")
        BY <3>0, <3>2, WhoWrites
      <4>2. ~Handoff(p)
        <5>1. Handoff(p) => swc[p].pc = "journal" /\ sw' = sw /\ jr'[p].tail = "handoff"
          BY <1>0, <3>0 DEF Handoff
        <5>2. swc[p].pc = "journal" => sw[p] = "none"
          BY <1>0, <3>0 DEF CallOK
        <5> QED BY <2>8, <5>1, <5>2
      <4>3. jr[p].tail \in {"flip_done", "old_wont_die", "switched_ok"} \/ sw[p] = "wait"
        <5>1. sw[p] = "poll" => jr[p].tail = "flip_done"
          BY <1>0, <3>0 DEF Switchers
        <5> QED BY <2>8, <3>0, <4>1, <4>2, <5>1, TailStep
      <4>4. p \in Journaled /\ p \in Runs(db)
        <5>1. p \in Journaled
          BY <1>0, <3>0, <4>3 DEF Journaled, Switchers
        <5> QED BY <2>3, <5>1
      <4>5. PICK d \in Rows : db.row[d].bound = p /\ db.row[d].slot = jr[p].to /\ db.row[d].sha = jr[p].new
        BY <1>0, <4>3, <4>4 DEF Journals
      <4>6. db'.row[d].bound = p /\ SameSpot(db.row[d], db'.row[d])
        <5>1. db'.op[p].state = "running"
          BY DEF Runs
        <5> QED BY <1>2, <4>4, <4>5, <5>1, BoundStays
      <4>7. jr'[p].to = jr[p].to /\ jr'[p].new = jr[p].new
        BY <4>4, JournalStep
      <4> QED BY <4>5, <4>6, <4>7 DEF SameSpot
    <3> QED BY <3>1, <3>2
  <2>9. ASSUME NEW p \in Runs(db'), jr'[p].tail = "switched_ok"
        PROVE  jr'[p].to = current' /\ content'[current'] = jr'[p].new
    <3>0. p \in Ops /\ p \in Journaled'
      BY <2>9 DEF Runs, Journaled
    <3>1. ~Handoff(p)
      BY <1>0, <2>9, <3>0 DEF Handoff
    <3>2. p \in Journaled /\ p \in Runs(db)
      BY <2>3, <2>4, <3>0, <3>1
    <3>3. jr'[p].to = jr[p].to /\ jr'[p].new = jr[p].new
      BY <3>2, JournalStep
    <3>4. CASE jr[p].tail = "switched_ok"
      <4>1. jr[p].to = current /\ content[current] = jr[p].new
        BY <1>0, <3>2, <3>4 DEF Journals
      <4>2. current' = current
        <5> SUFFICES ASSUME NEW o \in Ops, Flip(o) \/ FlipBack(o) PROVE FALSE
          BY WhoWrites
        <5>1. o \in Active /\ jr[o].tail # "switched_ok"
          BY <1>0 DEF Flip, FlipBack, At, Active, Switchers
        <5>2. o = p
          BY <1>0, <3>2, <5>1 DEF Journals
        <5> QED BY <3>4, <5>1, <5>2
      <4> QED BY <3>3, <4>1, <4>2, WhoWrites
    <3>5. CASE jr[p].tail # "switched_ok"
      <4>1. Switcher(p)
        BY <2>9, <3>0, <3>1, <3>5, WhoWrites
      <4>2. UNCHANGED <<current, content>> /\ sw[p] = "poll" /\ content[current] = jr[p].new
        BY <2>9, <3>0, <3>5, <4>1, TailStep
      <4>3. jr[p].to = current
        BY <1>0, <3>0, <4>2 DEF Switchers, Flipped
      <4> QED BY <3>3, <4>2, <4>3
    <3> QED BY <3>4, <3>5
  <2>10. ASSUME NEW p \in Ops, jr'[p].tail \in {"flip_done", "rollback_begin"}
         PROVE  db'.op[p].state \in {"running", "interrupted"}
    <3>1. ~Handoff(p)
      BY <1>0, <2>10 DEF Handoff
    <3>2. CASE Switcher(p) /\ jr'[p] # jr[p]
      <4>1. UNCHANGED db /\ (sw[p] = "wait" \/ sw[p] = "poll")
        BY <2>10, <3>2, TailStep
      <4>2. sw[p] = "wait" => p \in Runs(db)
        BY <1>0 DEF Switchers, PreFlip
      <4>3. sw[p] = "poll" => jr[p].tail = "flip_done"
        BY <1>0 DEF Switchers
      <4> QED BY <1>0, <4>1, <4>2, <4>3 DEF Journals, Runs
    <3>3. CASE jr'[p] = jr[p]
      <4>1. db.op[p].state \in {"running", "interrupted"}
        BY <1>0, <2>10, <3>3 DEF Journals
      <4>2. ~OpAborts(p)
        <5>1. OpAborts(p) => CallOK(p) /\ swc[p].pc \notin {"none", "spawn"}
          BY <1>0 DEF OpAborts
        <5> QED BY <2>10, <3>3, <5>1 DEF CallOK, Journaled
      <4>3. OpSettles(p) => db'.op[p].state = "interrupted"
        BY <1>0, <2>10, <3>3, AppliedIs DEF OpSettles
      <4> QED BY <2>1, <4>1, <4>2, <4>3 DEF OpStarts
    <3> QED BY <3>1, <3>2, <3>3, WhoWrites
  <2> QED BY <2>4, <2>6, <2>7, <2>8, <2>9, <2>10 DEF Journals
<1> QED BY <1>1, <1>2
--------------------------------------------------------------------------------
(* Probation. *)

\* Every step keeps probation.
LEMMA ProbationStep ==
    ASSUME Invariant, Next
    PROVE  Probation'
<1> SUFFICES ASSUME prob' # NoOp
             PROVE  /\ srv'.phase \in {"boot", "up", "stopping"} /\ prob' \in Runs(db')
                    /\ srv'.phase = "boot" => prob' < srv'.at
                    /\ jr'[prob'].tail \notin {"none", "handoff", "old_wont_die", "switch_error"}
  BY DEF Probation, Runs
<1>0. /\ TypeOK /\ prob \in Ops \cup {NoOp} /\ srv \in Servers /\ jr \in [Ops -> Entries]
      /\ Ops = 1..Switches /\ Switches \in Nat /\ srv.at \in 1..Switches + 2 /\ sw \in [Ops -> SWs]
  BY BoundsAssumption DEF Invariant, TypeOK, Ops, Servers, SWs
<1> DEFINE After == /\ srv'.phase \in {"boot", "up", "stopping"}
                    /\ srv'.phase = "boot" => srv.phase = "boot" /\ srv'.at \in Int /\ srv'.at >= srv.at
<1>1. ASSUME NEW o \in Ops, Reconcile(o), prob' # prob
      PROVE  /\ srv'.phase \in {"boot", "up", "stopping"} /\ prob' \in Runs(db')
             /\ srv'.phase = "boot" => prob' < srv'.at
             /\ jr'[prob'].tail \notin {"none", "handoff", "old_wont_die", "switch_error"}
  <2>1. prob' = o /\ db' = db /\ db.op[o].state = "running" /\ jr[o].tail = "flip_done" /\ jr' = jr
        /\ srv' = [srv EXCEPT !.at = o + 1] /\ srv.phase = "boot"
    BY <1>1 DEF Reconcile, OnProbation, Boots, disk
  <2>2. srv'.phase = "boot" /\ srv'.at = o + 1
    BY <1>0, <2>1 DEF Servers
  <2> QED BY <1>0, <2>1, <2>2 DEF Runs
<1>2. ASSUME prob # NoOp, prob' = prob, After, \A o \in Ops : ~RestoreSnapshot(o)
      PROVE  /\ srv'.phase \in {"boot", "up", "stopping"} /\ prob' \in Runs(db')
             /\ srv'.phase = "boot" => prob' < srv'.at
             /\ jr'[prob'].tail \notin {"none", "handoff", "old_wont_die", "switch_error"}
  <2>1. prob \in Ops /\ prob \in Runs(db) /\ (srv.phase = "boot" => prob < srv.at)
        /\ jr[prob].tail \notin {"none", "handoff", "old_wont_die", "switch_error"}
    BY <1>0, <1>2 DEF Invariant, Probation
  <2>2. prob \in Runs(db')
    <3>1. ~OpAborts(prob)
      BY <2>1 DEF OpAborts, Invariant, CallsOK, CallOK, Callers
    <3>2. ~OpSettles(prob)
      <4>1. ~Reconcile(prob)
        BY <1>0, <2>1 DEF Reconcile, Boots
      <4>2. ~ProbationEnds
        BY <1>2 DEF ProbationEnds
      <4> QED BY <4>1, <4>2 DEF OpSettles
    <3> QED BY <1>2, <2>1, <3>1, <3>2, OpsStep DEF OpStarts, Runs
  <2>3. jr'[prob].tail \notin {"none", "handoff", "old_wont_die", "switch_error"}
    <3>1. ~Handoff(prob)
      BY <2>1 DEF Handoff, Invariant, CallsOK, CallOK, Callers
    <3>2. Switcher(prob) => sw[prob] # "wait"
      BY <2>1 DEF Invariant, Switchers
    <3> QED BY <2>1, <3>1, <3>2, WhoWrites, TailStep
  <2>4. srv'.phase = "boot" => prob < srv'.at
    BY <1>0, <1>2, <2>1
  <2> QED BY <1>2, <2>2, <2>3, <2>4

<1>3. ASSUME prob # NoOp PROVE srv.phase \in {"boot", "up", "stopping"} /\ srv.phase # "down"
  BY <1>3 DEF Invariant, Probation
<1>4. ASSUME UNCHANGED srv PROVE prob # NoOp => After
  BY <1>0, <1>3, <1>4
<1>5. ASSUME NEW o \in Ops, RestoreSnapshot(o) PROVE prob = NoOp
  BY <1>3, <1>5 DEF RestoreSnapshot, At, Invariant, Switchers
<1>6. \/ prob' \in {prob, NoOp}
      \/ \E o \in Ops : Reconcile(o)
  <2>1. ASSUME NEW d \in Rows, Staging(d) PROVE prob' = prob
    BY <2>1 DEF Staging, BeginStaging, StageSlot, StageDone, StageFailed, FinishStage
  <2>2. ASSUME NEW o \in Ops, NEW b \in Boards, RequestRollback(o, b) \/ RequestSwitch(o, b) PROVE prob' = prob
    BY <2>2, StartsOne DEF Started
  <2>3. ASSUME NEW o \in Ops, Calling(o) PROVE prob' = prob
    BY <2>3 DEF Calling, FirstCensus, Drain, FinalCensus, Snapshot, Handoff, BeginSwitching, SpawnSwitcher, Escape
  <2>4. ASSUME NEW o \in Ops, Switcher(o) PROVE prob' \in {prob, NoOp}
    BY <2>4 DEF Switcher, OldWontDie, FlipDone, Flip, SwitchedOk, RollbackBegin, TerminateNew, FlipBack,
         RestoreSnapshot, RolledBack, RollbackIncomplete, SwitchError, PortHeld, proc, Gone
  <2> QED BY <2>1, <2>2, <2>3, <2>4 DEF Next, AdmitTurn, FinishTurn, PlanRelease, HealthWindowPasses, Exit, Crash,
        Reboot, Restart, Boot, BootFails, InterruptStages, Recover, ProbationEnds, proc, Gone
<1>7. ASSUME prob # NoOp, prob' = prob PROVE After
  <2>1. ASSUME NEW d \in Rows, Staging(d) PROVE UNCHANGED srv
    BY <2>1 DEF Staging, BeginStaging, StageSlot, StageDone, StageFailed, FinishStage
  <2>2. ASSUME NEW o \in Ops, NEW b \in Boards, RequestRollback(o, b) \/ RequestSwitch(o, b) PROVE UNCHANGED srv
    BY <2>2, StartsOne DEF Started
  <2>3. ASSUME NEW o \in Ops, Calling(o) PROVE UNCHANGED srv \/ srv'.phase = "stopping"
    BY <1>0, <2>3 DEF Calling, FirstCensus, Drain, FinalCensus, Snapshot, Handoff, BeginSwitching, SpawnSwitcher,
         Escape, Servers
  <2>4. ASSUME NEW o \in Ops, Switcher(o) PROVE UNCHANGED srv
    <3>1. ~Flip(o) /\ ~RestoreSnapshot(o)
      BY <1>3, <1>7 DEF Flip, RestoreSnapshot, At, Invariant, Switchers
    <3>2. ~TerminateNew(o)
      BY <1>7 DEF TerminateNew, Gone
    <3> QED BY <2>4, <3>1, <3>2 DEF Switcher, OldWontDie, FlipDone, SwitchedOk, RollbackBegin, FlipBack,
         RolledBack, RollbackIncomplete, SwitchError, PortHeld, proc
  <2>5. ~(Exit \/ Crash \/ Reboot \/ Restart \/ BootFails \/ ProbationEnds)
    BY <1>3, <1>7 DEF Exit, Crash, Reboot, Restart, BootFails, ProbationEnds, Gone
  <2>6. ASSUME (\E o \in Ops : Reconcile(o)) \/ InterruptStages
        PROVE  srv.phase = "boot" /\ srv'.phase = "boot" /\ srv'.at = srv.at + 1
    BY <1>0, <2>6 DEF Reconcile, InterruptStages, Boots, Servers
  <2>7. ASSUME Recover PROVE srv'.phase = "up"
    BY <1>0, <2>7 DEF Recover, Servers
  <2>8. ASSUME (\E o \in Ops : HealthWindowPasses(o)) \/ FinishTurn \/ (\E w \in Works : AdmitTurn(w))
               \/ \E d \in Rows, b \in Boards, s \in Shas : PlanRelease(d, b, s)
        PROVE  UNCHANGED srv
    BY <2>8 DEF HealthWindowPasses, FinishTurn, AdmitTurn, PlanRelease, proc
  <2>9. CASE Boot
    <3>1. After
      BY <1>0, <2>5, <2>6, <2>7, <2>9 DEF Boot
    <3> QED BY <3>1
  <2> HIDE DEF After
  <2>10. srv'.phase = "stopping" => After
    BY DEF After
  <2> QED BY <1>4, <1>7, <2>1, <2>2, <2>3, <2>4, <2>5, <2>8, <2>9, <2>10 DEF Next
<1> HIDE DEF After
<1> QED BY <1>1, <1>2, <1>5, <1>6, <1>7
--------------------------------------------------------------------------------
(* Snapshots. *)

\* A snapshot that may be restored after a step could be restored before it, or was just taken.
LEMMA SnapStep ==
    ASSUME Invariant, Next, NEW o \in Ops, o \in SnapLive'
    PROVE  \/ o \in SnapLive /\ snap'[o] = snap[o] /\ From(o)' = From(o) /\ ~RestoreSnapshot(o)
           \/ /\ swc[o].pc = "snapshot" /\ srv.phase = "up" /\ snap'[o] = db /\ From(o)' = swc[o].from
              /\ UNCHANGED <<db, current, content, jr, sw, given, srv, closed, turn, prob>>
<1> DEFINE Same == o \in SnapLive /\ snap'[o] = snap[o] /\ From(o)' = From(o) /\ ~RestoreSnapshot(o)
           New  == /\ swc[o].pc = "snapshot" /\ srv.phase = "up" /\ snap'[o] = db /\ From(o)' = swc[o].from
                   /\ UNCHANGED <<db, current, content, jr, sw, given, srv, closed, turn, prob>>
<1>0. /\ swc \in [Ops -> Calls] /\ sw \in [Ops -> SWs] /\ jr \in [Ops -> Entries]
      /\ snap \in [Ops -> Databases \cup {<<>>}] /\ swc[o] \in Calls
      /\ swc[o].pc # "none" => CallOK(o)
  BY DEF Invariant, TypeOK, SWs, CallsOK, Callers
<1> DEFINE Kept2 == {"journal", "begin", "spawn"}
           Sws   == PreFlip \cup Flipped \cup {"restore"}
<1>1. /\ o \in SnapLive <=> swc[o].pc \in Kept2 \/ sw[o] \in Sws
      /\ swc'[o].pc \in Kept2 \/ sw'[o] \in Sws
      /\ From(o)' = IF swc'[o].pc # "none" THEN swc'[o].from ELSE jr'[o].from
  BY DEF SnapLive, Past, From
<1>2. sw[o] \in Sws => swc[o].pc = "none" /\ o \in Journaled /\ jr'[o].from = jr[o].from
  <2> SUFFICES ASSUME sw[o] \in Sws PROVE swc[o].pc = "none" /\ o \in Journaled
    BY JournalStep
  <2>1. o \in Active
    BY DEF Active, PreFlip, Flipped
  <2>2. jr[o].tail # "none"
    BY DEF Invariant, Switchers, PreFlip, Flipped
  <2> QED BY <2>1, <2>2, Alone DEF Journaled
<1>3. swc[o].pc # "none" => sw[o] = "none"
  BY <1>0 DEF CallOK
<1>4. "none" \notin Kept2 /\ "none" \notin Sws /\ "done" \notin Sws /\ "poll_old" \notin Sws
      /\ "census" \notin Kept2 /\ "drain" \notin Kept2 /\ "close" \notin Kept2 /\ "snapshot" \notin Kept2
      /\ "wait" \in Sws /\ "none" \notin Waiting
  BY DEF PreFlip, Flipped, Waiting
<1> HIDE DEF Kept2, Sws
<1>5. ASSUME snap'[o] = snap[o], swc'[o] = swc[o] \/ swc'[o].pc = "none",
             sw'[o] = sw[o] \/ (sw'[o] = "done" /\ swc'[o].pc = "none") \/ sw[o] \in Sws, ~RestoreSnapshot(o)
      PROVE  Same
  <2>1. swc[o].pc \in Kept2 \/ sw[o] \in Sws
    BY <1>1, <1>4, <1>5
  <2>2. CASE sw[o] \in Sws
    BY <1>1, <1>2, <1>4, <1>5, <2>2 DEF From
  <2>3. CASE sw[o] \notin Sws
    <3>1. swc[o].pc \in Kept2 /\ swc[o].pc # "none"
      BY <1>4, <2>1, <2>3
    <3>2. sw[o] = "none" /\ sw'[o] \notin Sws
      BY <1>3, <1>4, <1>5, <2>3, <3>1
    <3>3. swc'[o].pc \in Kept2
      BY <1>1, <3>2
    <3>4. swc'[o] = swc[o]
      BY <1>4, <1>5, <3>3
    <3> QED BY <1>1, <1>5, <3>1, <3>4 DEF From
  <2> QED BY <2>2, <2>3
<1>6. ASSUME UNCHANGED <<snap, swc, sw>> PROVE Same
  <2>1. ~RestoreSnapshot(o)
    BY <1>0, <1>6 DEF RestoreSnapshot, At
  <2> QED BY <1>5, <1>6, <2>1
<1>7. ASSUME NEW d \in Rows, Staging(d) PROVE Same
  BY <1>6, <1>7 DEF Staging, BeginStaging, StageSlot, StageDone, StageFailed, FinishStage, disk
<1>8. ASSUME NEW p \in Ops, NEW b \in Boards, RequestRollback(p, b) \/ RequestSwitch(p, b) PROVE Same
  <2>1. PICK k \in {"switch", "rollback"}, d \in Rows, t \in Rows : Started(p, k, d, t)
    BY <1>8, StartsOne
  <2>2. UNCHANGED <<snap, sw>> /\ swc'[o].pc \in {swc[o].pc, "census"}
        /\ (p # o => swc'[o] = swc[o])
    BY <1>0, <2>1 DEF Started, disk
  <2>3. ~RestoreSnapshot(o)
    BY <1>0, <2>2 DEF RestoreSnapshot, At
  <2>4. p # o
    <3> SUFFICES ASSUME p = o PROVE FALSE
      OBVIOUS
    <3>1. swc'[o].pc = "census" /\ sw[o] = "none"
      BY <1>0, <1>8, <2>1, StartsOne, UnusedIs DEF Started
    <3> QED BY <1>1, <1>4, <2>2, <3>1
  <2> QED BY <1>5, <2>2, <2>3, <2>4
<1>9. ASSUME NEW p \in Ops, Calling(p), p # o PROVE Same
  <2>1. swc'[o] = swc[o] /\ sw'[o] = sw[o] /\ snap'[o] = snap[o]
    BY <1>0, <1>9 DEF Calling, FirstCensus, Drain, FinalCensus, Snapshot, Handoff, BeginSwitching, SpawnSwitcher,
         Escape, disk, Step, Abort, Escaped
  <2>2. ~RestoreSnapshot(o)
    BY <1>0, <2>1 DEF RestoreSnapshot, At
  <2> QED BY <1>5, <2>1, <2>2
<1>10. ASSUME Calling(o) PROVE Same \/ New
  <2>0. swc[o].pc # "none" /\ sw[o] = "none" /\ CallOK(o) /\ ~RestoreSnapshot(o)
    BY <1>0, <1>3, <1>10, AbortsBeforeSpawn DEF RestoreSnapshot, At
  <2>1. CASE FirstCensus(o) \/ Drain(o) \/ FinalCensus(o)
    <3>1. sw' = sw /\ swc'[o].pc \in {"close", "drain", "snapshot", "none"}
      BY <1>0, <2>1 DEF FirstCensus, Drain, FinalCensus, Step, Abort, NoCall, Calls
    <3> QED BY <1>1, <1>4, <2>0, <3>1
  <2>2. CASE Snapshot(o)
    <3>1. sw' = sw /\ swc'[o].pc \in {"journal", "none"}
      BY <1>0, <2>2 DEF Snapshot, Step, Abort, NoCall, Calls
    <3>2. swc'[o].pc = "journal" /\ ~Abort(o)
      BY <1>0, <1>1, <1>4, <2>0, <3>1 DEF Abort, NoCall
    <3>3. snap'[o] = db /\ Step(o, "journal")
      BY <1>0, <2>2, <3>2 DEF Snapshot
    <3>4. swc'[o].from = swc[o].from
      BY <1>0, <3>3 DEF Step, Calls
    <3> QED BY <1>1, <2>2, <3>2, <3>3, <3>4 DEF Snapshot, Serving
  <2>3. CASE Handoff(o) \/ BeginSwitching(o)
    <3>1. sw' = sw /\ snap' = snap /\ swc[o].pc \in {"journal", "begin"}
          /\ (swc'[o].pc = "none" \/ (swc'[o].pc # "none" /\ swc'[o].from = swc[o].from))
      BY <1>0, <2>3 DEF Handoff, BeginSwitching, disk, Step, Abort, Escaped, NoCall, Calls
    <3>2. swc'[o].pc # "none"
      BY <1>1, <1>4, <2>0, <3>1
    <3>3. o \in SnapLive
      BY <3>1 DEF SnapLive, Past
    <3> QED BY <1>1, <2>0, <3>1, <3>2, <3>3 DEF From
  <2>4. CASE Escape(o)
    BY <1>0, <1>1, <1>4, <2>0, <2>4 DEF Escape, Escaped, NoCall, disk
  <2>5. CASE SpawnSwitcher(o)
    <3>1. snap' = snap /\ jr' = jr /\ swc[o].pc = "spawn" /\ swc'[o].pc = "none" /\ jr[o].from = swc[o].from
      BY <1>0, <2>0, <2>5 DEF SpawnSwitcher, disk, NoCall, CallOK
    <3>2. o \in SnapLive
      BY <3>1 DEF SnapLive, Past
    <3> QED BY <1>1, <2>0, <3>1, <3>2 DEF From
  <2> QED BY <1>10, <2>1, <2>2, <2>3, <2>4, <2>5 DEF Calling
<1>11. ASSUME NEW p \in Ops, Switcher(p) PROVE Same
  <2>1. /\ snap' = snap /\ (swc' = swc \/ \A q \in Ops : swc'[q].pc = "none")
        /\ \A q \in Ops \ {p} : sw'[q] = sw[q]
    BY <1>0, <1>11 DEF Switcher, OldWontDie, FlipDone, Flip, SwitchedOk, RollbackBegin, TerminateNew, FlipBack,
         RestoreSnapshot, RolledBack, RollbackIncomplete, SwitchError, PortHeld, proc, disk, Gone, At, NoCall
  <2>2. p \in Active
    BY <1>11, ActiveIs
  <2>3. sw[p] \in Sws \/ (sw[p] = "poll_old" /\ sw'[p] = "done")
    BY <1>0, <1>11 DEF Switcher, OldWontDie, FlipDone, Flip, SwitchedOk, RollbackBegin, TerminateNew, FlipBack,
         RestoreSnapshot, RolledBack, RollbackIncomplete, SwitchError, PortHeld, At, Sws, PreFlip, Flipped
  <2>4. CASE p # o
    <3>1. ~RestoreSnapshot(o)
      BY <1>0, <2>1, <2>4 DEF RestoreSnapshot, At
    <3> QED BY <1>5, <2>1, <2>4, <3>1
  <2>5. CASE p = o
    <3>1. swc[o].pc = "none" /\ swc'[o].pc = "none"
      BY <2>1, <2>2, <2>5, Alone
    <3>2. ~RestoreSnapshot(o)
      <4>1. RestoreSnapshot(o) => sw'[o] = "poll_old"
        BY <1>0 DEF RestoreSnapshot, At
      <4> QED BY <1>1, <1>4, <3>1, <4>1
    <3>3. sw[o] \in Sws
      BY <1>1, <1>4, <2>3, <2>5, <3>1
    <3> QED BY <1>5, <2>1, <3>1, <3>2, <3>3
  <2> QED BY <2>4, <2>5
<1>12. ASSUME Exit \/ Crash \/ BootFails PROVE Same
  <2>1. UNCHANGED <<snap, sw>> /\ swc'[o].pc = "none"
    BY <1>12 DEF Exit, Crash, BootFails, Gone, NoCall, disk
  <2>2. ~RestoreSnapshot(o)
    BY <1>0, <2>1 DEF RestoreSnapshot, At
  <2> QED BY <1>5, <2>1, <2>2
<1>13. ASSUME Reboot PROVE Same
  <2>1. UNCHANGED snap /\ swc'[o].pc = "none" /\ sw'[o] \in {"none", "done"}
    BY <1>13 DEF Reboot, Gone, NoCall, disk
  <2> QED BY <1>1, <1>4, <2>1
<1>14. ASSUME Restart \/ (\E p \in Ops : HealthWindowPasses(p)) \/ FinishTurn \/ (\E w \in Works : AdmitTurn(w))
              \/ (\E d \in Rows, b \in Boards, s \in Shas : PlanRelease(d, b, s))
              \/ (\E p \in Ops : Reconcile(p)) \/ InterruptStages \/ Recover \/ ProbationEnds
       PROVE  Same
  BY <1>6, <1>14 DEF Restart, HealthWindowPasses, FinishTurn, AdmitTurn, PlanRelease, Reconcile, InterruptStages,
       Recover, ProbationEnds, proc, disk
<1> HIDE DEF Same, New
<1>15. Same \/ New
  BY <1>7, <1>8, <1>9, <1>10, <1>11, <1>12, <1>13, <1>14 DEF Next, Boot
<1> QED BY <1>15 DEF Same, New

\* While a snapshot may be restored nothing is checked out.
LEMMA ContentStays ==
    ASSUME Invariant, Next, Active # {} \/ Closing # {} \/ ~Alive
    PROVE  content' = content
<1>1. ASSUME NEW d \in Rows, Staging(d) PROVE content' = content
  BY <1>1, NobodyStages DEF Staging, BeginStaging, StageSlot, StageDone, StageFailed, FinishStage, disk
<1>2. ASSUME NEW o \in Ops, NEW b \in Boards, RequestRollback(o, b) \/ RequestSwitch(o, b) PROVE content' = content
  BY <1>2, StartsOne DEF Started, disk
<1>3. ASSUME NEW o \in Ops, Calling(o) PROVE content' = content
  BY <1>3 DEF Calling, FirstCensus, Drain, FinalCensus, Snapshot, Handoff, BeginSwitching, SpawnSwitcher, Escape, disk
<1>4. ASSUME NEW o \in Ops, Switcher(o) PROVE content' = content
  BY <1>4 DEF Switcher, OldWontDie, FlipDone, Flip, SwitchedOk, RollbackBegin, TerminateNew, FlipBack,
       RestoreSnapshot, RolledBack, RollbackIncomplete, SwitchError, PortHeld, disk
<1> QED BY <1>1, <1>2, <1>3, <1>4 DEF Next, AdmitTurn, FinishTurn, PlanRelease, HealthWindowPasses, Exit, Crash,
        Reboot, Restart, Boot, BootFails, Reconcile, InterruptStages, Recover, ProbationEnds, disk

\* While one operation is alone, what the journal and the database say of the others stays.
LEMMA OthersStay ==
    ASSUME Invariant, Next, NEW o \in Ops, o \in Active \/ swc[o].pc \notin Waiting \cup {"none"},
           NEW p \in Ops \ {o}
    PROVE  /\ jr'[p] = jr[p] /\ sw'[p] \in {sw[p], "done"}
           /\ p \in Journaled /\ ~RestoreSnapshot(o) => db'.op[p] = db.op[p]
<1>1. p \notin Active /\ swc[p].pc \in Waiting \cup {"none"} /\ (p \in Journaled => p \notin Runs(db))
      /\ \A q \in Ops \ {o} : q \notin Active
  BY Alone
<1>2. ~Handoff(p) /\ ~SpawnSwitcher(p) /\ ~Switcher(p)
  BY <1>1, ActiveIs DEF Handoff, SpawnSwitcher, Waiting
<1>3. jr'[p] = jr[p] /\ sw'[p] \in {sw[p], "done"}
  BY <1>2, WhoWrites
<1>4. ASSUME p \in Journaled, ~RestoreSnapshot(o) PROVE db'.op[p] = db.op[p]
  <2>1. \A q \in Ops : ~RestoreSnapshot(q)
    <3> SUFFICES ASSUME NEW q \in Ops, RestoreSnapshot(q) PROVE FALSE
      OBVIOUS
    <3>1. q \in Active
      BY DEF RestoreSnapshot, At, Active
    <3> QED BY <1>1, <1>4, <3>1
  <2>2. ~OpAborts(p)
    <3> SUFFICES ASSUME OpAborts(p) PROVE FALSE
      OBVIOUS
    <3>1. swc[p].pc \in Waiting /\ CallOK(p)
      BY <1>1 DEF OpAborts, Invariant, CallsOK, Callers
    <3> QED BY <1>4, <3>1 DEF CallOK, Waiting
  <2> QED BY <1>1, <1>4, <2>1, <2>2, OpsStep DEF OpStarts, OpSettles
<1> QED BY <1>3, <1>4

\* So an excuse that another operation gives is not withdrawn.
LEMMA ExcuseStays ==
    ASSUME Invariant, Next, NEW o \in Ops, o \in Active \/ swc[o].pc \notin Waiting \cup {"none"},
           ~RestoreSnapshot(o), NEW p \in Ops \ {o}, Excuse(p)
    PROVE  Excuse(p)'
<1>1. p \in Journaled
  BY DEF Excuse, Journaled
<1>2. jr'[p] = jr[p] /\ db'.op[p] = db.op[p] /\ sw'[p] \in {sw[p], "done"}
  BY <1>1, OthersStay
<1> QED BY <1>2 DEF Excuse

\* Turns once asked for stay so.
LEMMA GivenGrows == ASSUME Next PROVE given \subseteq given'
<1>1. ASSUME NEW o \in Ops, Switcher(o) PROVE given' = given
  BY <1>1 DEF Switcher, OldWontDie, FlipDone, Flip, SwitchedOk, RollbackBegin, TerminateNew, FlipBack,
       RestoreSnapshot, RolledBack, RollbackIncomplete, SwitchError, PortHeld
<1>2. ASSUME NEW o \in Ops, Calling(o) PROVE given' = given
  BY <1>2 DEF Calling, FirstCensus, Drain, FinalCensus, Snapshot, Handoff, BeginSwitching, SpawnSwitcher, Escape
<1>3. ASSUME NEW o \in Ops, NEW b \in Boards, RequestRollback(o, b) \/ RequestSwitch(o, b) PROVE given' = given
  BY <1>3, StartsOne DEF Started
<1>4. ASSUME NEW d \in Rows, Staging(d) PROVE given' = given
  BY <1>4 DEF Staging, BeginStaging, StageSlot, StageDone, StageFailed, FinishStage
<1> QED BY <1>1, <1>2, <1>3, <1>4 DEF Next, AdmitTurn, FinishTurn, PlanRelease, HealthWindowPasses, Exit, Crash,
        Reboot, Restart, Boot, BootFails, Reconcile, InterruptStages, Recover, ProbationEnds

\* What a snapshot holds when it is taken: no lock, no stage and no other operation handed over.
LEMMA SnapTaken ==
    ASSUME Invariant, NEW o \in Ops, swc[o].pc = "snapshot"
    PROVE  /\ \A d \in Rows : db.row[d].dep \notin Locked /\ db.row[d].bound # o
                              /\ db.row[d].stage # "running"
           /\ o \in Runs(db) /\ Journaled \cap Runs(db) \subseteq {o} /\ o \notin Journaled
           /\ swc[o].from = current
           /\ LiveIs(db, current) \/ \E p \in Ops \ {o} : Excuse(p)
<1>1. /\ CallOK(o) /\ o \in Closing /\ swc[o].pc \notin Waiting \cup {"none"}
  BY DEF Invariant, CallsOK, Callers, Closing, Past, Waiting
<1>2. /\ srv.phase = "up" /\ swc[o].from = current /\ o \in Runs(db) /\ o \notin Journaled
      /\ \A d \in Rows : db.row[d].bound # o /\ db.row[d].stage # "running"
      /\ \A p \in Runs(db) \ {o} : swc[p].pc \in Waiting
  BY <1>1 DEF CallOK
<1>3. \A d \in Rows : db.row[d].dep # "staging"
  BY <1>2 DEF Invariant, Stages, Alive
<1>4. \A d \in Rows : db.row[d].dep # "switching"
  <2> SUFFICES ASSUME NEW d \in Rows, db.row[d].dep = "switching" PROVE FALSE
    OBVIOUS
  <2>1. db.row[d].bound \in Runs(db) \ {o}
    BY <1>2 DEF Invariant, Sound
  <2>2. swc[db.row[d].bound].pc \in Waiting /\ db.row[d].bound \in Ops
    BY <1>2, <2>1 DEF Runs
  <2> QED BY <2>2, CallerIs DEF Waiting
<1>5. LiveIs(db, current) \/ \E p \in Ops \ {o} : Excuse(p)
  <2>1. ~Excuse(o)
    BY <1>2 DEF Excuse, Journaled
  <2> QED BY <2>1 DEF Invariant, Served
<1> QED BY <1>1, <1>2, <1>3, <1>4, <1>5, Alone DEF Locked

\* Every step keeps the snapshots that may still be restored.
LEMMA SnapshotsStep ==
    ASSUME Invariant, Next
    PROVE  Snapshots'
<1> SUFFICES ASSUME NEW o \in Ops, o \in SnapLive'
             PROVE  /\ snap'[o] \in Databases /\ Sound(snap'[o]) /\ BuiltOn(snap'[o], content', jr')
                    /\ snap'[o].work \subseteq given'
                    /\ \A d \in Rows : snap'[o].row[d].dep \notin Locked /\ snap'[o].row[d].bound # o
                                       /\ snap'[o].row[d].stage # "running"
                    /\ o \in Runs(snap'[o]) /\ Journaled' \cap Runs(snap'[o]) \subseteq {o}
                    /\ \A p \in Journaled' \ {o} : snap'[o].op[p] = db'.op[p]
                    /\ (\E d \in LiveRows(snap'[o]) : snap'[o].row[d].slot = From(o)'
                                                      /\ content'[From(o)'] = snap'[o].row[d].sha)
                       \/ \E p \in Ops \ {o} : Excuse(p)'
  <2>1. SnapLive' \subseteq Ops
    BY DEF SnapLive
  <2> QED BY <2>1 DEF Snapshots, LiveIs, Built
<1>1. CASE o \in SnapLive /\ snap'[o] = snap[o] /\ From(o)' = From(o) /\ ~RestoreSnapshot(o)
  <2>0. /\ o \in SnapLive /\ snap'[o] = snap[o] /\ From(o)' = From(o) /\ ~RestoreSnapshot(o)
        /\ (o \in Active \/ swc[o].pc \notin Waiting \cup {"none"}) /\ (o \in Active \/ o \in Closing)
    BY <1>1, SnapLiveIs
  <2>1. /\ snap[o] \in Databases /\ Sound(snap[o]) /\ BuiltOn(snap[o], content, jr) /\ snap[o].work \subseteq given
        /\ \A d \in Rows : snap[o].row[d].dep \notin Locked /\ snap[o].row[d].bound # o
                           /\ snap[o].row[d].stage # "running"
        /\ o \in Runs(snap[o]) /\ Journaled \cap Runs(snap[o]) \subseteq {o}
        /\ \A p \in Journaled \ {o} : snap[o].op[p] = db.op[p]
        /\ LiveIs(snap[o], From(o)) \/ \E p \in Ops \ {o} : Excuse(p)
    BY <2>0 DEF Invariant, Snapshots, Built
  <2>2. content' = content
    BY <2>0, ContentStays
  <2>3. \A p \in Journaled' \ {o} : p \in Journaled
    BY <2>0, OthersStay DEF Journaled
  <2>4. \A p \in Journaled' \ {o} : snap[o].op[p] = db'.op[p]
    <3> SUFFICES ASSUME NEW p \in Journaled' \ {o} PROVE snap[o].op[p] = db'.op[p]
      OBVIOUS
    <3>1. p \in Journaled \ {o} /\ p \in Ops \ {o}
      BY <2>3 DEF Journaled
    <3> QED BY <2>0, <2>1, <3>1, OthersStay
  <2>5. \A p \in Ops \ {o} : Excuse(p) => Excuse(p)'
    BY <2>0, ExcuseStays
  <2>6. BuiltOn(snap[o], content', jr')
    <3>1. \A p \in Ops : jr[p].tail # "none" => jr'[p].tail # "none" /\ jr'[p].to = jr[p].to
                                                  /\ jr'[p].new = jr[p].new
      BY JournalStep DEF Journaled
    <3> DEFINE c == content'
               k == jr'
    <3>2. BuiltOn(snap[o], c, jr)
      BY <2>1, <2>2
    <3>3. \A p \in Ops : jr[p].tail # "none" => k[p].tail # "none" /\ k[p].to = jr[p].to /\ k[p].new = jr[p].new
      BY <3>1
    <3> HIDE DEF c, k
    <3>4. BuiltOn(snap[o], c, k)
      BY <3>2, <3>3, BuiltKept
    <3> QED BY <3>4 DEF c, k
  <2>7. Journaled' \cap Runs(snap[o]) \subseteq {o}
    BY <2>1, <2>3
  <2>8. given \subseteq given'
    BY GivenGrows
  <2>9. \/ \E d \in LiveRows(snap[o]) : snap[o].row[d].slot = From(o) /\ content[From(o)] = snap[o].row[d].sha
        \/ \E p \in Ops \ {o} : Excuse(p)'
    BY <2>1, <2>5 DEF LiveIs
  <2> QED BY <2>0, <2>1, <2>2, <2>4, <2>6, <2>7, <2>8, <2>9
<1>2. CASE /\ swc[o].pc = "snapshot" /\ srv.phase = "up" /\ snap'[o] = db /\ From(o)' = swc[o].from
           /\ UNCHANGED <<db, current, content, jr, sw, given, srv, closed, turn, prob>>
  <2>1. /\ \A d \in Rows : db.row[d].dep \notin Locked /\ db.row[d].bound # o /\ db.row[d].stage # "running"
        /\ o \in Runs(db) /\ Journaled \cap Runs(db) \subseteq {o}
        /\ From(o)' = current
        /\ LiveIs(db, current) \/ \E p \in Ops \ {o} : Excuse(p)
    BY <1>2, SnapTaken
  <2>2. /\ db \in Databases /\ db.work \subseteq given /\ Sound(db) /\ BuiltOn(db, content, jr)
    BY DEF Invariant, TypeOK, Built
  <2>3. /\ Journaled' = Journaled /\ \A p \in Ops : Excuse(p) => Excuse(p)'
    BY <1>2 DEF Journaled, Excuse
  <2>4. \/ \E d \in LiveRows(db) : db.row[d].slot = current /\ content[current] = db.row[d].sha
        \/ \E p \in Ops \ {o} : Excuse(p)'
    BY <2>1, <2>3 DEF LiveIs
  <2>5. \A p \in Journaled' \ {o} : db.op[p] = db'.op[p]
    BY <1>2
  <2> QED BY <1>2, <2>1, <2>2, <2>3, <2>4, <2>5
<1> QED BY <1>1, <1>2, SnapStep
--------------------------------------------------------------------------------
(* What is live is what is served. *)

\* A switch that went well makes its row live, and that row names what serves now.
LEMMA AppliedLive ==
    ASSUME Invariant, NEW o \in Runs(db), jr[o].tail = "switched_ok", db' = Applied(db, o)
    PROVE  \E d \in LiveRows(db') : db'.row[d].slot = current /\ content[current] = db'.row[d].sha
<1>1. /\ o \in Ops /\ db \in Databases
      /\ jr[o].to = current /\ content[current] = jr[o].new
      /\ \E d \in Rows : db.row[d].bound = o /\ db.row[d].slot = jr[o].to /\ db.row[d].sha = jr[o].new
      /\ \A d, e \in Rows : db.row[d].bound = o /\ db.row[e].bound = o => d = e
  BY DEF Runs, Invariant, TypeOK, Journals, Sound, Locked
<1>2. Outcome(o).row = "live"
  BY <1>1, AppliedIs
<1>3. PICK d \in Rows : db.row[d].bound = o /\ db.row[d].slot = jr[o].to /\ db.row[d].sha = jr[o].new
  BY <1>1
<1>4. Located(db, o) = {d}
  BY <1>1, <1>3, LocatedRows
<1>5. Taken(db.row[d], db'.row[d], o, "live")
  <2> DEFINE D == db
             E == db'
  <2>1. D \in Databases /\ E = Applied(D, o) /\ Located(D, o) = {d}
    BY <1>1, <1>4
  <2> HIDE DEF D, E
  <2>2. o \in Ops
    BY <1>1
  <2>3. PICK e \in Located(D, o) : Taken(D.row[e], E.row[e], o, Outcome(o).row)
    <3>1. Located(D, o) # {}
      BY <2>1
    <3> QED BY ONLY <2>1, <2>2, <3>1, AppliedRows, ZenonT(40)
  <2>4. e = d
    BY <2>1
  <2>5. Taken(D.row[d], E.row[d], o, "live")
    BY <1>2, <2>3, <2>4
  <2> QED BY <2>5 DEF D, E
<1> QED BY <1>1, <1>3, <1>5 DEF Taken, SameSpot, LiveRows

\* A row is live until a switch that went well makes another one live.
LEMMA LiveStays ==
    ASSUME Invariant, Next, \A o \in Ops : ~RestoreSnapshot(o), NEW d \in Rows, db.row[d].dep = "live"
    PROVE  \/ db'.row[d].dep = "live" /\ SameSpot(db.row[d], db'.row[d])
           \/ \E o \in Runs(db) : jr[o].tail = "switched_ok" /\ db' = Applied(db, o)
<1> DEFINE Stays == db'.row[d].dep = "live" /\ SameSpot(db.row[d], db'.row[d])
           Gives == \E o \in Runs(db) : jr[o].tail = "switched_ok" /\ db' = Applied(db, o)
<1>0. /\ TypeOK /\ db \in Databases /\ Sound(db) /\ swc \in [Ops -> Calls] /\ prob \in Ops \cup {NoOp}
  BY DEF Invariant, TypeOK
<1>a. ASSUME db'.row = db.row PROVE Stays
  BY <1>a DEF SameSpot
<1>1. ASSUME FinishTurn \/ \E w \in Works : AdmitTurn(w) PROVE Stays
  <2>1. db'.row = db.row
    BY <1>0, <1>1 DEF AdmitTurn, FinishTurn, Databases
  <2> QED BY <2>1, <1>a
<1>2. ASSUME NEW e \in Rows, NEW b \in Boards, NEW s \in Shas, PlanRelease(e, b, s) PROVE Stays
  <2>1. e # d
    BY <1>0, <1>2, PlanReleaseWrites DEF Sound
  <2> QED BY <1>0, <1>2, <2>1, PlanReleaseWrites DEF Kept, SameSpot
<1>3. ASSUME NEW e \in Rows, Staging(e) PROVE Stays
  <2>1. CASE BeginStaging(e)
    <3>1. db.row[e].dep = "absent"
      BY <2>1 DEF BeginStaging, Invariant, Stages
    <3>2. e # d
      BY <3>1
    <3> QED BY <1>0, <2>1, <3>2, BeginStagingWrites DEF SameSpot
  <2>2. CASE FinishStage(e)
    BY <1>0, <2>2, FinishStageWrites DEF OneRow, SameSpot
  <2>3. CASE StageDone(e) \/ StageFailed(e)
    <3>1. db.row[e].dep = "staging"
      BY <2>3 DEF StageDone, StageFailed, Invariant, Stages
    <3> QED BY <1>0, <2>3, <3>1, StageEndsWrites DEF OneRow, SameSpot
  <2>4. CASE StageSlot(e)
    BY <1>a, <2>4 DEF StageSlot
  <2> QED BY <1>3, <2>1, <2>2, <2>3, <2>4 DEF Staging
<1>4. ASSUME NEW o \in Ops, NEW b \in Boards, RequestRollback(o, b) \/ RequestSwitch(o, b) PROVE Stays
  <2>1. PICK k \in {"switch", "rollback"}, g \in Rows, t \in Rows : Started(o, k, g, t)
    BY <1>4, StartsOne
  <2> QED BY <1>0, <1>a, <2>1, StartedWrites DEF OnlyOps
<1>5. ASSUME NEW o \in Ops, Calling(o) PROVE Stays
  <2>1. CASE ~BeginSwitching(o)
    BY <1>0, <1>5, <1>a, <2>1, AbortsBeforeSpawn, AbortWrites DEF OnlyOps
  <2>2. CASE BeginSwitching(o)
    <3> DEFINE t == swc[o].target
    <3>1. t \in Rows
      BY <2>2, CallerIs DEF BeginSwitching
    <3>2. \/ db'.row = db.row
          \/ OneRow(t) /\ db.row[t].dep \in {"staged", "superseded"}
      BY <1>0, <2>2, <3>1, BeginSwitchingWrites DEF OnlyOps
    <3> HIDE DEF t
    <3> QED BY <1>a, <3>2 DEF OneRow, SameSpot
  <2> QED BY <2>1, <2>2
<1>6. ASSUME NEW o \in Ops, Switcher(o) PROVE Stays
  BY <1>6, <1>a DEF Switcher, OldWontDie, FlipDone, Flip, SwitchedOk, RollbackBegin, TerminateNew, FlipBack,
               RolledBack, RollbackIncomplete, SwitchError, PortHeld
<1>7. ASSUME Exit \/ Crash \/ Reboot \/ Restart \/ BootFails \/ \E o \in Ops : HealthWindowPasses(o)
      PROVE  Stays
  BY <1>7, <1>a DEF Exit, Crash, Reboot, Restart, BootFails, HealthWindowPasses
<1>8. ASSUME NEW o \in Runs(db), db' = Applied(db, o), jr[o].tail # "switched_ok" PROVE Stays
  <2> DEFINE E == db'
             D == db
  <2>1. E = Applied(D, o) /\ D \in Databases /\ o \in Ops /\ D.row[d].dep = "live"
        /\ \A e \in Rows : D.row[e].bound = o => D.row[e].dep = "switching"
    BY <1>0, <1>8 DEF Runs, Sound
  <2> HIDE DEF E, D
  <2>2. Outcome(o).row # "live"
    BY <1>8, <2>1, AppliedIs
  <2>3. d \notin Located(D, o)
    BY <2>1, LocatedRows
  <2>4. E.row[d].dep = "live" /\ SameSpot(D.row[d], E.row[d])
    <3>1. CASE Located(D, o) = {}
      BY <2>1, <3>1, AppliedRows
    <3>2. CASE Located(D, o) # {}
      <4>1. Passed(D.row[d], E.row[d], Outcome(o).row)
        <5>1. PICK e \in Located(D, o) : \A g \in Rows \ {e} : Passed(D.row[g], E.row[g], Outcome(o).row)
          BY <2>1, <3>2, AppliedRows
        <5> QED BY <2>3, <5>1
      <4> QED BY <2>1, <2>2, <4>1 DEF Passed
    <3> QED BY <3>1, <3>2
  <2> QED BY <2>4 DEF E, D
<1>9. ASSUME Boot PROVE Stays \/ Gives
  <2>1. CASE InterruptStages \/ Recover
    BY <1>0, <2>1, InterruptStagesWrites, RecoverWrites
  <2>2. CASE \E o \in Ops : Reconcile(o)
    BY <1>8, <1>a, <2>2 DEF Reconcile, Runs
  <2>3. CASE ProbationEnds
    <3>1. prob \in Runs(db) /\ db' = Applied(db, prob)
      BY <1>0, <2>3 DEF ProbationEnds, Invariant, Probation
    <3> QED BY <1>8, <3>1
  <2> QED BY <1>9, <1>7, <2>1, <2>2, <2>3 DEF Boot
<1> HIDE DEF Stays, Gives
<1>10. Stays \/ Gives
  BY <1>1, <1>2, <1>3, <1>4, <1>5, <1>6, <1>7, <1>9 DEF Next
<1> QED BY <1>10 DEF Stays, Gives

\* A switch in doubt stays in doubt until its verdict makes a row live or the database restored
\* has the old one.
LEMMA DoubtStays ==
    ASSUME Invariant, Next, \A q \in Ops : ~RestoreSnapshot(q), NEW o \in Ops, Excuse(o)
    PROVE  \/ Excuse(o)'
           \/ o \in Runs(db) /\ jr[o].tail = "switched_ok" /\ db' = Applied(db, o) /\ UNCHANGED disk
<1>0. /\ jr \in [Ops -> Entries] /\ sw \in [Ops -> SWs] /\ o \in Journaled /\ jr[o].tail # "handoff"
      /\ swc[o].pc # "none" => CallOK(o)
  BY DEF Invariant, TypeOK, SWs, Excuse, Journaled, CallsOK, Callers
<1>1. swc[o].pc = "none"
  <2> SUFFICES ASSUME swc[o].pc # "none" PROVE FALSE
    OBVIOUS
  <2>1. CallOK(o) /\ swc[o].pc \in {"begin", "spawn"}
    BY <1>0 DEF CallOK
  <2> QED BY <1>0, <2>1 DEF CallOK
<1>2. ~Handoff(o) /\ ~SpawnSwitcher(o) /\ ~OpAborts(o)
  BY <1>1 DEF Handoff, SpawnSwitcher, OpAborts
<1>3. CASE Switcher(o)
  <2>0. /\ sw[o] # "wait" /\ (sw[o] = "poll_old" => jr[o].tail = "rollback_begin")
        /\ (sw[o] \in {"flip", "poll"} => jr[o].tail = "flip_done")
        /\ (sw[o] \in {"kill", "flip_back"} => jr[o].tail = "rollback_begin")
    BY <1>0 DEF Invariant, Switchers
  <2>1. ~SwitchError(o) /\ ~OldWontDie(o) /\ ~FlipDone(o)
    BY <2>0 DEF SwitchError, OldWontDie, FlipDone, At
  <2>2. ~RolledBack(o) /\ ~RollbackIncomplete(o)
    BY <2>0 DEF RolledBack, RollbackIncomplete, At, Excuse
  <2>3. CASE Flip(o) \/ TerminateNew(o) \/ FlipBack(o)
    BY <1>0, <2>3 DEF Flip, TerminateNew, FlipBack, At, disk, Excuse
  <2>4. CASE SwitchedOk(o) \/ RollbackBegin(o) \/ PortHeld(o)
    <3>1. jr[o].tail \in {"flip_done", "rollback_begin"}
      BY <2>0, <2>4 DEF SwitchedOk, RollbackBegin, PortHeld, At
    <3>2. db.op[o].state \in {"running", "interrupted"}
      BY <3>1 DEF Excuse
    <3> QED BY <1>0, <2>4, <3>2 DEF SwitchedOk, RollbackBegin, PortHeld, At, Journal, Entries, Excuse
  <2> QED BY <1>3, <2>1, <2>2, <2>3, <2>4 DEF Switcher
<1>4. CASE ~Switcher(o)
  <2>1. jr'[o] = jr[o] /\ sw'[o] \in {sw[o], "done"}
    BY <1>2, <1>4, WhoWrites
  <2>2. db'.op[o] = db.op[o] \/ OpSettles(o)
    BY <1>0, <1>2, OpsStep DEF OpStarts
  <2>3. CASE db'.op[o] = db.op[o]
    BY <2>1, <2>3 DEF Excuse
  <2>4. CASE OpSettles(o)
    <3>1. o \in Runs(db) /\ db' = Applied(db, o) /\ db'.op[o].state = Outcome(o).op /\ UNCHANGED disk
      BY <2>4 DEF OpSettles, Reconcile, ProbationEnds
    <3>2. CASE jr[o].tail \in {"flip_done", "rollback_begin"}
      <4>1. db'.op[o].state = "interrupted"
        BY <3>1, <3>2, AppliedIs DEF Invariant, TypeOK
      <4>2. sw[o] # "poll_old"
        BY <3>2 DEF Excuse
      <4> QED BY <2>1, <3>2, <4>1, <4>2 DEF Excuse
    <3>3. CASE jr[o].tail = "rollback_incomplete"
      BY <2>1, <3>3 DEF Excuse
    <3>4. CASE jr[o].tail = "switched_ok"
      BY <3>1, <3>4
    <3> QED BY <3>2, <3>3, <3>4 DEF Excuse
  <2> QED BY <2>2, <2>3, <2>4
<1> QED BY <1>3, <1>4

\* Every step keeps something that serves live, or a switch in doubt.
LEMMA ServedStep ==
    ASSUME Invariant, Next
    PROVE  Served'
<1> SUFFICES \/ \E d \in LiveRows(db') : db'.row[d].slot = current' /\ content'[current'] = db'.row[d].sha
             \/ \E o \in Ops : Excuse(o)'
  BY DEF Served, LiveIs
<1>1. ASSUME NEW o \in Ops, RestoreSnapshot(o)
      PROVE  \/ \E d \in LiveRows(db') : db'.row[d].slot = current' /\ content'[current'] = db'.row[d].sha
             \/ \E p \in Ops : Excuse(p)'
  <2>1. /\ sw \in [Ops -> SWs] /\ sw[o] = "restore" /\ db' = snap[o] /\ UNCHANGED <<current, content, jr>>
        /\ \A p \in Ops \ {o} : sw'[p] = sw[p]
    BY <1>1 DEF RestoreSnapshot, At, disk, Invariant, TypeOK, SWs
  <2>2. o \in SnapLive /\ o \in Active /\ swc[o].pc = "none" /\ jr[o].from = current
    <3>1. o \in SnapLive /\ o \in Active
      BY <2>1 DEF SnapLive, Active
    <3> QED BY <2>1, <3>1, Alone DEF Invariant, Switchers
  <2>3. /\ LiveIs(snap[o], current) \/ \E p \in Ops \ {o} : Excuse(p)
        /\ \A p \in Journaled \ {o} : snap[o].op[p] = db.op[p]
    BY <2>2 DEF Invariant, Snapshots, From
  <2>4. ASSUME NEW p \in Ops \ {o}, Excuse(p) PROVE Excuse(p)'
    <3>1. p \in Journaled
      BY <2>4 DEF Excuse, Journaled
    <3> QED BY <2>1, <2>3, <2>4, <3>1 DEF Excuse
  <2> QED BY <2>1, <2>3, <2>4 DEF LiveIs
<1>2. ASSUME \A o \in Ops : ~RestoreSnapshot(o),
             NEW o \in Runs(db), jr[o].tail = "switched_ok", db' = Applied(db, o), current' = current
      PROVE  \E d \in LiveRows(db') : db'.row[d].slot = current' /\ content'[current'] = db'.row[d].sha
  BY <1>2, AppliedLive, WhoWrites
<1>3. ASSUME \A o \in Ops : ~RestoreSnapshot(o), NEW o \in Ops, Excuse(o)
      PROVE  \/ \E d \in LiveRows(db') : db'.row[d].slot = current' /\ content'[current'] = db'.row[d].sha
             \/ \E p \in Ops : Excuse(p)'
  <2>1. CASE Excuse(o)'
    BY <2>1
  <2>2. CASE o \in Runs(db) /\ jr[o].tail = "switched_ok" /\ db' = Applied(db, o) /\ UNCHANGED disk
    <3>1. current' = current
      BY <2>2 DEF disk
    <3> QED BY <1>2, <1>3, <2>2, <3>1
  <2> QED BY <1>3, <2>1, <2>2, DoubtStays
<1>4. ASSUME \A o \in Ops : ~RestoreSnapshot(o), LiveIs(db, current)
      PROVE  \/ \E d \in LiveRows(db') : db'.row[d].slot = current' /\ content'[current'] = db'.row[d].sha
             \/ \E p \in Ops : Excuse(p)'
  <2>1. PICK d \in Rows : db.row[d].dep = "live" /\ db.row[d].slot = current /\ content[current] = db.row[d].sha
    BY <1>4 DEF LiveIs, LiveRows
  <2>2. CASE \E o \in Ops : Flip(o) \/ FlipBack(o)
    <3>1. PICK o \in Ops : Flip(o) \/ FlipBack(o)
      BY <2>2
    <3>2. Excuse(o)
      BY <3>1 DEF Flip, FlipBack, At, Excuse, Invariant, Switchers, Journals
    <3> QED BY <1>3, <1>4, <3>2
  <2>3. CASE current' = current
    <3>1. content'[current'] = content[current]
      BY <2>3, WhoWrites
    <3>2. CASE db'.row[d].dep = "live" /\ SameSpot(db.row[d], db'.row[d])
      BY <2>1, <2>3, <3>1, <3>2 DEF SameSpot, LiveRows
    <3>3. CASE \E o \in Runs(db) : jr[o].tail = "switched_ok" /\ db' = Applied(db, o)
      BY <1>2, <1>4, <2>3, <3>3
    <3> QED BY <1>4, <2>1, <3>2, <3>3, LiveStays
  <2> QED BY <2>2, <2>3, WhoWrites
<1> QED BY <1>1, <1>3, <1>4 DEF Invariant, Served
--------------------------------------------------------------------------------
(* A restored snapshot has all that users did. *)

\* Before the verdict the journal of a switcher at work holds none, and a server that boots is
\* the one it started.
LEMMA AtWork ==
    ASSUME Invariant, NEW o \in SnapLive \ aged
    PROVE  /\ jr[o].tail \notin Verdicts \/ sw[o] = "none"
           /\ sw[o] = "none" => o \in Closing /\ srv.phase = "up" /\ prob = NoOp /\ closed /\ o \in Runs(db)
           /\ srv.phase = "boot" => sw[o] = "poll" /\ o \in Runs(db) /\ OnProbation(o) /\ o \in Active
           /\ sw[o] = "none" \/ sw[o] \in {"wait", "flip", "poll", "kill", "flip_back", "restore"}
<1>1. /\ o \in Ops /\ (o \in Active \/ o \in Closing)
      /\ sw[o] = "none" \/ sw[o] \in {"wait", "flip", "poll", "kill", "flip_back", "restore"}
  <2>1. o \in Ops /\ (o \in Active \/ o \in Closing)
    BY SnapLiveIs
  <2>2. o \in Closing => sw[o] = "none"
    BY <2>1 DEF Closing, Callers, Invariant, CallsOK, CallOK, Past
  <2> QED BY <2>1, <2>2 DEF SnapLive, PreFlip, Flipped, Closing, Past
<1>2. sw[o] = "none" => o \in Closing /\ srv.phase = "up" /\ prob = NoOp /\ closed /\ o \in Runs(db)
  BY <1>1 DEF Active, Closing, Callers, Invariant, CallsOK, CallOK, Past
<1>3. jr[o].tail \notin Verdicts \/ sw[o] = "none"
  BY <1>1 DEF Invariant, Switchers, Verdicts
<1>4. srv.phase = "boot" => sw[o] = "poll" /\ o \in Runs(db) /\ OnProbation(o) /\ o \in Active
  <2> SUFFICES ASSUME srv.phase = "boot" PROVE sw[o] = "poll" /\ o \in Runs(db) /\ OnProbation(o)
    BY <1>1, <1>2 DEF Active
  <2>1. sw[o] \in {"wait", "flip", "poll", "kill", "flip_back", "restore"} /\ sw[o] # "kill"
    BY <1>1, <1>2 DEF Invariant, WorkKept
  <2>2. sw[o] = "poll" /\ jr[o].tail = "flip_done"
    BY <1>1, <2>1 DEF Invariant, Switchers
  <2> QED BY <2>2 DEF OnProbation, Invariant, WorkKept
<1> QED BY <1>1, <1>2, <1>3, <1>4

\* A health window that is over stays over.
LEMMA AgedGrows == ASSUME Next PROVE aged \subseteq aged'
<1>1. ASSUME NEW o \in Ops, Switcher(o) PROVE aged' = aged
  BY <1>1 DEF Switcher, OldWontDie, FlipDone, Flip, SwitchedOk, RollbackBegin, TerminateNew, FlipBack,
       RestoreSnapshot, RolledBack, RollbackIncomplete, SwitchError, PortHeld, disk
<1>2. ASSUME NEW o \in Ops, Calling(o) PROVE aged' = aged
  BY <1>2 DEF Calling, FirstCensus, Drain, FinalCensus, Snapshot, Handoff, BeginSwitching, SpawnSwitcher, Escape,
       disk
<1>3. ASSUME NEW o \in Ops, NEW b \in Boards, RequestRollback(o, b) \/ RequestSwitch(o, b) PROVE aged' = aged
  BY <1>3, StartsOne DEF Started, disk
<1>4. ASSUME NEW d \in Rows, Staging(d) PROVE aged' = aged
  BY <1>4 DEF Staging, BeginStaging, StageSlot, StageDone, StageFailed, FinishStage, disk
<1> QED BY <1>1, <1>2, <1>3, <1>4 DEF Next, AdmitTurn, FinishTurn, PlanRelease, HealthWindowPasses, Exit, Crash,
        Reboot, Restart, Boot, BootFails, Reconcile, InterruptStages, Recover, ProbationEnds, disk

\* Every step keeps users' work within the snapshot.
LEMMA WorkKeptStep ==
    ASSUME Invariant, Next
    PROVE  WorkKept'
<1> SUFFICES ASSUME NEW o \in Ops, o \in SnapLive', o \notin aged'
             PROVE  /\ db'.work \subseteq snap'[o].work /\ turn' = "none"
                    /\ sw'[o] \in {"wait", "flip", "poll", "kill"} => o \in Runs(db')
                    /\ srv'.phase = "up" => closed'
                    /\ srv'.phase = "up" /\ sw'[o] # "none" => prob' = o
                    /\ srv'.phase = "boot" /\ o < srv'.at => prob' = o
                    /\ sw'[o] = "kill" => srv'.phase = "down"
  <2>1. SnapLive' \subseteq Ops
    BY DEF SnapLive
  <2> QED BY <2>1 DEF WorkKept, Runs
<1> DEFINE Good == /\ db'.work \subseteq snap'[o].work /\ turn' = "none"
                   /\ sw'[o] \in {"wait", "flip", "poll", "kill"} => o \in Runs(db')
                   /\ srv'.phase = "up" => closed'
                   /\ srv'.phase = "up" /\ sw'[o] # "none" => prob' = o
                   /\ srv'.phase = "boot" /\ o < srv'.at => prob' = o
                   /\ sw'[o] = "kill" => srv'.phase = "down"
<1>0. /\ TypeOK /\ db \in Databases /\ swc \in [Ops -> Calls] /\ sw \in [Ops -> SWs] /\ jr \in [Ops -> Entries]
      /\ srv \in Servers /\ prob \in Ops \cup {NoOp} /\ o \notin aged
      /\ Ops = 1..Switches /\ Switches \in Nat /\ srv.at \in Int
  BY AgedGrows, BoundsAssumption DEF Invariant, TypeOK, SWs, Servers, Ops
<1>1. CASE /\ swc[o].pc = "snapshot" /\ srv.phase = "up" /\ snap'[o] = db /\ From(o)' = swc[o].from
           /\ UNCHANGED <<db, current, content, jr, sw, given, srv, closed, turn, prob>>
  <2>1. o \in Closing /\ CallOK(o)
    BY <1>1 DEF Closing, Past, Invariant, CallsOK, Callers
  <2>2. turn = "none" /\ closed /\ sw[o] = "none" /\ o \in Runs(db)
    BY <2>1 DEF CallOK
  <2> QED BY <1>1, <2>2
<1>2. CASE o \in SnapLive /\ snap'[o] = snap[o] /\ From(o)' = From(o) /\ ~RestoreSnapshot(o)
  <2>0. /\ snap'[o] = snap[o] /\ ~RestoreSnapshot(o) /\ o \in SnapLive \ aged
        /\ (o \in Active \/ swc[o].pc \notin Waiting \cup {"none"}) /\ (o \in Active \/ o \in Closing)
    BY <1>0, <1>2, SnapLiveIs
  <2>1. /\ db.work \subseteq snap[o].work /\ turn = "none"
        /\ sw[o] \in {"wait", "flip", "poll", "kill"} => o \in Runs(db)
        /\ srv.phase = "up" => closed
        /\ srv.phase = "up" /\ sw[o] # "none" => prob = o
        /\ srv.phase = "boot" /\ o < srv.at => prob = o
        /\ sw[o] = "kill" => srv.phase = "down"
    BY <2>0 DEF Invariant, WorkKept
  <2>a. ASSUME UNCHANGED <<sw, srv, closed, prob, turn>>, db'.work = db.work, o \in Runs(db) => o \in Runs(db')
        PROVE  Good
    BY <2>0, <2>1, <2>a
  <2>2. ~(\E w \in Works : AdmitTurn(w)) /\ ~FinishTurn
        /\ ~(\E d \in Rows, b \in Boards, s \in Shas : PlanRelease(d, b, s))
    BY <2>1 DEF AdmitTurn, FinishTurn, PlanRelease, Asked, Serving
  <2>3. ~(\E d \in Rows : Staging(d))
    <3> SUFFICES ASSUME NEW d \in Rows, Staging(d) PROVE FALSE
      OBVIOUS
    <3>1. stg[d] = "none"
      BY <2>0, NobodyStages
    <3> QED BY <3>1 DEF Staging, BeginStaging, StageSlot, StageDone, StageFailed, FinishStage
  <2>4. ASSUME NEW p \in Ops, NEW b \in Boards, RequestRollback(p, b) \/ RequestSwitch(p, b) PROVE Good
    <3>1. PICK k \in {"switch", "rollback"}, d \in Rows, t \in Rows : Started(p, k, d, t)
      BY <2>4, StartsOne
    <3>2. OnlyOps /\ db'.op[p].state = "running" /\ \A q \in Ops \ {p} : db'.op[q] = db.op[q]
      BY <1>0, <3>1, StartedWrites
    <3> QED BY <2>a, <3>1, <3>2 DEF Started, OnlyOps, Runs
  <2>5. ASSUME NEW p \in Ops, p # o, Calling(p) PROVE Good
    <3>1. swc[p].pc \in Waiting
      BY <2>0, <2>5, Alone, AbortsBeforeSpawn
    <3>2. FirstCensus(p) \/ Drain(p)
      BY <2>5, <3>1 DEF Calling, FinalCensus, Snapshot, Handoff, BeginSwitching, SpawnSwitcher, Escape, Waiting
    <3>3. UNCHANGED <<sw, srv, closed, prob, turn>> /\ (UNCHANGED db \/ Abort(p))
      BY <3>2 DEF FirstCensus, Drain
    <3>4. db'.work = db.work /\ db'.op[o] = db.op[o]
      BY <1>0, <2>5, <3>3, AbortWrites DEF OnlyOps
    <3> QED BY <2>a, <3>3, <3>4 DEF Runs
  <2>6. ASSUME Calling(o) PROVE Good
    <3>0. swc[o].pc \notin {"none", "census", "drain", "close", "snapshot"} /\ sw[o] = "none" /\ o \in Runs(db)
      <4>1. swc[o].pc # "none"
        BY <2>6, AbortsBeforeSpawn
      <4>2. CallOK(o)
        BY <4>1 DEF Invariant, CallsOK, Callers
      <4> QED BY <2>0, <4>1, <4>2 DEF CallOK, SnapLive, Past, PreFlip, Flipped
    <3>1. ASSUME swc'[o].pc = "none", sw' = sw PROVE FALSE
      BY <3>0, <3>1 DEF SnapLive, Past, PreFlip, Flipped
    <3>2. CASE Handoff(o)
      BY <2>a, <3>2 DEF Handoff
    <3>3. CASE SpawnSwitcher(o)
      <4>1. srv'.phase = "stopping" /\ db' = db /\ sw'[o] = "wait" /\ turn' = turn
        BY <1>0, <3>3 DEF SpawnSwitcher, Servers
      <4> QED BY <2>0, <2>1, <3>0, <4>1
    <3>4. CASE BeginSwitching(o)
      <4>1. swc[o].target \in Rows /\ sw' = sw
        BY <3>4, CallerIs DEF BeginSwitching
      <4>2. ~Abort(o) /\ ~Escaped(o)
        BY <1>0, <3>1, <4>1 DEF Abort, Escaped, NoCall
      <4>3. db'.work = db.work /\ db'.op = db.op /\ closed' = closed
        BY <1>0, <3>4, <4>1, <4>2, BeginSwitchingWrites DEF OneRow, OnlyRows
      <4> QED BY <2>a, <3>4, <4>1, <4>3 DEF BeginSwitching, Runs
    <3>5. ~Escape(o)
      BY <1>0, <3>1 DEF Escape, Escaped, NoCall
    <3> QED BY <2>6, <3>0, <3>2, <3>3, <3>4, <3>5
           DEF Calling, FirstCensus, Drain, FinalCensus, Snapshot
  <2>7. ASSUME NEW p \in Ops, Switcher(p) PROVE Good
    <3>1. p \in Active
      BY <2>7, ActiveIs
    <3>2. p = o /\ swc[o].pc = "none" /\ swc'[o].pc = "none"
      <4>1. p = o
        BY <2>0, <3>1, Alone
      <4>2. swc' = swc \/ swc' = [q \in Ops |-> NoCall]
        BY <2>7 DEF Switcher, OldWontDie, FlipDone, Flip, SwitchedOk, RollbackBegin, TerminateNew, FlipBack,
           RestoreSnapshot, RolledBack, RollbackIncomplete, SwitchError, PortHeld, proc, Gone
      <4> QED BY <2>0, <3>1, <4>1, <4>2, Alone DEF NoCall
    <3>3. sw'[o] \in PreFlip \cup Flipped \cup {"restore"}
      BY <3>2 DEF SnapLive, Past
    <3>4. ~SwitchError(o) /\ ~OldWontDie(o) /\ ~SwitchedOk(o) /\ ~PortHeld(o) /\ ~RolledBack(o)
          /\ ~RollbackIncomplete(o)
      BY <1>0, <3>3 DEF SwitchError, OldWontDie, SwitchedOk, PortHeld, RolledBack, RollbackIncomplete, At,
            PreFlip, Flipped
    <3>5. CASE FlipDone(o)
      <4>1. sw'[o] = "flip" /\ sw[o] = "wait" /\ UNCHANGED <<db, srv, turn>> /\ srv.phase = "down"
        BY <1>0, <3>5 DEF FlipDone, At, proc
      <4> QED BY <2>0, <2>1, <4>1
    <3>6. CASE Flip(o)
      <4>1. /\ sw'[o] = "poll" /\ sw[o] = "flip" /\ UNCHANGED <<db, turn>>
            /\ srv'.phase = "boot" /\ srv'.at = 1
        BY <1>0, <3>6 DEF Flip, At
      <4> QED BY <1>0, <2>0, <2>1, <4>1
    <3>7. CASE RollbackBegin(o)
      <4>1. sw'[o] = "kill" /\ sw[o] = "poll" /\ UNCHANGED <<db, srv, turn>> /\ srv.phase = "down"
        BY <1>0, <3>7 DEF RollbackBegin, At, proc
      <4> QED BY <2>0, <2>1, <4>1
    <3>8. CASE TerminateNew(o)
      <4>1. sw'[o] = "flip_back" /\ UNCHANGED db /\ turn' = "none" /\ srv'.phase = "down"
        BY <1>0, <3>8 DEF TerminateNew, At, Gone, Servers
      <4> QED BY <2>0, <2>1, <4>1
    <3>9. CASE FlipBack(o)
      <4>1. sw'[o] = "restore" /\ UNCHANGED <<db, srv, turn>> /\ srv.phase = "down"
        BY <1>0, <3>9 DEF FlipBack, At, proc, Invariant, Switchers
      <4> QED BY <2>0, <2>1, <4>1
    <3> QED BY <2>0, <2>7, <3>2, <3>4, <3>5, <3>6, <3>7, <3>8, <3>9 DEF Switcher
  <2>8. ASSUME NEW p \in Ops, HealthWindowPasses(p) PROVE Good
    BY <2>a, <2>8 DEF HealthWindowPasses, proc, Runs
  <2>9. ASSUME Exit \/ Crash \/ BootFails PROVE Good
    <3>1. sw' = sw /\ db' = db /\ turn' = "none" /\ srv'.phase = "down"
      BY <1>0, <2>9 DEF Exit, Crash, BootFails, Gone, Servers
    <3> QED BY <2>0, <2>1, <3>1
  <2>10. ~Reboot /\ ~Restart
    <3>1. Reboot => sw'[o] \in {"none", "done"} /\ swc'[o].pc = "none"
      BY DEF Reboot, Gone, NoCall
    <3>2. ~Reboot
      BY <3>1 DEF SnapLive, Past, PreFlip, Flipped
    <3>3. Restart => srv.phase = "down" /\ sw[o] \in {"none", "done"}
      BY DEF Restart
    <3> QED BY <2>0, <3>2, <3>3, AtWork
  <2>11. ASSUME NEW q \in Ops, Reconcile(q) PROVE Good
    <3>1. srv.phase = "boot" /\ srv.at = q /\ srv'.phase = "boot" /\ srv'.at = q + 1
          /\ UNCHANGED <<sw, turn, jr, aged>>
      BY <1>0, <2>11 DEF Reconcile, Boots, Servers, disk
    <3>2. sw[o] = "poll" /\ o \in Runs(db) /\ OnProbation(o) /\ o \in Active
      BY <2>0, <3>1, AtWork
    <3>3. CASE q = o
      <4>1. db' = db /\ prob' = o
        BY <2>11, <3>2, <3>3 DEF Reconcile, Runs
      <4> QED BY <2>0, <2>1, <3>1, <3>2, <4>1
    <3>4. CASE q # o
      <4>1. ~(db.op[q].state = "running" /\ OnProbation(q))
        <5> SUFFICES ASSUME db.op[q].state = "running", OnProbation(q) PROVE FALSE
          OBVIOUS
        <5>1. q \in Journaled \cap Runs(db)
          BY DEF OnProbation, Journaled, Runs
        <5> QED BY <2>0, <3>4, <5>1, Alone
      <4>2. prob' = prob /\ (db' = db \/ db' = Applied(db, q))
        BY <2>11, <4>1 DEF Reconcile
      <4>3. db'.work = db.work /\ o \in Runs(db')
        <5> DEFINE D == db
                   E == db'
        <5>1. CASE E = D
          BY <3>2, <5>1
        <5>2. CASE E = Applied(D, q)
          <6>1. D \in Databases /\ o \in Runs(D)
            BY <1>0, <3>2
          <6> HIDE DEF D, E
          <6>2. E.work = D.work /\ o \in Runs(E)
            BY <3>4, <5>2, <6>1, AppliedOps
          <6> QED BY <6>2 DEF D, E
        <5> QED BY <4>2, <5>1, <5>2
      <4>4. o < srv'.at => prob' = o
        BY <1>0, <2>1, <3>1, <3>4, <4>2
      <4> QED BY <2>0, <2>1, <3>1, <3>2, <4>3, <4>4
    <3> QED BY <3>3, <3>4
  <2>12. ASSUME InterruptStages \/ Recover PROVE Good
    <3>1. /\ srv.phase = "boot" /\ srv.at >= Switches + 1 /\ UNCHANGED <<sw, turn, prob>>
          /\ srv'.phase = "boot" \/ (srv'.phase = "up" /\ closed' = (prob # NoOp))
      <4>1. CASE InterruptStages
        BY <1>0, <4>1 DEF InterruptStages, Boots, Servers
      <4>2. CASE Recover
        <5>1. srv.phase = "boot" /\ srv.at = Switches + 2 /\ UNCHANGED <<sw, turn, prob>>
              /\ srv' = [srv EXCEPT !.phase = "up", !.at = 1] /\ closed' = (prob # NoOp)
          BY <4>2 DEF Recover, Boots
        <5>2. srv'.phase = "up"
          BY <1>0, <5>1 DEF Servers
        <5> QED BY <1>0, <5>1, <5>2
      <4> QED BY <2>12, <4>1, <4>2
    <3>2. db'.work = db.work /\ db'.op = db.op
      BY <1>0, <2>12, InterruptStagesWrites, RecoverWrites DEF OnlyRows
    <3>3. prob = o /\ o # NoOp
      BY <1>0, <2>1, <3>1 DEF NoOp
    <3>4. sw[o] = "poll" /\ o \in Runs(db')
      BY <2>0, <3>1, <3>2, AtWork DEF Runs
    <3> QED BY <2>0, <2>1, <3>1, <3>2, <3>3, <3>4
  <2>13. ~ProbationEnds
    <3> SUFFICES ASSUME ProbationEnds PROVE FALSE
      OBVIOUS
    <3>1. srv.phase = "up" /\ prob # NoOp /\ (jr[prob].tail \in Verdicts \/ prob \in aged)
      BY DEF ProbationEnds, Serving
    <3> QED BY <1>0, <2>0, <2>1, <3>1, AtWork
  <2> HIDE DEF Good
  <2>14. Good
    BY <2>2, <2>3, <2>4, <2>5, <2>6, <2>7, <2>8, <2>9, <2>10, <2>11, <2>12, <2>13 DEF Next, Boot
  <2> QED BY <2>14 DEF Good
<1> QED BY <1>1, <1>2, SnapStep
--------------------------------------------------------------------------------
(* The invariant. *)

\* The invariant holds initially.
LEMMA InvariantInit == Init => Invariant
<1> SUFFICES ASSUME Init PROVE Invariant
  OBVIOUS
<1>0. /\ TypeOK /\ 1 \in Rows /\ Ops = 1..Switches /\ Switches \in Nat /\ NoOp \notin Ops
  <2>1. Len(Asks) \in Nat /\ Len(Asks) # 0 /\ Rows = 1..Len(Asks)
    BY BoundsAssumption DEF Rows
  <2> QED BY <2>1, TypeInit, BoundsAssumption DEF Ops, NoOp
<1>1. /\ \A d \in Rows : /\ d # 1 => db.row[d] = NoRow
                         /\ db.row[d].sha = Sample /\ db.row[d].slot = "a" /\ db.row[d].bound = NoOp
                         /\ db.row[d].stage = "absent"
      /\ db.row[1].dep = "live" /\ db.row[1].rel \in {"none", "live"}
      /\ \A o \in Ops : /\ db.op[o].kind = "none" /\ db.op[o].state = "absent"
                        /\ jr[o].tail = "none" /\ swc[o].pc = "none" /\ sw[o] = "none"
      /\ \A d \in Rows : stg[d] = "none"
      /\ current = "a" /\ content["a"] = Sample /\ srv.phase = "up" /\ srv.slot = "a"
  BY <1>0 DEF Init, NoRow, NewOp, NoEntry, NoCall, Slots
<1>2. /\ Active = {} /\ Callers = {} /\ Closing = {} /\ SnapLive = {} /\ Journaled = {} /\ Runs(db) = {}
  BY <1>1 DEF Active, Callers, Closing, SnapLive, Journaled, Runs, Past, PreFlip, Flipped
<1>3. \A d \in Rows : d # 1 => db.row[d].rel = "absent" /\ db.row[d].dep = "absent"
  BY <1>1 DEF NoRow
<1>4. Sound(db)
  BY <1>0, <1>1, <1>2, <1>3 DEF Sound, Locked, LiveRows
<1>5. Built(db)
  BY <1>1, <1>3 DEF Built, BuiltOn
<1>6. Stages
  BY <1>1, <1>3 DEF Stages
<1>7. Switchers
  BY <1>1, <1>2 DEF Switchers, PreFlip, Flipped
<1>8. Journals
  BY <1>1, <1>2 DEF Journals
<1>9. Served
  BY <1>0, <1>1 DEF Served, LiveIs, LiveRows
<1>10. Probation /\ Snapshots /\ WorkKept /\ CallsOK
  BY <1>2 DEF Probation, Snapshots, WorkKept, CallsOK, Init
<1> QED BY <1>0, <1>4, <1>5, <1>6, <1>7, <1>8, <1>9, <1>10 DEF Invariant

\* The invariant is inductive.
LEMMA InvariantStep ==
    ASSUME Invariant, [Next]_vars
    PROVE  Invariant'
<1>1. CASE Next
  <2>1. Sound(db)'
    BY <1>1, SoundStep DEF Sound, Runs, LiveRows
  <2>2. Built(db)'
    BY <1>1, BuiltStep DEF Built
  <2> QED BY <1>1, <2>1, <2>2, TypeStep, StagesStep, CallsStep, SwitchersStep, JournalsStep, ProbationStep,
            SnapshotsStep, ServedStep, WorkKeptStep DEF Invariant
<1>2. CASE UNCHANGED vars
  <2>1. UNCHANGED <<db, current, content, jr, aged, snap, srv, closed, prob, turn, stg, swc, given, sw, faults>>
    BY <1>2 DEF vars, disk, proc
  <2>2. /\ Active' = Active /\ Callers' = Callers /\ Closing' = Closing /\ SnapLive' = SnapLive
        /\ Journaled' = Journaled /\ Runs(db)' = Runs(db) /\ Alive' = Alive /\ LiveRows(db)' = LiveRows(db)
    BY <2>1 DEF Active, Callers, Closing, SnapLive, Journaled, Runs, Alive, LiveRows
  <2>3. TypeOK'
    BY <2>1 DEF Invariant, TypeOK
  <2>4. Sound(db)' /\ Built(db)'
    BY <2>1 DEF Invariant, Sound, Built, BuiltOn, Returned, Runs, LiveRows
  <2>5. Stages'
    BY <2>1, <2>2 DEF Invariant, Stages
  <2>6. CallsOK'
    BY <2>1, <2>2 DEF Invariant, CallsOK, CallOK
  <2>7. Switchers'
    BY <2>1, <2>2 DEF Invariant, Switchers
  <2>8. Journals' /\ Probation'
    BY <2>1, <2>2 DEF Invariant, Journals, Probation
  <2>9. /\ \A o \in Ops : Excuse(o)' = Excuse(o) /\ From(o)' = From(o)
    BY <2>1 DEF Excuse, From
  <2>10. Served'
    BY <2>1, <2>2, <2>9 DEF Invariant, Served, LiveIs
  <2>11. WorkKept'
    BY <2>1, <2>2 DEF Invariant, WorkKept
  <2>12. Snapshots'
    <3> SUFFICES ASSUME NEW o \in SnapLive
                 PROVE  /\ snap'[o] \in Databases /\ Sound(snap'[o]) /\ BuiltOn(snap'[o], content', jr')
                        /\ snap'[o].work \subseteq given'
                        /\ \A d \in Rows : snap'[o].row[d].dep \notin Locked /\ snap'[o].row[d].bound # o
                                           /\ snap'[o].row[d].stage # "running"
                        /\ o \in Runs(snap'[o]) /\ Journaled' \cap Runs(snap'[o]) \subseteq {o}
                        /\ \A p \in Journaled' \ {o} : snap'[o].op[p] = db'.op[p]
                        /\ (\E d \in LiveRows(snap'[o]) : snap'[o].row[d].slot = From(o)'
                                                          /\ content'[From(o)'] = snap'[o].row[d].sha)
                           \/ \E p \in Ops \ {o} : Excuse(p)'
      BY <2>2 DEF Snapshots, LiveIs, Built
    <3>1. o \in Ops
      BY SnapLiveIs
    <3> QED BY <2>1, <2>2, <2>9, <3>1 DEF Invariant, Snapshots, LiveIs, Built
  <2> QED BY <2>3, <2>4, <2>5, <2>6, <2>7, <2>8, <2>10, <2>11, <2>12 DEF Invariant
<1> QED BY <1>1, <1>2

\* Every state that the program reaches satisfies the invariant, for all values of the constants.
THEOREM InvariantAlways == Spec => []Invariant
<1>1. Init => Invariant
  BY InvariantInit
<1>2. Invariant /\ [Next]_vars => Invariant'
  BY InvariantStep
<1> QED BY <1>1, <1>2, PTL DEF Spec

\* Every variable keeps its type, and the database holds no work that nobody asked for.
THEOREM TypeCorrect == Spec => []TypeOK
<1>1. Invariant => TypeOK
  BY DEF Invariant
<1> QED BY <1>1, InvariantAlways, PTL

\* A release and its deployment agree with each other, with the operation that holds them and with
\* the slots, whatever crash, restored snapshot or recovery comes in between (repository.py
\* begin_release_staging, begin_release_switching, _finalize_release_switch).
THEOREM RowsAgree == Spec => []ReleaseRowsAgree
<1>1. Invariant => LocksAgree
  BY DEF Invariant, Sound, Stages, Alive, LocksAgree, Runs
<1>2. Invariant => SwitchingIsBuilt
  BY DEF Invariant, Built, BuiltOn, Returned, SwitchingIsBuilt, WasRollbackTarget
<1>3. Invariant => ReleaseRowsAgree
  BY <1>1, <1>2 DEF ReleaseRowsAgree
<1> QED BY <1>3, InvariantAlways, PTL

\* Where no switch is in doubt the live row names the slot and the revision that the running
\* server was started from (switcher.py run_switch, reconcile_release_switch_ops).
THEOREM LiveServes == Spec => []LiveIsServed
<1>1. Invariant => LiveIsServed
  <2> SUFFICES ASSUME Invariant, Serving, \A o \in Ops : ~InDoubt(o)
               PROVE  \E d \in LiveRows(db) : db.row[d].slot = current /\ srv.slot = current
                                              /\ content[current] = db.row[d].sha
    BY DEF LiveIsServed
  <2>1. \A o \in Ops : ~Excuse(o)
    BY DEF Excuse, InDoubt
  <2>2. LiveIs(db, current)
    BY <2>1 DEF Invariant, Served
  <2>3. srv.slot = current
    BY DEF Serving, Invariant, Switchers
  <2> QED BY <2>2, <2>3 DEF LiveIs
<1> QED BY <1>1, InvariantAlways, PTL

\* A rollback that restores its snapshot within the health window takes nothing that a user did:
\* the gate was closed when the snapshot was taken, and probation keeps it closed.
THEOREM WorkIsKept == Spec => RestoreLosesNothing
<1>1. Invariant /\ [Next]_vars =>
        [\A o \in Ops : RestoreSnapshot(o) /\ o \notin aged => db.work \subseteq db'.work]_vars
  <2> SUFFICES ASSUME Invariant, NEW o \in Ops, RestoreSnapshot(o), o \notin aged
               PROVE  db.work \subseteq db'.work
    OBVIOUS
  <2>1. db' = snap[o] /\ o \in SnapLive \ aged
    BY DEF RestoreSnapshot, At, SnapLive
  <2> QED BY <2>1 DEF Invariant, WorkKept
<1> QED BY <1>1, InvariantAlways, PTL DEF Spec, RestoreLosesNothing

================================================================================
