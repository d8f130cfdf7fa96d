--------------------------- MODULE WorkflowProofs ---------------------------
(***************************************************************************)
(* Proofs about the workflow engine (Workflow, workflows/engine.py), for   *)
(* any definitions, any limits on visits, attempts and crashes.            *)
(*                                                                         *)
(* The difficulty is that a pass works on rows it read earlier.  The       *)
(* invariant says what is still true of such a row whatever happened since *)
(* (Known): ids and visits only grow, so a row has its visit if and only   *)
(* if it has its id, and a newer row has both greater.                     *)
(***************************************************************************)
EXTENDS Workflow, FiniteSetTheorems, TLAPS

StepRow == [visit : 0..MaxVisits, id : Nat, status : StepStatus, due : BOOLEAN, linked : BOOLEAN]
Store == [run : {"none", "running", "waiting"} \cup TERMINAL_RUN, next : Nat, step : [Steps -> StepRow],
          approved : SUBSET Steps, outputs : SUBSET Steps]
Row == [node : Steps, id : Nat, visit : Visits, was : ACTIVE_STEP]

\* performing visit v of n repeats nothing that must not be repeated
MayPerform(n, v) == effects[n][v] = 0 \/ Node_(n).idempotent \/ <<n, v>> \in retried

\* the newest row of a node: nothing has been made for a later visit, nor for a
\* pending one, unless it may be made again
RowFits(d, n) ==
  LET r == d.step[n] IN
  /\ r.id < d.next
  /\ r.status # "none" => r.visit > 0
  /\ \A v \in Visits : v > r.visit => spawned[n][v] = 0 /\ effects[n][v] = 0
  /\ r.status = "pending" /\ Node_(n).type = "agent" => spawned[n][r.visit] = 0
  /\ r.status = "pending" /\ Node_(n).type = "action" => MayPerform(n, r.visit)
  /\ r.status = "uncertain" => Node_(n).type = "action"

Fits(d) ==
  /\ d \in Store
  /\ \A n \in d.approved : Node_(n).type = "approval"
  /\ \A n \in Steps : RowFits(d, n)
  /\ d.run \in TERMINAL_RUN => \A n \in Steps : d.step[n].status # "waiting"
  /\ d.run = "none" => \A n \in Steps : d.step[n].visit = 0

\* a row that was read before: its node has the same row still, or a later one
Known(d, row) ==
  /\ row \in Row /\ row.id < d.next /\ row.visit <= d.step[row.node].visit
  /\ row.id = d.step[row.node].id <=> row.visit = d.step[row.node].visit

\* the rest of a pass
Queued ==
  /\ \A row \in todo :
       /\ Known(db, row)
       /\ row.was = "pending" /\ Node_(row.node).type = "agent" => spawned[row.node][row.visit] = 0
       /\ row.was = "pending" /\ Node_(row.node).type = "action" => MayPerform(row.node, row.visit)
  /\ \A r, s \in todo : r.node = s.node => r = s

Ongoing == {"running", "waiting"}
OfAgent == {"create", "override", "link", "launch"}
OfAction == {"find", "start", "io", "reply"}
Handling == OfAgent \cup OfAction \cup {"fire"}

NotPending(d, row) == d.step[row.node].visit = row.visit => d.step[row.node].status # "pending"
Gated(n, d) == Node_(n).effect \in REQUIRES_APPROVAL_EFFECTS => Gates(n) \cap d.approved # {}

\* the coroutine that holds the lock
Held ==
  /\ lock \in [at : Places, row : Row \cup {NoTask}, tries : 0..max_attempts, kids : SUBSET Steps]
  /\ lock.at \in {"pass"} \cup OfAgent => db.run \in Ongoing
  /\ lock.at \in OfAction \cup {"fire"} => db.run \in Ongoing \cup {"failed"}
  /\ lock.at = "cancel" => db.run \in TERMINAL_RUN
  /\ lock.at \in Handling => Known(db, lock.row) /\ \A row \in todo : row.node # lock.row.node
  /\ lock.at = "create" => spawned[lock.row.node][lock.row.visit] = 0
  /\ lock.at \in OfAction => Node_(lock.row.node).type = "action"
  /\ lock.at \in OfAction /\ ~allow_unapproved_writes => Gated(lock.row.node, db)
  /\ lock.at \in {"create", "io", "reply"} => NotPending(db, lock.row)
  /\ lock.at \in {"io", "reply"} => lock.tries >= 1
  /\ lock.at = "start" \/ (lock.at = "io" /\ lock.tries = 1) => MayPerform(lock.row.node, lock.row.visit)

\* what was made outside
Made ==
  /\ child \in [Steps -> [Visits -> AGENT_TERMINAL \cup {"none", "created", "active", "interrupted"}]]
  /\ spawned \in [Steps -> [Visits -> Nat]] /\ effects \in [Steps -> [Visits -> 0..2]]
  /\ retried \subseteq (Steps \X Visits)
  /\ \A n \in Steps, v \in Visits : child[n][v] = "none" => spawned[n][v] = 0
  /\ RecordedOnce /\ ChildOnce
  /\ ~allow_unapproved_writes => GateHolds

Living == moved \in BOOLEAN /\ up \in BOOLEAN /\ crashes \in 0..MaxCrashes /\ wf \in DOMAIN Definitions

EngineInv == Living /\ Made /\ Fits(db) /\ Queued /\ Held
-----------------------------------------------------------------------------
(* What the helpers use of the definition.                                 *)

\* the image of a finite set is finite
LEMMA FiniteImage ==
  ASSUME NEW S, IsFiniteSet(S), NEW f, f = [x \in S |-> f[x]]
  PROVE  IsFiniteSet({f[x] : x \in S})
<1>1. f \in Surjection(S, {f[x] : x \in S})
  BY DEF Surjection
<1>. QED  BY <1>1, FS_Surjection

LEMMA StepsAreIds ==
  ASSUME wf \in DOMAIN Definitions
  PROVE  /\ Steps = Ids(Definitions[wf])
         /\ \A n \in Steps : Node_(n) = node(Definitions[wf], n)
BY DEF Steps, Node_, NodeOf

LEMMA IdsOfNodes ==
  ASSUME wf \in DOMAIN Definitions
  PROVE  Ids(Definitions[wf]) = {Definitions[wf].nodes[i].id : i \in DOMAIN Definitions[wf].nodes}
BY DEF Ids, Nodes

LEMMA FiniteSteps ==
  ASSUME wf \in DOMAIN Definitions
  PROVE  IsFiniteSet(Steps)
<1> DEFINE D == Definitions[wf]
           f == [i \in DOMAIN D.nodes |-> D.nodes[i].id]
<1>1. IsFiniteSet(DOMAIN D.nodes)
  BY DefinitionsAssumption, FS_Interval
<1>2. IsFiniteSet({f[i] : i \in DOMAIN D.nodes})
  <2>. HIDE DEF D
  <2>. QED  BY <1>1, FiniteImage, Zenon
<1>3. Steps = {f[i] : i \in DOMAIN D.nodes}
  BY StepsAreIds, IdsOfNodes, Zenon
<1>. QED  BY <1>2, <1>3

\* node() finds the first of that id
LEMMA VisitsOfNode ==
  ASSUME wf \in DOMAIN Definitions, NEW n \in Steps
  PROVE  Node_(n).max_visits \in 1..MaxVisits
<1> DEFINE D == Definitions[wf]
           T == {i \in DOMAIN D.nodes : D.nodes[i].id = n}
<1>1. T # {} /\ T \subseteq Nat /\ DOMAIN D.nodes = 1..Len(D.nodes) /\ Len(D.nodes) \in Nat
  BY StepsAreIds, IdsOfNodes, DefinitionsAssumption
<1>2. PICK i \in T : \A j \in T : <<j, i>> \notin OpToRel(<, Nat)
  BY <1>1, NatLessThanWellFounded, WFMin, Zenon
<1>3. \A j \in T : ~(j < i)
  BY <1>1, <1>2, Zenon DEF OpToRel
<1>4. \E k \in DOMAIN D.nodes : D.nodes[k].id = n /\ \A j \in 1..(k - 1) : D.nodes[j].id # n
  <2>1. i \in DOMAIN D.nodes /\ D.nodes[i].id = n /\ i \in 1..Len(D.nodes)
    BY <1>1, <1>2, Zenon
  <2>2. \A j \in 1..(i - 1) : j \in DOMAIN D.nodes /\ j < i
    BY <1>1, <2>1
  <2>3. \A j \in 1..(i - 1) : D.nodes[j].id # n
    BY <1>3, <2>2
  <2>. QED  BY <2>1, <2>3
<1>5. \E k \in DOMAIN D.nodes : node(D, n) = D.nodes[k]
  BY <1>4, Zenon DEF node
<1>. QED  BY <1>5, StepsAreIds, DefinitionsAssumption

LEMMA PositionIsNat ==
  ASSUME wf \in DOMAIN Definitions, NEW n \in Steps
  PROVE  Position(n) \in Nat
<1>1. \E i \in DOMAIN Definitions[wf].nodes : Definitions[wf].nodes[i].id = n
  BY StepsAreIds, IdsOfNodes
<1>. QED  BY <1>1, DefinitionsAssumption DEF Position

LEMMA FiniteTargets ==
  ASSUME wf \in DOMAIN Definitions, NEW n, NEW labels
  PROVE  IsFiniteSet(Targets(n, labels))
<1> DEFINE E == {e \in outgoing(Definitions[wf], n) : e.when \in labels}
           f == [e \in E |-> e.target]
<1>1. IsFiniteSet(Definitions[wf].edges) /\ E \in SUBSET Definitions[wf].edges
  BY DefinitionsAssumption DEF outgoing
<1>2. IsFiniteSet(E)
  BY <1>1, FS_Subset
<1>3. IsFiniteSet({f[e] : e \in E})
  <2>. HIDE DEF E
  <2>. QED  BY <1>2, FiniteImage, Zenon
<1>4. Targets(n, labels) = {f[e] : e \in E}
  BY Zenon DEF Targets
<1>. QED  BY <1>3, <1>4
-----------------------------------------------------------------------------
(* What the helpers do to the rows: visits and ids only grow.              *)

Grows(d, e) ==
  /\ e.next >= d.next /\ d.approved \subseteq e.approved
  /\ \A n \in Steps :
       \/ e.step[n].visit = d.step[n].visit /\ e.step[n].id = d.step[n].id
       \/ e.step[n].visit > d.step[n].visit /\ e.step[n].id >= d.next

\* a row that exists does not become pending again
NoneAgain(d, e) ==
  \A n \in Steps : e.step[n].visit = d.step[n].visit /\ e.step[n].status = "pending" => d.step[n].status = "pending"

Follows(d, e) == Fits(e) /\ Grows(d, e) /\ NoneAgain(d, e)

LEMMA AttemptsAreNat == max_attempts \in Nat
BY WorkflowAssumption

LEMMA NoVisitYet == 0 < MaxVisits
BY WorkflowAssumption

LEMMA AttemptRange ==
  ASSUME NEW t \in 0..max_attempts, t >= 1
  PROVE  t \in 1..max_attempts
BY WorkflowAssumption

LEMMA NoTries == 0 \in 0..max_attempts
BY WorkflowAssumption

LEMMA VisitsFromOne == \A v \in Visits : v > 0
BY DEF Visits

LEMMA LaterVisit ==
  ASSUME NEW a \in Nat, NEW v \in Visits, NEW w \in Visits, v <= a, w > a
  PROVE  w # v
BY WorkflowAssumption DEF Visits

LEMMA VisitOf ==
  ASSUME NEW a \in 0..MaxVisits, a > 0
  PROVE  a \in Visits
BY WorkflowAssumption DEF Visits

\* what a store that fits holds of one node
LEMMA RowOf ==
  ASSUME NEW d, Fits(d), NEW m \in Steps
  PROVE  /\ RowFits(d, m) /\ d.next \in Nat /\ d.step[m].visit \in 0..MaxVisits /\ d.step[m].visit \in Nat
         /\ d.step[m].id \in Nat /\ d.step[m].status \in StepStatus
<1>1. d.step[m] \in StepRow /\ d.next \in Nat /\ RowFits(d, m)
  BY DEF Fits, Store
<1>. QED  BY <1>1, WorkflowAssumption DEF StepRow

LEMMA FollowsSelf ==
  ASSUME NEW d, Fits(d)
  PROVE  Follows(d, d)
BY DEF Follows, Grows, NoneAgain, Fits, Store, StepRow

LEMMA FollowsOn ==
  ASSUME NEW d, NEW e, NEW f, Fits(d), Follows(d, e), Follows(e, f)
  PROVE  Follows(d, f)
<1>1. d \in Store /\ e \in Store /\ f \in Store
  BY DEF Follows, Fits
<1>2. Grows(d, f)
  <2>1. /\ f.next >= d.next /\ e.next >= d.next /\ d.approved \subseteq f.approved
        /\ d.next \in Nat /\ e.next \in Nat /\ f.next \in Nat
    BY <1>1 DEF Follows, Grows, Store
  <2>2. ASSUME NEW n \in Steps
        PROVE  \/ f.step[n].visit = d.step[n].visit /\ f.step[n].id = d.step[n].id
               \/ f.step[n].visit > d.step[n].visit /\ f.step[n].id >= d.next
    <3>1. /\ d.step[n].visit \in Nat /\ e.step[n].visit \in Nat /\ f.step[n].visit \in Nat
          /\ d.step[n].id \in Nat /\ e.step[n].id \in Nat /\ f.step[n].id \in Nat
      BY <1>1 DEF Store, StepRow
    <3>. QED  BY <2>1, <3>1 DEF Follows, Grows
  <2>. QED  BY <2>1, <2>2 DEF Grows
<1>3. NoneAgain(d, f)
  BY <1>1 DEF Follows, Grows, NoneAgain, Store, StepRow
<1>. QED  BY <1>2, <1>3 DEF Follows

\* a row that was read stays known, and one that was handled does not come back
LEMMA KnownStays ==
  ASSUME NEW d, NEW e, d \in Store, e \in Store, Grows(d, e), NEW row, Known(d, row)
  PROVE  Known(e, row)
BY DEF Known, Grows, Store, StepRow, Row, Visits

LEMMA NotPendingStays ==
  ASSUME NEW d, NEW e, d \in Store, e \in Store, Grows(d, e), NoneAgain(d, e),
         NEW row, Known(d, row), NotPending(d, row)
  PROVE  NotPending(e, row)
BY DEF NotPending, NoneAgain, Known, Grows, Store, StepRow, Row, Visits

\* one row gets another status
Restated(d, n, e) ==
  /\ e \in Store /\ e.run = d.run /\ e.next = d.next /\ e.approved = d.approved
  /\ e.step[n].visit = d.step[n].visit /\ e.step[n].id = d.step[n].id
  /\ \A m \in Steps \ {n} : e.step[m] = d.step[m]

LEMMA SetStatusRestates ==
  ASSUME NEW d \in Store, NEW n \in Steps, NEW status \in StepStatus
  PROVE  Restated(d, n, SetStatus(d, n, status)) /\ SetStatus(d, n, status).step[n].status = status
BY ZenonT(30) DEF Restated, SetStatus, Store, StepRow

LEMMA RestatedFollows ==
  ASSUME NEW d, Fits(d), NEW n \in Steps, NEW e, Restated(d, n, e), NEW status,
         e.step[n].status = status, status \notin {"none", "pending"}, d.step[n].visit > 0,
         status = "uncertain" => Node_(n).type = "action",
         status = "waiting" => d.run \notin TERMINAL_RUN
  PROVE  Follows(d, e)
<1>1. d \in Store /\ e \in Store /\ \A m \in Steps \ {n} : e.step[m] = d.step[m]
  BY DEF Fits, Restated
<1>2. \A m \in Steps : RowFits(e, m)
  <2> SUFFICES ASSUME NEW m \in Steps PROVE RowFits(e, m)
    OBVIOUS
  <2>1. RowFits(d, m) /\ e.next = d.next
    BY DEF Fits, Restated
  <2>2. CASE m # n
    BY <1>1, <2>1, <2>2 DEF RowFits
  <2>3. CASE m = n
    BY <1>1, <2>1, <2>3 DEF RowFits, Restated
  <2>. QED  BY <2>2, <2>3
<1>3. Grows(d, e)
  BY <1>1 DEF Grows, Restated, Store, StepRow
<1>4. NoneAgain(d, e)
  BY <1>1 DEF NoneAgain, Restated
<1>5. Fits(e)
  <2>1. \A k \in e.approved : Node_(k).type = "approval"
    BY DEF Fits, Restated
  <2>2. e.run \in TERMINAL_RUN => \A m \in Steps : e.step[m].status # "waiting"
    BY <1>1 DEF Fits, Restated
  <2>3. e.run = "none" => \A m \in Steps : e.step[m].visit = 0
    BY <1>1 DEF Fits, Restated
  <2>. QED  BY <1>1, <1>2, <2>1, <2>2, <2>3 DEF Fits
<1>. QED  BY <1>3, <1>4, <1>5 DEF Follows

LEMMA SetStatusFollows ==
  ASSUME NEW d, Fits(d), NEW n \in Steps, NEW status \in StepStatus, status \notin {"none", "pending"},
         d.step[n].visit > 0, status = "uncertain" => Node_(n).type = "action",
         status = "waiting" => d.run \notin TERMINAL_RUN
  PROVE  /\ Follows(d, SetStatus(d, n, status)) /\ SetStatus(d, n, status).run = d.run
         /\ SetStatus(d, n, status).step[n].status = status
<1>1. Restated(d, n, SetStatus(d, n, status)) /\ SetStatus(d, n, status).step[n].status = status
  BY SetStatusRestates DEF Fits
<1>2. Follows(d, SetStatus(d, n, status))
  BY <1>1, RestatedFollows
<1>. QED  BY <1>1, <1>2 DEF Restated

LEMMA SetRowFollows ==
  ASSUME NEW d, Fits(d), NEW row, Known(d, row), NEW status \in StepStatus, status \notin {"none", "pending"},
         status = "uncertain" => Node_(row.node).type = "action",
         status = "waiting" => d.run \notin TERMINAL_RUN
  PROVE  /\ Follows(d, SetRow(d, row, status)) /\ SetRow(d, row, status).run = d.run
         /\ status # "pending" => NotPending(SetRow(d, row, status), row)
<1>1. row.node \in Steps /\ row.visit > 0
  BY DEF Known, Row, Visits
<1>2. CASE d.step[row.node].id = row.id
  <2>1. d.step[row.node].visit = row.visit
    BY <1>2 DEF Known
  <2>2. SetRow(d, row, status) = SetStatus(d, row.node, status)
    BY <1>2 DEF SetRow
  <2>. QED  BY <1>1, <2>1, <2>2, SetStatusFollows DEF NotPending
<1>3. CASE d.step[row.node].id # row.id
  <2>1. d.step[row.node].visit # row.visit /\ SetRow(d, row, status) = d
    BY <1>3 DEF Known, SetRow
  <2>. QED  BY <2>1, FollowsSelf DEF NotPending
<1>. QED  BY <1>2, <1>3

\* the run ends: nothing waits any more
LEMMA SkipFollows ==
  ASSUME NEW d, Fits(d), NEW r \in TERMINAL_RUN
  PROVE  LET e == [SkipActive(d) EXCEPT !.run = r] IN
         /\ Follows(d, e) /\ e.run = r
         /\ \A n \in Steps : d.step[n].status \notin ACTIVE_STEP => e.step[n] = d.step[n]
<1> DEFINE e == [SkipActive(d) EXCEPT !.run = r]
<1>1. d \in Store
  BY DEF Fits
<1>2. /\ e.run = r /\ e.next = d.next /\ e.approved = d.approved /\ e.outputs = d.outputs
      /\ e.step = [n \in Steps |-> IF d.step[n].status \in ACTIVE_STEP
                                   THEN [d.step[n] EXCEPT !.status = "skipped"] ELSE d.step[n]]
      /\ e.step \in [Steps -> StepRow] => e \in Store
  BY <1>1, Zenon DEF SkipActive, Store, TERMINAL_RUN
<1> HIDE DEF e
<1>3. \A n \in Steps : /\ e.step[n] \in StepRow /\ d.step[n] \in StepRow
                       /\ e.step[n].visit = d.step[n].visit /\ e.step[n].id = d.step[n].id
                       /\ d.step[n].status \notin ACTIVE_STEP => e.step[n] = d.step[n]
                       /\ d.step[n].status \in ACTIVE_STEP => e.step[n].status = "skipped"
  BY <1>1, <1>2 DEF Store, StepRow, StepStatus
<1>4. e \in Store
  BY <1>2, <1>3
<1>5. Grows(d, e) /\ NoneAgain(d, e)
  <2>1. d.next \in Nat /\ e.next = d.next /\ e.approved = d.approved
    BY <1>1, <1>2 DEF Store
  <2>2. e.next >= d.next /\ "pending" \in ACTIVE_STEP /\ "skipped" # "pending"
    BY <2>1 DEF ACTIVE_STEP
  <2>. QED  BY <1>3, <2>1, <2>2, Zenon DEF Grows, NoneAgain
<1>6. \A n \in Steps : RowFits(e, n)
  BY <1>2, <1>3 DEF Fits, RowFits, ACTIVE_STEP
<1>7. Fits(e)
  BY <1>2, <1>3, <1>4, <1>6 DEF Fits, ACTIVE_STEP, TERMINAL_RUN
<1>. QED  BY <1>2, <1>3, <1>5, <1>7 DEF Follows, e

LEMMA FailRunFollows ==
  ASSUME NEW d, Fits(d)
  PROVE  /\ Follows(d, _fail_run(d)) /\ _fail_run(d).run = "failed"
         /\ \A n \in Steps : d.step[n].status \notin ACTIVE_STEP => _fail_run(d).step[n] = d.step[n]
BY SkipFollows, Zenon DEF _fail_run, TERMINAL_RUN

\* new rows have ids of their own
LEMMA NewStepsIs ==
  ASSUME wf \in DOMAIN Definitions, NEW d \in Store, NEW targets, IsFiniteSet(targets),
         \A n \in Steps \cap targets : d.step[n].visit < MaxVisits
  PROVE  LET e == NewSteps(d, targets) IN
         /\ e \in Store /\ e.run = d.run /\ e.approved = d.approved /\ e.next >= d.next
         /\ \A n \in Steps \ targets : e.step[n] = d.step[n]
         /\ \A n \in Steps \cap targets :
              /\ e.step[n].visit = d.step[n].visit + 1 /\ e.step[n].status = "pending"
              /\ e.step[n].id >= d.next /\ e.step[n].id < e.next
<1> DEFINE e == NewSteps(d, targets)
           Before(n) == {t \in targets : Position(t) < Position(n)}
           new(n) == [visit |-> d.step[n].visit + 1, status |-> "pending", due |-> FALSE, linked |-> FALSE,
                      id |-> d.next + Cardinality(Before(n))]
<1>1. Cardinality(targets) \in Nat /\ d.next \in Nat /\ MaxVisits \in Nat
  BY FS_CardinalityType, WorkflowAssumption DEF Store
<1>2. \A n \in Steps \cap targets : Cardinality(Before(n)) \in Nat /\ Cardinality(Before(n)) < Cardinality(targets)
  <2> SUFFICES ASSUME NEW n \in Steps \cap targets
               PROVE  Cardinality(Before(n)) \in Nat /\ Cardinality(Before(n)) < Cardinality(targets)
    OBVIOUS
  <2>1. n \notin Before(n)
    BY PositionIsNat
  <2>2. Before(n) \in SUBSET targets /\ Before(n) # targets
    BY <2>1
  <2>. HIDE DEF Before
  <2>3. /\ IsFiniteSet(Before(n)) /\ Cardinality(Before(n)) <= Cardinality(targets)
        /\ Cardinality(Before(n)) # Cardinality(targets)
    BY <2>2, FS_Subset
  <2>4. Cardinality(Before(n)) \in Nat
    BY <2>3, FS_CardinalityType
  <2>. QED  BY <1>1, <2>3, <2>4
<1>3. /\ e.run = d.run /\ e.approved = d.approved /\ e.next = d.next + Cardinality(targets)
      /\ e.next \in Nat /\ e.step \in [Steps -> StepRow] => e \in Store
      /\ e.step = [n \in Steps |-> IF n \notin targets THEN d.step[n] ELSE new(n)]
  BY Zenon DEF NewSteps, Store
<1>. HIDE DEF e, Before
<1>4. e.next \in Nat /\ e.next >= d.next
  BY <1>1, <1>3
<1>5. \A n \in Steps \ targets : e.step[n] = d.step[n] /\ e.step[n] \in StepRow
  BY <1>3 DEF Store
<1>6. ASSUME NEW n \in Steps \cap targets
      PROVE  /\ e.step[n].visit = d.step[n].visit + 1 /\ e.step[n].status = "pending"
             /\ e.step[n].id >= d.next /\ e.step[n].id < e.next /\ e.step[n] \in StepRow
  <2>1. e.step[n] = new(n)
    BY <1>3
  <2>2. /\ d.next + Cardinality(Before(n)) \in Nat
        /\ d.next + Cardinality(Before(n)) >= d.next /\ d.next + Cardinality(Before(n)) < e.next
    BY <1>1, <1>2, <1>3
  <2>3. d.step[n].visit \in 0..MaxVisits /\ d.step[n].visit < MaxVisits
    BY DEF Store, StepRow
  <2>4. d.step[n].visit + 1 \in 0..MaxVisits
    BY <1>1, <2>3
  <2>5. new(n) \in StepRow
    BY <2>2, <2>4 DEF StepRow, StepStatus, ACTIVE_STEP
  <2>. QED  BY <2>1, <2>2, <2>5
<1>7. e.step \in [Steps -> StepRow]
  BY <1>3, <1>5, <1>6
<1>. QED  BY <1>3, <1>4, <1>5, <1>6, <1>7 DEF e

LEMMA NewStepsFollows ==
  ASSUME wf \in DOMAIN Definitions, NEW d, Fits(d), d.run # "none", NEW targets, IsFiniteSet(targets),
         \A n \in Steps \cap targets : d.step[n].visit < MaxVisits
  PROVE  Follows(d, NewSteps(d, targets)) /\ NewSteps(d, targets).run = d.run
<1> DEFINE e == NewSteps(d, targets)
<1>1. d \in Store
  BY DEF Fits
<1>2. /\ e \in Store /\ e.run = d.run /\ e.approved = d.approved /\ e.next >= d.next
      /\ \A n \in Steps \ targets : e.step[n] = d.step[n]
      /\ \A n \in Steps \cap targets :
           /\ e.step[n].visit = d.step[n].visit + 1 /\ e.step[n].status = "pending"
           /\ e.step[n].id >= d.next /\ e.step[n].id < e.next
  BY <1>1, NewStepsIs
<1>. HIDE DEF e
<1>3. MaxVisits \in Nat /\ d.next \in Nat /\ e.next \in Nat
  BY <1>1, <1>2, WorkflowAssumption DEF Store
<1>4. \A n \in Steps : /\ d.step[n].visit \in Nat /\ d.step[n].id \in Nat
                       /\ e.step[n].visit \in 0..MaxVisits /\ e.step[n].id \in Nat
  BY <1>1, <1>2 DEF Store, StepRow
<1>5. Grows(d, e) /\ NoneAgain(d, e)
  <2>1. ASSUME NEW n \in Steps
        PROVE  /\ \/ e.step[n].visit = d.step[n].visit /\ e.step[n].id = d.step[n].id
                  \/ e.step[n].visit > d.step[n].visit /\ e.step[n].id >= d.next
               /\ e.step[n].visit = d.step[n].visit => e.step[n] = d.step[n]
    BY <1>2, <1>3, <1>4
  <2>. QED  BY <1>2, <2>1 DEF Grows, NoneAgain
<1>6. ASSUME NEW n \in Steps PROVE RowFits(e, n)
  <2>1. RowFits(d, n)
    BY DEF Fits
  <2>2. CASE n \notin targets
    <3>1. e.step[n] = d.step[n]
      BY <1>2, <2>2
    <3>2. e.step[n].id < e.next
      <4>1. d.step[n].id < d.next /\ d.step[n].id \in Nat /\ e.next >= d.next
        BY <1>2, <1>4, <2>1, Zenon DEF RowFits
      <4>. QED  BY <1>3, <3>1, <4>1
    <3>. QED  BY <2>1, <3>1, <3>2, Zenon DEF RowFits
  <2>3. CASE n \in targets
    <3>1. e.step[n].visit = d.step[n].visit + 1 /\ e.step[n].status = "pending" /\ e.step[n].id < e.next
      BY <1>2, <2>3
    <3>2. e.step[n].visit \in Visits
      BY <1>4, <3>1 DEF Visits
    <3>3. \A v \in Visits : v >= e.step[n].visit => v > d.step[n].visit
      BY <1>3, <1>4, <3>1 DEF Visits
    <3>4. \A v \in Visits : v >= e.step[n].visit => spawned[n][v] = 0 /\ effects[n][v] = 0
      BY <2>1, <3>3 DEF RowFits
    <3>5. /\ e.step[n].visit >= e.step[n].visit /\ e.step[n].visit > 0
          /\ \A v \in Visits : v > e.step[n].visit => v >= e.step[n].visit
      BY <1>3, <3>2 DEF Visits
    <3>. QED  BY <3>1, <3>2, <3>4, <3>5 DEF RowFits, MayPerform
  <2>. QED  BY <2>2, <2>3
<1>7. Fits(e)
  <2>1. e.run \in TERMINAL_RUN => \A n \in Steps : e.step[n].status # "waiting"
    BY <1>2 DEF Fits
  <2>. QED  BY <1>2, <1>6, <2>1 DEF Fits
<1>. QED  BY <1>2, <1>5, <1>7 DEF Follows, e

\* where a run can be led to by a step that ends
Leads(d, e) == Follows(d, e) /\ e.run \in {d.run, "failed"}

LEMMA LeadsOn ==
  ASSUME NEW d, NEW e, NEW f, Fits(d), Leads(d, e), Leads(e, f)
  PROVE  Leads(d, f)
BY FollowsOn DEF Leads

LEMMA FailRunLeads ==
  ASSUME NEW d, Fits(d)
  PROVE  Leads(d, _fail_run(d))
BY FailRunFollows DEF Leads

LEMMA FireLeads ==
  ASSUME wf \in DOMAIN Definitions, NEW d, Fits(d), d.run # "none", NEW n, NEW labels
  PROVE  /\ Leads(d, _fire(d, n, labels))
         /\ _fire(d, n, labels).run # d.run => _fire(d, n, labels) = _fail_run(d)
<1> DEFINE fresh == Arriving(d, n, labels)
           T == fresh \ Spent(d, fresh)
<1>1. T \in SUBSET Targets(n, labels)
  BY DEF Arriving
<1>2. IsFiniteSet(T)
  BY <1>1, FiniteTargets, FS_Subset
<1>3. \A m \in Steps \cap T : d.step[m].visit < MaxVisits
  <2> SUFFICES ASSUME NEW m \in Steps \cap T PROVE d.step[m].visit < MaxVisits
    OBVIOUS
  <2>1. ~(d.step[m].visit >= Node_(m).max_visits)
    BY DEF Spent
  <2>2. d.step[m].visit \in Nat /\ MaxVisits \in Nat /\ Node_(m).max_visits \in 1..MaxVisits
    BY VisitsOfNode, WorkflowAssumption DEF Fits, Store, StepRow
  <2>. QED  BY <2>1, <2>2
<1>4. Leads(d, NewSteps(d, T)) /\ NewSteps(d, T).run = d.run
  <2>. HIDE DEF T
  <2>. QED  BY <1>2, <1>3, NewStepsFollows DEF Leads
<1>5. _fire(d, n, labels) = _fail_run(d) \/ _fire(d, n, labels) = NewSteps(d, T)
  BY DEF _fire
<1>. QED  BY <1>4, <1>5, FailRunLeads

LEMMA FireOrFailLeads ==
  ASSUME wf \in DOMAIN Definitions, NEW d, Fits(d), d.run # "none", NEW n, NEW labels
  PROVE  Leads(d, FireOrFail(d, n, labels))
<1>1. Leads(d, _fire(d, n, labels))
  BY FireLeads
<1>2. Leads(_fire(d, n, labels), _fail_run(_fire(d, n, labels)))
  BY <1>1, FailRunLeads DEF Leads, Follows
<1>. QED  BY <1>1, <1>2, LeadsOn DEF FireOrFail

\* a row gets its final status and its edges are followed
LEMMA StepEndsLeads ==
  ASSUME wf \in DOMAIN Definitions, NEW d, Fits(d), d.run # "none", NEW row, Known(d, row),
         NEW status \in {"succeeded", "failed"}
  PROVE  /\ Leads(d, SetRow(d, row, status)) /\ SetRow(d, row, status).run # "none"
         /\ \A labels : /\ Leads(d, _fire(SetRow(d, row, status), row.node, labels))
                        /\ Leads(d, FireOrFail(SetRow(d, row, status), row.node, labels))
         /\ Leads(d, _fail_run(SetRow(d, row, status)))
<1> DEFINE e == SetRow(d, row, status)
<1>1. status \in StepStatus
  BY DEF StepStatus
<1>2. Follows(d, e) /\ e.run = d.run
  BY <1>1, SetRowFollows
<1>3. Leads(d, e) /\ Fits(e) /\ e.run # "none"
  BY <1>2 DEF Leads, Follows
<1>. HIDE DEF e
<1>4. \A labels : Leads(e, _fire(e, row.node, labels)) /\ Leads(e, FireOrFail(e, row.node, labels))
  BY <1>3, FireLeads, FireOrFailLeads
<1>5. Leads(e, _fail_run(e))
  BY <1>3, FailRunLeads
<1>6. \A f : Leads(e, f) => Leads(d, f)
  BY <1>3, LeadsOn
<1>. QED  BY <1>3, <1>4, <1>5, <1>6, Zenon DEF e

LEMMA StepFailedLeads ==
  ASSUME wf \in DOMAIN Definitions, NEW d, Fits(d), d.run # "none", NEW row, Known(d, row)
  PROVE  Leads(d, _step_failed(d, row))
BY StepEndsLeads DEF _step_failed
-----------------------------------------------------------------------------
(* What is kept by the parts the actions are made of.                      *)

LEMMA FitsNext ==
  ASSUME UNCHANGED <<wf, spawned, effects, retried>>, Fits(db')
  PROVE  Fits(db)'
BY DEF Fits, RowFits, MayPerform, Store, StepRow, Steps, Node_, Visits

LEMMA MadeNext ==
  ASSUME Made, UNCHANGED <<wf, child, spawned, effects, retried>>, db.approved \subseteq db'.approved
  PROVE  Made'
<1>1. GateHolds => GateHolds'
  BY DEF GateHolds, Gates, Steps, Node_
<1>. QED  BY <1>1 DEF Made, RecordedOnce, ChildOnce, Steps, Node_

LEMMA QueuedNext ==
  ASSUME Queued, Fits(db), UNCHANGED <<wf, spawned, effects, retried>>, db' \in Store, Grows(db, db'),
         todo' \subseteq todo
  PROVE  Queued'
<1>1. \A row \in todo' : row \in todo /\ Known(db', row)
  BY KnownStays DEF Queued, Fits
<1>2. \A row \in todo' : Known(db, row)'
  BY <1>1 DEF Known, Row, Steps
<1>. QED  BY <1>1, <1>2 DEF Queued, MayPerform, Node_

\* the lock is given up, or the pass goes on with its next row
LEMMA RestsNext ==
  ASSUME lock' = Free \/ (lock' = Pass /\ db'.run \in Ongoing)
  PROVE  Held'
<1>1. /\ Free.at = "free" /\ Pass.at = "pass" /\ Free.tries = 0 /\ Pass.tries = 0
      /\ Free = [at |-> "free", row |-> NoTask, tries |-> 0, kids |-> {}]
      /\ Pass = [at |-> "pass", row |-> NoTask, tries |-> 0, kids |-> {}]
  BY DEF Free, Pass
<1>2. lock' \in [at : {"free", "pass"}, row : {NoTask}, tries : {0}, kids : {{}}]
  BY <1>1
<1>3. 0 \in 0..max_attempts /\ {"free", "pass"} \subseteq Places
  BY WorkflowAssumption DEF Places
<1>4. lock' \in [at : Places, row : Row' \cup {NoTask}, tries : 0..max_attempts, kids : SUBSET Steps']
  BY <1>2, <1>3
<1>5. lock'.at \in {"free", "pass"} /\ (lock'.at = "pass" => db'.run \in Ongoing)
  BY <1>1, Zenon
<1>. QED  BY <1>4, <1>5 DEF Held, OfAgent, OfAction, Handling, Free

Beginning(row) == row \in todo \/ (lock.at \in Handling /\ row = lock.row)

LEMMA BeginningIsKnown ==
  ASSUME EngineInv, NEW row, Beginning(row)
  PROVE  Known(db, row) /\ row \in Row
BY DEF EngineInv, Queued, Held, Beginning, Known

LEMMA ReturnNext ==
  ASSUME EngineInv, NEW row, NEW d, Fits(d), Grows(db, d), d.run # "none", NEW changed \in BOOLEAN,
         Return(row, d, changed), UNCHANGED <<wf, spawned, effects, retried, up, crashes>>, Made'
  PROVE  EngineInv'
<1>1. db' = d /\ d \in Store /\ d.run \in Ongoing \cup TERMINAL_RUN
  BY DEF Return, Fits, Store, Ongoing
<1>2. Living'
  BY DEF EngineInv, Living, Return
<1>3. Fits(db)'
  BY <1>1, FitsNext
<1>4. Queued'
  <2>1. todo' \subseteq todo
    BY DEF Return
  <2>. QED  BY <1>1, <2>1, QueuedNext DEF EngineInv
<1>5. Held'
  BY <1>1, RestsNext DEF Return
<1>. QED  BY <1>2, <1>3, <1>4, <1>5 DEF EngineInv

\* most handlers return where the run is led to, and change nothing outside
LEMMA LeadNext ==
  ASSUME EngineInv, db.run # "none", NEW row, NEW d, Leads(db, d), NEW changed \in BOOLEAN,
         Return(row, d, changed), Quiet
  PROVE  EngineInv'
<1>1. Fits(d) /\ Grows(db, d) /\ d.run # "none" /\ db' = d
  BY DEF Leads, Follows, Return
<1>2. Made'
  BY <1>1, MadeNext DEF EngineInv, Grows, Quiet
<1>. QED  BY <1>1, <1>2, ReturnNext DEF Quiet

\* the row's handler goes on: no other row of the pass is of its node
LEMMA StagedKeeps ==
  ASSUME EngineInv, NEW row \in todo, NEW at \in Places, Stage(row, at)
  PROVE  /\ todo' \subseteq todo /\ \A r \in todo' : r.node # row.node
         /\ lock' \in [at : Places, row : Row, tries : 0..max_attempts, kids : SUBSET Steps]
         /\ lock'.at = at /\ lock'.row = row /\ lock'.tries = 0
<1>1. \A r \in todo \ {row} : r.node # row.node
  BY DEF EngineInv, Queued
<1>2. row \in Row
  BY DEF EngineInv, Queued, Known
<1>3. lock' = [at |-> at, row |-> row, tries |-> 0, kids |-> {}] /\ todo' = todo \ {row}
  BY Zenon DEF Stage, Free
<1>4. 0 \in 0..max_attempts
  BY NoTries, Zenon
<1>. QED  BY <1>1, <1>2, <1>3, <1>4
-----------------------------------------------------------------------------
(* The handlers of a pass.                                                 *)

LEMMA TakesKnown ==
  ASSUME EngineInv, NEW row \in todo, NEW type, NEW was, Takes(row, type, was)
  PROVE  /\ Known(db, row) /\ row \in Row /\ Node_(row.node).type = type /\ row.was \in was
         /\ db.run \in Ongoing /\ db.run # "none" /\ db.run \notin TERMINAL_RUN
         /\ wf \in DOMAIN Definitions /\ Fits(db)
BY DEF EngineInv, Queued, Held, Known, Takes, Ongoing, Living, TERMINAL_RUN

\* what a handler that returns may have done to the rows
LEMMA HandlerLeads ==
  ASSUME wf \in DOMAIN Definitions, Fits(db), db.run # "none", NEW row, Known(db, row)
  PROVE  /\ Leads(db, db) /\ Leads(db, _step_failed(db, row))
         /\ Leads(db, _fail_run(db))
         /\ db.run \notin TERMINAL_RUN => Leads(db, SetRow(db, row, "waiting"))
         /\ \A labels :
              /\ Leads(db, _fire(db, row.node, labels))
              /\ Leads(db, _fire(SetRow(db, row, "succeeded"), row.node, labels))
              /\ Leads(db, _fire(SetRow(db, row, "failed"), row.node, labels))
              /\ Leads(db, FireOrFail(SetRow(db, row, "succeeded"), row.node, labels))
         /\ Leads(db, _fail_run(SetRow(db, row, "failed")))
<1>1. Leads(db, db)
  BY FollowsSelf DEF Leads
<1>2. "waiting" \in StepStatus
  BY DEF StepStatus, ACTIVE_STEP
<1>3. db.run \notin TERMINAL_RUN => Leads(db, SetRow(db, row, "waiting"))
  BY <1>2, SetRowFollows DEF Leads
<1>. QED  BY <1>1, <1>3, StepEndsLeads, StepFailedLeads, FailRunLeads, FireLeads, Zenon

LEMMA ConditionNext ==
  ASSUME EngineInv, _condition
  PROVE  EngineInv'
<1>1. PICK row \in todo :
        /\ Takes(row, "condition", ACTIVE_STEP)
        /\ \/ \E label \in {"true", "false"} :
                Return(row, _fire(SetRow(db, row, "succeeded"), row.node, {label}), TRUE)
           \/ Return(row, _step_failed(db, row), TRUE)
        /\ Quiet
  BY Zenon DEF _condition
<1>2. /\ db.run # "none" /\ Leads(db, _step_failed(db, row))
      /\ \A labels : Leads(db, _fire(SetRow(db, row, "succeeded"), row.node, labels))
  BY <1>1, TakesKnown, HandlerLeads
<1>. QED  BY <1>1, <1>2, LeadNext, Zenon

LEMMA StartsWaitingNext ==
  ASSUME EngineInv, StartsWaiting
  PROVE  EngineInv'
<1>1. PICK row \in todo, type \in {"approval", "wait_event", "timer"} :
        /\ Takes(row, type, {"pending"})
        /\ \/ Return(row, SetRow(db, row, "waiting"), TRUE)
           \/ Return(row, _step_failed(db, row), TRUE)
        /\ Quiet
  BY Zenon DEF StartsWaiting
<1>2. db.run # "none" /\ Leads(db, _step_failed(db, row)) /\ Leads(db, SetRow(db, row, "waiting"))
  BY <1>1, TakesKnown, HandlerLeads
<1>. QED  BY <1>1, <1>2, LeadNext, Zenon

LEMMA ApprovalNext ==
  ASSUME EngineInv, _approval
  PROVE  EngineInv'
<1>1. PICK row \in todo :
        /\ Takes(row, "approval", {"waiting"})
        /\ \/ \E label : Return(row, FireOrFail(SetRow(db, row, "succeeded"), row.node, {label}), TRUE)
           \/ \E changed \in BOOLEAN : Return(row, db, changed)
        /\ Quiet
  BY Zenon DEF _approval
<1>2. /\ db.run # "none" /\ Leads(db, db)
      /\ \A labels : Leads(db, FireOrFail(SetRow(db, row, "succeeded"), row.node, labels))
  BY <1>1, TakesKnown, HandlerLeads
<1>. QED  BY <1>1, <1>2, LeadNext, Zenon

LEMMA TimerNext ==
  ASSUME EngineInv, _timer
  PROVE  EngineInv'
<1>1. PICK row \in todo :
        /\ Takes(row, "timer", {"waiting"})
        /\ \/ Return(row, _fire(SetRow(db, row, "succeeded"), row.node, {"always"}), TRUE)
           \/ Return(row, db, FALSE)
        /\ Quiet
  BY Zenon DEF _timer
<1>2. /\ db.run # "none" /\ Leads(db, db)
      /\ \A labels : Leads(db, _fire(SetRow(db, row, "succeeded"), row.node, labels))
  BY <1>1, TakesKnown, HandlerLeads
<1>. QED  BY <1>1, <1>2, LeadNext, Zenon

LEMMA WaitEventNext ==
  ASSUME EngineInv, _wait_event
  PROVE  EngineInv'
<1>1. PICK row \in todo :
        /\ Takes(row, "wait_event", {"waiting"})
        /\ \/ \E d \in {SetRow(db, row, "failed"), db} :
                \/ Return(row, _fire(d, row.node, {"timeout"}), TRUE)
                \/ Return(row, _fail_run(d), TRUE)
           \/ Return(row, db, FALSE)
        /\ Quiet
  BY Zenon DEF _wait_event
<1>2. /\ db.run # "none" /\ Leads(db, db) /\ Leads(db, _fail_run(db)) /\ Leads(db, _fail_run(SetRow(db, row, "failed")))
      /\ \A labels : /\ Leads(db, _fire(SetRow(db, row, "failed"), row.node, labels))
                     /\ Leads(db, _fire(db, row.node, labels))
  BY <1>1, TakesKnown, HandlerLeads, Zenon
<1>. QED  BY <1>1, <1>2, LeadNext, Zenon

\* a pass that begins knows the newest rows
LEMMA SnapshotNext ==
  ASSUME Fits(db), todo' = Snapshot(db), UNCHANGED <<wf, db, spawned, effects, retried>>
  PROVE  Queued'
<1>1. ASSUME NEW row \in Snapshot(db)
      PROVE  /\ Known(db, row)
             /\ row.was = "pending" /\ Node_(row.node).type = "agent" => spawned[row.node][row.visit] = 0
             /\ row.was = "pending" /\ Node_(row.node).type = "action" => MayPerform(row.node, row.visit)
             /\ row = [node |-> row.node, id |-> db.step[row.node].id, visit |-> db.step[row.node].visit,
                       was |-> db.step[row.node].status]
  <2>1. PICK n \in Steps : /\ db.step[n].status \in ACTIVE_STEP
                           /\ row = [node |-> n, id |-> db.step[n].id, visit |-> db.step[n].visit, was |-> db.step[n].status]
    BY DEF Snapshot
  <2>2. RowFits(db, n) /\ db.step[n].visit \in 0..MaxVisits /\ db.step[n].id \in Nat /\ MaxVisits \in Nat
    BY WorkflowAssumption, ZenonT(30) DEF Fits, Store, StepRow
  <2>3. db.step[n].visit \in Visits /\ db.step[n].id < db.next
    BY <2>1, <2>2 DEF RowFits, Visits, ACTIVE_STEP
  <2>4. row \in Row
    BY <2>1, <2>2, <2>3, Zenon DEF Row
  <2>5. Known(db, row)
    BY <2>1, <2>2, <2>3, <2>4 DEF Known, Visits
  <2>. QED  BY <2>1, <2>2, <2>5, ZenonT(30) DEF RowFits
<1>2. \A r, s \in Snapshot(db) : r.node = s.node => r = s
  BY <1>1
<1>. QED  BY <1>1, <1>2, ZenonT(30) DEF Queued, Known, Row, Steps, Node_, MayPerform

LEMMA AdvanceNext ==
  ASSUME EngineInv, advance
  PROVE  EngineInv'
<1>1. Fits(db)' /\ Made' /\ Living'
  BY FitsNext, MadeNext, Zenon DEF EngineInv, advance, Living
<1>2. Queued'
  BY SnapshotNext DEF EngineInv, advance
<1>3. Held'
  BY RestsNext DEF advance, Ongoing
<1>. QED  BY <1>1, <1>2, <1>3 DEF EngineInv

LEMMA SettleFits ==
  ASSUME NEW d, Fits(d), d.run # "none"
  PROVE  Fits(_settle(d)) /\ Grows(d, _settle(d)) /\ (d.run \in TERMINAL_RUN => _settle(d) = d)
<1> DEFINE e == _settle(d)
           statuses == {d.step[n].status : n \in Steps}
<1>1. d \in Store
  BY DEF Fits
<1>2. /\ e.next = d.next /\ e.step = d.step /\ e.approved = d.approved /\ e.outputs = d.outputs
      /\ e.run = IF d.run \in TERMINAL_RUN THEN d.run
                 ELSE IF statuses \cap {"pending", "running"} # {} THEN "running"
                 ELSE IF statuses \cap {"waiting", "uncertain"} # {} THEN "waiting"
                 ELSE "completed"
      /\ e = [d EXCEPT !.run = e.run]
  BY <1>1 DEF _settle, Store
<1>. HIDE DEF e
<1>3. /\ d.run \in TERMINAL_RUN => e.run = d.run
      /\ d.run \notin TERMINAL_RUN => \/ e.run \in Ongoing
                                      \/ e.run = "completed" /\ "waiting" \notin statuses
  BY <1>2 DEF Ongoing
<1>4. e \in Store
  BY <1>1, <1>2, <1>3, Zenon DEF Store, Ongoing, TERMINAL_RUN
<1>5. \A n \in Steps : RowFits(e, n)
  BY <1>2 DEF Fits, RowFits
<1>6. e.run \in TERMINAL_RUN => \A n \in Steps : e.step[n].status # "waiting"
  BY <1>2, <1>3 DEF Fits, Ongoing, TERMINAL_RUN
<1>7. e.run # "none"
  BY <1>3 DEF Ongoing, TERMINAL_RUN
<1>8. Fits(e)
  BY <1>2, <1>4, <1>5, <1>6, <1>7, Zenon DEF Fits
<1>9. Grows(d, e)
  BY <1>1, <1>2 DEF Grows, Store
<1>10. d.run \in TERMINAL_RUN => e = d
  BY <1>1, <1>2, <1>3 DEF Store
<1>. QED  BY <1>8, <1>9, <1>10 DEF e

LEMMA EndOfPassNext ==
  ASSUME EngineInv, EndOfPass
  PROVE  EngineInv'
<1>1. lock.at = "pass" /\ db.run \in Ongoing /\ db.run # "none"
  BY DEF EngineInv, EndOfPass, Held, Ongoing
<1>2. CASE moved
  <2>1. todo' = Snapshot(db) /\ UNCHANGED <<wf, db, child, spawned, effects, retried, lock, up, crashes>> /\ moved' = FALSE
    BY <1>2 DEF EndOfPass
  <2>2. Fits(db)' /\ Made' /\ Living' /\ Queued'
    BY <2>1, FitsNext, MadeNext, SnapshotNext, Zenon DEF EngineInv, Living
  <2>3. Held'
    BY <1>1, <2>1 DEF EngineInv, Held, Row, Steps, OfAgent, OfAction, Handling
  <2>. QED  BY <2>2, <2>3 DEF EngineInv
<1>3. CASE ~moved
  <2>1. /\ db' = _settle(db) /\ lock' = Free
        /\ UNCHANGED <<wf, child, spawned, effects, retried, todo, moved, up, crashes>>
    BY <1>3 DEF EndOfPass
  <2>2. Fits(db') /\ Grows(db, db')
    BY <1>1, <2>1, SettleFits, Zenon DEF EngineInv
  <2>3. Fits(db)' /\ Made' /\ Living' /\ Queued'
    BY <2>1, <2>2, FitsNext, MadeNext, QueuedNext DEF EngineInv, Living, Grows, Fits
  <2>. QED  BY <2>1, <2>3, RestsNext DEF EngineInv
<1>. QED  BY <1>2, <1>3, ZenonT(30)

\* the children of a run that has ended are cancelled next
LEMMA CancelHeld ==
  ASSUME NEW K \in SUBSET Steps, lock' = [Free EXCEPT !.at = "cancel", !.kids = K], wf' = wf,
         db'.run \in TERMINAL_RUN
  PROVE  Held'
<1>1. lock' = [at |-> "cancel", row |-> NoTask, tries |-> 0, kids |-> K]
  BY Zenon DEF Free
<1>2. 0 \in 0..max_attempts /\ "cancel" \in Places
  BY WorkflowAssumption DEF Places
<1>. QED  BY <1>1, <1>2 DEF Held, OfAgent, OfAction, Handling, Steps

LEMMA EndNext ==
  ASSUME EngineInv, _end
  PROVE  EngineInv'
<1>1. PICK row \in todo, r \in {"failed", "completed"} :
        /\ Takes(row, "end", ACTIVE_STEP)
        /\ db' = [SkipActive(SetRow(db, row, "succeeded")) EXCEPT !.run = r]
        /\ lock' = [Free EXCEPT !.at = "cancel", !.kids = Children(db, {"waiting"})]
        /\ todo' = {} /\ moved' = FALSE /\ Quiet
  BY DEF _end
<1>2. Leads(db, SetRow(db, row, "succeeded"))
  BY <1>1, TakesKnown, StepEndsLeads
<1>3. Follows(db, db') /\ db'.run = r
  <2>1. Fits(SetRow(db, row, "succeeded")) /\ Follows(db, SetRow(db, row, "succeeded"))
    BY <1>2 DEF Leads, Follows
  <2>2. Follows(SetRow(db, row, "succeeded"), db') /\ db'.run = r
    BY <1>1, <2>1, SkipFollows, Zenon DEF TERMINAL_RUN
  <2>. QED  BY <2>1, <2>2, FollowsOn DEF EngineInv
<1>4. Fits(db') /\ Grows(db, db')
  BY <1>3 DEF Follows
<1>5. Fits(db)' /\ Made' /\ Living' /\ Queued'
  BY <1>1, <1>4, FitsNext, MadeNext, Zenon DEF EngineInv, Living, Grows, Queued, Quiet
<1>6. Held'
  BY <1>1, <1>3, CancelHeld, Zenon DEF Children, Quiet, TERMINAL_RUN
<1>. QED  BY <1>5, <1>6 DEF EngineInv
-----------------------------------------------------------------------------
(* The handlers that take several transactions.                            *)

LEMMA HeldNext ==
  ASSUME wf' = wf, lock' \in [at : Handling, row : Row, tries : 0..max_attempts, kids : SUBSET Steps],
         Known(db', lock'.row), \A row \in todo' : row.node # lock'.row.node,
         lock'.at \in OfAgent => db'.run \in Ongoing,
         lock'.at \notin OfAgent => db'.run \in Ongoing \cup {"failed"},
         lock'.at = "create" => spawned'[lock'.row.node][lock'.row.visit] = 0,
         lock'.at \in OfAction => /\ Node_(lock'.row.node).type = "action"
                                  /\ ~allow_unapproved_writes => Gated(lock'.row.node, db'),
         lock'.at \in {"create", "io", "reply"} => NotPending(db', lock'.row),
         lock'.at \in {"io", "reply"} => lock'.tries >= 1,
         lock'.at = "start" \/ (lock'.at = "io" /\ lock'.tries = 1) => MayPerform(lock.row.node, lock.row.visit)'
  PROVE  Held'
<1>1. Known(db, lock.row)' /\ lock' \in [at : Places, row : Row' \cup {NoTask}, tries : 0..max_attempts, kids : SUBSET Steps']
  BY Zenon DEF Known, Row, Steps, Handling, OfAgent, OfAction, Places, Awaits
<1>2. lock'.at \in OfAction /\ ~allow_unapproved_writes => Gated(lock.row.node, db)'
  BY Zenon DEF Gated, Gates, Node_
<1>3. lock'.at \in {"create", "io", "reply"} => NotPending(db, lock.row)'
  BY DEF NotPending
<1>4. lock'.at \in Handling /\ Handling = OfAgent \cup OfAction \cup {"fire"} /\ lock'.at \notin {"pass", "cancel"}
  BY DEF Handling, OfAgent, OfAction
<1>5. lock'.at \in OfAction \cup {"fire"} => lock'.at \notin OfAgent
  BY DEF OfAgent, OfAction
<1>. QED  BY <1>1, <1>2, <1>3, <1>4, <1>5, ZenonT(30) DEF Held, Node_

LEMMA StageNext ==
  ASSUME EngineInv, NEW row \in todo, NEW at \in OfAgent \cup {"find", "start"}, Stage(row, at), Quiet,
         Fits(db'), Grows(db, db'), db'.run \in Ongoing,
         at = "create" => spawned[row.node][row.visit] = 0 /\ NotPending(db', row),
         at \in OfAction => /\ Node_(row.node).type = "action"
                            /\ ~allow_unapproved_writes => Gated(row.node, db'),
         at = "start" => MayPerform(row.node, row.visit)
  PROVE  EngineInv'
<1>1. at \in Places /\ at \in Handling /\ at \notin {"io", "reply"}
  BY ZenonT(30) DEF Places, Awaits, Handling, OfAgent, OfAction
<1>2. /\ todo' \subseteq todo /\ \A r \in todo' : r.node # row.node
      /\ lock' \in [at : Places, row : Row, tries : 0..max_attempts, kids : SUBSET Steps]
      /\ lock'.at = at /\ lock'.row = row /\ lock'.tries = 0
  BY <1>1, StagedKeeps, Zenon
<1>3. lock' \in [at : Handling, row : Row, tries : 0..max_attempts, kids : SUBSET Steps]
  BY <1>1, <1>2, ZenonT(30)
<1>4. Fits(db)' /\ Made' /\ Queued'
  BY <1>2, FitsNext, MadeNext, QueuedNext, Zenon DEF EngineInv, Quiet, Grows, Fits
<1>5. Living'
  BY ZenonT(30) DEF EngineInv, Living, Quiet, Stage
<1>6. Known(db', row)
  BY KnownStays, ZenonT(30) DEF EngineInv, Queued, Fits
<1>7. lock'.at = "start" => MayPerform(lock.row.node, lock.row.visit)'
  BY <1>2, Zenon DEF MayPerform, Quiet, Node_
<1>8. Held'
  BY <1>1, <1>2, <1>3, <1>6, <1>7, HeldNext, Zenon DEF Quiet
<1>. QED  BY <1>4, <1>5, <1>8 DEF EngineInv

LEMMA AgentIntentNext ==
  ASSUME EngineInv, AgentIntent
  PROVE  EngineInv'
<1>1. PICK row \in todo :
        /\ Takes(row, "agent", {"pending"})
        /\ \/ db' = SetRow(db, row, "running") /\ Stage(row, "create")
           \/ Return(row, _step_failed(db, row), TRUE)
        /\ Quiet
  BY Zenon DEF AgentIntent
<1>2. /\ Known(db, row) /\ row \in Row /\ Node_(row.node).type = "agent" /\ row.was = "pending"
      /\ db.run \in Ongoing /\ db.run # "none" /\ wf \in DOMAIN Definitions /\ Fits(db)
  BY <1>1, TakesKnown
<1>3. CASE db' = SetRow(db, row, "running") /\ Stage(row, "create")
  <2>1. "running" \in StepStatus
    BY DEF StepStatus, ACTIVE_STEP
  <2>2. Follows(db, db') /\ db'.run = db.run /\ NotPending(db', row)
    BY <1>2, <1>3, <2>1, SetRowFollows, ZenonT(30)
  <2>3. spawned[row.node][row.visit] = 0
    BY <1>2 DEF EngineInv, Queued
  <2>4. "create" \in OfAgent /\ "create" \notin OfAction
    BY DEF OfAgent, OfAction
  <2>. QED  BY <1>1, <1>2, <1>3, <2>2, <2>3, <2>4, StageNext, Zenon DEF Follows
<1>4. CASE Return(row, _step_failed(db, row), TRUE)
  BY <1>1, <1>2, <1>4, HandlerLeads, LeadNext, Zenon
<1>. QED  BY <1>1, <1>3, <1>4, Zenon

LEMMA AgentFoundNext ==
  ASSUME EngineInv, AgentFound
  PROVE  EngineInv'
<1>1. PICK row \in todo :
        /\ Takes(row, "agent", {"running"})
        /\ \/ child[row.node][row.visit] = "none" /\ Return(row, SetRow(db, row, "pending"), TRUE)
           \/ Stage(row, "link") /\ UNCHANGED db
        /\ Quiet
  BY Zenon DEF AgentFound
<1>2. /\ Known(db, row) /\ row \in Row /\ Node_(row.node).type = "agent"
      /\ db.run \in Ongoing /\ db.run # "none" /\ db.run \notin TERMINAL_RUN /\ Fits(db)
  BY <1>1, TakesKnown
<1>3. CASE child[row.node][row.visit] = "none" /\ Return(row, SetRow(db, row, "pending"), TRUE)
  <2> DEFINE e == SetRow(db, row, "pending")
  <2>1. row.node \in Steps /\ row.visit \in Visits /\ spawned[row.node][row.visit] = 0
    BY <1>2, <1>3, ZenonT(30) DEF EngineInv, Made, Row
  <2>2. Fits(e) /\ Grows(db, e) /\ e.run = db.run
    <3>1. CASE db.step[row.node].id # row.id
      BY <1>2, <3>1, FollowsSelf, Zenon DEF SetRow, Follows
    <3>2. CASE db.step[row.node].id = row.id
      <4>1. db.step[row.node].visit = row.visit /\ e = SetStatus(db, row.node, "pending") /\ row.visit > 0
        <5>1. row.visit > 0
          BY <2>1, VisitsFromOne, Zenon
        <5>. QED  BY <1>2, <3>2, <5>1, Zenon DEF Known, SetRow
      <4>2. Restated(db, row.node, e) /\ e.step[row.node].status = "pending"
        BY <1>2, <2>1, <4>1, SetStatusRestates DEF Fits, StepStatus, ACTIVE_STEP
      <4>. HIDE DEF e
      <4>3. RowFits(e, row.node)
        BY <1>2, <2>1, <4>1, <4>2, ZenonT(30) DEF Restated, RowFits, Fits
      <4>4. \A m \in Steps \ {row.node} : RowFits(e, m)
        BY <1>2, <4>2, ZenonT(30) DEF Restated, RowFits, Fits
      <4>5. Fits(e)
        BY <1>2, <4>2, <4>3, <4>4, Zenon DEF Restated, Fits
      <4>6. Grows(db, e)
        BY <1>2, <4>2 DEF Restated, Grows, Fits, Store
      <4>. QED  BY <4>2, <4>5, <4>6, ZenonT(30) DEF Restated
    <3>. QED  BY <3>1, <3>2, ZenonT(30)
  <2>3. Made'
    BY <1>1, <1>3, <2>2, MadeNext, ZenonT(30) DEF EngineInv, Grows, Quiet, Return
  <2>. QED  BY <1>1, <1>2, <1>3, <2>2, <2>3, ReturnNext, ZenonT(30) DEF Quiet
<1>4. CASE Stage(row, "link") /\ UNCHANGED db
  <2>1. "link" \in OfAgent /\ "link" \notin OfAction
    BY DEF OfAgent, OfAction
  <2>2. Grows(db, db)
    BY <1>2, FollowsSelf DEF Follows
  <2>. QED  BY <1>1, <1>2, <1>4, <2>1, <2>2, StageNext, Zenon
<1>. QED  BY <1>1, <1>3, <1>4, Zenon

LEMMA AgentPolledNext ==
  ASSUME EngineInv, AgentPolled
  PROVE  EngineInv'
<1>1. PICK row \in todo :
        /\ Takes(row, "agent", {"waiting"})
        /\ \/ Stage(row, "launch") /\ UNCHANGED db
           \/ Return(row, _fire(SetRow(db, row, "succeeded"), row.node, {"always"}), TRUE)
           \/ Return(row, _step_failed(db, row), TRUE)
           \/ Return(row, db, FALSE)
        /\ Quiet
  BY Zenon DEF AgentPolled
<1>2. /\ Known(db, row) /\ db.run \in Ongoing /\ db.run # "none" /\ wf \in DOMAIN Definitions /\ Fits(db)
  BY <1>1, TakesKnown, ZenonT(30)
<1>3. CASE Stage(row, "launch") /\ UNCHANGED db
  <2>1. "launch" \in OfAgent /\ "launch" \notin OfAction
    BY DEF OfAgent, OfAction
  <2>2. Grows(db, db)
    BY <1>2, FollowsSelf DEF Follows
  <2>. QED  BY <1>1, <1>2, <1>3, <2>1, <2>2, StageNext, ZenonT(30)
<1>4. CASE \/ Return(row, _fire(SetRow(db, row, "succeeded"), row.node, {"always"}), TRUE)
           \/ Return(row, _step_failed(db, row), TRUE)
           \/ Return(row, db, FALSE)
  <2>1. Leads(db, db) /\ Leads(db, _step_failed(db, row)) /\ Leads(db, _fire(SetRow(db, row, "succeeded"), row.node, {"always"}))
    BY <1>2, HandlerLeads, Zenon
  <2>. QED  BY <1>1, <1>2, <1>4, <2>1, LeadNext, Zenon
<1>. QED  BY <1>1, <1>3, <1>4, Zenon

\* what is known while a handler is at work
LEMMA AtWork ==
  ASSUME EngineInv, lock.at \in Handling
  PROVE  /\ Known(db, lock.row) /\ lock.row \in Row /\ lock.row.node \in Steps /\ lock.row.visit \in Visits
         /\ \A row \in todo : row.node # lock.row.node
         /\ db.run \in Ongoing \cup {"failed"} /\ db.run # "none"
         /\ wf \in DOMAIN Definitions /\ Fits(db)
         /\ lock = [at |-> lock.at, row |-> lock.row, tries |-> lock.tries, kids |-> lock.kids]
         /\ lock.tries \in 0..max_attempts /\ lock.kids \in SUBSET Steps
         /\ Leads(db, _step_failed(db, lock.row))
<1>1. /\ Known(db, lock.row) /\ lock.row \in Row /\ db.run \in Ongoing \cup {"failed"} /\ db.run # "none"
      /\ wf \in DOMAIN Definitions /\ Fits(db) /\ \A row \in todo : row.node # lock.row.node
      /\ lock = [at |-> lock.at, row |-> lock.row, tries |-> lock.tries, kids |-> lock.kids]
      /\ lock.tries \in 0..max_attempts /\ lock.kids \in SUBSET Steps
  BY Zenon DEF EngineInv, Held, Known, Living, Handling, OfAgent, OfAction, Ongoing
<1>. QED  BY <1>1, StepFailedLeads, ZenonT(30) DEF Row

LEMMA CreateChildNext ==
  ASSUME EngineInv, CreateChild
  PROVE  EngineInv'
<1> DEFINE n == lock.row.node
           v == lock.row.visit
<1>1. lock.at = "create" /\ lock.at \in Handling
  BY ZenonT(30) DEF CreateChild, Handling, OfAgent
<1>2. spawned[n][v] = 0 /\ NotPending(db, lock.row) /\ db.run \in Ongoing
  BY <1>1 DEF EngineInv, Held, OfAgent
<1>3. CASE /\ SetChild(lock.row, "created")
           /\ spawned' = [spawned EXCEPT ![lock.row.node][lock.row.visit] = @ + 1]
           /\ lock' = [lock EXCEPT !.at = IF Node_(lock.row.node).overrides THEN "override" ELSE "link"]
           /\ UNCHANGED <<wf, db, todo, moved, effects, retried, up, crashes>>
  <2>1. /\ \A m \in Steps, w \in Visits : <<m, w>> # <<n, v>> => spawned'[m][w] = spawned[m][w] /\ child'[m][w] = child[m][w]
        /\ spawned'[n][v] = 1 /\ child'[n][v] = "created"
        /\ spawned' \in [Steps -> [Visits -> Nat]]
        /\ child' \in [Steps -> [Visits -> AGENT_TERMINAL \cup {"none", "created", "active", "interrupted"}]]
    BY <1>1, <1>2, <1>3, AtWork DEF EngineInv, Made, SetChild
  <2>2. Made'
    <3>1. RecordedOnce' /\ (GateHolds => GateHolds')
      BY <1>3, ZenonT(30) DEF EngineInv, Made, RecordedOnce, GateHolds, Gates, Steps, Node_
    <3>2. ChildOnce'
      BY <1>3, <2>1 DEF EngineInv, Made, ChildOnce, Steps
    <3>3. \A m \in Steps, w \in Visits : child'[m][w] = "none" => spawned'[m][w] = 0
      <4> SUFFICES ASSUME NEW m \in Steps, NEW w \in Visits, child'[m][w] = "none"
                   PROVE  spawned'[m][w] = 0
        OBVIOUS
      <4>1. <<m, w>> # <<n, v>>
        BY <2>1, ZenonT(30)
      <4>2. spawned'[m][w] = spawned[m][w] /\ child'[m][w] = child[m][w]
        BY <2>1, <4>1
      <4>. QED  BY <4>2 DEF EngineInv, Made
    <3>. QED  BY <1>3, <2>1, <3>1, <3>2, <3>3, Zenon DEF EngineInv, Made, Steps
  <2>3. Living'
    BY <1>3 DEF EngineInv, Living
  <2>4. Fits(db)'
    <3>1. ASSUME NEW m \in Steps PROVE RowFits(db, m)'
      <4>1. RowFits(db, m) /\ db.step[m].visit \in Nat /\ db.next \in Nat
        BY RowOf, Zenon DEF EngineInv
      <4>2. CASE m # n
        BY <1>3, <2>1, <4>1, <4>2, ZenonT(30) DEF RowFits, MayPerform, Node_, Visits
      <4>3. CASE m = n
        <5>1. v <= db.step[n].visit /\ (db.step[n].visit = v => db.step[n].status # "pending") /\ v \in Visits
          BY <1>1, <1>2, AtWork, Zenon DEF Known, NotPending
        <5>2. \A w \in Visits : w > db.step[n].visit => spawned'[n][w] = spawned[n][w]
          <6>1. ASSUME NEW w \in Visits, w > db.step[n].visit PROVE <<n, w>> # <<n, v>>
            BY <4>1, <4>3, <5>1, <6>1, LaterVisit, Zenon
          <6>2. n \in Steps
            BY <4>3
          <6>. QED  BY <2>1, <6>1, <6>2, Zenon
        <5>3. db.step[n].status = "pending" => spawned'[n][db.step[n].visit] = spawned[n][db.step[n].visit]
          <6>1. db.step[n].visit \in 0..MaxVisits /\ (db.step[n].status = "pending" => db.step[n].visit > 0) /\ n \in Steps
            BY <4>1, <4>3, ZenonT(30) DEF EngineInv, Fits, Store, StepRow, RowFits
          <6>2. db.step[n].status = "pending" => db.step[n].visit \in Visits /\ db.step[n].visit # v
            BY <5>1, <6>1, VisitOf, Zenon
          <6>. QED  BY <2>1, <6>1, <6>2, ZenonT(30)
        <5>. QED  BY <1>3, <4>1, <4>3, <5>2, <5>3, ZenonT(30) DEF RowFits, MayPerform, Node_
      <4>. QED  BY <4>2, <4>3
    <3>. QED  BY <1>3, <3>1, ZenonT(30) DEF EngineInv, Fits, Store, StepRow, Steps, Node_
  <2>5. Queued'
    <3>1. \A row \in todo : row.node # n /\ row.node \in Steps /\ row.visit \in Visits
      BY <1>1, AtWork, Zenon DEF EngineInv, Queued, Known, Row
    <3>2. \A row \in todo : spawned'[row.node][row.visit] = spawned[row.node][row.visit]
      BY <2>1, <3>1, Zenon
    <3>. QED  BY <1>3, <3>2, Zenon DEF EngineInv, Queued, Known, Row, Steps, Node_, MayPerform
  <2>6. Held'
    <3>1. lock'.at \in {"override", "link"} /\ lock'.row = lock.row
          /\ lock' \in [at : {"override", "link"}, row : Row, tries : 0..max_attempts, kids : SUBSET Steps]
      BY <1>1, <1>3, AtWork
    <3>2. {"override", "link"} \subseteq OfAgent /\ OfAgent \subseteq Handling /\ {"override", "link"} \cap OfAction = {}
      BY DEF OfAgent, OfAction, Handling
    <3>3. lock' \in [at : Handling, row : Row, tries : 0..max_attempts, kids : SUBSET Steps]
      BY <3>1, <3>2
    <3>. QED  BY <1>1, <1>2, <1>3, <3>1, <3>2, <3>3, AtWork, HeldNext, ZenonT(30)
  <2>. QED  BY <2>2, <2>3, <2>4, <2>5, <2>6, ZenonT(30) DEF EngineInv
<1>4. CASE Return(lock.row, _step_failed(db, lock.row), TRUE) /\ Quiet
  BY <1>1, <1>4, AtWork, LeadNext, Zenon
<1>. QED  BY <1>3, <1>4, ZenonT(30) DEF CreateChild, Quiet

\* a handler goes on with its next transaction
LEMMA WorkNext ==
  ASSUME EngineInv, lock.at \in Handling, NEW at \in Handling \ {"create"}, NEW tries \in 0..max_attempts,
         lock' = [lock EXCEPT !.at = at, !.tries = tries], Quiet, UNCHANGED <<todo, moved>>,
         Fits(db'), Grows(db, db'),
         at \in OfAgent => db'.run \in Ongoing,
         at \notin OfAgent => db'.run \in Ongoing \cup {"failed"},
         at \in OfAction => lock.at \in OfAction,
         at \in {"io", "reply"} => NotPending(db', lock.row) /\ tries >= 1,
         at = "start" \/ (at = "io" /\ tries = 1) => MayPerform(lock.row.node, lock.row.visit)
  PROVE  EngineInv'
<1>1. /\ lock' \in [at : Handling, row : Row, tries : 0..max_attempts, kids : SUBSET Steps]
      /\ lock'.at = at /\ lock'.row = lock.row /\ lock'.tries = tries
  BY AtWork, Zenon
<1>2. Fits(db)' /\ Made' /\ Queued'
  BY FitsNext, MadeNext, QueuedNext DEF EngineInv, Quiet, Grows, Fits
<1>3. Living'
  BY DEF EngineInv, Living, Quiet
<1>4. Known(db', lock.row)
  BY AtWork, KnownStays DEF Fits
<1>5. at \in OfAction => /\ Node_(lock.row.node).type = "action"
                         /\ ~allow_unapproved_writes => Gated(lock.row.node, db')
  BY DEF EngineInv, Held, Gated, Grows
<1>6. at = "start" \/ (at = "io" /\ tries = 1) => MayPerform(lock.row.node, lock.row.visit)'
  BY <1>1 DEF MayPerform, Quiet, Node_
<1>7. Held'
  BY <1>1, <1>4, <1>5, <1>6, AtWork, HeldNext, ZenonT(30) DEF Quiet
<1>. QED  BY <1>2, <1>3, <1>7 DEF EngineInv

LEMMA LockAt ==
  ASSUME EngineInv, NEW at
  PROVE  [lock EXCEPT !.at = at] = [lock EXCEPT !.at = at, !.tries = lock.tries]
BY ZenonT(30) DEF EngineInv, Held

LEMMA OverrideChildNext ==
  ASSUME EngineInv, OverrideChild
  PROVE  EngineInv'
<1>1. lock.at \in Handling /\ db.run \in Ongoing
  BY DEF OverrideChild, Handling, OfAgent, EngineInv, Held
<1>2. CASE lock' = [lock EXCEPT !.at = "link"] /\ UNCHANGED <<db, todo, moved>> /\ Quiet
  <2>1. "link" \in Handling \ {"create"} /\ "link" \notin OfAction /\ "link" \in OfAgent
    BY DEF Handling, OfAgent, OfAction
  <2>2. Fits(db') /\ Grows(db, db')
    BY <1>2, FollowsSelf DEF Follows, EngineInv
  <2>. QED  BY <1>1, <1>2, <2>1, <2>2, LockAt, AtWork, WorkNext, Zenon
<1>3. CASE Return(lock.row, _step_failed(db, lock.row), TRUE) /\ Quiet
  BY <1>1, <1>3, AtWork, LeadNext, Zenon
<1>. QED  BY <1>2, <1>3, Zenon DEF OverrideChild

LEMMA LinkFollows ==
  ASSUME NEW d, Fits(d), NEW n \in Steps, NEW linked \in BOOLEAN
  PROVE  LET e == [d EXCEPT !.step[n].linked = linked] IN Follows(d, e) /\ e.run = d.run
<1> DEFINE e == [d EXCEPT !.step[n].linked = linked]
<1>1. d \in Store
  BY DEF Fits
<1>2. /\ e \in Store /\ e.run = d.run /\ e.next = d.next /\ e.approved = d.approved
      /\ \A m \in Steps : /\ e.step[m].visit = d.step[m].visit /\ e.step[m].id = d.step[m].id
                          /\ e.step[m].status = d.step[m].status
  BY <1>1, ZenonT(30) DEF Store, StepRow
<1>. HIDE DEF e
<1>3. \A m \in Steps : RowFits(e, m)
  BY <1>2, ZenonT(30) DEF Fits, RowFits
<1>4. Fits(e)
  BY <1>2, <1>3, Zenon DEF Fits
<1>5. Grows(d, e) /\ NoneAgain(d, e)
  BY <1>1, <1>2 DEF Grows, NoneAgain, Store
<1>. QED  BY <1>2, <1>4, <1>5, ZenonT(30) DEF Follows, e

LEMMA LinkChildNext ==
  ASSUME EngineInv, LinkChild
  PROVE  EngineInv'
<1> DEFINE d == SetRow(db, lock.row, "waiting")
           linked == d.step[lock.row.node].id = lock.row.id
<1>1. lock.at \in Handling /\ db.run \in Ongoing /\ db.run \notin TERMINAL_RUN
  BY DEF LinkChild, Handling, OfAgent, EngineInv, Held, Ongoing, TERMINAL_RUN
<1>2. Follows(db, d) /\ d.run = db.run
  BY <1>1, AtWork, SetRowFollows, ZenonT(30) DEF StepStatus, ACTIVE_STEP
<1>3. db' = [d EXCEPT !.step[lock.row.node].linked = linked] /\ linked \in BOOLEAN
  BY DEF LinkChild
<1>. HIDE DEF d, linked
<1>4. Follows(d, db') /\ db'.run = d.run
  BY <1>1, <1>2, <1>3, AtWork, LinkFollows, ZenonT(30) DEF Follows
<1>5. Fits(db') /\ Grows(db, db') /\ db'.run \in Ongoing
  BY <1>1, <1>2, <1>4, FollowsOn, AtWork, Zenon DEF Follows
<1>6. "launch" \in Handling \ {"create"} /\ "launch" \notin OfAction /\ "launch" \in OfAgent
  BY DEF Handling, OfAgent, OfAction
<1>. QED  BY <1>1, <1>5, <1>6, LockAt, AtWork, WorkNext, ZenonT(30) DEF LinkChild, Quiet

LEMMA LaunchChildNext ==
  ASSUME EngineInv, LaunchChild
  PROVE  EngineInv'
<1>1. lock.at \in Handling /\ db.run # "none" /\ Fits(db) /\ Grows(db, db)
  BY FollowsSelf, Zenon DEF LaunchChild, Handling, OfAgent, EngineInv, Held, Ongoing, Follows
<1>2. /\ \A n \in Steps, v \in Visits : child'[n][v] = "none" => child[n][v] = "none"
      /\ child' \in [Steps -> [Visits -> AGENT_TERMINAL \cup {"none", "created", "active", "interrupted"}]]
  <2>1. lock.row.node \in Steps /\ lock.row.visit \in Visits
    BY <1>1, AtWork
  <2>2. child' = child \/ child' = [child EXCEPT ![lock.row.node][lock.row.visit] = "active"]
    BY DEF LaunchChild, SetChild
  <2>3. child \in [Steps -> [Visits -> AGENT_TERMINAL \cup {"none", "created", "active", "interrupted"}]]
    BY DEF EngineInv, Made
  <2>4. CASE child' = child
    BY <2>3, <2>4
  <2>5. CASE child' = [child EXCEPT ![lock.row.node][lock.row.visit] = "active"]
    BY <2>1, <2>3, <2>5, Zenon
  <2>. QED  BY <2>2, <2>4, <2>5
<1>3. db' = db /\ UNCHANGED <<wf, spawned, effects, retried, up, crashes>>
  BY ZenonT(30) DEF LaunchChild, Return
<1>4. Made'
  BY <1>2, <1>3, ZenonT(30) DEF EngineInv, Made, RecordedOnce, ChildOnce, GateHolds, Gates, Steps, Node_
<1>. QED  BY <1>1, <1>3, <1>4, ReturnNext, Zenon DEF LaunchChild

\* the children move: none is made, none is forgotten
LEMMA ChildrenNext ==
  ASSUME EngineInv, UNCHANGED <<wf, db, spawned, effects, retried>>,
         child' \in [Steps -> [Visits -> AGENT_TERMINAL \cup {"none", "created", "active", "interrupted"}]],
         \A n \in Steps, v \in Visits : child'[n][v] = "none" => child[n][v] = "none"
  PROVE  Fits(db)' /\ Made'
<1>1. Fits(db)'
  BY FitsNext, ZenonT(30) DEF EngineInv
<1>2. Made'
  BY ZenonT(30) DEF EngineInv, Made, RecordedOnce, ChildOnce, GateHolds, Gates, Steps, Node_
<1>. QED  BY <1>1, <1>2

LEMMA CancelChildrenNext ==
  ASSUME EngineInv, CancelChildren
  PROVE  EngineInv'
<1>1. /\ child' \in [Steps -> [Visits -> AGENT_TERMINAL \cup {"none", "created", "active", "interrupted"}]]
      /\ \A n \in Steps, v \in Visits : child'[n][v] = "none" => child[n][v] = "none"
  BY DEF CancelChildren, EngineInv, Made, AGENT_TERMINAL
<1>2. UNCHANGED <<wf, db, spawned, effects, retried, todo, moved, up, crashes>> /\ lock' = Free
  BY DEF CancelChildren
<1>3. Fits(db)' /\ Made'
  BY <1>1, <1>2, ChildrenNext, Zenon
<1>4. Queued' /\ Living'
  BY <1>2 DEF EngineInv, Queued, Living, Known, Row, Steps, Node_, MayPerform
<1>. QED  BY <1>2, <1>3, <1>4, RestsNext DEF EngineInv
-----------------------------------------------------------------------------
(* _action.                                                                *)

\* what the gate lets through has an approval before it
LEMMA ActionNext ==
  ASSUME EngineInv, _action
  PROVE  EngineInv'
<1>1. PICK row \in todo, verdict \in {"allow", "approval_required", "deny"} :
        /\ Takes(row, "action", {"pending", "running"})
        /\ \/ Return(row, _step_failed(db, row), TRUE)
           \/ /\ ~Refused(row.node, verdict)
              /\ Stage(row, IF row.was = "running" THEN "find" ELSE "start") /\ UNCHANGED db
        /\ Quiet
  BY Zenon DEF _action
<1>2. /\ Known(db, row) /\ row \in Row /\ Node_(row.node).type = "action" /\ row.was \in {"pending", "running"}
      /\ db.run \in Ongoing /\ db.run # "none" /\ wf \in DOMAIN Definitions /\ Fits(db)
  BY <1>1, TakesKnown
<1>3. CASE Return(row, _step_failed(db, row), TRUE)
  BY <1>1, <1>2, <1>3, HandlerLeads, LeadNext, ZenonT(30)
<1>4. CASE /\ ~Refused(row.node, verdict)
           /\ Stage(row, IF row.was = "running" THEN "find" ELSE "start") /\ UNCHANGED db
  <2> DEFINE at == IF row.was = "running" THEN "find" ELSE "start"
  <2>1. at \in OfAgent \cup {"find", "start"} /\ at # "create" /\ (at = "start" => row.was = "pending")
    BY <1>2, ZenonT(30)
  <2>2. at = "start" => MayPerform(row.node, row.visit)
    BY <1>2, <2>1, ZenonT(30) DEF EngineInv, Queued
  <2>3. ~allow_unapproved_writes => Gated(row.node, db)
    <3>1. db.approved \subseteq Steps /\ \A n \in db.approved : Node_(n).type = "approval"
      BY <1>2 DEF Fits, Store
    <3>. QED  BY <1>4, <3>1, Zenon DEF Refused, Gated, Gates, _approver
  <2>4. Grows(db, db)
    BY <1>2, FollowsSelf DEF Follows
  <2>. HIDE DEF at
  <2>. QED  BY <1>1, <1>2, <1>4, <2>1, <2>2, <2>3, <2>4, StageNext, ZenonT(30) DEF at
<1>. QED  BY <1>1, <1>3, <1>4, Zenon

LEMMA ReconcileNext ==
  ASSUME EngineInv, Reconcile
  PROVE  EngineInv'
<1>1. /\ lock.at = "find" /\ lock.at \in Handling /\ lock.at \in OfAction
      /\ Node_(lock.row.node).type = "action"
  BY DEF Reconcile, Handling, OfAction, EngineInv, Held
<1>2. CASE /\ db' = SetRow(db, lock.row, "succeeded") /\ lock' = [lock EXCEPT !.at = "fire"]
           /\ UNCHANGED <<todo, moved>> /\ Quiet
  <2>1. Follows(db, db') /\ db'.run \in Ongoing \cup {"failed"}
    BY <1>1, <1>2, AtWork, SetRowFollows DEF StepStatus
  <2>2. "fire" \in Handling \ {"create"} /\ "fire" \notin OfAgent \cup OfAction
    BY DEF Handling, OfAgent, OfAction
  <2>. QED  BY <1>1, <1>2, <2>1, <2>2, LockAt, AtWork, WorkNext, Zenon DEF Follows
<1>3. CASE Return(lock.row, SetRow(db, lock.row, "uncertain"), TRUE) /\ Quiet
  <2>1. Leads(db, SetRow(db, lock.row, "uncertain"))
    BY <1>1, AtWork, SetRowFollows DEF StepStatus, Leads
  <2>. QED  BY <1>1, <1>3, <2>1, AtWork, LeadNext, ZenonT(30)
<1>4. CASE /\ Node_(lock.row.node).idempotent /\ lock' = [lock EXCEPT !.at = "start"]
           /\ UNCHANGED <<db, todo, moved>> /\ Quiet
  <2>1. "start" \in Handling \ {"create"} /\ "start" \notin OfAgent /\ "start" \in OfAction
    BY DEF Handling, OfAgent, OfAction
  <2>2. MayPerform(lock.row.node, lock.row.visit)
    BY <1>4 DEF MayPerform
  <2>3. Fits(db') /\ Grows(db, db')
    BY <1>4, FollowsSelf DEF Follows, EngineInv
  <2>. QED  BY <1>1, <1>4, <2>1, <2>2, <2>3, LockAt, AtWork, WorkNext, ZenonT(30)
<1>. QED  BY <1>2, <1>3, <1>4, Zenon DEF Reconcile

LEMMA StartActionNext ==
  ASSUME EngineInv, StartAction
  PROVE  EngineInv'
<1>1. lock.at = "start" /\ lock.at \in Handling /\ lock.at \in OfAction /\ MayPerform(lock.row.node, lock.row.visit)
  BY DEF StartAction, Handling, OfAction, EngineInv, Held
<1>2. CASE /\ db' = SetRow(db, lock.row, "running") /\ lock' = [lock EXCEPT !.at = "io", !.tries = 1]
           /\ UNCHANGED <<todo, moved>> /\ Quiet
  <2>1. Follows(db, db') /\ db'.run \in Ongoing \cup {"failed"} /\ NotPending(db', lock.row)
    BY <1>1, <1>2, AtWork, SetRowFollows DEF StepStatus, ACTIVE_STEP
  <2>2. "io" \in Handling \ {"create"} /\ "io" \notin OfAgent /\ "io" \in OfAction /\ 1 \in 0..max_attempts
    BY WorkflowAssumption DEF Handling, OfAgent, OfAction
  <2>3. Fits(db') /\ Grows(db, db') /\ 1 >= 1
    BY <2>1 DEF Follows
  <2>. QED  BY <1>1, <1>2, <2>1, <2>2, <2>3, WorkNext, ZenonT(30)
<1>3. CASE Return(lock.row, _step_failed(db, lock.row), TRUE) /\ Quiet
  BY <1>1, <1>3, AtWork, LeadNext, Zenon
<1>. QED  BY <1>2, <1>3, ZenonT(30) DEF StartAction

\* one more effect of the visit in hand, the first unless it may be repeated
LEMMA PerformNext ==
  ASSUME EngineInv, Perform
  PROVE  EngineInv'
<1> DEFINE n == lock.row.node
           v == lock.row.visit
<1>1. /\ lock.at = "io" /\ lock.at \in Handling /\ lock.at \in OfAction
      /\ n \in Steps /\ v \in Visits /\ lock.tries >= 1 /\ NotPending(db, lock.row)
      /\ Node_(n).type = "action" /\ (~allow_unapproved_writes => Gated(n, db))
  BY AtWork DEF Perform, Handling, OfAction, EngineInv, Held
<1>2. lock' = [lock EXCEPT !.at = "reply"] /\ UNCHANGED <<wf, db, child, spawned, retried, todo, moved, up, crashes>>
  BY DEF Perform
<1>3. /\ effects' \in [Steps -> [Visits -> 0..2]]
      /\ \A m \in Steps, w \in Visits : m # n \/ w # v => effects'[m][w] = effects[m][w]
      /\ Node_(n).recorded /\ effects[n][v] <= 1 => effects'[n][v] <= 1
  <2>1. effects \in [Steps -> [Visits -> 0..2]]
    BY DEF EngineInv, Made
  <2>2. CASE effects' = effects
    BY <2>1, <2>2, ZenonT(30)
  <2>3. CASE /\ ~(Node_(n).recorded /\ effects[n][v] > 0)
             /\ effects' = [effects EXCEPT ![n][v] = IF @ = 0 THEN 1 ELSE 2]
    <3>1. effects[n][v] \in 0..2
      BY <1>1, <2>1
    <3>. QED  BY <1>1, <2>1, <2>3, <3>1
  <2>. QED  BY <2>2, <2>3, Zenon DEF Perform, Key
<1>4. Living'
  BY <1>2, ZenonT(30) DEF EngineInv, Living
<1>5. Made'
  <2>1. RecordedOnce'
    <3> SUFFICES ASSUME NEW m \in Steps, NEW w \in Visits, Node_(m).recorded PROVE effects'[m][w] <= 1
      BY <1>2 DEF RecordedOnce, Steps, Node_
    <3>1. effects[m][w] <= 1
      BY DEF EngineInv, Made, RecordedOnce
    <3>. QED  BY <1>3, <3>1
  <2>2. ~allow_unapproved_writes => GateHolds'
    <3> SUFFICES ASSUME ~allow_unapproved_writes, NEW m \in Steps, NEW w \in Visits, effects'[m][w] > 0,
                        Node_(m).effect \in REQUIRES_APPROVAL_EFFECTS
                 PROVE  Gates(m) \cap db.approved # {}
      BY <1>2, ZenonT(30) DEF GateHolds, Gates, Steps, Node_
    <3>1. CASE m = n
      BY <1>1, <3>1, ZenonT(30) DEF Gated
    <3>2. CASE m # n
      BY <1>3, <3>2 DEF EngineInv, Made, GateHolds
    <3>. QED  BY <3>1, <3>2
  <2>. QED  BY <1>2, <1>3, <2>1, <2>2, Zenon DEF EngineInv, Made, ChildOnce, Steps
<1>6. Fits(db)'
  <2>1. ASSUME NEW m \in Steps PROVE RowFits(db, m)'
    <3>1. RowFits(db, m) /\ db.step[m].visit \in 0..MaxVisits /\ MaxVisits \in Nat
      BY WorkflowAssumption, ZenonT(30) DEF EngineInv, Fits, Store, StepRow
    <3>2. \A w \in Visits : w > db.step[m].visit => effects'[m][w] = effects[m][w]
      <4>1. m = n => v <= db.step[m].visit
        BY <1>1, AtWork DEF Known
      <4>2. \A w \in Visits : w > db.step[m].visit => m # n \/ w # v
        BY <3>1, <4>1 DEF Visits
      <4>. QED  BY <1>3, <4>2, Zenon
    <3>3. db.step[m].status = "pending" => effects'[m][db.step[m].visit] = effects[m][db.step[m].visit]
      <4>1. db.step[m].status = "pending" => db.step[m].visit \in Visits
        BY <3>1 DEF RowFits, Visits
      <4>2. m = n /\ db.step[m].visit = v => db.step[m].status # "pending"
        BY <1>1 DEF NotPending
      <4>. QED  BY <1>3, <4>1, <4>2, ZenonT(30)
    <3>. QED  BY <1>2, <3>1, <3>2, <3>3 DEF RowFits, MayPerform, Node_
  <2>. QED  BY <1>2, <2>1, ZenonT(30) DEF EngineInv, Fits, Store, StepRow, Steps, Node_
<1>7. Queued'
  <2>1. \A row \in todo : row.node # n /\ row.node \in Steps /\ row.visit \in Visits
    BY <1>1, AtWork, Zenon DEF EngineInv, Queued, Known, Row
  <2>2. \A row \in todo : effects'[row.node][row.visit] = effects[row.node][row.visit]
    BY <1>3, <2>1
  <2>. QED  BY <1>2, <2>2, ZenonT(30) DEF EngineInv, Queued, Known, Row, Steps, Node_, MayPerform
<1>8. Held'
  <2>1. "reply" \in Handling /\ "reply" \in OfAction /\ "reply" \notin OfAgent
    BY DEF Handling, OfAction, OfAgent
  <2>2. /\ lock' \in [at : Handling, row : Row, tries : 0..max_attempts, kids : SUBSET Steps]
        /\ lock'.at = "reply" /\ lock'.row = lock.row /\ lock'.tries = lock.tries
    BY <1>1, <1>2, <2>1, AtWork
  <2>. QED  BY <1>1, <1>2, <2>1, <2>2, AtWork, HeldNext, ZenonT(30)
<1>. QED  BY <1>4, <1>5, <1>6, <1>7, <1>8, ZenonT(30) DEF EngineInv

LEMMA AttemptFailsNext ==
  ASSUME EngineInv, AttemptFails
  PROVE  EngineInv'
<1>1. /\ lock.at \in {"io", "reply"} /\ lock.at \in Handling /\ lock.at \in OfAction
      /\ lock.tries \in 1..max_attempts /\ NotPending(db, lock.row) /\ max_attempts \in Nat
  BY AtWork, WorkflowAssumption DEF AttemptFails, Handling, OfAction, EngineInv, Held
<1>2. CASE /\ lock.tries < max_attempts /\ lock' = [lock EXCEPT !.at = "io", !.tries = @ + 1]
           /\ UNCHANGED <<db, todo, moved>> /\ Quiet
  <2>1. /\ lock.tries + 1 \in 0..max_attempts /\ lock.tries + 1 >= 1 /\ lock.tries + 1 # 1
    BY <1>1, <1>2
  <2>2. lock' = [lock EXCEPT !.at = "io", !.tries = lock.tries + 1]
    BY <1>2
  <2>3. "io" \in Handling \ {"create"} /\ "io" \notin OfAgent /\ "io" \in OfAction
    BY DEF Handling, OfAgent, OfAction
  <2>4. Fits(db') /\ Grows(db, db') /\ NotPending(db', lock.row) /\ db'.run \in Ongoing \cup {"failed"}
    BY <1>1, <1>2, FollowsSelf, AtWork DEF Follows, EngineInv
  <2>. QED  BY <1>1, <1>2, <2>1, <2>2, <2>3, <2>4, WorkNext, Zenon
<1>3. CASE Return(lock.row, _step_failed(db, lock.row), TRUE) /\ Quiet
  BY <1>1, <1>3, AtWork, LeadNext, Zenon
<1>. QED  BY <1>2, <1>3, Zenon DEF AttemptFails

LEMMA SucceededNext ==
  ASSUME EngineInv, Succeeded
  PROVE  EngineInv'
<1>1. lock.at \in Handling /\ lock.at \in OfAction
  BY DEF Succeeded, Handling, OfAction
<1>2. Follows(db, db') /\ db'.run \in Ongoing \cup {"failed"}
  BY <1>1, AtWork, SetRowFollows DEF StepStatus, Succeeded
<1>3. "fire" \in Handling \ {"create"} /\ "fire" \notin OfAgent \cup OfAction
  BY DEF Handling, OfAgent, OfAction
<1>. QED  BY <1>1, <1>2, <1>3, LockAt, AtWork, WorkNext, Zenon DEF Follows, Succeeded

LEMMA FireNextNext ==
  ASSUME EngineInv, FireNext
  PROVE  EngineInv'
<1>1. lock.at \in Handling
  BY DEF FireNext, Handling
<1>. QED  BY <1>1, AtWork, HandlerLeads, LeadNext, Zenon DEF FireNext
-----------------------------------------------------------------------------
(* Everything else: people, events, time, children and the process.        *)

\* the memory of the process is gone, or was given up
LEMMA ForgottenNext ==
  ASSUME EngineInv, lock' = Free, todo' = {}, moved' = FALSE, Fits(db)', Made',
         wf' = wf, up' \in BOOLEAN, crashes' \in 0..MaxCrashes
  PROVE  EngineInv'
<1>1. Queued' /\ Living'
  BY Zenon DEF Queued, Living, EngineInv
<1>. QED  BY <1>1, RestsNext DEF EngineInv

LEMMA FindRaisesNext ==
  ASSUME EngineInv, FindRaises
  PROVE  EngineInv'
<1>1. Fits(db)' /\ Made'
  BY FitsNext, MadeNext DEF FindRaises, Quiet, EngineInv
<1>. QED  BY <1>1, ForgottenNext, Zenon DEF FindRaises, Quiet, EngineInv, Living

LEMMA CrashNext ==
  ASSUME EngineInv, Crash
  PROVE  EngineInv'
<1>1. PICK back \in {"interrupted", "created"} :
        child' = [n \in Steps |-> [v \in Visits |-> IF child[n][v] = "active" THEN back ELSE child[n][v]]]
  BY DEF Crash
<1>2. /\ child' \in [Steps -> [Visits -> AGENT_TERMINAL \cup {"none", "created", "active", "interrupted"}]]
      /\ \A n \in Steps, v \in Visits : child'[n][v] = "none" => child[n][v] = "none"
  BY <1>1 DEF EngineInv, Made
<1>3. Fits(db)' /\ Made'
  BY <1>2, ChildrenNext DEF Crash
<1>4. crashes' \in 0..MaxCrashes
  BY WorkflowAssumption DEF Crash, EngineInv, Living
<1>. QED  BY <1>3, <1>4, ForgottenNext, Zenon DEF Crash

\* a step of somebody else, while the lock is where it is
LEMMA InterleavedNext ==
  ASSUME EngineInv, UNCHANGED <<wf, child, spawned, effects, retried, proc, up, crashes>>,
         Leads(db, db'), lock.at \in Awaits \cup {"free"} \/ db'.run = db.run
  PROVE  EngineInv'
<1>1. Fits(db') /\ Grows(db, db') /\ NoneAgain(db, db') /\ db'.run \in {db.run, "failed"} /\ db' \in Store /\ db \in Store
  BY ZenonT(30) DEF Leads, Follows, Fits, EngineInv
<1>2. Fits(db)' /\ Made' /\ Queued' /\ Living'
  BY <1>1, FitsNext, MadeNext, QueuedNext, ZenonT(30) DEF EngineInv, Living, Grows, proc
<1>3. CASE lock.at \in Handling
  <2>1. Known(db', lock.row)
    BY <1>1, <1>3, AtWork, KnownStays, ZenonT(30)
  <2>2. lock.at \in {"create", "io", "reply"} => NotPending(db', lock.row)
    BY <1>1, <1>3, AtWork, NotPendingStays, ZenonT(30) DEF EngineInv, Held
  <2>3. /\ lock' = lock /\ todo' = todo
        /\ lock \in [at : Handling, row : Row, tries : 0..max_attempts, kids : SUBSET Steps]
    BY <1>3, AtWork, ZenonT(30) DEF proc
  <2>4. /\ lock.at \in OfAgent => db'.run \in Ongoing
        /\ lock.at \notin OfAgent => db'.run \in Ongoing \cup {"failed"}
    BY <1>1, <1>3, ZenonT(30) DEF EngineInv, Held, Handling, OfAgent, OfAction, Awaits, Ongoing
  <2>5. lock.at \in OfAction => /\ Node_(lock.row.node).type = "action"
                                /\ ~allow_unapproved_writes => Gated(lock.row.node, db')
    BY <1>1, ZenonT(30) DEF EngineInv, Held, Gated, Grows
  <2>6. lock.at = "start" \/ (lock.at = "io" /\ lock.tries = 1) => MayPerform(lock.row.node, lock.row.visit)'
    BY <2>3, ZenonT(30) DEF EngineInv, Held, MayPerform, Node_
  <2>7. /\ lock.at = "create" => spawned'[lock.row.node][lock.row.visit] = 0
        /\ lock.at \in {"io", "reply"} => lock.tries >= 1
    BY ZenonT(30) DEF EngineInv, Held
  <2>8. Held'
    BY <1>3, <2>1, <2>2, <2>3, <2>4, <2>5, <2>6, <2>7, AtWork, HeldNext, ZenonT(30)
  <2>. QED  BY <1>2, <2>8, ZenonT(30) DEF EngineInv
<1>4. CASE lock.at \notin Handling
  <2>1. lock' = lock /\ todo' = todo /\ lock.at \in {"free", "pass", "cancel"}
    BY <1>4, ZenonT(30) DEF EngineInv, Held, Places, Awaits, Handling, OfAgent, OfAction, proc
  <2>2. lock.at = "cancel" \/ lock.at = "pass" => db'.run = db.run
    BY Zenon DEF Awaits
  <2>3. Held'
    BY <1>4, <2>1, <2>2, ZenonT(30) DEF EngineInv, Held, Handling, OfAgent, OfAction, Row, Steps
  <2>. QED  BY <1>2, <2>3 DEF EngineInv
<1>. QED  BY <1>3, <1>4, ZenonT(30)

\* a row that waits belongs to a run that goes on
LEMMA WaitingGoesOn ==
  ASSUME EngineInv, NEW n \in Steps, db.step[n].status = "waiting"
  PROVE  db.run \in Ongoing /\ db.run # "none" /\ db.step[n].visit > 0
<1>1. db.step[n].visit > 0 /\ db.step[n].visit # 0
  <2>1. RowFits(db, n) /\ db.step[n].visit \in Nat
    BY DEF EngineInv, Fits, Store, StepRow
  <2>. QED  BY <2>1 DEF RowFits
<1>. QED  BY <1>1, Zenon DEF EngineInv, Fits, Store, Ongoing

LEMMA DecideNext ==
  ASSUME EngineInv, decide
  PROVE  EngineInv'
<1>1. PICK n \in Steps :
        /\ Interleaves /\ Node_(n).type = "approval" /\ db.step[n].status = "waiting"
        /\ LET d == SetStatus(db, n, "succeeded") IN
           \/ db' = _fire([d EXCEPT !.approved = @ \cup {n}], n, {"always", "approved"})
           \/ db' = FireOrFail(d, n, {"denied"})
        /\ UNCHANGED <<wf, child, spawned, effects, retried>> /\ Outside
  BY ZenonT(30) DEF decide
<1> DEFINE d == SetStatus(db, n, "succeeded")
           e == [d EXCEPT !.approved = @ \cup {n}]
<1>2. /\ Fits(db) /\ db.run # "none" /\ db.step[n].visit > 0 /\ wf \in DOMAIN Definitions
      /\ "succeeded" \in StepStatus
  BY <1>1, WaitingGoesOn, ZenonT(30) DEF EngineInv, Living, StepStatus
<1>3. Leads(db, d) /\ Fits(d) /\ d.run = db.run
  BY <1>2, SetStatusFollows, ZenonT(30) DEF Leads, Follows
<1>. HIDE DEF d
<1>4. Leads(d, e) /\ Fits(e) /\ e.run = d.run
  <2>1. /\ e \in Store /\ e.run = d.run /\ e.next = d.next /\ e.step = d.step /\ e.approved = d.approved \cup {n}
        /\ d \in Store
    BY <1>3, Zenon DEF Fits, Store
  <2>. HIDE DEF e
  <2>2. \A m \in Steps : RowFits(e, m)
    BY <1>3, <2>1, Zenon DEF Fits, RowFits
  <2>3. Fits(e)
    BY <1>1, <1>3, <2>1, <2>2, ZenonT(30) DEF Fits
  <2>4. Grows(d, e) /\ NoneAgain(d, e)
    BY <2>1 DEF Grows, NoneAgain, Store
  <2>. QED  BY <2>1, <2>3, <2>4 DEF Leads, Follows
<1>. HIDE DEF e
<1>5. Leads(d, FireOrFail(d, n, {"denied"})) /\ Leads(e, _fire(e, n, {"always", "approved"}))
  BY <1>2, <1>3, <1>4, FireLeads, FireOrFailLeads, ZenonT(30)
<1>6. Leads(d, _fire(e, n, {"always", "approved"}))
  BY <1>3, <1>4, <1>5, LeadsOn, Zenon
<1>7. Leads(db, FireOrFail(d, n, {"denied"})) /\ Leads(db, _fire(e, n, {"always", "approved"}))
  BY <1>2, <1>3, <1>5, <1>6, LeadsOn, ZenonT(30)
<1>8. Leads(db, db')
  BY <1>1, <1>7, Zenon DEF d, e
<1>. QED  BY <1>1, <1>8, InterleavedNext DEF Interleaves, Outside

LEMMA DeliverNext ==
  ASSUME EngineInv, deliver_event
  PROVE  EngineInv'
<1>1. PICK n \in Steps :
        /\ Interleaves /\ db.step[n].status = "waiting"
        /\ db' = _fire(SetStatus(db, n, "succeeded"), n, {"always"})
        /\ UNCHANGED <<wf, child, spawned, effects, retried>> /\ Outside
  BY ZenonT(30) DEF deliver_event
<1> DEFINE d == SetStatus(db, n, "succeeded")
<1>2. /\ Fits(db) /\ db.run # "none" /\ db.step[n].visit > 0 /\ wf \in DOMAIN Definitions
      /\ "succeeded" \in StepStatus
  BY <1>1, WaitingGoesOn, ZenonT(30) DEF EngineInv, Living, StepStatus
<1>3. Leads(db, d) /\ Fits(d) /\ d.run = db.run
  BY <1>2, SetStatusFollows DEF Leads, Follows
<1>. HIDE DEF d
<1>4. Leads(db, _fire(d, n, {"always"}))
  BY <1>2, <1>3, FireLeads, LeadsOn, ZenonT(30)
<1>. QED  BY <1>1, <1>4, InterleavedNext, Zenon DEF Interleaves, Outside, d

LEMMA StartNext ==
  ASSUME EngineInv, start
  PROVE  EngineInv'
<1> DEFINE d == [db EXCEPT !.run = "running"]
           T == entries(Definitions[wf])
<1>1. /\ db.run = "none" /\ Fits(db) /\ wf \in DOMAIN Definitions /\ db' = NewSteps(d, T)
      /\ UNCHANGED <<wf, child, spawned, effects, retried, lock, todo, moved, up, crashes>>
  BY DEF start, EngineInv, Living, proc
<1>2. lock.at = "free"
  BY <1>1 DEF EngineInv, Held, Places, Awaits, OfAgent, OfAction, Ongoing, TERMINAL_RUN
<1>3. /\ d \in Store /\ d.run = "running" /\ d.next = db.next /\ d.step = db.step /\ d.approved = db.approved
      /\ \A n \in Steps : d.step[n].visit = 0
  BY <1>1, ZenonT(30) DEF Fits, Store
<1>4. T \in SUBSET Steps
  BY <1>1, StepsAreIds DEF entries
<1>5. IsFiniteSet(T) /\ \A n \in Steps \cap T : d.step[n].visit < MaxVisits
  <2>1. IsFiniteSet(T)
    BY <1>1, <1>4, FiniteSteps, FS_Subset, Zenon
  <2>. QED  BY <1>3, <2>1, NoVisitYet, Zenon
<1>. HIDE DEF d, T
<1>6. Fits(d)
  <2>1. \A n \in Steps : RowFits(d, n)
    BY <1>1, <1>3, ZenonT(30) DEF Fits, RowFits
  <2>. QED  BY <1>1, <1>3, <2>1, Zenon DEF Fits, TERMINAL_RUN
<1>7. Follows(d, db')
  BY <1>1, <1>3, <1>5, <1>6, NewStepsFollows, Zenon
<1>8. Fits(db') /\ Grows(db, db')
  BY <1>3, <1>7, Zenon DEF Follows, Grows
<1>9. Fits(db)' /\ Made' /\ Queued' /\ Living'
  BY <1>1, <1>8, FitsNext, MadeNext, QueuedNext, ZenonT(30) DEF EngineInv, Living, Grows, Fits
<1>10. Held'
  BY <1>1, <1>2, Zenon DEF EngineInv, Held, OfAgent, OfAction, Handling, Row, Steps
<1>. QED  BY <1>9, <1>10 DEF EngineInv

LEMMA CancelNext ==
  ASSUME EngineInv, cancel
  PROVE  EngineInv'
<1>1. Follows(db, db') /\ db'.run = "cancelled"
  BY SkipFollows, Zenon DEF cancel, EngineInv, TERMINAL_RUN
<1>2. Fits(db') /\ Grows(db, db')
  BY <1>1, ZenonT(30) DEF Follows
<1>3. Fits(db)' /\ Made' /\ Queued' /\ Living'
  BY <1>2, FitsNext, MadeNext, QueuedNext, ZenonT(30) DEF cancel, Quiet, EngineInv, Living, Grows, Fits
<1>4. Held'
  BY <1>1, CancelHeld, Zenon DEF cancel, Quiet, Children, TERMINAL_RUN
<1>. QED  BY <1>3, <1>4 DEF EngineInv

LEMMA OnePairMore ==
  ASSUME NEW S, NEW T, NEW a \in S, NEW b \in T, NEW R \in SUBSET (S \X T)
  PROVE  R \cup {<<a, b>>} \subseteq S \X T
OBVIOUS

\* an action nobody knows the outcome of, and what a person may say of it
LEMMA ResolveNext ==
  ASSUME EngineInv, resolve
  PROVE  EngineInv'
<1>1. PICK n \in Steps, outcome \in {"happened", "retry", "failed"} :
        /\ lock.at = "free" /\ db.step[n].status = "uncertain"
        /\ outcome = "happened" => db' = _fire(SetStatus(db, n, "succeeded"), n, {"always"})
        /\ outcome = "retry" => db' = SetStatus(db, n, "pending")
        /\ outcome = "failed" => db' = SetStatus(db, n, "failed")
        /\ retried' = IF outcome = "retry" THEN retried \cup {<<n, db.step[n].visit>>} ELSE retried
        /\ UNCHANGED <<wf, child, spawned, effects>> /\ Outside
  BY DEF resolve
<1>2. /\ Fits(db) /\ wf \in DOMAIN Definitions /\ RowFits(db, n) /\ MaxVisits \in Nat
      /\ db.step[n].visit \in 0..MaxVisits
  BY WorkflowAssumption, ZenonT(30) DEF EngineInv, Living, Fits, Store, StepRow
<1>3. db.step[n].visit \in Visits /\ db.step[n].visit > 0 /\ Node_(n).type = "action" /\ db.run # "none"
  <2>1. db.step[n].visit > 0 /\ Node_(n).type = "action"
    BY <1>1, <1>2, Zenon DEF RowFits
  <2>2. db.step[n].visit \in Visits /\ db.step[n].visit # 0
    BY <1>2, <2>1, VisitOf
  <2>. QED  BY <1>2, <2>1, <2>2, Zenon DEF Fits
<1>4. CASE outcome = "happened"
  <2> DEFINE d == SetStatus(db, n, "succeeded")
  <2>1. Leads(db, d) /\ Fits(d) /\ d.run # "none"
    <3>1. "succeeded" \in StepStatus
      BY DEF StepStatus
    <3>2. Follows(db, d) /\ d.run = db.run
      BY <1>2, <1>3, <3>1, SetStatusFollows, ZenonT(30)
    <3>. QED  BY <1>3, <3>2, Zenon DEF Leads, Follows
  <2>. HIDE DEF d
  <2>2. Leads(db, _fire(d, n, {"always"}))
    BY <1>2, <2>1, FireLeads, LeadsOn, Zenon
  <2>. QED  BY <1>1, <1>4, <2>2, InterleavedNext, ZenonT(30) DEF Outside, d
<1>5. CASE outcome = "failed"
  <2>1. Leads(db, SetStatus(db, n, "failed"))
    BY <1>2, <1>3, SetStatusFollows DEF Leads, StepStatus
  <2>. QED  BY <1>1, <1>5, <2>1, InterleavedNext, Zenon DEF Outside
<1>6. CASE outcome = "retry"
  <2>1. /\ db' = SetStatus(db, n, "pending") /\ retried' = retried \cup {<<n, db.step[n].visit>>}
        /\ UNCHANGED <<wf, child, spawned, effects, lock, todo, moved, up, crashes>>
    BY <1>1, <1>6, Zenon DEF Outside, proc
  <2>2. Restated(db, n, db') /\ db'.step[n].status = "pending"
    BY <1>2, <2>1, SetStatusRestates DEF Fits, StepStatus, ACTIVE_STEP
  <2>3. ASSUME NEW m \in Steps PROVE RowFits(db, m)'
    <3>1. RowFits(db, m)
      BY <1>2 DEF Fits
    <3>2. CASE m # n
      BY <2>1, <2>2, <3>1, <3>2, ZenonT(30) DEF Restated, RowFits, MayPerform, Node_
    <3>3. CASE m = n
      BY <1>3, <2>1, <2>2, <3>1, <3>3, ZenonT(30) DEF Restated, RowFits, MayPerform, Node_
    <3>. QED  BY <3>2, <3>3
  <2>4. Fits(db)'
    <3>1. /\ db' \in Store' /\ \A k \in db'.approved : Node_(k)'.type = "approval"
          /\ db'.run = "none" => \A m \in Steps : db'.step[m].visit = 0
          /\ db'.run \in TERMINAL_RUN => \A m \in Steps : db'.step[m].status # "waiting"
      BY <1>2, <2>1, <2>2, ZenonT(30) DEF Restated, Fits, Store, StepRow, Steps, Node_
    <3>. QED  BY <2>1, <2>3, <3>1, ZenonT(30) DEF Fits, Steps, Node_
  <2>5. Grows(db, db') /\ db' \in Store
    BY <1>2, <2>2 DEF Restated, Grows, Fits, Store
  <2>6. Queued'
    <3>1. \A row \in todo : Known(db', row)
      BY <1>2, <2>5, KnownStays, ZenonT(30) DEF EngineInv, Queued, Fits
    <3>2. \A row \in todo : Known(db, row)'
      BY <2>1, <3>1, ZenonT(30) DEF Known, Row, Steps
    <3>. QED  BY <2>1, <3>2, ZenonT(30) DEF EngineInv, Queued, MayPerform, Node_
  <2>7. Held'
    BY <1>1, <2>1, ZenonT(30) DEF EngineInv, Held, OfAgent, OfAction, Handling, Row, Steps
  <2>8. Made'
    <3>1. RecordedOnce' /\ ChildOnce' /\ (GateHolds => GateHolds')
      BY <2>1, <2>2, ZenonT(30) DEF EngineInv, Made, RecordedOnce, ChildOnce, GateHolds, Gates, Steps, Node_, Restated
    <3>2. retried \in SUBSET (Steps \X Visits)
      BY Zenon DEF EngineInv, Made
    <3>3. retried' \subseteq Steps \X Visits
      <4>1. retried \cup {<<n, db.step[n].visit>>} \subseteq Steps \X Visits
        BY <1>3, <3>2, OnePairMore
      <4>. QED  BY <2>1, <4>1, Zenon
    <3>. QED  BY <2>1, <3>1, <3>3, Zenon DEF EngineInv, Made, Steps
  <2>9. Living'
    BY <2>1 DEF EngineInv, Living
  <2>. QED  BY <2>4, <2>6, <2>7, <2>8, <2>9, Zenon DEF EngineInv
<1>. QED  BY <1>4, <1>5, <1>6

LEMMA WakeNext ==
  ASSUME EngineInv, WakeTime
  PROVE  EngineInv'
<1>1. PICK n \in Steps : /\ db' = [db EXCEPT !.step[n].due = TRUE]
                         /\ UNCHANGED <<wf, child, spawned, effects, retried>> /\ Outside
  BY Zenon DEF WakeTime
<1>2. db \in Store /\ Fits(db)
  BY Zenon DEF EngineInv, Fits
<1>3. /\ db' \in Store /\ db'.run = db.run /\ db'.next = db.next /\ db'.approved = db.approved
      /\ \A m \in Steps : /\ db'.step[m].visit = db.step[m].visit /\ db'.step[m].id = db.step[m].id
                          /\ db'.step[m].status = db.step[m].status
  BY <1>1, <1>2, ZenonT(30) DEF Store, StepRow
<1>4. \A m \in Steps : RowFits(db', m)
  BY <1>2, <1>3, ZenonT(30) DEF Fits, RowFits
<1>5. Fits(db')
  BY <1>2, <1>3, <1>4, Zenon DEF Fits
<1>6. Grows(db, db') /\ NoneAgain(db, db')
  BY <1>2, <1>3 DEF Grows, NoneAgain, Store
<1>. QED  BY <1>1, <1>3, <1>5, <1>6, InterleavedNext, Zenon DEF Leads, Follows, Outside

LEMMA SameNext ==
  ASSUME EngineInv, UNCHANGED <<wf, db, spawned, effects, retried, lock, todo>>
  PROVE  Fits(db)' /\ Queued' /\ Held'
<1>1. Fits(db)'
  BY FitsNext, Zenon DEF EngineInv
<1>2. Queued'
  BY Zenon DEF EngineInv, Queued, Known, Row, Steps, Node_, MayPerform
<1>3. Held'
  <2>1. Known(db, lock.row) => Known(db, lock.row)'
    BY ZenonT(30) DEF Known, Row, Steps
  <2>2. /\ Gated(lock.row.node, db) => Gated(lock.row.node, db)'
        /\ MayPerform(lock.row.node, lock.row.visit) => MayPerform(lock.row.node, lock.row.visit)'
        /\ NotPending(db, lock.row) => NotPending(db, lock.row)'
    BY DEF Gated, Gates, Node_, MayPerform, NotPending
  <2>. QED  BY <2>1, <2>2, ZenonT(30) DEF EngineInv, Held, Row, Steps, Node_
<1>. QED  BY <1>1, <1>2, <1>3, ZenonT(30)

LEMMA ChildMovesNext ==
  ASSUME EngineInv, ChildMoves
  PROVE  EngineInv'
<1>1. PICK n \in Steps, v \in Visits, status \in AGENT_TERMINAL \cup {"active"} :
        /\ child' = [child EXCEPT ![n][v] = status]
        /\ UNCHANGED <<wf, db, spawned, effects, retried>> /\ Outside
  BY DEF ChildMoves
<1>2. child \in [Steps -> [Visits -> AGENT_TERMINAL \cup {"none", "created", "active", "interrupted"}]]
  BY DEF EngineInv, Made
<1>3. /\ child' \in [Steps -> [Visits -> AGENT_TERMINAL \cup {"none", "created", "active", "interrupted"}]]
      /\ \A m \in Steps, w \in Visits : child'[m][w] = "none" => child[m][w] = "none"
  BY <1>1, <1>2 DEF AGENT_TERMINAL
<1>4. Fits(db)' /\ Made'
  BY <1>1, <1>3, ChildrenNext, Zenon
<1>5. Queued' /\ Held' /\ Living'
  BY <1>1, SameNext DEF EngineInv, Living, Outside, proc
<1>. QED  BY <1>4, <1>5 DEF EngineInv
-----------------------------------------------------------------------------
(* The invariant, and what follows from it.                                *)

LEMMA InitEngine ==
  ASSUME Init
  PROVE  EngineInv
<1>1. Fits(db)
  <2>1. /\ db \in Store /\ db.run = "none" /\ db.next = 1 /\ db.approved = {}
        /\ \A n \in Steps : db.step[n] = NoRow
    <3>1. NoRow \in StepRow
      BY WorkflowAssumption DEF NoRow, StepRow, StepStatus
    <3>2. [n \in Steps |-> NoRow] \in [Steps -> StepRow]
      BY <3>1, Zenon
    <3>. DEFINE new == [run |-> "none", step |-> [n \in Steps |-> NoRow], next |-> 1, approved |-> {}, outputs |-> {}]
    <3>3. new \in Store
      BY <3>2 DEF Store
    <3>4. new.run = "none" /\ new.next = 1 /\ new.approved = {} /\ new.step = [n \in Steps |-> NoRow]
      OBVIOUS
    <3>5. db = new
      BY Zenon DEF Init
    <3>. QED  BY <3>3, <3>4, <3>5, Zenon
  <2>2. \A n \in Steps : RowFits(db, n)
    BY <2>1 DEF Init, RowFits, NoRow
  <2>. QED  BY <2>1, <2>2 DEF Fits, NoRow, TERMINAL_RUN
<1>2. Made
  BY DEF Init, Made, RecordedOnce, ChildOnce, GateHolds
<1>3. Living /\ Queued
  <2>1. 0 \in 0..MaxCrashes
    BY WorkflowAssumption
  <2>2. Living
    BY <2>1, Zenon DEF Init, Living
  <2>3. Queued
    BY Zenon DEF Init, Queued
  <2>. QED  BY <2>2, <2>3
<1>4. Held
  <2>1. lock = [at |-> "free", row |-> NoTask, tries |-> 0, kids |-> {}]
    BY DEF Init, Free
  <2>2. 0 \in 0..max_attempts /\ "free" \in Places
    BY WorkflowAssumption DEF Places
  <2>. QED  BY <2>1, <2>2, Zenon DEF Held, OfAgent, OfAction, Handling
<1>. QED  BY <1>1, <1>2, <1>3, <1>4, ZenonT(30) DEF EngineInv

LEMMA NextEngine ==
  ASSUME EngineInv, [Next]_vars
  PROVE  EngineInv'
<1>1. CASE Handle
  BY <1>1, EndOfPassNext, ConditionNext, StartsWaitingNext, ApprovalNext, TimerNext, WaitEventNext, EndNext,
     CancelChildrenNext, AgentIntentNext, CreateChildNext, OverrideChildNext, LinkChildNext, LaunchChildNext,
     AgentFoundNext, AgentPolledNext, ActionNext, ReconcileNext, FindRaisesNext, StartActionNext, PerformNext,
     AttemptFailsNext, SucceededNext, FireNextNext, ZenonT(30) DEF Handle
<1>2. CASE Restart
  <2>1. Made' /\ Living'
    BY <1>2, MadeNext, Zenon DEF Restart, EngineInv, Living, proc
  <2>. QED  BY <1>2, <2>1, SameNext, ZenonT(30) DEF Restart, EngineInv, proc
<1>3. CASE UNCHANGED vars
  <2>1. Made' /\ Living'
    BY <1>3, MadeNext, Zenon DEF vars, EngineInv, Living, proc
  <2>. QED  BY <1>3, <2>1, SameNext, Zenon DEF vars, EngineInv, proc
<1>4. CASE \/ start \/ advance \/ decide \/ deliver_event \/ cancel \/ resolve \/ WakeTime \/ ChildMoves \/ Crash
  BY <1>4, StartNext, AdvanceNext, DecideNext, DeliverNext, CancelNext, ResolveNext, WakeNext, ChildMovesNext, CrashNext, ZenonT(30)
<1>. QED  BY <1>1, <1>2, <1>3, <1>4, Zenon DEF Next

LEMMA AlwaysEngine == Spec => []EngineInv
<1>1. Init => EngineInv
  BY InitEngine
<1>2. EngineInv /\ [Next]_vars => EngineInv'
  BY NextEngine
<1>. QED  BY <1>1, <1>2, PTL DEF Spec

\* Whatever definition the run is of and wherever the engine dies, the rows, the
\* children and the effects keep their types, and no node is visited more often than
\* max_visits allows (engine.py, _fire).
THEOREM EngineStaysTyped == Spec => []TypeOK
<1>1. EngineInv => TypeOK
  BY Zenon DEF EngineInv, Fits, Store, StepRow, Made, Held, Living, TypeOK
<1>. QED  BY <1>1, AlwaysEngine, PTL

\* engine.py, _action, "checked again here": unless unapproved writes are allowed, an
\* action that needs an approval had an effect only after an approval before it was given.
THEOREM WritesWereApproved == ~allow_unapproved_writes /\ Spec => []GateHolds
<1> SUFFICES ASSUME ~allow_unapproved_writes PROVE Spec => []GateHolds
  OBVIOUS
<1>1. EngineInv => GateHolds
  BY DEF EngineInv, Made
<1>. QED  BY <1>1, AlwaysEngine, PTL

\* engine.py, _agent, _action and resolve: what a visit makes outside is made once,
\* unless it may be repeated, a person asked for it, or the same call retried it.
THEOREM StepsActOnce == Spec => MadeOnce
<1>1. EngineInv => RecordedOnce /\ ChildOnce
  BY ZenonT(30) DEF EngineInv, Made
<1>2. ASSUME EngineInv, [Next]_vars
      PROVE  [\A n \in Steps, v \in Visits :
                effects[n][v] = 1 /\ effects'[n][v] = 2 =>
                  Node_(n).idempotent \/ <<n, v>> \in retried \/ lock.tries > 1]_vars
  <2> SUFFICES ASSUME NEW n \in Steps, NEW v \in Visits, effects[n][v] = 1, effects'[n][v] = 2
               PROVE  Node_(n).idempotent \/ <<n, v>> \in retried \/ lock.tries > 1
    OBVIOUS
  <2>1. Perform
    <3>1. effects' # effects
      OBVIOUS
    <3>. QED  BY <1>2, <3>1, ZenonT(30) DEF Next, Handle, start, advance, decide, deliver_event, cancel, resolve, WakeTime,
              ChildMoves, Crash, Restart, EndOfPass, _condition, StartsWaiting, _approval, _timer, _wait_event, _end,
              CancelChildren, AgentIntent, CreateChild, OverrideChild, LinkChild, LaunchChild, AgentFound,
              AgentPolled, _action, Reconcile, FindRaises, StartAction, AttemptFails, Succeeded, FireNext, Quiet,
              vars
  <2>2. /\ lock.at = "io" /\ lock.at \in Handling /\ lock.tries \in 1..max_attempts /\ max_attempts \in Nat
        /\ lock.tries = 1 => MayPerform(lock.row.node, lock.row.visit)
    <3>1. lock.at = "io"
      BY <2>1 DEF Perform
    <3>2. lock.tries \in 0..max_attempts /\ lock.tries >= 1
      BY <1>2, <3>1, Zenon DEF EngineInv, Held
    <3>3. lock.tries = 1 => MayPerform(lock.row.node, lock.row.visit)
      BY <1>2, <3>1, Zenon DEF EngineInv, Held
    <3>4. lock.at \in Handling
      BY <3>1, Zenon DEF Handling, OfAction
    <3>. QED  BY <3>1, <3>2, <3>3, <3>4, AttemptsAreNat, AttemptRange, Zenon
  <2>3. n = lock.row.node /\ v = lock.row.visit
    <3>1. effects \in [Steps -> [Visits -> 0..2]] /\ lock.row.node \in Steps /\ lock.row.visit \in Visits
      BY <1>2, <2>2, AtWork, Zenon DEF EngineInv, Made
    <3>2. \/ effects' = effects
          \/ effects' = [effects EXCEPT ![lock.row.node][lock.row.visit] = IF @ = 0 THEN 1 ELSE 2]
      BY <2>1, Zenon DEF Perform
    <3>. QED  BY <3>1, <3>2
  <2>. QED  BY <2>2, <2>3 DEF MayPerform
<1>. QED  BY <1>1, <1>2, AlwaysEngine, PTL DEF Spec, MadeOnce

\* an ended run is changed only by a person's word, or while it is failed already
LEMMA EndsOnce ==
  ASSUME EngineInv, [Next]_vars, db.run \in TERMINAL_RUN, db'.run # db.run
  PROVE  db'.run = "failed" /\ \E n \in Steps : db.step[n].status = "uncertain" /\ db'.step[n].status = "succeeded"
<1>1. /\ lock.at \in {"free", "cancel"} \/ (lock.at \in OfAction \cup {"fire"} /\ db.run = "failed")
      /\ lock.at # "pass" /\ lock.at \notin OfAgent
  BY ZenonT(30) DEF EngineInv, Held, Places, Awaits, OfAgent, OfAction, Handling, Ongoing, TERMINAL_RUN
<1>2. \A n \in Steps : db.step[n].status # "waiting"
  BY Zenon DEF EngineInv, Fits
<1>3. ~(start \/ advance \/ cancel)
  BY DEF start, advance, cancel, TERMINAL_RUN
<1>4. ~(decide \/ deliver_event)
  BY <1>2, ZenonT(30) DEF decide, deliver_event
<1>5. ~(WakeTime \/ ChildMoves \/ Crash \/ Restart \/ UNCHANGED vars)
  <2>1. ~WakeTime
    BY DEF WakeTime, EngineInv, Fits, Store
  <2>. QED  BY <2>1 DEF ChildMoves, Crash, Restart, vars
<1>6. ~(EndOfPass \/ _condition \/ StartsWaiting \/ _approval \/ _timer \/ _wait_event \/ _end \/ AgentIntent
        \/ AgentFound \/ AgentPolled \/ _action)
  BY <1>1, Zenon DEF EndOfPass, _condition, StartsWaiting, _approval, _timer, _wait_event, _end, AgentIntent, AgentFound,
              AgentPolled, _action, Takes
<1>7. ~(CancelChildren \/ CreateChild \/ OverrideChild \/ LinkChild \/ LaunchChild \/ FindRaises \/ Perform)
  BY <1>1, Zenon DEF CancelChildren, CreateChild, OverrideChild, LinkChild, LaunchChild, FindRaises, Perform, OfAgent
<1>8. ~(Reconcile \/ StartAction \/ AttemptFails \/ Succeeded \/ FireNext)
  <2> SUFFICES ASSUME Reconcile \/ StartAction \/ AttemptFails \/ Succeeded \/ FireNext
               PROVE  db'.run = db.run
    OBVIOUS
  <2>1. lock.at \in Handling /\ db.run = "failed"
    BY <1>1, ZenonT(30) DEF Reconcile, StartAction, AttemptFails, Succeeded, FireNext, Handling, OfAction
  <2>2. /\ Known(db, lock.row) /\ Fits(db) /\ db.run # "none" /\ wf \in DOMAIN Definitions
        /\ Leads(db, _step_failed(db, lock.row))
    BY <2>1, AtWork
  <2>3. \A status : db' = SetRow(db, lock.row, status) => db'.run = db.run
    BY <2>2, Zenon DEF SetRow, SetStatus, Fits, Store
  <2>4. \A labels : Leads(db, _fire(db, lock.row.node, labels))
    BY <2>2, HandlerLeads
  <2>5. \/ db' = db \/ db' = _step_failed(db, lock.row) \/ \E status : db' = SetRow(db, lock.row, status)
        \/ \E labels : db' = _fire(db, lock.row.node, labels)
    BY Zenon DEF Reconcile, StartAction, AttemptFails, Succeeded, FireNext, Return
  <2>. QED  BY <2>1, <2>2, <2>3, <2>4, <2>5, ZenonT(30) DEF Leads
<1>9. resolve
  BY <1>3, <1>4, <1>5, <1>6, <1>7, <1>8, Zenon DEF Next, Handle
<1>10. PICK n \in Steps, outcome \in {"happened", "retry", "failed"} :
        /\ db.step[n].status = "uncertain"
        /\ outcome = "happened" => db' = _fire(SetStatus(db, n, "succeeded"), n, {"always"})
        /\ outcome = "retry" => db' = SetStatus(db, n, "pending")
        /\ outcome = "failed" => db' = SetStatus(db, n, "failed")
  BY <1>9, ZenonT(30) DEF resolve
<1>11. outcome = "happened"
  <2>1. \A status : SetStatus(db, n, status).run = db.run
    BY Zenon DEF SetStatus, EngineInv, Fits, Store
  <2>. QED  BY <1>10, <2>1, ZenonT(30)
<1> DEFINE d == SetStatus(db, n, "succeeded")
<1>12. /\ Fits(d) /\ d.run = db.run /\ d.step[n].status = "succeeded" /\ d.run # "none" /\ wf \in DOMAIN Definitions
  <2>1. db.step[n].visit > 0 /\ Fits(db) /\ wf \in DOMAIN Definitions
    BY <1>10, ZenonT(30) DEF EngineInv, Fits, RowFits, Living
  <2>2. Follows(db, d) /\ d.run = db.run /\ d.step[n].status = "succeeded"
    <3>1. "succeeded" \in StepStatus /\ "succeeded" \notin {"none", "pending"}
      BY DEF StepStatus
    <3>. QED  BY <2>1, <3>1, SetStatusFollows, Zenon
  <2>3. db.run # "none"
    BY DEF TERMINAL_RUN
  <2>. QED  BY <2>1, <2>2, <2>3, Zenon DEF Follows
<1>13. db' = _fail_run(d)
  BY <1>10, <1>11, <1>12, FireLeads, ZenonT(30)
<1>14. db'.run = "failed" /\ db'.step[n] = d.step[n]
  BY <1>12, <1>13, FailRunFollows, ZenonT(30) DEF ACTIVE_STEP
<1>. QED  BY <1>10, <1>12, <1>14, ZenonT(30)

\* cancel and _end leave no call in flight and no pass to start one
LEMMA EndedMakesNothing ==
  ASSUME EngineInv, [Next]_vars, db.run \in {"completed", "cancelled"}
  PROVE  UNCHANGED <<effects, spawned>>
<1>1. lock.at \in {"free", "cancel"}
  BY Zenon DEF EngineInv, Held, Places, Awaits, OfAgent, OfAction, Handling, Ongoing
<1>2. ~Perform /\ ~CreateChild
  BY <1>1, Zenon DEF Perform, CreateChild
<1>. QED  BY <1>2, ZenonT(30) DEF Next, Handle, start, advance, decide, deliver_event, cancel, resolve, WakeTime,
             ChildMoves, Crash, Restart, EndOfPass, _condition, StartsWaiting, _approval, _timer, _wait_event, _end,
             CancelChildren, AgentIntent, OverrideChild, LinkChild, LaunchChild, AgentFound,
             AgentPolled, _action, Reconcile, FindRaises, StartAction, AttemptFails, Succeeded, FireNext, Quiet, vars

\* engine.py, decide, deliver_event, cancel, resolve and _end: an ended run stays as it
\* ended, but for a person's word on an uncertain action, and a completed or cancelled
\* one does nothing more outside.
THEOREM EndedRunsAreQuiet == Spec => EndedIsQuiet
<1>1. ASSUME EngineInv, [Next]_vars
      PROVE  [/\ db.run \in TERMINAL_RUN /\ db'.run # db.run =>
                   db'.run = "failed" /\ \E n \in Steps : db.step[n].status = "uncertain" /\ db'.step[n].status = "succeeded"
              /\ db.run \in {"completed", "cancelled"} => UNCHANGED <<effects, spawned>>]_vars
  BY <1>1, EndsOnce, EndedMakesNothing
<1>. QED  BY <1>1, AlwaysEngine, PTL DEF Spec, EndedIsQuiet
=============================================================================
