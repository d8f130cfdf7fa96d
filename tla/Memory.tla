------------------------------- MODULE Memory -------------------------------
(* The versions of one memory (one key at one scope of one tenant), written by      *)
(* several processes (persistence/memories.py, runtime/memory_service.py). A read    *)
(* and the write that follows it are two steps: SQLite starts the transaction at the *)
(* first write. Between them only the unique index over active rows protects.        *)
EXTENDS Integers, Sequences

CONSTANTS Processes, Values,
          Sources,    \* where a value comes from
          MaxRows     \* bound: versions ever inserted

VARIABLES rows,  \* the rows of the key, oldest first; never deleted
          ops    \* process -> what it read, before it writes
vars == <<rows, ops>>

AUTHORITY == [user_explicit |-> 100, configuration |-> 80, repository_detected |-> 60, test_result |-> 55,
              ci |-> 50, accepted_patch |-> 45, rejected_patch |-> 45, workflow_observation |-> 30,
              import |-> 20, agent_inference |-> 10]
DEFAULT_TTL == {"test_result", "ci", "accepted_patch", "rejected_patch", "workflow_observation", "import",
                "agent_inference"}
Status == {"active", "stale", "expired", "superseded", "forgotten"}

Ids == 1..Len(rows)
Idle == [op |-> "idle", seen |-> 0, source |-> "import", value |-> 0]
\* memories.active: the row the unique index allows, or 0
active == IF \E i \in Ids : rows[i].status = "active" THEN CHOOSE i \in Ids : rows[i].status = "active" ELSE 0

Init == rows = <<>> /\ ops = [p \in Processes |-> Idle]

Ends(p) == ops' = [ops EXCEPT ![p] = Idle]
set_status(i, s) == rows' = [rows EXCEPT ![i].status = s]
-----------------------------------------------------------------------------
\* remember, set_preference, refresh, record_outcome: the write passed check_write
PutReads(p, s, v) ==
  /\ ops[p] = Idle
  /\ ops' = [ops EXCEPT ![p] = [op |-> "put", seen |-> active, source |-> s, value |-> v]]
  /\ UNCHANGED rows

\* mutant of Reinforce: a value that is seen again is believed again
ReinforceRevives(p) ==
  LET o == ops[p] IN
  /\ o.op = "put" /\ o.seen # 0 /\ rows[o.seen].value = o.value
  /\ rows' = [rows EXCEPT ![o.seen].lapsed = FALSE, ![o.seen].status = IF active = 0 THEN "active" ELSE @] /\ Ends(p)

\* the same value again: verified now, believed for another time to live, whoever says so
Reinforce(p) ==
  LET o == ops[p] IN
  /\ o.op = "put" /\ o.seen # 0 /\ rows[o.seen].value = o.value
  /\ rows' = [rows EXCEPT ![o.seen].lapsed = FALSE] /\ Ends(p)

\* mutant of Weaker: authority is not compared
WeakerNever(p) == FALSE

Weaker(p) ==
  LET o == ops[p] IN
  o.seen # 0 /\ rows[o.seen].value # o.value /\ AUTHORITY[o.source] < AUTHORITY[rows[o.seen].source]

KeepExisting(p) == ops[p].op = "put" /\ Weaker(p) /\ Ends(p) /\ UNCHANGED rows

Replaces(p) == LET o == ops[p] IN
  o.op = "put" /\ (o.seen # 0 => rows[o.seen].value # o.value) /\ ~Weaker(p)

\* what the table holds after the two statements of the transaction
Replaced(p) ==
  LET o == ops[p]
      kept == IF o.seen = 0 THEN rows ELSE [rows EXCEPT ![o.seen].status = "superseded"]
      version == IF o.seen = 0 THEN 1 ELSE rows[o.seen].version + 1
  IN Append(kept, [status |-> "active", source |-> o.source, value |-> o.value, version |-> version, lapsed |-> FALSE])

ActiveIn(r) == {i \in DOMAIN r : r[i].status = "active"}

\* mutant of Insert: the index is not unique
InsertAnyway(p) ==
  /\ Replaces(p) /\ Len(rows) < MaxRows
  /\ rows' = Replaced(p) /\ Ends(p)

\* supersede what was read and insert; idx_memories_active refuses a second active row
Insert(p) ==
  /\ Replaces(p) /\ Len(rows) < MaxRows
  /\ \A i, j \in ActiveIn(Replaced(p)) : i = j
  /\ rows' = Replaced(p) /\ Ends(p)

\* IntegrityError: the transaction is rolled back and the caller fails
InsertRefused(p) ==
  /\ Replaces(p)
  /\ \E i, j \in ActiveIn(Replaced(p)) : i # j
  /\ Ends(p) /\ UNCHANGED rows
-----------------------------------------------------------------------------
\* forget by id, active or stale; expire_due and revalidate look for active rows and mark them later
Looks(p, op) ==
  /\ ops[p] = Idle
  /\ \E i \in Ids : /\ CASE op = "forget" -> rows[i].status \in {"active", "stale"}
                          [] op = "expire" -> rows[i].status = "active" /\ rows[i].lapsed
                          [] op = "revalidate" -> rows[i].status = "active"
                    /\ ops' = [ops EXCEPT ![p] = [Idle EXCEPT !.op = op, !.seen = i]]
  /\ UNCHANGED rows

forget(p) == ops[p].op = "forget" /\ set_status(ops[p].seen, "forgotten") /\ Ends(p)
expire_due(p) == ops[p].op = "expire" /\ set_status(ops[p].seen, "expired") /\ Ends(p)
revalidate(p) == ops[p].op = "revalidate" /\ set_status(ops[p].seen, "stale") /\ Ends(p)

\* a row passes its expires_at; nothing happens until somebody looks
TimePasses ==
  /\ \E i \in Ids : /\ rows[i].source \in DEFAULT_TTL /\ ~rows[i].lapsed /\ rows[i].status = "active"
                    /\ rows' = [rows EXCEPT ![i].lapsed = TRUE]
  /\ UNCHANGED ops

Next == \/ \E p \in Processes : \/ \E s \in Sources, v \in Values : PutReads(p, s, v)
                                \/ Reinforce(p) \/ KeepExisting(p) \/ Insert(p) \/ InsertRefused(p)
                                \/ \E op \in {"forget", "expire", "revalidate"} : Looks(p, op)
                                \/ forget(p) \/ expire_due(p) \/ revalidate(p)
        \/ TimePasses

Spec == Init /\ [][Next]_vars
-----------------------------------------------------------------------------
(* Properties *)

\* A key has one value: two processes that both found nothing do not both insert
OneActive == \A i, j \in Ids : (rows[i].status = "active" /\ rows[j].status = "active") => i = j

\* A write never replaces a record of higher authority, whatever was written between its read
\* and its write
AuthorityKept ==
  \A i \in Ids : (rows[i].status = "active" /\ rows'[i].status = "superseded")
     => AUTHORITY[rows'[Len(rows')].source] >= AUTHORITY[rows[i].source]

\* What was superseded, forgotten, found stale or expired does not come back by itself: only a
\* new row makes a value active
NeverRevived == \A i \in Ids : rows[i].status # "active" => rows'[i].status # "active"

\* docs/memory.md: "Expiry is applied whenever records are read": no write loses to a record
\* that is past its time
DeadRecordsLose ==
  [][\A p \in Processes : (ops[p].op = "put" /\ ops[p].seen # 0 /\ Weaker(p) /\ ops'[p] = Idle)
        => ~rows[ops[p].seen].lapsed]_vars
=============================================================================
