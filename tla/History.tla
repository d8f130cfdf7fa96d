------------------------------ MODULE History ------------------------------
(* persistence/checkpoints.py, runtime/replay.py (replay_state) and         *)
(* portability.py: what a run leaves behind, how it is checked and how it   *)
(* moves to another database. Two databases, "here" and "there", each with  *)
(* its own ledger: an event's id is its position. The run is written here   *)
(* and imported, under a new name, into either.                              *)
EXTENDS Integers, Sequences, SequencesExt, FiniteSetsExt, RunStatus

CONSTANTS MaxEvents,        \* bounds the events of the run
          MaxOthers,        \* and those other runs wrote before it
          MaxCheckpoints

CHECKPOINT_SCHEMA_VERSION == 1
Databases == {"here", "there"}
Phases == {"plan"}
NoRun == [status |-> "none", attempt |-> 0]
NoBundle == [row |-> NoRun, events |-> <<>>, cps |-> <<>>]

VARIABLES
    ledger,       \* database -> sequence of events of all runs
    row,          \* run -> its record
    at,           \* run -> the database it is in
    cps,          \* run -> rows of checkpoints by seq
    bundle,
    wrote, sound  \* history: checkpoints as written; replay_state at the export
vars == <<ledger, row, at, cps, bundle, wrote, sound>>

RunNames == {"original", "imported"}
Event(r, type, to, attempt) == [run |-> r, type |-> type, to |-> to, attempt |-> attempt]
Init ==
    /\ \E n \in {0, MaxOthers} : ledger = [here |-> [i \in 1..n |-> Event("other", "emitted", <<>>, 1)], there |-> <<>>]
    /\ row = [original |-> [status |-> "created", attempt |-> 1], imported |-> NoRun]
    /\ at = [r \in RunNames |-> "here"]
    /\ cps = [r \in RunNames |-> <<>>] /\ wrote = cps
    /\ bundle = NoBundle /\ sound = FALSE

Mine(r) == {i \in DOMAIN ledger[at[r]] : ledger[at[r]][i].run = r}
Cursor(r) == Max(Mine(r) \union {0})
events(r) == SelectSeq(ledger[at[r]], LAMBDA e : e.run = r)
-----------------------------------------------------------------------------
(* mutant: the checksum is over the content alone *)
_checksum_content(r, seq, cp) == <<cp.state>>
_checksum(r, seq, cp) == <<r, seq, cp.version, cp.phase, cp.cursor, cp.attempt, cp.state>>

(* save                                                                     *)
save(r, done, cp) == Append(done, [cp EXCEPT !.sum = _checksum(r, Len(done) + 1, cp)])
Checkpoint(phase, cursor, attempt, state) ==
    [version |-> CHECKPOINT_SCHEMA_VERSION, phase |-> phase, cursor |-> cursor, attempt |-> attempt, state |-> state, sum |-> <<>>]

(* _decode raises nothing; latest_valid; 0 is None                          *)
_decode(r, seq) == LET cp == cps[r][seq] IN cp.sum = _checksum(r, seq, cp) /\ cp.version <= CHECKPOINT_SCHEMA_VERSION
latest_valid(r) == Max({seq \in DOMAIN cps[r] : _decode(r, seq)} \union {0})

(* replay_state: the history of a run, from its events, without findings    *)
Shape == [p \in Phases |-> "none"]
Replay(s, e) ==
    LET t == [s EXCEPT !.ok = s.ok /\ e.attempt >= s.attempt, !.attempt = IF e.attempt > s.attempt THEN e.attempt ELSE s.attempt]
    IN  CASE e.type = "run_state_changed" ->
               [t EXCEPT !.ok = t.ok /\ e.to[1] = t.status /\ can_transition(e.to[1], e.to[2]),
                         !.status = e.to[2], !.trail = Append(t.trail, e.to[2])]
          [] e.type \in {"phase_started", "phase_completed"} -> [t EXCEPT !.phases[e.to[1]] = e.type]
          [] OTHER -> t
replay_state(r) ==
    LET end == FoldLeft(Replay, [ok |-> TRUE, attempt |-> 0, status |-> "created", trail |-> <<>>, phases |-> Shape], events(r))
    IN  [trail |-> end.trail, phases |-> end.phases,
         ok |-> /\ end.ok
                /\ end.trail # <<>> => end.status = row[r].status
                /\ \A seq \in DOMAIN cps[r] : _decode(r, seq) /\ cps[r][seq].cursor <= Cursor(r)
                /\ row[r].status = "completed" => \A p \in Phases : end.phases[p] # "phase_started"]
-----------------------------------------------------------------------------
Room == Len(events("original")) < MaxEvents /\ bundle = NoBundle
Emit(e) == ledger' = [ledger EXCEPT !["here"] = Append(@, e)]

(* the run: a status change with its event (a resume is the next attempt),  *)
(* a phase, a checkpoint after a phase                                      *)
transition(to) ==
    LET o == row["original"]
        attempt == IF o.status = "interrupted" /\ to = "running" THEN o.attempt + 1 ELSE o.attempt
    IN  /\ Room /\ can_transition(o.status, to)
        /\ to = "completed" => \A p \in Phases : replay_state("original").phases[p] # "phase_started"
        /\ row' = [row EXCEPT !["original"] = [status |-> to, attempt |-> attempt]]
        /\ Emit(Event("original", "run_state_changed", <<o.status, to>>, attempt))
        /\ UNCHANGED <<at, cps, bundle, wrote, sound>>
Phase(p) ==
    /\ Room /\ row["original"].status = "running"
    /\ Emit(Event("original", IF replay_state("original").phases[p] = "phase_started" THEN "phase_completed" ELSE "phase_started",
                  <<p>>, row["original"].attempt))
    /\ UNCHANGED <<row, at, cps, bundle, wrote, sound>>
_checkpoint(p) ==
    /\ Room /\ row["original"].status = "running" /\ Len(cps["original"]) < MaxCheckpoints
    /\ LET saved == save("original", cps["original"], Checkpoint(p, Cursor("original"), row["original"].attempt, Len(cps["original"])))
       IN  cps' = [cps EXCEPT !["original"] = saved] /\ wrote' = [wrote EXCEPT !["original"] = Append(@, Last(saved))]
    /\ Emit(Event("original", "checkpoint_created", <<p>>, row["original"].attempt))
    /\ UNCHANGED <<row, at, bundle, sound>>

(* a column of a row rots                                                   *)
Rot(r, seq) ==
    /\ seq \in DOMAIN cps[r] /\ cps[r][seq] = wrote[r][seq]
    /\ \/ cps' = [cps EXCEPT ![r][seq].cursor = @ + 1]
       \/ cps' = [cps EXCEPT ![r][seq].state = @ + 10]
       \/ cps' = [cps EXCEPT ![r][seq].version = 2]
    /\ UNCHANGED <<ledger, row, at, bundle, wrote, sound>>

(* export_run: reading a checkpoint that does not decode raises             *)
export_run(code) ==
    /\ bundle = NoBundle /\ row["original"].status # "created"
    /\ code => \A seq \in DOMAIN cps["original"] : _decode("original", seq)
    /\ bundle' = [row |-> row["original"], events |-> events("original"), cps |-> IF code THEN cps["original"] ELSE <<>>]
    /\ sound' = replay_state("original").ok
    /\ UNCHANGED <<ledger, row, at, cps, wrote>>

Imported == Append([i \in DOMAIN bundle.events |-> [bundle.events[i] EXCEPT !.run = "imported"]], Event("imported", "run_imported", <<>>, 1))
(* a position is at most the last one                                       *)
Adopt(last) ==
    FoldLeft(LAMBDA done, cp : save("imported", done, Checkpoint(cp.phase, IF cp.cursor < last THEN cp.cursor ELSE last, cp.attempt, cp.state)),
             <<>>, bundle.cps)
Land(d, kept) ==
    /\ bundle # NoBundle /\ row["imported"] = NoRun
    /\ row' = [row EXCEPT !["imported"] = [bundle.row EXCEPT !.status = IF @ \in TERMINAL THEN @ ELSE "interrupted"]]
    /\ at' = [at EXCEPT !["imported"] = d]
    /\ ledger' = [ledger EXCEPT ![d] = @ \o Imported]
    /\ cps' = [cps EXCEPT !["imported"] = kept] /\ wrote' = [wrote EXCEPT !["imported"] = kept]
    /\ UNCHANGED <<bundle, sound>>
(* mutant: positions are taken over as they are *)
import_run_verbatim(d) == Land(d, Adopt(FoldLeft(LAMBDA sum, cp : sum + cp.cursor, 0, bundle.cps)))
(* import_run: new ids for everything                                       *)
import_run(d) == Land(d, Adopt(Len(ledger[d]) + Len(Imported)))

Next == \/ \E to \in {"running", "interrupted", "completed"} : transition(to)
        \/ \E p \in Phases : Phase(p) \/ _checkpoint(p)
        \/ \E d \in Databases : import_run(d)
        \/ \E r \in RunNames, seq \in 1..MaxCheckpoints : Rot(r, seq)
        \/ \E code \in BOOLEAN : export_run(code)
Spec == Init /\ [][Next]_vars
-----------------------------------------------------------------------------
(* latest_valid gives the newest checkpoint that is as it was written: no   *)
(* row that rotted is trusted, and none that did not is passed over.        *)
NewestIntact ==
    \A r \in RunNames : latest_valid(r) = Max({seq \in DOMAIN cps[r] : cps[r][seq] = wrote[r][seq]} \union {0})

(* An imported history replays as well as the original did, from any ledger *)
(* into any other, if the run had ended in its first attempt and nothing    *)
(* rotted since.                                                            *)
FinishedImportReplays ==
    (row["imported"] # NoRun /\ sound /\ bundle.row.attempt = 1 /\ bundle.row.status \in TERMINAL \union {"interrupted"}
        /\ cps["imported"] = wrote["imported"]) => replay_state("imported").ok

(* test_portability.py: "the imported history is as consistent as the       *)
(* original". Not so when the run was resumed: run_imported is of attempt 1.*)
ImportIsConsistent ==
    (row["imported"] # NoRun /\ sound /\ bundle.row.status \in TERMINAL /\ cps["imported"] = wrote["imported"])
        => replay_state("imported").ok
=============================================================================
