----------------------------- MODULE Promotion -----------------------------
(***************************************************************************)
(* The one write of a run to the real repository: the promotion of its     *)
(* patch, file by file, the journal that surrounds it, and the resume that *)
(* finds out from file hashes what a dead execution left behind.  It       *)
(* follows backend/patchquest:                                             *)
(*                                                                         *)
(*   orchestrator/state_machine.py  _finalize_patch, _interruptible        *)
(*   runtime/workspace.py           promotion_manifest, promote            *)
(*   patching/engine.py             apply_changes, rollback                *)
(*   runtime/resume.py              _promotion, plan_resume,               *)
(*                                  revert_partial_promotion               *)
(*   application/service.py         resume                                 *)
(*                                  recovery.py, runtime/queue.py          *)
(*                                                                         *)
(* One run and the files its patch changes.  A file's content is its text  *)
(* and the number of carriage returns too many before each line feed;      *)
(* comparing contents stands for comparing hashes.  The phases before      *)
(* the last are one step, Work.  RunQueue models statuses and leases in    *)
(* detail: here an approval wait counts as running, and the process that   *)
(* resumes a run is the one that executes it.  The early checkpoint stands *)
(* for every one from before the patch.                                    *)
(***************************************************************************)
EXTENDS Naturals

CONSTANTS
  Files,       \* the files the patch changes
  Crlf,        \* those whose lines end in CRLF; a file keeps its line ends
  Procs,       \* processes that execute or resume the run
  NoOne,       \* nobody executes the run
  Leases,      \* worker pool: may an execution be replaced while it lives?
  MaxAttempt,  \* bound on runs.attempt
  MaxEdits     \* bound on the edits people make

ASSUME PromotionAssumption ==
  /\ Files # {} /\ Crlf \subseteq Files /\ NoOne \notin Procs /\ Procs # {}
  /\ Leases \in BOOLEAN /\ MaxAttempt \in Nat /\ MaxEdits \in Nat

Patches == {"patch", "again"}
Content == ({"orig", "edit", "torn"} \cup Patches) \X Nat
Tree    == [Files -> Content]
Results == {"none", "applied", "conflict", "rejected", "no_changes"}
Outcomes == Results \cup {"interrupted", "cancelled"}   \* the last two are what recovery writes
Final   == {"completed", "failed", "cancelled"}
Live    == {"running", "cancel_requested"}

\* a text with the line ends of its file, and whether a content is one a patch made
Plain(t) == <<t, 0>>
Patched(c) == c[1] \in Patches

\* mutant of Stored: promotion converts the line ends of every file
StoredTwice(f, c) == <<c[1], c[2] + 1>>

\* What _write leaves of content c in file f.  promote and revert_partial_promotion hand
\* over the bytes as text, carriage returns included, and every line feed of a file with
\* CRLF gets another one.
Stored(f, c) == IF f \in Crlf THEN <<c[1], c[2] + 1>> ELSE c

\* where a process is: planning and committing a resume, executing the phases, or
\* inside apply_changes (check, write, undo)
Places == {"idle", "revert", "commit", "begin", "work", "save", "gate", "wait", "ready",
           "check", "write", "undo", "settle", "report", "finish"}

\* promote_policy and the verdict on the patch: write it, ask a person, or leave it
\* (policy never, and the patches that are rejected or missing before it is looked at)
Verdicts == {"yes", "ask", "no"}

Exec == [pc : Places, kind : {"promote", "revert"}, expect : Tree, goal : Tree,
         todo : SUBSET Files, since : SUBSET Files, promotable : Verdicts, reconciled : BOOLEAN,
         told : {"no", "cancel", "abandon"}, result : Results]

VARIABLES
  repo,        \* the files of the real repository
  journal,     \* the last promotion_started, and what closed it
  checkpoint,  \* the newest valid checkpoint
  status, outcome, attempt,   \* columns of table runs
  holder,      \* the process whose execution owns the run
  ex,          \* what each process does
  edits,       \* how many edits people made
  asked        \* has a person confirmed a resume?

db   == <<journal, checkpoint, status, outcome, attempt, holder, asked>>
vars == <<repo, db, ex, edits>>

AllOrig == [f \in Files |-> Plain("orig")]
Fresh == [pc |-> "idle", kind |-> "promote", expect |-> AllOrig, goal |-> AllOrig,
          todo |-> {}, since |-> {}, promotable |-> "no", reconciled |-> FALSE,
          told |-> "no", result |-> "none"]

\* kind: of the phase before the patch, of the patch, or of the last phase
Checkpoint == [kind : {"early", "patched", "final"}, expect : Tree, goal : Tree, seen : Tree,
               promotable : Verdicts, reconciled : BOOLEAN, result : Results]
Journal == [state : {"none", "started", "completed", "failed"}, base : Tree, new : Tree]

TypeOK ==
  /\ repo \in Tree /\ journal \in Journal /\ checkpoint \in Checkpoint
  /\ status \in Live \cup Final \cup {"interrupted"}
  /\ outcome \in Outcomes
  /\ attempt \in Nat /\ edits \in Nat /\ asked \in BOOLEAN
  /\ holder \in Procs \cup {NoOne}
  /\ ex \in [Procs -> Exec]

Init ==
  /\ repo = AllOrig
  /\ journal = [state |-> "none", base |-> AllOrig, new |-> AllOrig]
  /\ checkpoint = [kind |-> "early", expect |-> AllOrig, goal |-> AllOrig, seen |-> AllOrig,
                   promotable |-> "no", reconciled |-> FALSE, result |-> "none"]
  /\ status = "running" /\ outcome = "none" /\ attempt = 1
  /\ edits = 0 /\ asked = FALSE
  /\ holder \in Procs
  /\ ex = [p \in Procs |-> IF p = holder THEN [Fresh EXCEPT !.pc = "work"] ELSE Fresh]
-----------------------------------------------------------------------------
Goes(p, x) == ex' = [ex EXCEPT ![p] = x]
At(p, pc) == ex[p].pc = pc

\* may p's execution commit a transaction?  (database._check_fence)
Fenced(p) == holder = p

\* mutant of Steps: the database does not check the lease
StepsUnfenced(p, pc) == At(p, pc) /\ ex[p].told # "abandon"

\* a step of an execution that is neither cancelled nor abandoned, or in a section
\* that _interruptible lets finish
Steps(p, pc) == At(p, pc) /\ Fenced(p) /\ ex[p].told # "abandon"

\* how _fail_run ends the run of execution x
Fails(x, s) ==
  /\ status' = s
  /\ outcome' = IF x.result = "none" THEN "rejected" ELSE x.result
  /\ holder' = NoOne

\* the checkpoint of execution x
Saved(x, kind) ==
  [kind |-> kind, expect |-> x.expect, goal |-> x.goal, seen |-> repo,
   promotable |-> x.promotable, reconciled |-> x.reconciled, result |-> x.result]

\* the files execution x changes
Changed(x) == {f \in Files : x.goal[f] # x.expect[f]}
-----------------------------------------------------------------------------
(***************************************************************************)
(* The execution up to the promotion.                                      *)
(***************************************************************************)
\* the copy with patch v: apply_changes in the workspace keeps the line ends
PatchedCopy(v) == [f \in Files |-> <<v, repo[f][2]>>]

\* the phases before the last, in a fresh copy of the repository
Work(p) ==
  /\ Steps(p, "work")
  /\ \E v \in Patches, promotable \in Verdicts :
       Goes(p, [ex[p] EXCEPT !.pc = "save", !.expect = repo, !.goal = PatchedCopy(v),
                             !.promotable = promotable])
  /\ UNCHANGED <<repo, db, edits>>

\* _checkpoint, which may fail: the run then goes on without it
Save(p) ==
  /\ Steps(p, "save")
  /\ checkpoint' = Saved(ex[p], "patched") \/ UNCHANGED checkpoint
  /\ Goes(p, [ex[p] EXCEPT !.pc = "gate"])
  /\ UNCHANGED <<repo, journal, status, outcome, attempt, holder, asked, edits>>

\* a phase raises, or a budget is used up before the last one
PhaseFails(p) ==
  /\ Steps(p, "work") \/ Steps(p, "gate")
  /\ Fails(ex[p], "failed")
  /\ Goes(p, Fresh)
  /\ UNCHANGED <<repo, journal, checkpoint, attempt, asked, edits>>

\* where _finalize_patch goes once promotion is allowed
\* mutant of Allowed: a landed patch is written again
AllowedAgain(x) == [x EXCEPT !.pc = "ready"]

Allowed(x) ==
  IF x.reconciled THEN [x EXCEPT !.pc = "report", !.result = "applied"]
                  ELSE [x EXCEPT !.pc = "ready"]

\* _finalize_patch up to its approval.  Whoever asks comes before the question
\* whether an earlier attempt wrote the files.
Gate(p) ==
  /\ Steps(p, "gate")
  /\ LET x == ex[p] IN
       Goes(p, IF Changed(x) = {} THEN [x EXCEPT !.pc = "report", !.result = "no_changes"]
               ELSE CASE x.promotable = "yes" -> Allowed(x)
                      [] x.promotable = "ask" -> [x EXCEPT !.pc = "wait"]
                      [] x.promotable = "no"  -> [x EXCEPT !.pc = "report", !.result = "rejected"])
  /\ UNCHANGED <<repo, db, edits>>

\* a person decides, or the approval times out; a cancelled wait is a denial
Answer(p) ==
  /\ Steps(p, "wait")
  /\ \/ ex[p].told = "no" /\ Goes(p, Allowed(ex[p]))
     \/ Goes(p, [ex[p] EXCEPT !.pc = "report", !.result = "rejected"])
  /\ UNCHANGED <<repo, db, edits>>

\* mutant of Start: the intent is not journaled
StartUnjournaled(p) ==
  /\ Steps(p, "ready")
  /\ Goes(p, [ex[p] EXCEPT !.pc = "check", !.kind = "promote", !.todo = Changed(ex[p])])
  /\ UNCHANGED <<repo, db, edits>>

\* promotion_started, then the critical section, without an await between them
Start(p) ==
  /\ Steps(p, "ready")
  /\ journal' = [state |-> "started", base |-> ex[p].expect, new |-> ex[p].goal]
  /\ Goes(p, [ex[p] EXCEPT !.pc = "check", !.kind = "promote", !.todo = Changed(ex[p])])
  /\ UNCHANGED <<repo, checkpoint, status, outcome, attempt, holder, asked, edits>>

\* The manifest is ready in the very moment the worker abandons the execution: _emit
\* writes nothing, and the promotion begins before _interruptible can cut it off.
StartAbandoned(p) ==
  /\ At(p, "ready") /\ ex[p].told = "abandon"
  /\ Goes(p, [ex[p] EXCEPT !.pc = "check", !.kind = "promote", !.todo = Changed(ex[p])])
  /\ UNCHANGED <<repo, db, edits>>
-----------------------------------------------------------------------------
(***************************************************************************)
(* apply_changes, in a thread, for a promotion or for the reversal of one. *)
(* No fence and no cancel reaches it.                                      *)
(***************************************************************************)
\* where the caller of apply_changes is when it has failed
AfterFailure(x) ==
  IF x.kind = "promote" THEN [x EXCEPT !.pc = "settle", !.result = "conflict"] ELSE Fresh

AfterSuccess(x) ==
  IF x.kind = "promote" THEN [x EXCEPT !.pc = "settle", !.result = "applied"]
                        ELSE [x EXCEPT !.pc = "commit"]

\* mutant of Check: the files are not compared with what the patch was made for
CheckNothing(p) ==
  /\ At(p, "check")
  /\ Goes(p, [ex[p] EXCEPT !.pc = "write", !.todo = Changed(ex[p]), !.since = {}])
  /\ UNCHANGED <<repo, db, edits>>

\* originals are read and compared with the expected hashes; a file that cannot be read,
\* or a finding of SecretGuard, also ends it before the first write
Check(p) ==
  /\ At(p, "check")
  /\ LET x == ex[p] IN
       \/ /\ \A f \in x.todo : repo[f] = x.expect[f]
          /\ Goes(p, [x EXCEPT !.pc = "write", !.todo = Changed(x), !.since = {}])
       \/ Goes(p, AfterFailure(x))
  /\ UNCHANGED <<repo, db, edits>>

\* _write replaces one file atomically
Write(p, f) ==
  /\ At(p, "write") /\ f \in ex[p].todo
  /\ repo' = [repo EXCEPT ![f] = Stored(f, ex[p].goal[f])]
  /\ Goes(p, [ex[p] EXCEPT !.todo = @ \ {f}])
  /\ UNCHANGED <<db, edits>>

\* mutant of Written: success is reported before the last file is written
WrittenEarly(p) ==
  /\ At(p, "write")
  /\ Goes(p, AfterSuccess(ex[p]))
  /\ UNCHANGED <<repo, db, edits>>

Written(p) ==
  /\ At(p, "write") /\ ex[p].todo = {}
  /\ Goes(p, AfterSuccess(ex[p]))
  /\ UNCHANGED <<repo, db, edits>>

\* OSError: rollback restores every file of the patch, written or not
WriteFails(p) ==
  /\ At(p, "write") /\ ex[p].todo # {}
  /\ Goes(p, [ex[p] EXCEPT !.pc = "undo", !.todo = Changed(ex[p])])
  /\ UNCHANGED <<repo, db, edits>>

Undo(p, f) ==
  /\ At(p, "undo") /\ f \in ex[p].todo
  /\ repo' = [repo EXCEPT ![f] = ex[p].expect[f]]
  /\ Goes(p, [ex[p] EXCEPT !.todo = @ \ {f}])
  /\ UNCHANGED <<db, edits>>

Undone(p) ==
  /\ At(p, "undo") /\ ex[p].todo = {}
  /\ Goes(p, AfterFailure(ex[p]))
  /\ UNCHANGED <<repo, db, edits>>

\* write_bytes truncates before it writes: the file it was at may be torn
MayTear(p) ==
  \/ UNCHANGED repo
  \/ At(p, "undo") /\ \E f \in ex[p].todo : repo' = [repo EXCEPT ![f] = Plain("torn")]

\* a second OSError, in rollback itself, fails the phase, or the resume
UndoFails(p) ==
  /\ At(p, "undo") /\ ex[p].todo # {}
  /\ MayTear(p)
  /\ IF ex[p].kind = "promote" /\ Fenced(p) /\ ex[p].told # "abandon"
       THEN Fails(ex[p], IF ex[p].told = "cancel" THEN "cancelled" ELSE "failed")
       ELSE UNCHANGED <<status, outcome, holder>>
  /\ Goes(p, Fresh)
  /\ UNCHANGED <<journal, checkpoint, attempt, asked, edits>>
-----------------------------------------------------------------------------
(***************************************************************************)
(* After the promotion.                                                    *)
(***************************************************************************)
\* mutant of Settle: the event is guarded by the run's status instead of the lease
SettleByStatus(p) ==
  /\ At(p, "settle") /\ ex[p].told # "abandon" /\ status \in Live
  /\ journal' = [journal EXCEPT !.state = IF ex[p].result = "applied" THEN "completed" ELSE "failed"]
  /\ Goes(p, [ex[p] EXCEPT !.pc = "report"])
  /\ UNCHANGED <<repo, checkpoint, status, outcome, attempt, holder, asked, edits>>

\* promotion_completed or promotion_failed
Settle(p) ==
  /\ Steps(p, "settle")
  /\ journal' = [journal EXCEPT !.state = IF ex[p].result = "applied" THEN "completed" ELSE "failed"]
  /\ Goes(p, [ex[p] EXCEPT !.pc = "report"])
  /\ UNCHANGED <<repo, checkpoint, status, outcome, attempt, holder, asked, edits>>

\* the report, and the last checkpoint, which may fail
Report(p) ==
  /\ Steps(p, "report")
  /\ checkpoint' = Saved(ex[p], "final") \/ UNCHANGED checkpoint
  /\ Goes(p, [ex[p] EXCEPT !.pc = "finish"])
  /\ UNCHANGED <<repo, journal, status, outcome, attempt, holder, asked, edits>>

\* the end of _execute: cancelled, unless the patch had landed
Finish(p) ==
  /\ Steps(p, "finish")
  /\ status' = IF ex[p].told = "cancel" /\ ex[p].result # "applied" THEN "cancelled" ELSE "completed"
  /\ outcome' = ex[p].result
  /\ holder' = NoOne
  /\ Goes(p, Fresh)
  /\ UNCHANGED <<repo, journal, checkpoint, attempt, asked, edits>>

\* RunStateMachine.cancel, wherever the execution awaits something
Cancel(p) ==
  /\ Fenced(p) /\ ex[p].told = "no"
  /\ ex[p].pc \in {"begin", "work", "save", "gate", "wait", "ready", "check", "write",
                  "undo", "finish"}
  /\ status' = "cancel_requested"
  /\ Goes(p, [ex[p] EXCEPT !.told = "cancel"])
  /\ UNCHANGED <<repo, journal, checkpoint, outcome, attempt, holder, asked, edits>>

\* RunStateMachine.abandon: the lease is lost, or the worker is told to stop
Abandon(p) ==
  /\ Leases
  /\ ex[p].pc \in Places \ {"idle", "revert", "commit"} /\ ex[p].kind = "promote"
  /\ Goes(p, [ex[p] EXCEPT !.told = "abandon"])
  /\ UNCHANGED <<repo, db, edits>>

\* _interruptible outside the critical section
Unwind(p) ==
  /\ ex[p].pc \in {"work", "save", "gate", "wait", "ready"}
  /\ ex[p].told = "cancel" /\ Fenced(p)
  /\ Fails(ex[p], "cancelled")
  /\ Goes(p, Fresh)
  /\ UNCHANGED <<repo, journal, checkpoint, attempt, asked, edits>>

\* An execution that was abandoned writes nothing more, and a transaction of one
\* that was replaced rolls back with LeaseLost.
Stops(p) ==
  /\ ex[p].pc \in {"begin", "work", "save", "gate", "wait", "ready", "settle", "report",
                  "finish"}
  /\ ~Fenced(p) \/ ex[p].told = "abandon"
  /\ Goes(p, Fresh)
  /\ UNCHANGED <<repo, db, edits>>
-----------------------------------------------------------------------------
(***************************************************************************)
(* Crashes, recovery and resume.                                           *)
(***************************************************************************)
Crash(p) ==
  /\ ~At(p, "idle")
  /\ MayTear(p)
  /\ Goes(p, Fresh)
  /\ holder' = IF holder = p /\ ~Leases THEN NoOne ELSE holder
  /\ UNCHANGED <<journal, checkpoint, status, outcome, attempt, asked, edits>>

\* queue.claim takes back an expired lease, or a restarted server a dead run
Recover ==
  /\ status \in Live
  /\ (holder # NoOne) = Leases
  /\ status' = IF status = "cancel_requested" THEN "cancelled" ELSE "interrupted"
  /\ outcome' = status'
  /\ holder' = NoOne
  /\ UNCHANGED <<repo, journal, checkpoint, attempt, asked, ex, edits>>

Manifest == {f \in Files : journal.base[f] # journal.new[f]}

\* mutant of PromotionState: promotion_completed is not looked for
PromotionStateByHash ==
  LET at_base == {f \in Manifest : repo[f] = journal.base[f]}
      at_new  == {f \in Manifest : repo[f] = journal.new[f]}
  IN  IF journal.state = "none" THEN "NONE"
      ELSE IF at_base = Manifest THEN "NOT_APPLIED"
      ELSE IF at_new = Manifest THEN "APPLIED"
      ELSE IF at_base \cup at_new = Manifest THEN "PARTIAL"
      ELSE "UNKNOWN"

\* _promotion: what the hashes say about the last promotion
PromotionState ==
  LET at_base == {f \in Manifest : repo[f] = journal.base[f]}
      at_new  == {f \in Manifest : repo[f] = journal.new[f]}
  IN  CASE journal.state = "none"      -> "NONE"
        [] journal.state = "completed" -> "APPLIED"
        [] OTHER -> IF at_base = Manifest THEN "NOT_APPLIED"
                    ELSE IF at_new = Manifest THEN "APPLIED"
                    ELSE IF at_base \cup at_new = Manifest THEN "PARTIAL"
                    ELSE "UNKNOWN"

\* assess_drift: a file of the patch is not as the checkpoint, or the promotion, left it
Drifted ==
  /\ checkpoint.kind # "early"
  /\ \E f \in Files :
       repo[f] # IF PromotionState = "APPLIED" /\ f \in Manifest THEN journal.new[f]
                                                                ELSE checkpoint.seen[f]

\* mutant of PlanResume: only drift is put before a person
PlanResumeTrusting(p) ==
  /\ At(p, "idle")
  /\ status = "interrupted" /\ attempt < MaxAttempt
  /\ asked' = (asked \/ Drifted)
  /\ Goes(p, [Fresh EXCEPT !.pc = IF PromotionState = "PARTIAL" THEN "revert" ELSE "commit",
                           !.expect = journal.new, !.goal = journal.base,
                           !.reconciled = (PromotionState = "APPLIED")])
  /\ UNCHANGED <<repo, journal, checkpoint, status, outcome, attempt, holder, edits>>

\* plan_resume, and the person who accepts the drift or the rollback
PlanResume(p) ==
  /\ At(p, "idle")
  /\ status = "interrupted" /\ attempt < MaxAttempt
  /\ asked' = (asked \/ PromotionState \in {"PARTIAL", "UNKNOWN"} \/ Drifted)
  /\ Goes(p, [Fresh EXCEPT !.pc = IF PromotionState = "PARTIAL" THEN "revert" ELSE "commit",
                           !.expect = journal.new, !.goal = journal.base,
                           !.reconciled = (PromotionState = "APPLIED")])
  /\ UNCHANGED <<repo, journal, checkpoint, status, outcome, attempt, holder, edits>>

\* revert_partial_promotion: files that hold exactly what the journal says was written
\* get back the originals of the checkpoint; without one the run is not resumable
Revert(p) ==
  /\ At(p, "revert")
  /\ LET x == ex[p]
         back == {f \in Files : repo[f] = x.expect[f] /\ x.expect[f] # x.goal[f]}
     IN  Goes(p, IF checkpoint.kind = "early" THEN Fresh
                 ELSE [x EXCEPT !.pc = "check", !.kind = "revert", !.todo = back,
                        !.goal = [f \in Files |-> IF f \in back THEN checkpoint.expect[f]
                                                                ELSE x.expect[f]]])
  /\ UNCHANGED <<repo, db, edits>>

\* service.resume commits, unless another process was faster
CommitResume(p) ==
  /\ At(p, "commit")
  /\ IF status = "interrupted"
       THEN /\ status' = "running" /\ attempt' = attempt + 1 /\ holder' = p
            /\ Goes(p, [Fresh EXCEPT !.pc = "begin", !.reconciled = ex[p].reconciled])
       ELSE /\ Goes(p, Fresh)
            /\ UNCHANGED <<status, attempt, holder>>
  /\ UNCHANGED <<repo, journal, checkpoint, outcome, asked, edits>>

\* an execution that continues from the checkpoint
Restored(x) ==
  [x EXCEPT !.pc = CASE checkpoint.kind = "early"   -> "work"
                     [] checkpoint.kind = "patched" -> "gate"
                     [] checkpoint.kind = "final"   -> "finish",
            !.expect = checkpoint.expect, !.goal = checkpoint.goal,
            !.promotable = checkpoint.promotable,
            !.reconciled = @ \/ checkpoint.reconciled, !.result = checkpoint.result]

\* restore_checkpoint, and the check of the model policy that may end the run at once
Begin(p) ==
  /\ Steps(p, "begin")
  /\ \/ Goes(p, Restored(ex[p])) /\ UNCHANGED <<status, outcome, holder>>
     \/ Goes(p, Fresh) /\ Fails(Restored(ex[p]), "failed")
  /\ UNCHANGED <<repo, journal, checkpoint, attempt, asked, edits>>

\* a person, or a tool of theirs, saves a file
Edit(f) ==
  /\ edits < MaxEdits
  /\ edits' = edits + 1
  /\ \E c \in {Plain("edit"), Plain("orig")} \ {repo[f]} : repo' = [repo EXCEPT ![f] = c]
  /\ ex' = [p \in Procs |-> IF ex[p].pc \in {"write", "undo"}
                              THEN [ex[p] EXCEPT !.since = @ \cup {f}] ELSE ex[p]]
  /\ UNCHANGED db
-----------------------------------------------------------------------------
Apply(p) ==
  \/ Check(p) \/ Written(p) \/ WriteFails(p) \/ Undone(p) \/ UndoFails(p)
  \/ \E f \in Files : Write(p, f) \/ Undo(p, f)

Step(p) ==
  \/ Begin(p) \/ Work(p) \/ Save(p) \/ PhaseFails(p) \/ Gate(p) \/ Answer(p) \/ Start(p) \/ StartAbandoned(p) \/ Apply(p)
  \/ Settle(p) \/ Report(p) \/ Finish(p) \/ Cancel(p) \/ Abandon(p) \/ Unwind(p) \/ Stops(p)
  \/ Crash(p) \/ PlanResume(p) \/ Revert(p) \/ CommitResume(p)

Next == (\E p \in Procs : Step(p)) \/ Recover \/ (\E f \in Files : Edit(f))

Spec == Init /\ [][Next]_vars
-----------------------------------------------------------------------------
(***************************************************************************)
(* What one process at a time guarantees.                                  *)
(***************************************************************************)
\* A file of the repository holds a patch only if a promotion_started event names it: as
\* what it found, or as what it writes, which in a file with CRLF is what _write makes of
\* the content it names.
JournalCoversRepo ==
  \A f \in Files : Patched(repo[f]) =>
    journal.state # "none" /\ repo[f] \in {journal.base[f], Stored(f, journal.new[f])}

\* A run that reports its patch applied has written every file of it: with exactly the
\* journaled content where lines end in LF, and with what _write makes of it where they
\* end in CRLF, unless a person changed files meanwhile (_finalize_patch, and the
\* reconciliation by hashes).
AppliedMeansLanded ==
  status = "completed" /\ outcome = "applied" /\ edits = 0 =>
    \A f \in Files :
      /\ repo[f] = IF f \in Manifest THEN Stored(f, journal.new[f]) ELSE journal.base[f]
      /\ f \notin Crlf => repo[f] = journal.new[f]

\* Once promotion_completed is journaled nobody but a person changes the files of the
\* patch, whatever is cancelled, crashes or is resumed afterwards.
PromotedOnce ==
  [][journal.state = "completed" => journal' = journal /\ (repo' = repo \/ edits' # edits)]_vars

\* A promotion that the hashes show to have landed is not begun again by a resume.
NeverRerun ==
  [][\A p \in Procs : At(p, "ready") /\ ex'[p].pc = "check" => PromotionState # "APPLIED"]_vars

\* No execution goes on over files that a dead promotion left half written or damaged
\* unless a person has confirmed a resume: between the plan and the promotion nothing
\* but that person's answer stands for them.
UncertainMeansAsked ==
  \A p \in Procs :
    /\ ex[p].pc \in {"begin", "work", "save", "gate", "wait", "ready"}
    /\ edits = 0 /\ PromotionState \in {"PARTIAL", "UNKNOWN"}
    => asked

\* A person's edit of a file disappears only when the patch was made on top of it, when it
\* was saved after apply_changes compared the files and before it was done with them, or
\* when a reversal that has just put it back fails and undoes itself.
EditsLostOnlyInWindow ==
  [][\A f \in Files : repo[f] = Plain("edit") /\ repo'[f] # Plain("edit") =>
       \/ edits' # edits
       \/ \E p \in Procs :
            \/ /\ ex[p].pc \in {"write", "undo"}
               /\ f \in ex[p].since \/ ex[p].expect[f] = Plain("edit")
            \/ ex[p].pc = "undo" /\ ex[p].kind = "revert" /\ ex[p].goal[f] = Plain("edit")]_vars
-----------------------------------------------------------------------------
(***************************************************************************)
(* What the fence guarantees when an execution can be replaced.            *)
(***************************************************************************)
\* A promotion is closed in the journal only by the execution that opened it: one that
\* was replaced while it wrote files does not report on its successor's promotion.
SettledByItsStarter ==
  [][journal'.state # journal.state /\ journal'.state \in {"completed", "failed"} =>
       \E p \in Procs : At(p, "settle") /\ journal.base = ex[p].expect /\ journal.new = ex[p].goal]_vars

\* What a run ended with is final: executions that still live neither reopen it nor add
\* to its journal or its checkpoints.
EndedIsFinal ==
  [][(status \in Final) => UNCHANGED <<journal, checkpoint, status, outcome, attempt>>]_vars
-----------------------------------------------------------------------------
(***************************************************************************)
(* What the documents say and the code does not do.  CrashLeavesNoHalf has *)
(* a run of its own; NewIsWhatItHolds, LandedIsReconciled and PromotedOnce *)
(* with a replaced execution, are refuted in the instances the README      *)
(* names.                                                                  *)
(***************************************************************************)
\* "A crash can never cause a ... silently half-applied write": a run that recovery ends
\* as cancelled, and so can never be resumed, is not half written.
CrashLeavesNoHalf ==
  status = "cancelled" /\ outcome = "cancelled" => PromotionState # "PARTIAL"

\* "the sha256 expected now (base) and the one it will have afterwards (new)": once a
\* promotion is completed its files hold what the manifest said they would.
NewIsWhatItHolds ==
  journal.state = "completed" /\ edits = 0 => \A f \in Manifest : repo[f] = journal.new[f]

\* "all new -> it had landed and is not repeated (promotion_reconciled)": a run that
\* completes over its own landed patch, the one of its checkpoint, says so.
LandedIsReconciled ==
  /\ status = "completed" /\ edits = 0 /\ PromotionState = "APPLIED"
  /\ checkpoint.expect = journal.base /\ checkpoint.goal = journal.new
  => outcome = "applied"
=============================================================================
