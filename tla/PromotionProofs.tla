--------------------------- MODULE PromotionProofs ---------------------------
(***************************************************************************)
(* Theorems about Promotion, for every set of files and every bound.       *)
(***************************************************************************)
EXTENDS Promotion, TLAPS

\* contents: what _write makes of one, and which of them are patches
LEMMA PlainContent ==
  \A t \in {"orig", "edit", "torn"} : Plain(t) \in Content /\ ~Patched(Plain(t))
  BY DEF Plain, Content, Patched, Patches

LEMMA StoredContent ==
  ASSUME NEW f, NEW c \in Content
  PROVE  /\ Stored(f, c) \in Content /\ (Patched(Stored(f, c)) <=> Patched(c))
         /\ Stored(f, c) = c <=> f \notin Crlf
  BY DEF Stored, Content, Patched

LEMMA CopyType ==
  ASSUME repo \in Tree, NEW v \in Patches
  PROVE  PatchedCopy(v) \in Tree
  BY DEF PatchedCopy, Tree, Content

LEMMA FreshType == Fresh \in Exec
<1>1. AllOrig \in Tree
  BY PlainContent DEF AllOrig, Tree
<1> QED
  BY <1>1 DEF Fresh, Exec, Places, Verdicts, Results

LEMMA InitType == Init => TypeOK
<1> SUFFICES ASSUME Init PROVE TypeOK
  OBVIOUS
<1>1. AllOrig \in Tree
  BY PlainContent DEF AllOrig, Tree
<1>2. [Fresh EXCEPT !.pc = "work"] \in Exec
  BY FreshType DEF Exec, Places
<1>3. ex \in [Procs -> Exec]
  BY <1>2, FreshType DEF Init
<1>4. checkpoint \in Checkpoint
  BY <1>1 DEF Init, Checkpoint, Verdicts, Results
<1>5. journal \in Journal
  BY <1>1 DEF Init, Journal
<1> QED
  BY <1>1, <1>3, <1>4, <1>5, Zenon DEF Init, TypeOK, Live, Final, Outcomes, Results

LEMMA ExecType ==
  ASSUME TypeOK, NEW p \in Procs, NEW x \in Exec, Goes(p, x)
  PROVE  ex' \in [Procs -> Exec]
  BY DEF TypeOK, Goes

LEMMA StepType ==
  ASSUME TypeOK, NEW p \in Procs, Step(p)
  PROVE  TypeOK'
<1> DEFINE X == ex[p]
<1>0. X \in Exec
  BY DEF TypeOK
<1>1. CASE Work(p)
  <2>1. PICK v \in Patches, promotable \in Verdicts :
       Goes(p, [ex[p] EXCEPT !.pc = "save", !.expect = repo, !.goal = PatchedCopy(v),
                             !.promotable = promotable])
    BY <1>1, Zenon DEF Work
  <2>2. PatchedCopy(v) \in Tree
    BY CopyType DEF TypeOK
  <2>3. [ex[p] EXCEPT !.pc = "save", !.expect = repo, !.goal = PatchedCopy(v),
                             !.promotable = promotable] \in Exec
    BY <1>0, <2>2, Zenon DEF Exec, Places, TypeOK
  <2> QED
    BY <1>1, <2>1, <2>3, ExecType DEF Work, db, TypeOK
<1>2. CASE Save(p)
  <2>1. [ex[p] EXCEPT !.pc = "gate"] \in Exec
    BY <1>0 DEF Exec, Places
  <2>2. Saved(X, "patched") \in Checkpoint
    BY <1>0 DEF Saved, Checkpoint, Exec, TypeOK
  <2>3. ex' \in [Procs -> Exec]
    BY <1>2, <2>1, ExecType DEF Save
  <2> QED
    BY <1>2, <2>2, <2>3 DEF Save, TypeOK
<1>3. CASE PhaseFails(p)
  <2>1. outcome' \in Outcomes
    BY <1>0, <1>3 DEF PhaseFails, Fails, Outcomes, Results, Exec
  <2>2. ex' \in [Procs -> Exec]
    BY <1>3, FreshType, ExecType DEF PhaseFails
  <2> QED
    BY <1>3, <2>1, <2>2 DEF PhaseFails, Fails, TypeOK, Final
<1>4. Allowed(X) \in Exec
  BY <1>0, Zenon DEF Allowed, Exec, Places, Results
<1>5. \A r \in Results : [X EXCEPT !.pc = "report", !.result = r] \in Exec
  BY <1>0, Zenon DEF Exec, Places
<1>6. CASE Gate(p)
  <2>1. [X EXCEPT !.pc = "wait"] \in Exec
    BY <1>0 DEF Exec, Places
  <2>2. X.promotable \in Verdicts
    BY <1>0 DEF Exec
  <2>3. ex' \in [Procs -> Exec]
    BY <1>4, <1>5, <1>6, <2>1, <2>2, ExecType DEF Gate, Verdicts, Results
  <2> QED
    BY <1>6, <2>3 DEF Gate, db, TypeOK
<1>7. CASE Answer(p)
  <2>1. ex' \in [Procs -> Exec]
    BY <1>4, <1>5, <1>7, ExecType DEF Answer, Results
  <2> QED
    BY <1>7, <2>1 DEF Answer, db, TypeOK
<1>8. [X EXCEPT !.pc = "check", !.kind = "promote", !.todo = Changed(X)] \in Exec
  BY <1>0, Zenon DEF Exec, Places, Changed
<1>9. CASE Start(p)
  <2>1. ex' \in [Procs -> Exec]
    BY <1>8, <1>9, ExecType DEF Start
  <2>2. journal' \in Journal
    BY <1>0, <1>9 DEF Start, Journal, Exec
  <2> QED
    BY <1>9, <2>1, <2>2 DEF Start, TypeOK
<1>10. CASE StartAbandoned(p)
  <2>1. ex' \in [Procs -> Exec]
    BY <1>8, <1>10, ExecType DEF StartAbandoned
  <2> QED
    BY <1>10, <2>1 DEF StartAbandoned, db, TypeOK
<1>11. AfterFailure(X) \in Exec /\ AfterSuccess(X) \in Exec
  <2>1. \A r \in Results : [X EXCEPT !.pc = "settle", !.result = r] \in Exec
    BY <1>0, Zenon DEF Exec, Places
  <2>2. [X EXCEPT !.pc = "commit"] \in Exec
    BY <1>0 DEF Exec, Places
  <2> QED
    BY <2>1, <2>2, FreshType DEF AfterFailure, AfterSuccess, Results
<1>12. CASE Check(p)
  <2>1. [X EXCEPT !.pc = "write", !.todo = Changed(X), !.since = {}] \in Exec
    BY <1>0, Zenon DEF Exec, Places, Changed
  <2>2. ex' \in [Procs -> Exec]
    BY <1>11, <1>12, <2>1, ExecType DEF Check
  <2> QED
    BY <1>12, <2>2 DEF Check, db, TypeOK
<1>13. \A f \in Files : [X EXCEPT !.todo = @ \ {f}] \in Exec
  BY <1>0 DEF Exec
<1>14. ASSUME NEW f \in Files, Write(p, f) PROVE TypeOK'
  <2>1. ex' \in [Procs -> Exec]
    BY <1>13, <1>14, ExecType DEF Write
  <2>2. X.goal \in Tree
    BY <1>0 DEF Exec
  <2>3. repo' \in Tree
    BY <1>14, <2>2, StoredContent DEF Write, TypeOK, Tree
  <2> QED
    BY <1>14, <2>1, <2>3 DEF Write, db, TypeOK
<1>15. CASE Written(p)
  <2>1. ex' \in [Procs -> Exec]
    BY <1>11, <1>15, ExecType DEF Written
  <2> QED
    BY <1>15, <2>1 DEF Written, db, TypeOK
<1>16. CASE WriteFails(p)
  <2>1. [X EXCEPT !.pc = "undo", !.todo = Changed(X)] \in Exec
    BY <1>0, Zenon DEF Exec, Places, Changed
  <2>2. ex' \in [Procs -> Exec]
    BY <1>16, <2>1, ExecType DEF WriteFails
  <2> QED
    BY <1>16, <2>2 DEF WriteFails, db, TypeOK
<1>17. ASSUME NEW f \in Files, Undo(p, f) PROVE TypeOK'
  <2>1. ex' \in [Procs -> Exec]
    BY <1>13, <1>17, ExecType DEF Undo
  <2>2. X.expect \in Tree
    BY <1>0 DEF Exec
  <2>3. repo' \in Tree
    BY <1>17, <2>2 DEF Undo, TypeOK, Tree
  <2> QED
    BY <1>17, <2>1, <2>3 DEF Undo, db, TypeOK
<1>18. CASE Undone(p)
  <2>1. ex' \in [Procs -> Exec]
    BY <1>11, <1>18, ExecType DEF Undone
  <2> QED
    BY <1>18, <2>1 DEF Undone, db, TypeOK
<1>19. ASSUME MayTear(p) PROVE repo' \in Tree
  <2>1. X.todo \subseteq Files
    BY <1>0 DEF Exec
  <2> QED
    BY <1>19, <2>1, PlainContent DEF MayTear, TypeOK, Tree
<1>20. ASSUME NEW s, Fails(X, s) PROVE outcome' \in Outcomes /\ holder' = NoOne /\ status' = s
  BY <1>0, <1>20 DEF Fails, Outcomes, Results, Exec
<1>21. CASE UndoFails(p)
  <2>1. ex' \in [Procs -> Exec]
    BY <1>21, FreshType, ExecType DEF UndoFails
  <2>2. repo' \in Tree
    BY <1>19, <1>21 DEF UndoFails
  <2>3. CASE UNCHANGED <<status, outcome, holder>>
    BY <1>21, <2>1, <2>2, <2>3 DEF UndoFails, TypeOK
  <2>4. CASE Fails(X, "cancelled") \/ Fails(X, "failed")
    BY <1>20, <1>21, <2>1, <2>2, <2>4 DEF UndoFails, TypeOK, Final
  <2> QED
    BY <1>21, <2>3, <2>4 DEF UndoFails
<1>22. CASE Settle(p)
  <2>1. [X EXCEPT !.pc = "report"] \in Exec
    BY <1>0 DEF Exec, Places
  <2>2. ex' \in [Procs -> Exec]
    BY <1>22, <2>1, ExecType DEF Settle
  <2>3. journal' \in Journal
    BY <1>22 DEF Settle, Journal, TypeOK
  <2> QED
    BY <1>22, <2>2, <2>3 DEF Settle, TypeOK
<1>23. CASE Report(p)
  <2>1. [X EXCEPT !.pc = "finish"] \in Exec
    BY <1>0 DEF Exec, Places
  <2>2. Saved(X, "final") \in Checkpoint
    BY <1>0 DEF Saved, Checkpoint, Exec, TypeOK
  <2>3. ex' \in [Procs -> Exec]
    BY <1>23, <2>1, ExecType DEF Report
  <2> QED
    BY <1>23, <2>2, <2>3 DEF Report, TypeOK
<1>24. CASE Finish(p)
  <2>1. ex' \in [Procs -> Exec]
    BY <1>24, FreshType, ExecType DEF Finish
  <2>2. outcome' \in Outcomes
    BY <1>0, <1>24 DEF Finish, Exec, Outcomes
  <2> QED
    BY <1>24, <2>1, <2>2 DEF Finish, TypeOK, Final
<1>25. CASE Cancel(p)
  <2>1. [X EXCEPT !.told = "cancel"] \in Exec
    BY <1>0 DEF Exec
  <2>2. ex' \in [Procs -> Exec]
    BY <1>25, <2>1, ExecType DEF Cancel
  <2> QED
    BY <1>25, <2>2 DEF Cancel, TypeOK, Live
<1>26. CASE Abandon(p)
  <2>1. [X EXCEPT !.told = "abandon"] \in Exec
    BY <1>0 DEF Exec
  <2>2. ex' \in [Procs -> Exec]
    BY <1>26, <2>1, ExecType DEF Abandon
  <2> QED
    BY <1>26, <2>2 DEF Abandon, db, TypeOK
<1>27. CASE Unwind(p)
  <2>1. ex' \in [Procs -> Exec]
    BY <1>27, FreshType, ExecType DEF Unwind
  <2>2. Fails(X, "cancelled")
    BY <1>27 DEF Unwind
  <2> QED
    BY <1>20, <1>27, <2>1, <2>2 DEF Unwind, TypeOK, Final
<1>28. CASE Stops(p)
  <2>1. ex' \in [Procs -> Exec]
    BY <1>28, FreshType, ExecType DEF Stops
  <2> QED
    BY <1>28, <2>1 DEF Stops, db, TypeOK
<1>29. CASE Crash(p)
  <2>1. ex' \in [Procs -> Exec]
    BY <1>29, FreshType, ExecType DEF Crash
  <2>2. repo' \in Tree
    BY <1>19, <1>29 DEF Crash
  <2> QED
    BY <1>29, <2>1, <2>2 DEF Crash, TypeOK
<1>30. CASE PlanResume(p)
  <2>1. [Fresh EXCEPT !.pc = IF PromotionState = "PARTIAL" THEN "revert" ELSE "commit",
                      !.expect = journal.new, !.goal = journal.base,
                      !.reconciled = (PromotionState = "APPLIED")] \in Exec
    BY FreshType, Zenon DEF Exec, Places, TypeOK, Journal
  <2>2. ex' \in [Procs -> Exec]
    BY <1>30, <2>1, ExecType DEF PlanResume
  <2>3. asked' \in BOOLEAN
    BY <1>30 DEF PlanResume
  <2> QED
    BY <1>30, <2>2, <2>3 DEF PlanResume, TypeOK
<1>31. CASE Revert(p)
  <2> DEFINE back == {f \in Files : repo[f] = X.expect[f] /\ X.expect[f] # X.goal[f]}
             new  == [f \in Files |-> IF f \in back THEN checkpoint.expect[f] ELSE X.expect[f]]
  <2>1. new \in Tree
    BY <1>0 DEF TypeOK, Checkpoint, Exec, Tree
  <2>2. back \in SUBSET Files
    OBVIOUS
  <2> HIDE DEF new, back
  <2>3. [X EXCEPT !.pc = "check", !.kind = "revert", !.todo = back, !.goal = new] \in Exec
    BY <1>0, <2>1, <2>2, Zenon DEF Exec, Places
  <2>4. ex' \in [Procs -> Exec]
    BY <1>31, <2>3, FreshType, ExecType DEF Revert, back, new
  <2> QED
    BY <1>31, <2>4 DEF Revert, db, TypeOK
<1>32. CASE CommitResume(p)
  <2>1. [Fresh EXCEPT !.pc = "begin", !.reconciled = X.reconciled] \in Exec
    BY <1>0, FreshType, Zenon DEF Exec, Places
  <2>2. ex' \in [Procs -> Exec]
    BY <1>32, <2>1, FreshType, ExecType DEF CommitResume
  <2> QED
    BY <1>32, <2>2 DEF CommitResume, TypeOK, Live
<1>33. CASE Begin(p)
  <2>1. Restored(X) \in Exec
    BY <1>0, Zenon DEF Restored, Exec, Places, TypeOK, Checkpoint
  <2>2. ex' \in [Procs -> Exec]
    BY <1>33, <2>1, FreshType, ExecType DEF Begin
  <2>3. ASSUME Fails(Restored(X), "failed")
        PROVE  outcome' \in Outcomes /\ holder' = NoOne /\ status' = "failed"
    BY <2>1, <2>3 DEF Fails, Outcomes, Results, Exec
  <2> QED
    BY <1>33, <2>2, <2>3 DEF Begin, TypeOK, Final
<1> QED
  BY <1>1, <1>2, <1>3, <1>6, <1>7, <1>9, <1>10, <1>12, <1>14, <1>15, <1>16, <1>17, <1>18,
     <1>21, <1>22, <1>23, <1>24, <1>25, <1>26, <1>27, <1>28, <1>29, <1>30, <1>31, <1>32, <1>33
  DEF Step, Apply

LEMMA NextType == TypeOK /\ [Next]_vars => TypeOK'
<1> SUFFICES ASSUME TypeOK, [Next]_vars PROVE TypeOK'
  OBVIOUS
<1>1. CASE \E p \in Procs : Step(p)
  BY <1>1, StepType
<1>2. CASE Recover
  BY <1>2 DEF Recover, TypeOK, Outcomes, Final, Live
<1>3. ASSUME NEW f \in Files, Edit(f) PROVE TypeOK'
  <2>1. repo' \in Tree
    BY <1>3, PlainContent DEF Edit, TypeOK, Tree
  <2>2. \A p \in Procs : [ex[p] EXCEPT !.since = @ \cup {f}] \in Exec
    BY DEF TypeOK, Exec
  <2>3. ex' \in [Procs -> Exec]
    BY <1>3, <2>2 DEF Edit, TypeOK
  <2> QED
    BY <1>3, <2>1, <2>3 DEF Edit, db, TypeOK
<1>4. CASE UNCHANGED vars
  BY <1>4 DEF vars, db, TypeOK
<1> QED
  BY <1>1, <1>2, <1>3, <1>4 DEF Next
-----------------------------------------------------------------------------
(***************************************************************************)
(* What the fence guarantees, for any number of processes, with leases or  *)
(* without: only an execution of a live run may commit, and the journal's  *)
(* open promotion is the one of the execution that may close it.           *)
(***************************************************************************)
Writing == {"check", "write", "undo", "settle"}

HolderIsLive == holder # NoOne => status \in Live

OwnJournal(p) ==
  /\ ex[p].pc = "settle" => ex[p].kind = "promote"
  /\ Fenced(p) /\ ex[p].told # "abandon" /\ ex[p].kind = "promote" /\ ex[p].pc \in Writing
     => journal.base = ex[p].expect /\ journal.new = ex[p].goal

Fence == TypeOK /\ HolderIsLive /\ \A p \in Procs : OwnJournal(p)

LEMMA InitFence == Init => Fence
<1> SUFFICES ASSUME Init PROVE Fence
  OBVIOUS
<1>1. \A p \in Procs : ex[p].pc \in {"idle", "work"}
  BY DEF Init, Fresh
<1> QED
  BY <1>1, InitType DEF Init, Fence, HolderIsLive, OwnJournal, Live, Writing

\* The other processes of a step of p keep their part, as long as the journal's contents
\* and the holder stay, or p is the holder afterwards, or nobody is.
LEMMA OthersKeepJournal ==
  ASSUME Fence, NEW p \in Procs, NEW x, Goes(p, x),
         \/ journal'.base = journal.base /\ journal'.new = journal.new /\ holder' = holder
         \/ holder' \in {p, NoOne}
  PROVE  \A q \in Procs \ {p} : OwnJournal(q)'
<1> SUFFICES ASSUME NEW q \in Procs \ {p} PROVE OwnJournal(q)'
  OBVIOUS
<1>1. ex'[q] = ex[q]
  BY DEF Goes, Fence, TypeOK
<1> QED
  BY <1>1, PromotionAssumption DEF OwnJournal, Fenced, Fence

LEMMA OutsideApply ==
  ASSUME Fence, NEW p \in Procs, NEW x, Goes(p, x), x.pc \notin Writing
  PROVE  OwnJournal(p)'
<1>1. ex'[p] = x
  BY DEF Goes, Fence, TypeOK
<1> QED
  BY <1>1 DEF OwnJournal, Writing

\* An execution inside apply_changes stays the one the journal names.
LEMMA InsideApply ==
  ASSUME Fence, NEW p \in Procs, NEW x, Goes(p, x),
         holder' = holder, journal' = journal,
         x.pc \in Writing => ex[p].pc \in Writing, x.pc = "settle" => x.kind = "promote",
         x.kind = ex[p].kind, x.expect = ex[p].expect, x.goal = ex[p].goal,
         ex[p].told = "abandon" => x.told = "abandon"
  PROVE  OwnJournal(p)'
<1>1. ex'[p] = x
  BY DEF Goes, Fence, TypeOK
<1> QED
  BY <1>1 DEF OwnJournal, Fenced, Fence

\* A step that leaves the status, the holder and the journal alone and keeps p's part.
LEMMA OnlyItself ==
  ASSUME Fence, NEW p \in Procs, NEW x, Goes(p, x), TypeOK', OwnJournal(p)',
         status' = status, holder' = holder, journal' = journal
  PROVE  Fence'
  BY OthersKeepJournal DEF Fence, HolderIsLive

LEMMA StepFence ==
  ASSUME Fence, NEW p \in Procs, Step(p)
  PROVE  Fence'
<1> DEFINE X == ex[p]
<1>0. X \in Exec
  BY DEF Fence, TypeOK
<1>t. TypeOK'
  BY StepType DEF Fence
<1>a. \A c \in Places : [X EXCEPT !.pc = c].pc = c
  BY <1>0 DEF Exec
<1>f. Fresh.pc = "idle"
  BY DEF Fresh
<1>1. CASE Work(p)
  <2>1. PICK v \in Patches, promotable \in Verdicts :
       Goes(p, [ex[p] EXCEPT !.pc = "save", !.expect = repo, !.goal = PatchedCopy(v),
                             !.promotable = promotable])
    BY <1>1, Zenon DEF Work
  <2>2. [ex[p] EXCEPT !.pc = "save", !.expect = repo, !.goal = PatchedCopy(v),
                      !.promotable = promotable].pc = "save"
    BY <1>0 DEF Exec
  <2>3. OwnJournal(p)'
    BY <2>1, <2>2, OutsideApply, Zenon DEF Writing
  <2> QED
    BY <1>1, <1>t, <2>1, <2>3, OnlyItself DEF Work, db
<1>2. CASE Save(p)
  <2>1. OwnJournal(p)'
    BY <1>2, <1>a, OutsideApply, Zenon DEF Save, Writing, Places
  <2> QED
    BY <1>2, <1>t, <2>1, OnlyItself DEF Save
\* ends the run of the execution, or leaves it: p goes to Fresh
<1>3. ASSUME Goes(p, Fresh), journal' = journal, HolderIsLive',
             holder' \in {holder, p, NoOne}
      PROVE  Fence'
  <2>1. OwnJournal(p)'
    BY <1>3, <1>f, OutsideApply DEF Writing
  <2>2. \A q \in Procs \ {p} : OwnJournal(q)'
    BY <1>3, OthersKeepJournal
  <2> QED
    BY <1>3, <1>t, <2>1, <2>2 DEF Fence
<1>4. CASE PhaseFails(p)
  BY <1>3, <1>4 DEF PhaseFails, Fails, HolderIsLive
<1>5. Allowed(X).pc \in {"report", "ready"}
  BY <1>0 DEF Allowed, Exec
<1>g. ASSUME NEW x, Goes(p, x), x.pc \notin Writing, UNCHANGED db PROVE Fence'
  BY <1>g, <1>t, OutsideApply, OnlyItself DEF db
<1>h. [X EXCEPT !.pc = "report", !.result = "rejected"].pc = "report"
  BY <1>0 DEF Exec
<1>6. CASE Gate(p)
  <2>1. X.promotable \in Verdicts
    BY <1>0 DEF Exec
  <2>2. \/ Goes(p, [X EXCEPT !.pc = "report", !.result = "no_changes"])
        \/ Goes(p, [X EXCEPT !.pc = "report", !.result = "rejected"])
        \/ Goes(p, [X EXCEPT !.pc = "wait"])
        \/ Goes(p, Allowed(X))
    BY <1>6, <2>1 DEF Gate, Verdicts
  <2>3. CASE Goes(p, [X EXCEPT !.pc = "report", !.result = "no_changes"])
    <3>1. [X EXCEPT !.pc = "report", !.result = "no_changes"].pc = "report"
      BY <1>0 DEF Exec
    <3> QED
      BY <1>6, <1>g, <2>3, <3>1, Zenon DEF Gate, Writing
  <2>4. CASE Goes(p, [X EXCEPT !.pc = "report", !.result = "rejected"])
    BY <1>6, <1>g, <1>h, <2>4, Zenon DEF Gate, Writing
  <2>5. CASE Goes(p, [X EXCEPT !.pc = "wait"])
    <3>1. [X EXCEPT !.pc = "wait"].pc = "wait"
      BY <1>0 DEF Exec
    <3> QED
      BY <1>6, <1>g, <2>5, <3>1, Zenon DEF Gate, Writing
  <2>6. CASE Goes(p, Allowed(X))
    BY <1>5, <1>6, <1>g, <2>6 DEF Gate, Writing
  <2> QED
    BY <2>2, <2>3, <2>4, <2>5, <2>6
<1>7. CASE Answer(p)
  <2>1. CASE Goes(p, Allowed(X))
    BY <1>5, <1>7, <1>g, <2>1 DEF Answer, Writing
  <2>2. CASE Goes(p, [X EXCEPT !.pc = "report", !.result = "rejected"])
    BY <1>7, <1>g, <1>h, <2>2, Zenon DEF Answer, Writing
  <2> QED
    BY <1>7, <2>1, <2>2 DEF Answer
<1>8. CASE Start(p)
  <2> DEFINE x == [X EXCEPT !.pc = "check", !.kind = "promote", !.todo = Changed(X)]
  <2>1. x.pc = "check" /\ x.expect = X.expect /\ x.goal = X.goal
    BY <1>0 DEF Exec
  <2>2. ex'[p] = x /\ holder' = p
    BY <1>8 DEF Start, Steps, Fenced, Goes, Fence, TypeOK
  <2>3. OwnJournal(p)'
    BY <1>8, <2>1, <2>2 DEF Start, OwnJournal
  <2>4. \A q \in Procs \ {p} : OwnJournal(q)'
    BY <1>8, <2>2, OthersKeepJournal DEF Start
  <2> QED
    BY <1>8, <1>t, <2>3, <2>4 DEF Start, Fence, HolderIsLive
<1>9. CASE StartAbandoned(p)
  <2> DEFINE x == [X EXCEPT !.pc = "check", !.kind = "promote", !.todo = Changed(X)]
  <2>1. x.pc = "check" /\ x.told = "abandon"
    BY <1>0, <1>9 DEF Exec, StartAbandoned
  <2>2. ex'[p] = x
    BY <1>9 DEF StartAbandoned, Goes, Fence, TypeOK
  <2>3. OwnJournal(p)'
    BY <2>1, <2>2 DEF OwnJournal
  <2> QED
    BY <1>9, <1>t, <2>3, OnlyItself DEF StartAbandoned, db
\* inside apply_changes
<1>10. ASSUME NEW x, Goes(p, x), OwnJournal(p)', UNCHANGED db PROVE Fence'
  BY <1>10, <1>t, OnlyItself DEF db
<1>11. ASSUME X.pc \in Writing, X.kind = "promote", NEW r \in {"applied", "conflict"},
              Goes(p, [X EXCEPT !.pc = "settle", !.result = r]), UNCHANGED db
       PROVE  Fence'
  <2> DEFINE x == [X EXCEPT !.pc = "settle", !.result = r]
  <2>1. /\ x.pc = "settle" /\ x.kind = X.kind /\ x.expect = X.expect /\ x.goal = X.goal
        /\ x.told = X.told
    BY <1>0 DEF Exec
  <2> HIDE DEF x
  <2>2. OwnJournal(p)'
    BY <1>11, <2>1, InsideApply, Zenon DEF x, db
  <2> QED
    BY <1>10, <1>11, <2>2
<1>12. ASSUME Goes(p, [X EXCEPT !.pc = "commit"]), UNCHANGED db PROVE Fence'
  <2>1. OwnJournal(p)'
    BY <1>12, <1>a, OutsideApply, Zenon DEF Writing, Places
  <2> QED
    BY <1>10, <1>12, <2>1
<1>13. ASSUME Goes(p, Fresh), UNCHANGED db PROVE Fence'
  BY <1>3, <1>13 DEF db, Fence, HolderIsLive
<1>14. X.kind \in {"promote", "revert"}
  BY <1>0 DEF Exec
<1>15. CASE Check(p)
  <2> DEFINE x == [X EXCEPT !.pc = "write", !.todo = Changed(X), !.since = {}]
  <2>1. /\ x.pc = "write" /\ x.kind = X.kind /\ x.expect = X.expect /\ x.goal = X.goal
        /\ x.told = X.told
    BY <1>0 DEF Exec
  <2> HIDE DEF x
  <2>2. CASE Goes(p, x)
    <3>1. OwnJournal(p)'
      BY <1>15, <2>1, <2>2, InsideApply DEF Check, At, Writing, db
    <3> QED
      BY <1>10, <1>15, <2>2, <3>1 DEF Check
  <2>3. CASE Goes(p, AfterFailure(X))
    BY <1>11, <1>13, <1>14, <1>15, <2>3 DEF Check, At, AfterFailure, Writing
  <2> QED
    BY <1>15, <2>2, <2>3 DEF Check, x
<1>16. ASSUME NEW f \in Files, Goes(p, [X EXCEPT !.todo = @ \ {f}]), X.pc \in {"write", "undo"},
              UNCHANGED db
       PROVE  Fence'
  <2> DEFINE x == [X EXCEPT !.todo = @ \ {f}]
  <2>1. /\ x.pc = X.pc /\ x.kind = X.kind /\ x.expect = X.expect /\ x.goal = X.goal
        /\ x.told = X.told
    BY <1>0 DEF Exec
  <2> HIDE DEF x
  <2>2. OwnJournal(p)'
    BY <1>16, <2>1, InsideApply, Zenon DEF x, Writing, db
  <2> QED
    BY <1>10, <1>16, <2>2
<1>17. ASSUME NEW f \in Files, Write(p, f) \/ Undo(p, f) PROVE Fence'
  BY <1>16, <1>17 DEF Write, Undo, At, db
<1>18. CASE Written(p)
  BY <1>11, <1>12, <1>14, <1>18 DEF Written, At, AfterSuccess, Writing
<1>19. CASE WriteFails(p)
  <2> DEFINE x == [X EXCEPT !.pc = "undo", !.todo = Changed(X)]
  <2>1. /\ x.pc = "undo" /\ x.kind = X.kind /\ x.expect = X.expect /\ x.goal = X.goal
        /\ x.told = X.told
    BY <1>0 DEF Exec
  <2> HIDE DEF x
  <2>2. OwnJournal(p)'
    BY <1>19, <2>1, InsideApply, Zenon DEF x, WriteFails, At, Writing, db
  <2> QED
    BY <1>10, <1>19, <2>2 DEF WriteFails
<1>20. CASE Undone(p)
  BY <1>11, <1>13, <1>14, <1>20 DEF Undone, At, AfterFailure, Writing
<1>21. CASE UndoFails(p)
  BY <1>3, <1>21 DEF UndoFails, Fails, HolderIsLive, Fence
<1>22. CASE Settle(p)
  <2>1. OwnJournal(p)'
    BY <1>22, <1>a, OutsideApply, Zenon DEF Settle, Writing, Places
  <2>2. journal'.base = journal.base /\ journal'.new = journal.new
    BY <1>22 DEF Settle, Fence, TypeOK, Journal
  <2>3. \A q \in Procs \ {p} : OwnJournal(q)'
    BY <1>22, <2>2, OthersKeepJournal DEF Settle
  <2> QED
    BY <1>22, <1>t, <2>1, <2>3 DEF Settle, Fence, HolderIsLive
<1>23. CASE Report(p)
  <2>1. OwnJournal(p)'
    BY <1>23, <1>a, OutsideApply, Zenon DEF Report, Writing, Places
  <2> QED
    BY <1>23, <1>t, <2>1, OnlyItself DEF Report
<1>24. CASE Finish(p)
  BY <1>3, <1>24 DEF Finish, HolderIsLive
<1>25. CASE Cancel(p) \/ Abandon(p)
  <2>1. PICK tell \in {"cancel", "abandon"} : Goes(p, [X EXCEPT !.told = tell])
                                             /\ (tell = "cancel" => X.told = "no")
    BY <1>25 DEF Cancel, Abandon
  <2> DEFINE x == [X EXCEPT !.told = tell]
  <2>2. /\ x.pc = X.pc /\ x.kind = X.kind /\ x.expect = X.expect /\ x.goal = X.goal
        /\ x.told = tell
    BY <1>0 DEF Exec
  <2>3. holder' = holder /\ journal' = journal
    BY <1>25 DEF Cancel, Abandon, db
  <2>4. X.pc = "settle" => X.kind = "promote"
    BY DEF Fence, OwnJournal
  <2> HIDE DEF x
  <2>5. OwnJournal(p)'
    BY <2>1, <2>2, <2>3, <2>4, InsideApply, Zenon DEF x
  <2>6. \A q \in Procs \ {p} : OwnJournal(q)'
    BY <2>1, <2>3, OthersKeepJournal
  <2> QED
    BY <1>25, <1>t, <2>5, <2>6 DEF Cancel, Abandon, db, Fence, HolderIsLive, Live
<1>26. CASE Unwind(p)
  BY <1>3, <1>26 DEF Unwind, Fails, HolderIsLive
<1>27. CASE Stops(p)
  BY <1>13, <1>27 DEF Stops
<1>28. CASE Crash(p)
  BY <1>3, <1>28 DEF Crash, HolderIsLive, Fence
<1>29. CASE PlanResume(p)
  <2> DEFINE x == [Fresh EXCEPT !.pc = IF PromotionState = "PARTIAL" THEN "revert" ELSE "commit",
                      !.expect = journal.new, !.goal = journal.base,
                      !.reconciled = (PromotionState = "APPLIED")]
  <2>1. x.pc \in {"revert", "commit"}
    BY FreshType DEF Exec
  <2>2. Goes(p, x)
    BY <1>29 DEF PlanResume
  <2> HIDE DEF x
  <2>3. OwnJournal(p)'
    BY <2>1, <2>2, OutsideApply DEF Writing
  <2> QED
    BY <1>29, <1>t, <2>2, <2>3, OnlyItself DEF PlanResume
<1>30. CASE Revert(p)
  <2>1. PICK todo, goal : Goes(p, Fresh) \/ Goes(p, [X EXCEPT !.pc = "check", !.kind = "revert",
                                                             !.todo = todo, !.goal = goal])
    BY <1>30, Zenon DEF Revert
  <2> DEFINE x == [X EXCEPT !.pc = "check", !.kind = "revert", !.todo = todo, !.goal = goal]
  <2>2. x.pc = "check" /\ x.kind = "revert"
    BY <1>0 DEF Exec
  <2> HIDE DEF x
  <2>3. CASE Goes(p, x)
    <3>1. ex'[p] = x
      BY <2>3 DEF Goes, Fence, TypeOK
    <3>2. OwnJournal(p)'
      BY <2>2, <3>1 DEF OwnJournal
    <3> QED
      BY <1>10, <1>30, <2>3, <3>2 DEF Revert
  <2>4. CASE Goes(p, Fresh)
    BY <1>13, <1>30, <2>4 DEF Revert
  <2> QED
    BY <2>1, <2>3, <2>4 DEF x
<1>31. CASE CommitResume(p)
  <2> DEFINE x == [Fresh EXCEPT !.pc = "begin", !.reconciled = X.reconciled]
  <2>1. x.pc = "begin"
    BY FreshType DEF Exec
  <2> HIDE DEF x
  <2>2. CASE status = "interrupted"
    <3>1. Goes(p, x) /\ status' = "running" /\ holder' = p /\ journal' = journal
      BY <1>31, <2>2 DEF CommitResume, x
    <3>2. OwnJournal(p)'
      BY <2>1, <3>1, OutsideApply DEF Writing
    <3>3. \A q \in Procs \ {p} : OwnJournal(q)'
      BY <3>1, OthersKeepJournal
    <3> QED
      BY <1>t, <3>1, <3>2, <3>3 DEF Fence, HolderIsLive, Live
  <2>3. CASE status # "interrupted"
    BY <1>3, <1>31, <2>3 DEF CommitResume, HolderIsLive, Fence
  <2> QED
    BY <2>2, <2>3
<1>32. CASE Begin(p)
  <2>1. Restored(X).pc \in {"work", "gate", "finish"}
    BY <1>0 DEF Restored, Exec, Fence, TypeOK, Checkpoint
  <2>2. CASE Goes(p, Restored(X)) /\ UNCHANGED <<status, outcome, holder>>
    <3>1. OwnJournal(p)'
      BY <2>1, <2>2, OutsideApply DEF Writing
    <3> QED
      BY <1>32, <1>t, <2>2, <3>1, OnlyItself DEF Begin
  <2>3. CASE Goes(p, Fresh) /\ Fails(Restored(X), "failed")
    BY <1>3, <1>32, <2>3 DEF Begin, Fails, HolderIsLive
  <2> QED
    BY <1>32, <2>2, <2>3 DEF Begin
<1> QED
  BY <1>1, <1>2, <1>4, <1>6, <1>7, <1>8, <1>9, <1>15, <1>17, <1>18, <1>19, <1>20, <1>21,
     <1>22, <1>23, <1>24, <1>25, <1>26, <1>27, <1>28, <1>29, <1>30, <1>31, <1>32
  DEF Step, Apply

LEMMA NextFence == Fence /\ [Next]_vars => Fence'
<1> SUFFICES ASSUME Fence, [Next]_vars PROVE Fence'
  OBVIOUS
<1>t. TypeOK'
  BY NextType DEF Fence
<1>1. CASE \E p \in Procs : Step(p)
  BY <1>1, StepFence
<1>2. CASE Recover
  BY <1>2, <1>t, PromotionAssumption DEF Recover, Fence, HolderIsLive, OwnJournal, Fenced
<1>3. ASSUME NEW f \in Files, Edit(f) PROVE Fence'
  <2>1. ASSUME NEW p \in Procs
        PROVE  /\ ex'[p].pc = ex[p].pc /\ ex'[p].kind = ex[p].kind /\ ex'[p].told = ex[p].told
               /\ ex'[p].expect = ex[p].expect /\ ex'[p].goal = ex[p].goal
    BY <1>3 DEF Edit, Fence, TypeOK, Exec
  <2> QED
    BY <1>3, <1>t, <2>1 DEF Edit, db, Fence, HolderIsLive, OwnJournal, Fenced
<1>4. CASE UNCHANGED vars
  BY <1>4, <1>t DEF vars, db, Fence, HolderIsLive, OwnJournal, Fenced
<1> QED
  BY <1>1, <1>2, <1>3, <1>4 DEF Next

\* What a step may do to the database: the run has not ended when it changes anything
\* but the holder and the question to a person.
LEMMA StepWhileLive ==
  ASSUME Fence, [Next]_vars, status \in Final
  PROVE  UNCHANGED <<journal, checkpoint, status, outcome, attempt>>
<1>1. status \notin Live /\ status # "interrupted"
  BY DEF Final, Live
<1>2. \A p \in Procs : ~Fenced(p)
  BY <1>1, PromotionAssumption DEF Fenced, Fence, HolderIsLive
<1>3. ASSUME NEW p \in Procs, Step(p)
      PROVE  UNCHANGED <<journal, checkpoint, status, outcome, attempt>>
  BY <1>1, <1>2, <1>3, Zenon
  DEF Step, Apply, Steps, Begin, Work, Save, PhaseFails, Gate, Answer, Start, StartAbandoned,
      Check, Written, WriteFails, Undone, UndoFails, Write, Undo, Settle, Report, Finish, Cancel,
      Abandon, Unwind, Stops, Crash, PlanResume, Revert, CommitResume, db
<1> QED
  BY <1>1, <1>3 DEF Next, Recover, Edit, vars, db

\* _check_fence and plan_resume: what a run ended with is final, for any number of processes
\* and whatever executions of it still live.
THEOREM EndedRunsStay == Spec => EndedIsFinal
<1>1. Init => Fence
  BY InitFence
<1>2. Fence /\ [Next]_vars => Fence'
  BY NextFence
<1>3. Fence /\ [Next]_vars
      => [(status \in Final) => UNCHANGED <<journal, checkpoint, status, outcome, attempt>>]_vars
  BY StepWhileLive
<1> QED
  BY <1>1, <1>2, <1>3, PTL DEF Spec, EndedIsFinal

\* Only Settle closes a promotion in the journal, and it is the one its execution opened.
LEMMA ClosedByItsStarter ==
  ASSUME Fence, [Next]_vars,
         journal'.state # journal.state, journal'.state \in {"completed", "failed"}
  PROVE  \E p \in Procs : At(p, "settle") /\ journal.base = ex[p].expect /\ journal.new = ex[p].goal
<1>1. ~UNCHANGED journal
  OBVIOUS
<1>2. PICK p \in Procs : Step(p)
  BY <1>1 DEF Next, Recover, Edit, vars, db
<1>3. Start(p) \/ Settle(p)
  BY <1>1, <1>2, Zenon
  DEF Step, Apply, Begin, Work, Save, PhaseFails, Gate, Answer, StartAbandoned,
      Check, Written, WriteFails, Undone, UndoFails, Write, Undo, Report, Finish, Cancel,
      Abandon, Unwind, Stops, Crash, PlanResume, Revert, CommitResume, db
<1>4. Settle(p)
  BY <1>3 DEF Start
<1>5. OwnJournal(p) /\ Fenced(p) /\ ex[p].told # "abandon" /\ At(p, "settle")
  BY <1>4 DEF Settle, Steps, Fence
<1> QED
  BY <1>5 DEF OwnJournal, At, Writing

\* Settle under the fence: an execution that was replaced while it wrote files does not report
\* on its successor's promotion, for any number of processes.
THEOREM PromotionsAreSettledByTheirStarter == Spec => SettledByItsStarter
<1>1. Init => Fence
  BY InitFence
<1>2. Fence /\ [Next]_vars => Fence'
  BY NextFence
<1>3. Fence /\ [Next]_vars
      => [journal'.state # journal.state /\ journal'.state \in {"completed", "failed"} =>
          \E p \in Procs : At(p, "settle") /\ journal.base = ex[p].expect /\ journal.new = ex[p].goal]_vars
  BY ClosedByItsStarter
<1> QED
  BY <1>1, <1>2, <1>3, PTL DEF Spec, SettledByItsStarter
-----------------------------------------------------------------------------
(***************************************************************************)
(* One process and no leases: the journal covers the repository.           *)
(***************************************************************************)
OneProcess == ~Leases /\ \A p, q \in Procs : p = q

\* where t holds a patch, the journal names it
Covered(t) ==
  \A f \in Files : Patched(t[f]) =>
    journal.state # "none" /\ t[f] \in {journal.base[f], Stored(f, journal.new[f])}

\* where t holds a patch, it is a's or what _write makes of b's
Among(t, a, b) == \A f \in Files : Patched(t[f]) => t[f] \in {a[f], Stored(f, b[f])}

\* b is a patch of a, with a's line ends
PatchFor(a, b) == \A f \in Files : Patched(b[f]) /\ b[f][2] = a[f][2]

Applying(x) == x.pc \in {"check", "write", "undo"}

\* x has a patch of its own, made or restored
Beyond(x) ==
  \/ x.pc \in {"save", "gate", "wait", "ready", "settle", "report", "finish"}
  \/ Applying(x) /\ x.kind = "promote"

CheckpointCovers ==
  checkpoint.kind # "early"
    => /\ Covered(checkpoint.expect) /\ Among(repo, checkpoint.expect, checkpoint.goal)
       /\ PatchFor(checkpoint.expect, checkpoint.goal)

JournalNames == journal.state # "none" => PatchFor(journal.base, journal.new)

FromCheckpoint(x) ==
  checkpoint.kind # "early" => checkpoint.expect = x.expect /\ checkpoint.goal = x.goal

\* what an execution before, in and after its promotion knows
PatchKnown(x) ==
  /\ x.pc \in {"work", "save"} => checkpoint.kind = "early"
  /\ Beyond(x) => /\ Covered(x.expect) /\ Among(repo, x.expect, x.goal) /\ FromCheckpoint(x)
                  /\ PatchFor(x.expect, x.goal)
  /\ (Applying(x) /\ x.kind = "promote") \/ x.pc = "settle"
       => journal.state # "none" /\ journal.base = x.expect /\ journal.new = x.goal
  /\ x.pc \in {"write", "undo"} => x.todo \subseteq Changed(x)

\* what the reversal of a partial promotion knows: it only puts back originals, or what it
\* found, and it leaves files with CRLF alone, since none of them holds what the journal says
RevertKnown(x) ==
  /\ x.pc = "revert" => x.expect = journal.new /\ x.goal = journal.base /\ journal.state # "none"
  /\ Applying(x) /\ x.kind = "revert" =>
       /\ checkpoint.kind # "early"
       /\ \A f \in Changed(x) :
            /\ x.goal[f] = checkpoint.expect[f] /\ f \notin Crlf
            /\ Patched(x.expect[f]) =>
                 /\ x.expect[f] \in {checkpoint.expect[f], Stored(f, checkpoint.goal[f])}
                 /\ journal.state # "none"
                 /\ x.expect[f] \in {journal.base[f], Stored(f, journal.new[f])}

Knows(p) == ex[p].told # "abandon" /\ PatchKnown(ex[p]) /\ RevertKnown(ex[p])

Cover == TypeOK /\ Covered(repo) /\ JournalNames /\ CheckpointCovers /\ \A p \in Procs : Knows(p)

LEMMA CopyPatches ==
  ASSUME NEW v \in Patches
  PROVE  PatchFor(repo, PatchedCopy(v))
  BY DEF PatchFor, PatchedCopy, Patched

\* _write never gives a file with CRLF the content of its own base back
LEMMA NotTheBase ==
  ASSUME NEW a \in Tree, NEW b \in Tree, PatchFor(a, b), NEW f \in Files, a[f] # b[f]
  PROVE  Stored(f, b[f]) # a[f]
<1>1. a[f] \in Content /\ b[f] \in Content /\ b[f][2] = a[f][2]
  BY DEF Tree, PatchFor
<1>2. b[f][2] \in Nat
  BY <1>1 DEF Content
<1> QED
  BY <1>1, <1>2 DEF Stored

LEMMA InitCover == Init => Cover
<1> SUFFICES ASSUME Init PROVE Cover
  OBVIOUS
<1>1. \A p \in Procs : ex[p].pc \in {"idle", "work"} /\ ex[p].told = "no"
  BY DEF Init, Fresh
<1>2. \A f \in Files : ~Patched(repo[f])
  BY PlainContent, Zenon DEF Init, AllOrig
<1>3. checkpoint.kind = "early" /\ journal.state = "none"
  BY DEF Init
<1> QED
  BY <1>1, <1>2, <1>3, InitType
  DEF Cover, Covered, JournalNames, CheckpointCovers, Knows, PatchKnown, RevertKnown, Beyond, Applying

NoNewPatch == \A f \in Files : Patched(repo'[f]) => repo'[f] = repo[f]

\* A step that writes neither the journal nor a checkpoint nor a patch, and after which its
\* process knows what it must.
LEMMA QuietStep ==
  ASSUME OneProcess, Cover, TypeOK', NEW p \in Procs, NEW x, Goes(p, x),
         journal' = journal, checkpoint' = checkpoint, NoNewPatch,
         x.told # "abandon", PatchKnown(x), RevertKnown(x)
  PROVE  Cover'
<1>1. ex'[p] = x
  BY DEF Goes, Cover, TypeOK
<1>2. \A q \in Procs : q = p
  BY DEF OneProcess
<1>3. \A t : Covered(t) => Covered(t)'
  BY DEF Covered
<1>4. Covered(repo)'
  BY DEF Covered, NoNewPatch, Cover
<1>5. \A a, b : Among(repo, a, b) => Among(repo', a, b)
  BY DEF Among, NoNewPatch
<1>6. CheckpointCovers' /\ JournalNames'
  BY <1>3, <1>5, Zenon DEF CheckpointCovers, JournalNames, Cover, Covered, Among, PatchFor
<1>7. PatchKnown(x)'
  BY <1>3, <1>5 DEF PatchKnown, FromCheckpoint, Covered, Among, PatchFor
<1>8. RevertKnown(x)'
  BY DEF RevertKnown
<1>9. \A q \in Procs : Knows(q)'
  BY <1>1, <1>2, <1>7, <1>8 DEF Knows
<1> QED
  BY <1>4, <1>6, <1>9 DEF Cover

\* Places where nothing has to be known.
LEMMA KnowsNothing ==
  ASSUME NEW x, x.pc \in {"idle", "commit", "begin"}
  PROVE  PatchKnown(x) /\ RevertKnown(x)
  BY DEF PatchKnown, RevertKnown, Beyond, Applying

\* A step past the checkpoint of the patch that stays outside apply_changes.
LEMMA KnowsAsBefore ==
  ASSUME NEW x, NEW y, PatchKnown(y), Beyond(y), y.pc # "save" \/ checkpoint.kind = "early",
         x.pc \in {"gate", "wait", "ready", "report", "finish"} \/ (x.pc = "settle" /\ Applying(y)),
         x.expect = y.expect, x.goal = y.goal
  PROVE  PatchKnown(x) /\ RevertKnown(x)
  BY DEF PatchKnown, RevertKnown, Beyond, Applying, FromCheckpoint

LEMMA StepCover ==
  ASSUME OneProcess, Cover, NEW p \in Procs, Step(p)
  PROVE  Cover'
<1> DEFINE X == ex[p]
<1>0. X \in Exec /\ X.told # "abandon" /\ PatchKnown(X) /\ RevertKnown(X)
  BY DEF Cover, TypeOK, Knows
<1>t. TypeOK'
  BY StepType DEF Cover
<1>q. \A q \in Procs : q = p
  BY DEF OneProcess
<1>s. repo' = repo => NoNewPatch
  BY DEF NoNewPatch
<1>n. journal' = journal => JournalNames'
  BY DEF JournalNames, Cover, PatchFor
\* ends, or leaves the run
<1>1. ASSUME Goes(p, Fresh), journal' = journal, checkpoint' = checkpoint, NoNewPatch
      PROVE  Cover'
  <2>1. Fresh.pc = "idle" /\ Fresh.told = "no"
    BY DEF Fresh
  <2> QED
    BY <1>1, <1>t, <2>1, KnowsNothing, QuietStep
\* goes on with the same patch, outside apply_changes
<1>2. ASSUME NEW x, Goes(p, x), UNCHANGED <<repo, db>>, Beyond(X), X.pc # "save",
             x.pc \in {"gate", "wait", "ready", "report", "finish"} \/ (x.pc = "settle" /\ Applying(X)),
             x.expect = X.expect, x.goal = X.goal, x.told = X.told
      PROVE  Cover'
  <2>1. PatchKnown(x) /\ RevertKnown(x)
    BY <1>0, <1>2, KnowsAsBefore
  <2> QED
    BY <1>0, <1>2, <1>s, <1>t, <2>1, QuietStep DEF db
<1>3. CASE Work(p)
  <2>1. PICK v \in Patches, promotable \in Verdicts :
       Goes(p, [ex[p] EXCEPT !.pc = "save", !.expect = repo, !.goal = PatchedCopy(v),
                             !.promotable = promotable])
    BY <1>3, Zenon DEF Work
  <2> DEFINE x == [ex[p] EXCEPT !.pc = "save", !.expect = repo, !.goal = PatchedCopy(v),
                             !.promotable = promotable]
  <2>2. x.pc = "save" /\ x.expect = repo /\ x.goal = PatchedCopy(v) /\ x.told = X.told
    BY <1>0 DEF Exec
  <2> HIDE DEF x
  <2>3. checkpoint.kind = "early" /\ PatchFor(x.expect, x.goal)
    BY <1>0, <1>3, <2>2, CopyPatches, Zenon DEF PatchKnown, Work, Steps, At
  <2>4. PatchKnown(x) /\ RevertKnown(x)
    BY <2>2, <2>3 DEF PatchKnown, RevertKnown, Beyond, Applying, FromCheckpoint, Among, Cover
  <2> QED
    BY <1>0, <1>3, <1>s, <1>t, <2>1, <2>2, <2>4, QuietStep, Zenon DEF Work, db, x
<1>4. ASSUME NEW x, Goes(p, x), UNCHANGED <<repo, journal>>, Beyond(X),
             (X.pc = "save" /\ x.pc = "gate") \/ (X.pc = "report" /\ x.pc = "finish"),
             x.expect = X.expect, x.goal = X.goal, x.told = X.told,
             \/ checkpoint' = checkpoint
             \/ checkpoint'.kind # "early" /\ checkpoint'.expect = X.expect
                                          /\ checkpoint'.goal = X.goal
      PROVE  Cover'
  <2>1. Covered(x.expect) /\ Among(repo, x.expect, x.goal) /\ PatchFor(x.expect, x.goal)
    BY <1>0, <1>4, Zenon DEF PatchKnown
  <2>2. Covered(x.expect)' /\ Covered(repo)'
    BY <1>4, <2>1 DEF Covered, Cover
  <2>3. CASE checkpoint' = checkpoint
    <3>1. PatchKnown(x) /\ RevertKnown(x)
      BY <1>0, <1>4, KnowsAsBefore, Zenon DEF PatchKnown
    <3> QED
      BY <1>0, <1>4, <1>s, <1>t, <2>3, <3>1, QuietStep, Zenon
  <2>4. CASE checkpoint'.kind # "early" /\ checkpoint'.expect = X.expect
                                       /\ checkpoint'.goal = X.goal
    <3>1. CheckpointCovers'
      BY <1>4, <2>1, <2>2, <2>4, ZenonT(30) DEF CheckpointCovers, Covered, Among, PatchFor
    <3>2. ex'[p] = x
      BY <1>4, Zenon DEF Goes, Cover, TypeOK
    <3>3. /\ Covered(x.expect)' /\ Among(repo, x.expect, x.goal)' /\ FromCheckpoint(x)'
          /\ PatchFor(x.expect, x.goal)'
      BY <1>4, <2>1, <2>2, <2>4, ZenonT(30) DEF Covered, Among, FromCheckpoint, PatchFor
    <3>4. PatchKnown(x)' /\ RevertKnown(x)'
      BY <1>4, <3>3, Zenon DEF PatchKnown, RevertKnown, Applying, Beyond
    <3>5. \A q \in Procs : Knows(q)'
      BY <1>0, <1>4, <1>q, <3>2, <3>4, Zenon DEF Knows
    <3> QED
      BY <1>4, <1>n, <1>t, <2>2, <3>1, <3>5, Zenon DEF Cover
  <2> QED
    BY <1>4, <2>3, <2>4, Zenon
<1>5. CASE Save(p)
  <2> DEFINE x == [X EXCEPT !.pc = "gate"]
  <2>1. x.pc = "gate" /\ x.expect = X.expect /\ x.goal = X.goal /\ x.told = X.told
    BY <1>0 DEF Exec
  <2>2. X.pc = "save" /\ Goes(p, x) /\ UNCHANGED <<repo, journal>>
    BY <1>5 DEF Save, Steps, At
  <2>3. \/ checkpoint' = checkpoint
        \/ checkpoint'.kind # "early" /\ checkpoint'.expect = X.expect /\ checkpoint'.goal = X.goal
    BY <1>5 DEF Save, Saved
  <2>4. Beyond(X)
    BY <2>2 DEF Beyond
  <2> HIDE DEF x
  <2> QED
    BY <1>4, <2>1, <2>2, <2>3, <2>4
<1>6. CASE Report(p)
  <2> DEFINE x == [X EXCEPT !.pc = "finish"]
  <2>1. x.pc = "finish" /\ x.expect = X.expect /\ x.goal = X.goal /\ x.told = X.told
    BY <1>0 DEF Exec
  <2>2. X.pc = "report" /\ Goes(p, x) /\ UNCHANGED <<repo, journal>>
    BY <1>6 DEF Report, Steps, At
  <2>3. \/ checkpoint' = checkpoint
        \/ checkpoint'.kind # "early" /\ checkpoint'.expect = X.expect /\ checkpoint'.goal = X.goal
    BY <1>6 DEF Report, Saved
  <2>4. Beyond(X)
    BY <2>2 DEF Beyond
  <2> HIDE DEF x
  <2> QED
    BY <1>4, <2>1, <2>2, <2>3, <2>4
<1>7. Allowed(X).pc \in {"report", "ready"} /\ Allowed(X).expect = X.expect
      /\ Allowed(X).goal = X.goal /\ Allowed(X).told = X.told
  BY <1>0 DEF Allowed, Exec
<1>8. ASSUME NEW c \in {"report", "settle"}, NEW r \in Results
      PROVE  LET x == [X EXCEPT !.pc = c, !.result = r]
             IN  x.pc = c /\ x.expect = X.expect /\ x.goal = X.goal /\ x.told = X.told
  BY <1>0 DEF Exec
<1>9. ASSUME X.pc \in {"gate", "wait"}, UNCHANGED <<repo, db>>, NEW r \in Results,
             Goes(p, [X EXCEPT !.pc = "report", !.result = r])
      PROVE  Cover'
  <2> DEFINE x == [X EXCEPT !.pc = "report", !.result = r]
  <2>1. x.pc = "report" /\ x.expect = X.expect /\ x.goal = X.goal /\ x.told = X.told
    BY <1>8
  <2>2. Beyond(X)
    BY <1>9 DEF Beyond
  <2> HIDE DEF x
  <2> QED
    BY <1>2, <1>9, <2>1, <2>2, Zenon DEF x
<1>10. ASSUME X.pc \in {"gate", "wait"}, UNCHANGED <<repo, db>>, Goes(p, Allowed(X))
       PROVE  Cover'
  <2>1. Beyond(X)
    BY <1>10 DEF Beyond
  <2> QED
    BY <1>2, <1>7, <1>10, <2>1
<1>11. CASE Gate(p)
  <2>1. X.promotable \in Verdicts /\ X.pc = "gate" /\ UNCHANGED <<repo, db>>
    BY <1>0, <1>11 DEF Exec, Gate, Steps, At
  <2>2. \/ Goes(p, [X EXCEPT !.pc = "report", !.result = "no_changes"])
        \/ Goes(p, [X EXCEPT !.pc = "report", !.result = "rejected"])
        \/ Goes(p, [X EXCEPT !.pc = "wait"])
        \/ Goes(p, Allowed(X))
    BY <1>11, <2>1 DEF Gate, Verdicts
  <2>3. CASE Goes(p, [X EXCEPT !.pc = "wait"])
    <3> DEFINE x == [X EXCEPT !.pc = "wait"]
    <3>1. x.pc = "wait" /\ x.expect = X.expect /\ x.goal = X.goal /\ x.told = X.told
      BY <1>0 DEF Exec
    <3>2. Beyond(X)
      BY <2>1 DEF Beyond
    <3> HIDE DEF x
    <3> QED
      BY <1>2, <2>1, <2>3, <3>1, <3>2, Zenon DEF x
  <2> QED
    BY <1>9, <1>10, <2>1, <2>2, <2>3 DEF Results
<1>12. CASE Answer(p)
  BY <1>9, <1>10, <1>12 DEF Answer, Steps, At, Results
\* the journal now names the patch of the execution
<1>13. ASSUME NEW x, Goes(p, x), UNCHANGED <<repo, checkpoint>>, X.pc = "ready",
              x.pc = "check", x.kind = "promote", x.expect = X.expect, x.goal = X.goal,
              x.told = X.told, journal'.state # "none", journal'.base = x.expect,
              journal'.new = x.goal
       PROVE  Cover'
  <2>1. ex'[p] = x
    BY <1>13, Zenon DEF Goes, Cover, TypeOK
  <2>2. Among(repo, x.expect, x.goal) /\ FromCheckpoint(x) /\ PatchFor(x.expect, x.goal)
    BY <1>0, <1>13, Zenon DEF PatchKnown, Beyond, FromCheckpoint, Among
  <2>3. Among(repo, x.expect, x.goal)' /\ FromCheckpoint(x)' /\ PatchFor(x.expect, x.goal)'
    BY <1>13, <2>2 DEF Among, FromCheckpoint, PatchFor
  <2>4. Covered(repo)' /\ Covered(x.expect)' /\ JournalNames'
    BY <1>13, <2>2 DEF Covered, Among, JournalNames, PatchFor
  <2>5. CheckpointCovers'
    BY <1>13, <2>3, <2>4, Zenon DEF CheckpointCovers, FromCheckpoint
  <2>6. PatchKnown(x)' /\ RevertKnown(x)'
    BY <1>13, <2>3, <2>4 DEF PatchKnown, RevertKnown, Applying, Beyond
  <2>7. \A q \in Procs : Knows(q)'
    BY <1>0, <1>13, <1>q, <2>1, <2>6 DEF Knows
  <2> QED
    BY <1>t, <2>4, <2>5, <2>7 DEF Cover
<1>24. CASE Start(p)
  <2> DEFINE x == [X EXCEPT !.pc = "check", !.kind = "promote", !.todo = Changed(X)]
  <2>1. /\ x.pc = "check" /\ x.kind = "promote" /\ x.expect = X.expect /\ x.goal = X.goal
        /\ x.told = X.told
    BY <1>0 DEF Exec
  <2>2. Goes(p, x) /\ UNCHANGED <<repo, checkpoint>> /\ X.pc = "ready"
    BY <1>24 DEF Start, Steps, At
  <2>3. journal'.state # "none" /\ journal'.base = X.expect /\ journal'.new = X.goal
    BY <1>24 DEF Start
  <2> HIDE DEF x
  <2> QED
    BY <1>13, <2>1, <2>2, <2>3
<1>14. ~StartAbandoned(p)
  BY <1>0 DEF StartAbandoned
<1>15. X.kind \in {"promote", "revert"}
  BY <1>0 DEF Exec
\* stays inside apply_changes without writing
<1>16. ASSUME NEW x, Goes(p, x), UNCHANGED <<repo, db>>, Applying(X), Applying(x),
              x.kind = X.kind, x.expect = X.expect, x.goal = X.goal, x.told = X.told,
              x.todo \subseteq Changed(x)
       PROVE  Cover'
  <2>1. PatchKnown(x)
    BY <1>0, <1>16, Zenon DEF PatchKnown, Applying, Beyond, FromCheckpoint
  <2>2. RevertKnown(x)
    BY <1>0, <1>16 DEF RevertKnown, Applying, Changed
  <2> QED
    BY <1>0, <1>16, <1>s, <1>t, <2>1, <2>2, QuietStep, Zenon DEF db
\* leaves apply_changes
<1>17. ASSUME Applying(X), X.kind = "promote", NEW r \in Results, UNCHANGED <<repo, db>>,
              Goes(p, [X EXCEPT !.pc = "settle", !.result = r])
       PROVE  Cover'
  <2> DEFINE x == [X EXCEPT !.pc = "settle", !.result = r]
  <2>1. x.pc = "settle" /\ x.expect = X.expect /\ x.goal = X.goal /\ x.told = X.told
    BY <1>8
  <2>2. Beyond(X) /\ X.pc # "save"
    BY <1>17, Zenon DEF Beyond, Applying
  <2> HIDE DEF x
  <2> QED
    BY <1>2, <1>17, <2>1, <2>2, Zenon DEF x
<1>18. ASSUME UNCHANGED <<repo, db>>, Goes(p, [X EXCEPT !.pc = "commit"]) PROVE Cover'
  <2> DEFINE x == [X EXCEPT !.pc = "commit"]
  <2>1. x.pc = "commit" /\ x.told = X.told
    BY <1>0 DEF Exec
  <2>2. Goes(p, x) /\ NoNewPatch /\ journal' = journal /\ checkpoint' = checkpoint
    BY <1>18, <1>s DEF db
  <2> HIDE DEF x
  <2>3. PatchKnown(x) /\ RevertKnown(x)
    BY <2>1, KnowsNothing
  <2> QED
    BY <1>0, <1>t, <2>1, <2>2, <2>3, QuietStep
<1>19. ASSUME Applying(X), UNCHANGED <<repo, db>>, Goes(p, AfterFailure(X)) PROVE Cover'
  BY <1>1, <1>15, <1>17, <1>19, <1>s DEF AfterFailure, db, Results
<1>20. CASE Check(p)
  <2> DEFINE x == [X EXCEPT !.pc = "write", !.todo = Changed(X), !.since = {}]
  <2>1. /\ x.pc = "write" /\ x.kind = X.kind /\ x.expect = X.expect /\ x.goal = X.goal
        /\ x.told = X.told /\ x.todo = Changed(X)
    BY <1>0 DEF Exec
  <2>2. Applying(X) /\ UNCHANGED <<repo, db>>
    BY <1>20 DEF Check, At, Applying
  <2> HIDE DEF x
  <2>3. Applying(x) /\ x.todo \subseteq Changed(x)
    BY <2>1 DEF Applying, Changed
  <2>4. CASE Goes(p, x)
    BY <1>16, <2>1, <2>2, <2>3, <2>4
  <2> QED
    BY <1>19, <1>20, <2>2, <2>4 DEF Check, x
<1>21. CASE Written(p)
  <2>1. Applying(X)
    BY <1>21 DEF Written, At, Applying
  <2> QED
    BY <1>15, <1>17, <1>18, <1>21, <2>1 DEF Written, AfterSuccess, Results
<1>22. CASE WriteFails(p)
  <2> DEFINE x == [X EXCEPT !.pc = "undo", !.todo = Changed(X)]
  <2>1. /\ x.pc = "undo" /\ x.kind = X.kind /\ x.expect = X.expect /\ x.goal = X.goal
        /\ x.told = X.told /\ x.todo = Changed(X)
    BY <1>0 DEF Exec
  <2>2. Applying(X) /\ UNCHANGED <<repo, db>> /\ Goes(p, x)
    BY <1>22 DEF WriteFails, At, Applying
  <2> HIDE DEF x
  <2>3. Applying(x) /\ x.todo \subseteq Changed(x)
    BY <2>1 DEF Applying, Changed
  <2> QED
    BY <1>16, <2>1, <2>2, <2>3
<1>23. CASE Undone(p)
  <2>1. Applying(X)
    BY <1>23 DEF Undone, At, Applying
  <2> QED
    BY <1>19, <1>23, <2>1 DEF Undone
\* one file is written: the patch's content or, from Undo, what was there before
<1>25. ASSUME NEW f \in Files, f \in X.todo, X.pc \in {"write", "undo"}, NEW x, Goes(p, x),
              x.pc = X.pc, x.kind = X.kind, x.expect = X.expect, x.goal = X.goal,
              x.told = X.told, x.todo \subseteq X.todo, UNCHANGED db,
              \/ repo' = [repo EXCEPT ![f] = Stored(f, X.goal[f])]
              \/ repo' = [repo EXCEPT ![f] = X.expect[f]]
       PROVE  Cover'
  <2>1. ex'[p] = x
    BY <1>25 DEF Goes, Cover, TypeOK
  <2>2. \A g \in Files :
          repo'[g] = repo[g] \/ (g = f /\ repo'[g] \in {Stored(f, x.goal[f]), x.expect[f]})
    BY <1>25, Zenon DEF Cover, TypeOK, Tree
  <2>3. x.todo \subseteq Changed(x) /\ f \in Changed(x)
    BY <1>0, <1>25 DEF PatchKnown, Changed
  <2>4. journal' = journal /\ checkpoint' = checkpoint /\ JournalNames'
    BY <1>25, <1>n DEF db
  <2>5. CASE X.kind = "promote"
    <3>1. /\ Covered(x.expect) /\ Among(repo, x.expect, x.goal) /\ FromCheckpoint(x)
          /\ journal.state # "none" /\ journal.base = x.expect /\ journal.new = x.goal
          /\ PatchFor(x.expect, x.goal) /\ PatchFor(x.expect, x.goal)'
      BY <1>0, <1>25, <2>5, ZenonT(30) DEF PatchKnown, Beyond, Applying, FromCheckpoint, PatchFor
    <3>2. Covered(repo)' /\ Covered(x.expect)' /\ Among(repo, x.expect, x.goal)'
      BY <2>2, <2>4, <3>1 DEF Covered, Among, Cover
    <3>3. CheckpointCovers'
      BY <2>4, <3>1, <3>2, Zenon DEF CheckpointCovers, FromCheckpoint, Covered, Among
    <3>4. PatchKnown(x)' /\ RevertKnown(x)'
      BY <1>25, <2>3, <2>4, <2>5, <3>1, <3>2, ZenonT(30)
      DEF PatchKnown, RevertKnown, Beyond, Applying, FromCheckpoint, Changed
    <3>5. \A q \in Procs : Knows(q)'
      BY <1>0, <1>25, <1>q, <2>1, <3>4 DEF Knows
    <3> QED
      BY <1>t, <2>4, <3>2, <3>3, <3>5 DEF Cover
  <2>6. CASE X.kind = "revert"
    <3>1. /\ checkpoint.kind # "early"
          /\ x.goal[f] = checkpoint.expect[f] /\ f \notin Crlf
          /\ Patched(x.expect[f]) =>
               /\ x.expect[f] \in {checkpoint.expect[f], Stored(f, checkpoint.goal[f])}
               /\ journal.state # "none"
               /\ x.expect[f] \in {journal.base[f], Stored(f, journal.new[f])}
      BY <1>0, <1>25, <2>3, <2>6, ZenonT(30) DEF RevertKnown, Applying, Changed
    <3>2. /\ Covered(checkpoint.expect) /\ Among(repo, checkpoint.expect, checkpoint.goal)
          /\ PatchFor(checkpoint.expect, checkpoint.goal)
      BY <3>1 DEF Cover, CheckpointCovers
    <3>7. Stored(f, x.goal[f]) = checkpoint.expect[f]
      BY <3>1, Zenon DEF Stored
    <3>3. Covered(repo)' /\ Covered(checkpoint.expect)'
          /\ Among(repo, checkpoint.expect, checkpoint.goal)'
      BY <2>2, <2>4, <3>1, <3>2, <3>7 DEF Covered, Among, Cover
    <3>8. PatchFor(checkpoint.expect, checkpoint.goal)'
      BY <2>4, <3>2 DEF PatchFor
    <3>4. RevertKnown(x)
      BY <1>0, <1>25, <2>6, Zenon DEF RevertKnown, Applying, Changed
    <3>5. PatchKnown(x)' /\ RevertKnown(x)'
      BY <1>25, <2>3, <2>4, <2>6, <3>4, Zenon DEF PatchKnown, RevertKnown, Beyond, Applying, Changed
    <3>6. \A q \in Procs : Knows(q)'
      BY <1>0, <1>25, <1>q, <2>1, <3>5 DEF Knows
    <3> QED
      BY <1>t, <2>4, <3>3, <3>6, <3>8 DEF Cover, CheckpointCovers
  <2> QED
    BY <1>15, <2>5, <2>6
<1>26. ASSUME NEW f \in Files, Write(p, f) \/ Undo(p, f) PROVE Cover'
  <2> DEFINE x == [X EXCEPT !.todo = @ \ {f}]
  <2>1. /\ x.pc = X.pc /\ x.kind = X.kind /\ x.expect = X.expect /\ x.goal = X.goal
        /\ x.told = X.told /\ x.todo \subseteq X.todo
    BY <1>0 DEF Exec
  <2>2. /\ f \in X.todo /\ X.pc \in {"write", "undo"} /\ Goes(p, x) /\ UNCHANGED db
        /\ \/ repo' = [repo EXCEPT ![f] = Stored(f, X.goal[f])]
           \/ repo' = [repo EXCEPT ![f] = X.expect[f]]
    BY <1>26 DEF Write, Undo, At
  <2> HIDE DEF x
  <2> QED
    BY <1>25, <2>1, <2>2
<1>27. ASSUME MayTear(p) PROVE NoNewPatch
  <2>1. ~Patched(Plain("torn"))
    BY PlainContent
  <2>2. X.todo \subseteq Files
    BY <1>0 DEF Exec
  <2> QED
    BY <1>27, <2>1, <2>2 DEF MayTear, NoNewPatch, Cover, TypeOK, Tree
<1>28. CASE UndoFails(p)
  BY <1>1, <1>27, <1>28 DEF UndoFails
<1>29. CASE PhaseFails(p) \/ Finish(p) \/ Unwind(p) \/ Stops(p)
  BY <1>1, <1>29, <1>s DEF PhaseFails, Finish, Unwind, Stops, db
<1>30. CASE Crash(p)
  BY <1>1, <1>27, <1>30 DEF Crash
<1>31. ~Abandon(p)
  BY Zenon DEF Abandon, OneProcess
<1>32. ASSUME NEW x, Goes(p, x), UNCHANGED <<repo, checkpoint>>, X.pc = "settle",
              x.pc = "report", x.expect = X.expect, x.goal = X.goal, x.told = X.told,
              journal'.state # "none", journal'.base = journal.base, journal'.new = journal.new
       PROVE  Cover'
  <2>1. ex'[p] = x
    BY <1>32 DEF Goes, Cover, TypeOK
  <2>2. /\ Covered(x.expect) /\ Among(repo, x.expect, x.goal) /\ FromCheckpoint(x)
        /\ PatchFor(x.expect, x.goal) /\ journal.state # "none"
    BY <1>0, <1>32, ZenonT(30) DEF PatchKnown, Beyond, FromCheckpoint
  <2>3. /\ Covered(repo)' /\ Covered(x.expect)' /\ Among(repo, x.expect, x.goal)'
        /\ FromCheckpoint(x)'
    BY <1>32, <2>2, ZenonT(30) DEF Covered, Among, FromCheckpoint, Cover
  <2>7. PatchFor(x.expect, x.goal)' /\ JournalNames'
    BY <1>32, <2>2, Zenon DEF PatchFor, JournalNames, Cover
  <2>4. CheckpointCovers'
    BY <1>32, Zenon DEF CheckpointCovers, Covered, Among, PatchFor, Cover
  <2>5. PatchKnown(x)' /\ RevertKnown(x)'
    BY <1>32, <2>3, <2>7 DEF PatchKnown, RevertKnown, Beyond, Applying
  <2>6. \A q \in Procs : Knows(q)'
    BY <1>0, <1>32, <1>q, <2>1, <2>5 DEF Knows
  <2> QED
    BY <1>t, <2>3, <2>4, <2>6, <2>7 DEF Cover
<1>33. CASE Settle(p)
  <2> DEFINE x == [X EXCEPT !.pc = "report"]
  <2>1. x.pc = "report" /\ x.expect = X.expect /\ x.goal = X.goal /\ x.told = X.told
    BY <1>0 DEF Exec
  <2>2. X.pc = "settle" /\ Goes(p, x) /\ UNCHANGED <<repo, checkpoint>>
    BY <1>33 DEF Settle, Steps, At
  <2>3. journal'.state # "none" /\ journal'.base = journal.base /\ journal'.new = journal.new
    BY <1>33 DEF Settle, Cover, TypeOK, Journal
  <2> HIDE DEF x
  <2> QED
    BY <1>32, <2>1, <2>2, <2>3
<1>34. CASE Cancel(p)
  <2> DEFINE x == [X EXCEPT !.told = "cancel"]
  <2>1. /\ x.pc = X.pc /\ x.kind = X.kind /\ x.expect = X.expect /\ x.goal = X.goal
        /\ x.told = "cancel" /\ x.todo = X.todo
    BY <1>0 DEF Exec
  <2>2. Goes(p, x) /\ UNCHANGED <<repo, journal, checkpoint>>
    BY <1>34, Zenon DEF Cancel
  <2> HIDE DEF x
  <2>3. PatchKnown(x)
    BY <1>0, <2>1, Zenon DEF PatchKnown, Beyond, Applying, FromCheckpoint, Changed
  <2>4. RevertKnown(x)
    BY <1>0, <2>1, ZenonT(30) DEF RevertKnown, Applying, Changed
  <2> QED
    BY <1>s, <1>t, <2>1, <2>2, <2>3, <2>4, QuietStep
<1>35. CASE PlanResume(p)
  <2> DEFINE x == [Fresh EXCEPT !.pc = IF PromotionState = "PARTIAL" THEN "revert" ELSE "commit",
                      !.expect = journal.new, !.goal = journal.base,
                      !.reconciled = (PromotionState = "APPLIED")]
  <2>1. /\ x.pc = IF PromotionState = "PARTIAL" THEN "revert" ELSE "commit"
        /\ x.expect = journal.new /\ x.goal = journal.base /\ x.told = "no"
    BY DEF Fresh
  <2>2. Goes(p, x) /\ UNCHANGED <<repo, journal, checkpoint>>
    BY <1>35 DEF PlanResume
  <2> HIDE DEF x
  <2>3. PromotionState = "PARTIAL" => journal.state # "none"
    BY Zenon DEF PromotionState
  <2>4. PatchKnown(x) /\ RevertKnown(x)
    BY <2>1, <2>3 DEF PatchKnown, RevertKnown, Beyond, Applying
  <2> QED
    BY <1>s, <1>t, <2>1, <2>2, <2>4, QuietStep
<1>36. CASE Revert(p)
  <2> DEFINE back == {f \in Files : repo[f] = X.expect[f] /\ X.expect[f] # X.goal[f]}
             goal == [f \in Files |-> IF f \in back THEN checkpoint.expect[f] ELSE X.expect[f]]
             x == [X EXCEPT !.pc = "check", !.kind = "revert", !.todo = back, !.goal = goal]
  <2>1. /\ x.pc = "check" /\ x.kind = "revert" /\ x.expect = X.expect /\ x.goal = goal
        /\ x.told = X.told
    BY <1>0 DEF Exec
  <2>2. UNCHANGED <<repo, journal, checkpoint>> /\ X.pc = "revert"
    BY <1>36 DEF Revert, At, db
  <2>3. \/ Goes(p, Fresh)
        \/ checkpoint.kind # "early" /\ Goes(p, x)
    BY <1>36 DEF Revert
  <2>4. \A f \in Files : goal[f] # X.expect[f] =>
          goal[f] = checkpoint.expect[f] /\ repo[f] = X.expect[f] /\ X.expect[f] # X.goal[f]
    OBVIOUS
  <2> HIDE DEF x, goal, back
  <2>5. CASE checkpoint.kind # "early" /\ Goes(p, x)
    <3>1. \A f \in Changed(x) :
            /\ x.goal[f] = checkpoint.expect[f] /\ repo[f] = x.expect[f] /\ f \in Files
            /\ X.expect[f] # X.goal[f]
      BY <2>1, <2>4, Zenon DEF Changed
    <3>2. Covered(repo) /\ Among(repo, checkpoint.expect, checkpoint.goal)
      BY <2>5 DEF Cover, CheckpointCovers
    <3>5. ASSUME NEW f \in Changed(x) PROVE f \notin Crlf
      <4>1. /\ f \in Files /\ repo[f] = journal.new[f] /\ journal.new[f] # journal.base[f]
            /\ journal.state # "none"
        BY <1>0, <2>1, <2>2, <3>1, <3>5, ZenonT(30) DEF RevertKnown
      <4>2. Patched(repo[f]) /\ repo[f] \in Content
        BY <4>1, Zenon DEF Cover, JournalNames, PatchFor, TypeOK, Tree
      <4>3. Stored(f, repo[f]) = repo[f]
        BY <3>2, <4>1, <4>2, Zenon DEF Covered
      <4> QED
        BY <4>2, <4>3, StoredContent, Zenon
    <3>3. RevertKnown(x)
      BY <2>1, <2>5, <3>1, <3>2, <3>5 DEF RevertKnown, Covered, Among
    <3>4. PatchKnown(x)
      BY <2>1 DEF PatchKnown, Beyond, Applying
    <3> QED
      BY <1>0, <1>s, <1>t, <2>1, <2>2, <2>5, <3>3, <3>4, QuietStep
  <2>6. CASE Goes(p, Fresh)
    BY <1>1, <1>s, <2>2, <2>6
  <2> QED
    BY <2>3, <2>5, <2>6
<1>37. CASE CommitResume(p)
  <2> DEFINE x == [Fresh EXCEPT !.pc = "begin", !.reconciled = X.reconciled]
  <2>1. x.pc = "begin" /\ x.told = "no"
    BY DEF Fresh
  <2>2. (Goes(p, x) \/ Goes(p, Fresh)) /\ UNCHANGED <<repo, journal, checkpoint>>
    BY <1>37 DEF CommitResume
  <2> HIDE DEF x
  <2>3. CASE Goes(p, x)
    <3>1. PatchKnown(x) /\ RevertKnown(x)
      BY <2>1, KnowsNothing
    <3> QED
      BY <1>s, <1>t, <2>1, <2>2, <2>3, <3>1, QuietStep
  <2>4. CASE Goes(p, Fresh)
    BY <1>1, <1>s, <2>2, <2>4
  <2> QED
    BY <2>2, <2>3, <2>4
<1>38. CASE Begin(p)
  <2> DEFINE x == Restored(X)
  <2>1. /\ x.expect = checkpoint.expect /\ x.goal = checkpoint.goal /\ x.told = X.told
        /\ \/ x.pc = "work" /\ checkpoint.kind = "early"
           \/ x.pc \in {"gate", "finish"} /\ checkpoint.kind # "early"
    BY <1>0 DEF Restored, Exec, Cover, TypeOK, Checkpoint
  <2>2. (Goes(p, x) \/ Goes(p, Fresh)) /\ UNCHANGED <<repo, journal, checkpoint>>
    BY <1>38 DEF Begin
  <2> HIDE DEF x
  <2>3. CASE Goes(p, x)
    <3>1. PatchKnown(x)
      BY <2>1 DEF PatchKnown, Beyond, Applying, FromCheckpoint, Cover, CheckpointCovers
    <3>2. RevertKnown(x)
      BY <2>1 DEF RevertKnown, Applying
    <3> QED
      BY <1>0, <1>s, <1>t, <2>1, <2>2, <2>3, <3>1, <3>2, QuietStep
  <2>4. CASE Goes(p, Fresh)
    BY <1>1, <1>s, <2>2, <2>4
  <2> QED
    BY <2>2, <2>3, <2>4
<1> QED
  BY <1>3, <1>5, <1>6, <1>11, <1>12, <1>14, <1>20, <1>21, <1>22, <1>23, <1>24, <1>26, <1>28,
     <1>29, <1>30, <1>31, <1>33, <1>34, <1>35, <1>36, <1>37, <1>38
  DEF Step, Apply

LEMMA NextCover == OneProcess /\ Cover /\ [Next]_vars => Cover'
<1> SUFFICES ASSUME OneProcess, Cover, [Next]_vars PROVE Cover'
  OBVIOUS
<1>t. TypeOK'
  BY NextType DEF Cover
<1>1. CASE \E p \in Procs : Step(p)
  BY <1>1, StepCover
<1>2. ASSUME repo' = repo \/ (\E f \in Files : Edit(f)), UNCHANGED <<journal, checkpoint>>,
             \A p \in Procs : /\ ex'[p].pc = ex[p].pc /\ ex'[p].kind = ex[p].kind
                              /\ ex'[p].told = ex[p].told /\ ex'[p].expect = ex[p].expect
                              /\ ex'[p].goal = ex[p].goal /\ ex'[p].todo = ex[p].todo
      PROVE  Cover'
  <2>1. NoNewPatch
    BY <1>2, PlainContent, Zenon DEF NoNewPatch, Edit, Cover, TypeOK, Tree
  <2>2. Covered(repo)' /\ CheckpointCovers'
    BY <1>2, <2>1 DEF Covered, CheckpointCovers, Among, PatchFor, NoNewPatch, Cover
  <2>4. JournalNames'
    BY <1>2 DEF JournalNames, PatchFor, Cover
  <2>3. ASSUME NEW p \in Procs PROVE Knows(p)'
    <3>5. /\ ex'[p].pc = ex[p].pc /\ ex'[p].kind = ex[p].kind /\ ex'[p].expect = ex[p].expect
          /\ ex'[p].goal = ex[p].goal /\ ex'[p].todo = ex[p].todo /\ ex'[p].told = ex[p].told
          /\ journal' = journal /\ checkpoint' = checkpoint
      BY <1>2, <2>3, Zenon
    <3>6. Changed(ex[p])' = Changed(ex[p]) /\ (Applying(ex[p])' <=> Applying(ex[p]))
      BY <3>5, Zenon DEF Changed, Applying
    <3>1. Covered(ex[p].expect) => Covered(ex[p].expect)'
      BY <3>5, Zenon DEF Covered
    <3>2. Among(repo, ex[p].expect, ex[p].goal) => Among(repo, ex[p].expect, ex[p].goal)'
      BY <2>1, <3>5, Zenon DEF Among, NoNewPatch
    <3>3. PatchKnown(ex[p])'
      <4>1. PatchKnown(ex[p])
        BY <2>3, Zenon DEF Cover, Knows
      <4>3. Beyond(ex[p])' <=> Beyond(ex[p])
        BY <3>5, <3>6, Zenon DEF Beyond
      <4>4. PatchFor(ex[p].expect, ex[p].goal) => PatchFor(ex[p].expect, ex[p].goal)'
        <5>1. ex'[p].expect = ex[p].expect /\ ex'[p].goal = ex[p].goal
          BY <3>5, Zenon
        <5> QED
          BY <5>1, SMT DEF PatchFor
      <4>6. Beyond(ex[p])' => /\ Covered(ex[p].expect)' /\ Among(repo, ex[p].expect, ex[p].goal)'
                              /\ FromCheckpoint(ex[p])' /\ PatchFor(ex[p].expect, ex[p].goal)'
        BY <3>1, <3>2, <3>5, <4>1, <4>3, <4>4, Zenon DEF PatchKnown, FromCheckpoint
      <4> QED
        BY <3>5, <3>6, <4>1, <4>6, Zenon DEF PatchKnown
    <3>4. RevertKnown(ex[p])'
      <4>1. RevertKnown(ex[p])
        BY <2>3, Zenon DEF Cover, Knows
      <4> QED
        BY <3>5, <3>6, <4>1, Zenon DEF RevertKnown
    <3> QED
      BY <2>3, <3>3, <3>4, <3>5, Zenon DEF Knows, Cover
  <2> QED
    BY <1>t, <2>2, <2>3, <2>4 DEF Cover
<1>3. CASE Recover
  BY <1>2, <1>3 DEF Recover
<1>4. ASSUME NEW f \in Files, Edit(f) PROVE Cover'
  <2>1. \A p \in Procs : /\ ex'[p].pc = ex[p].pc /\ ex'[p].kind = ex[p].kind
                         /\ ex'[p].told = ex[p].told /\ ex'[p].expect = ex[p].expect
                         /\ ex'[p].goal = ex[p].goal /\ ex'[p].todo = ex[p].todo
    BY <1>4 DEF Edit, Cover, TypeOK, Exec
  <2> QED
    BY <1>2, <1>4, <2>1, Zenon DEF Edit, db
<1>5. CASE UNCHANGED vars
  BY <1>2, <1>5 DEF vars, db
<1> QED
  BY <1>1, <1>3, <1>4, <1>5 DEF Next

\* _finalize_patch journals before it writes, and resume reads the journal: with one process
\* and no leases, for every set of files, with and without CRLF, and any number of attempts and
\* edits, a file that holds a patch holds the content the journal found there or what _write
\* stores of the one it names.
THEOREM JournalAlwaysCovers == OneProcess /\ Spec => []JournalCoversRepo
<1>1. Init => Cover
  BY InitCover
<1>2. OneProcess /\ Cover /\ [Next]_vars => Cover'
  BY NextCover
<1>3. Cover => JournalCoversRepo
  BY DEF Cover, Covered, JournalCoversRepo
<1>4. OneProcess /\ Spec => []Cover
  <2> SUFFICES ASSUME OneProcess PROVE Spec => []Cover
    OBVIOUS
  <2>1. Cover /\ [Next]_vars => Cover'
    BY <1>2
  <2> QED
    BY <1>1, <2>1, PTL DEF Spec
<1> QED
  BY <1>3, <1>4, PTL
-----------------------------------------------------------------------------
(***************************************************************************)
(* One process and no leases: after promotion_completed the process is     *)
(* past its writes, or is resuming and knows that the patch landed.        *)
(***************************************************************************)
Landed(x) ==
  /\ x.pc \in {"commit", "begin", "work", "save", "gate", "wait"} => x.reconciled
  /\ x.pc \notin {"revert", "ready", "check", "write", "undo", "settle"}

Done == \A p \in Procs : journal.state = "completed" => Landed(ex[p])

LEMMA StepDone ==
  ASSUME OneProcess, Cover, Done, NEW p \in Procs, Step(p)
  PROVE  Done' /\ (journal.state = "completed" => journal' = journal /\ repo' = repo)
<1> DEFINE X == ex[p]
<1>0. X \in Exec /\ X.told # "abandon"
  BY DEF Cover, Knows, TypeOK
<1>q. \A q \in Procs : q = p
  BY DEF OneProcess
<1>g. ASSUME NEW x, Goes(p, x) PROVE ex'[p] = x
  BY <1>g DEF Goes, Cover, TypeOK
<1>1. CASE journal.state = "completed"
  <2>1. Landed(X)
    BY <1>1, Zenon DEF Done
  <2>2. ASSUME UNCHANGED <<journal, repo>>, NEW x, Goes(p, x), Landed(x)
        PROVE  Done' /\ journal' = journal /\ repo' = repo
    BY <1>g, <1>q, <2>2 DEF Done
  <2>3. Landed(Fresh)
    BY DEF Fresh, Landed
  <2>4. ASSUME UNCHANGED <<journal, repo>>, NEW x, Goes(p, x), x.reconciled = X.reconciled,
               \/ X.reconciled /\ x.pc \in {"begin", "work", "save", "gate", "wait"}
               \/ x.pc \in {"report", "finish", "idle"}
        PROVE  Done' /\ journal' = journal /\ repo' = repo
    BY <2>2, <2>4 DEF Landed
  <2>5. CASE Work(p)
    <3>1. PICK v \in Patches, promotable \in Verdicts :
         Goes(p, [ex[p] EXCEPT !.pc = "save", !.expect = repo, !.goal = PatchedCopy(v),
                               !.promotable = promotable])
      BY <2>5, Zenon DEF Work
    <3> DEFINE x == [ex[p] EXCEPT !.pc = "save", !.expect = repo, !.goal = PatchedCopy(v),
                                  !.promotable = promotable]
    <3>2. x.pc = "save" /\ x.reconciled = X.reconciled
      BY <1>0 DEF Exec
    <3>3. X.reconciled
      BY <2>1, <2>5 DEF Landed, Work, Steps, At
    <3> HIDE DEF x
    <3> QED
      BY <2>4, <2>5, <3>1, <3>2, <3>3, Zenon DEF Work, db, x
  <2>6. CASE Save(p)
    <3> DEFINE x == [X EXCEPT !.pc = "gate"]
    <3>1. x.pc = "gate" /\ x.reconciled = X.reconciled
      BY <1>0 DEF Exec
    <3>2. X.reconciled /\ Goes(p, x) /\ UNCHANGED <<journal, repo>>
      BY <2>1, <2>6 DEF Landed, Save, Steps, At
    <3> HIDE DEF x
    <3> QED
      BY <2>4, <3>1, <3>2, Zenon
  <2>7. ASSUME X.reconciled PROVE Allowed(X).pc = "report" /\ Allowed(X).reconciled = X.reconciled
    BY <1>0, <2>7, Zenon DEF Allowed, Exec
  <2>8. ASSUME NEW r \in Results
        PROVE  LET x == [X EXCEPT !.pc = "report", !.result = r]
               IN  x.pc = "report" /\ x.reconciled = X.reconciled
    BY <1>0 DEF Exec
  <2>9. CASE Gate(p)
    <3>1. X.reconciled /\ UNCHANGED <<journal, repo>> /\ X.promotable \in Verdicts
      BY <1>0, <2>1, <2>9 DEF Landed, Gate, Steps, At, db, Exec
    <3>2. \/ Goes(p, [X EXCEPT !.pc = "report", !.result = "no_changes"])
          \/ Goes(p, [X EXCEPT !.pc = "report", !.result = "rejected"])
          \/ Goes(p, [X EXCEPT !.pc = "wait"])
          \/ Goes(p, Allowed(X))
      BY <2>9, <3>1 DEF Gate, Verdicts
    <3>3. [X EXCEPT !.pc = "wait"].pc = "wait" /\ [X EXCEPT !.pc = "wait"].reconciled = X.reconciled
      BY <1>0 DEF Exec
    <3>4. Landed([X EXCEPT !.pc = "wait"]) /\ Landed(Allowed(X))
      BY <2>7, <3>1, <3>3 DEF Landed
    <3>5. \A r \in Results : Landed([X EXCEPT !.pc = "report", !.result = r])
      BY <2>8 DEF Landed
    <3> QED
      BY <2>2, <3>1, <3>2, <3>4, <3>5 DEF Results
  <2>10. CASE Answer(p)
    <3>1. X.reconciled /\ UNCHANGED <<journal, repo>>
      BY <2>1, <2>10 DEF Landed, Answer, Steps, At, db
    <3>2. Landed(Allowed(X))
      BY <2>7, <3>1 DEF Landed
    <3>3. \A r \in Results : Landed([X EXCEPT !.pc = "report", !.result = r])
      BY <2>8 DEF Landed
    <3> QED
      BY <2>2, <2>10, <3>1, <3>2, <3>3 DEF Answer, Results
  <2>11. CASE Report(p)
    <3> DEFINE x == [X EXCEPT !.pc = "finish"]
    <3>1. x.pc = "finish" /\ x.reconciled = X.reconciled
      BY <1>0 DEF Exec
    <3>2. Goes(p, x) /\ UNCHANGED <<journal, repo>>
      BY <2>11 DEF Report
    <3> HIDE DEF x
    <3> QED
      BY <2>4, <3>1, <3>2
  <2>12. CASE PhaseFails(p) \/ Finish(p) \/ Unwind(p) \/ Stops(p)
    BY <2>2, <2>3, <2>12, Zenon DEF PhaseFails, Finish, Unwind, Stops, db
  <2>13. CASE Crash(p)
    BY <2>1, <2>2, <2>3, <2>13 DEF Crash, MayTear, At, Landed
  <2>14. CASE Cancel(p)
    <3> DEFINE x == [X EXCEPT !.told = "cancel"]
    <3>1. x.pc = X.pc /\ x.reconciled = X.reconciled
      BY <1>0 DEF Exec
    <3>2. Goes(p, x) /\ UNCHANGED <<journal, repo>>
      BY <2>14 DEF Cancel
    <3>3. Landed(x)
      BY <2>1, <3>1 DEF Landed
    <3> HIDE DEF x
    <3> QED
      BY <2>2, <3>2, <3>3
  <2>15. CASE PlanResume(p)
    <3> DEFINE x == [Fresh EXCEPT !.pc = IF PromotionState = "PARTIAL" THEN "revert" ELSE "commit",
                        !.expect = journal.new, !.goal = journal.base,
                        !.reconciled = (PromotionState = "APPLIED")]
    <3>1. PromotionState = "APPLIED"
      BY <1>1 DEF PromotionState
    <3>2. x.pc = "commit" /\ x.reconciled
      BY <3>1, Zenon DEF Fresh
    <3>3. Goes(p, x) /\ UNCHANGED <<journal, repo>>
      BY <2>15 DEF PlanResume
    <3> HIDE DEF x
    <3>4. Landed(x)
      BY <3>2 DEF Landed
    <3> QED
      BY <2>2, <3>3, <3>4
  <2>16. CASE CommitResume(p)
    <3> DEFINE x == [Fresh EXCEPT !.pc = "begin", !.reconciled = X.reconciled]
    <3>1. x.pc = "begin" /\ x.reconciled = X.reconciled
      BY DEF Fresh
    <3>2. X.reconciled
      BY <2>1, <2>16 DEF Landed, CommitResume, At
    <3>3. (Goes(p, x) \/ Goes(p, Fresh)) /\ UNCHANGED <<journal, repo>>
      BY <2>16 DEF CommitResume
    <3> HIDE DEF x
    <3> QED
      BY <2>2, <2>3, <2>4, <3>1, <3>2, <3>3, Zenon
  <2>17. CASE Begin(p)
    <3>1. X.reconciled
      BY <2>1, <2>17 DEF Landed, Begin, Steps, At
    <3>2. Restored(X).reconciled /\ Restored(X).pc \in {"work", "gate", "finish"}
      BY <1>0, <3>1 DEF Restored, Exec, Cover, TypeOK, Checkpoint
    <3>3. Landed(Restored(X))
      BY <3>2 DEF Landed
    <3> QED
      BY <2>2, <2>3, <2>17, <3>3, Zenon DEF Begin
  <2>18. ~(Start(p) \/ StartAbandoned(p) \/ Settle(p) \/ Revert(p) \/ Abandon(p) \/ Apply(p))
    BY <1>0, <2>1, Zenon DEF Landed, Start, StartAbandoned, Settle, Revert, Abandon, Apply, Check, Written,
       WriteFails, Undone, UndoFails, Write, Undo, Steps, At, OneProcess
  <2> QED
    BY <2>5, <2>6, <2>9, <2>10, <2>11, <2>12, <2>13, <2>14, <2>15, <2>16, <2>17, <2>18 DEF Step
<1>2. CASE journal.state # "completed"
  <2>1. CASE journal'.state # "completed"
    BY <1>2, <2>1 DEF Done
  <2>2. CASE journal'.state = "completed"
    <3>1. ~UNCHANGED journal
      BY <1>2, <2>2
    <3>2. Start(p) \/ Settle(p)
      BY <3>1, Zenon
      DEF Step, Apply, Begin, Work, Save, PhaseFails, Gate, Answer, StartAbandoned,
          Check, Written, WriteFails, Undone, UndoFails, Write, Undo, Report, Finish, Cancel,
          Abandon, Unwind, Stops, Crash, PlanResume, Revert, CommitResume, db
    <3>3. Settle(p)
      BY <2>2, <3>2 DEF Start
    <3>4. [X EXCEPT !.pc = "report"].pc = "report"
      BY <1>0 DEF Exec
    <3>5. ex'[p].pc = "report"
      BY <1>g, <3>3, <3>4, Zenon DEF Settle
    <3> QED
      BY <1>2, <1>q, <3>5 DEF Done, Landed
  <2> QED
    BY <2>1, <2>2
<1> QED
  BY <1>1, <1>2

\* apply_changes, plan_resume and _promotion_reconciled: with one process and no leases, for every
\* set of files and any number of attempts and edits, nothing but a person changes the files of
\* the patch once promotion_completed is in the journal.
THEOREM NeverWrittenTwice == OneProcess /\ Spec => PromotedOnce
<1>1. Init => Cover /\ Done
  BY InitCover DEF Init, Done
<1>2. ASSUME OneProcess, Cover, Done, [Next]_vars
      PROVE  /\ Cover' /\ Done'
             /\ [journal.state = "completed" =>
                   journal' = journal /\ (repo' = repo \/ edits' # edits)]_vars
  <2>1. Cover'
    BY <1>2, NextCover
  <2>2. CASE \E p \in Procs : Step(p)
    BY <1>2, <2>1, <2>2, StepDone
  <2>3. CASE Recover
    BY <1>2, <2>1, <2>3 DEF Recover, Done
  <2>4. ASSUME NEW f \in Files, Edit(f)
        PROVE  Done' /\ journal' = journal /\ edits' # edits
    <3>1. \A p \in Procs : ex'[p].pc = ex[p].pc /\ ex'[p].reconciled = ex[p].reconciled
      BY <1>2, <2>4 DEF Edit, Cover, TypeOK, Exec
    <3>2. edits \in Nat /\ edits' = edits + 1 /\ journal' = journal
      BY <1>2, <2>4 DEF Edit, db, Cover, TypeOK
    <3> QED
      BY <1>2, <3>1, <3>2 DEF Done, Landed
  <2>5. CASE UNCHANGED vars
    BY <1>2, <2>1, <2>5 DEF vars, db, Done
  <2> QED
    BY <1>2, <2>1, <2>2, <2>3, <2>4, <2>5 DEF Next
<1>3. ASSUME OneProcess PROVE Spec => PromotedOnce
  <2>1. (Cover /\ Done) /\ [Next]_vars => (Cover /\ Done)'
    BY <1>2, <1>3
  <2>2. (Cover /\ Done) /\ [Next]_vars
        => [journal.state = "completed" =>
              journal' = journal /\ (repo' = repo \/ edits' # edits)]_vars
    BY <1>2, <1>3
  <2> QED
    BY <1>1, <2>1, <2>2, PTL DEF Spec, PromotedOnce
<1> QED
  BY <1>3
-----------------------------------------------------------------------------
(***************************************************************************)
(* One process and no leases: what each step of its execution does, field  *)
(* by field.  x and y are the execution before and after the step.         *)
(***************************************************************************)
Kept(x, y) ==
  /\ y.kind = x.kind /\ y.expect = x.expect /\ y.goal = x.goal /\ y.reconciled = x.reconciled
PatchGoal(t) == \A f \in Files : Patched(t[f])
Rows == <<journal, checkpoint, status, outcome, holder, asked, edits>>

\* the process stops; a file may be torn on the way out of a rollback
Leaves(x, y) ==
  /\ y = Fresh /\ UNCHANGED <<journal, checkpoint, asked, edits>>
  /\ \/ repo' = repo
     \/ x.pc = "undo" /\ \E f \in x.todo : repo' = [repo EXCEPT ![f] = Plain("torn")]
  /\ status' = "completed" => \/ status = "completed" /\ outcome' = outcome
                              \/ x.pc = "finish" /\ outcome' = x.result

\* Gate and Answer
Decides(x, y) ==
  /\ x.pc \in {"gate", "wait"} /\ Kept(x, y) /\ UNCHANGED <<repo, Rows>>
  /\ \/ y.pc = "report" /\ y.result \in {"no_changes", "rejected"}
     \/ y.pc = "report" /\ y.result = "applied" /\ x.reconciled
     \/ y.pc = "wait" /\ y.result = x.result
     \/ y.pc = "ready" /\ y.result = x.result /\ ~x.reconciled

Works(x, y) ==
  /\ x.pc = "work" /\ y.pc = "save" /\ UNCHANGED <<repo, Rows>>
  /\ y.kind = x.kind /\ y.expect = repo /\ PatchGoal(y.goal)
  /\ y.reconciled = x.reconciled /\ y.result = x.result

\* Save and Report
Saves(x, y) ==
  /\ \/ x.pc = "save" /\ y.pc = "gate" /\ checkpoint' \in {checkpoint, Saved(x, "patched")}
     \/ x.pc = "report" /\ y.pc = "finish" /\ checkpoint' \in {checkpoint, Saved(x, "final")}
  /\ Kept(x, y) /\ y.result = x.result
  /\ UNCHANGED <<repo, journal, status, outcome, holder, asked, edits>>

Starts(p, x, y) ==
  /\ x.pc = "ready" /\ y.pc = "check" /\ y.kind = "promote" /\ y.expect = x.expect /\ y.goal = x.goal
  /\ y.reconciled = x.reconciled /\ y.result = x.result /\ y.todo = Changed(x) /\ holder = p
  /\ journal' = [state |-> "started", base |-> x.expect, new |-> x.goal]
  /\ UNCHANGED <<repo, checkpoint, status, outcome, holder, asked, edits>>

Checks(x, y) ==
  /\ x.pc = "check" /\ y.pc = "write" /\ Kept(x, y) /\ y.result = x.result
  /\ y.todo = Changed(x) /\ y.since = {} /\ \A f \in x.todo : repo[f] = x.expect[f]
  /\ UNCHANGED <<repo, Rows>>

Puts(x, y, f) ==
  /\ f \in x.todo /\ y.pc = x.pc /\ Kept(x, y) /\ y.result = x.result /\ y.since = x.since
  /\ y.todo = x.todo \ {f} /\ UNCHANGED Rows
  /\ \/ x.pc = "write" /\ repo' = [repo EXCEPT ![f] = Stored(f, x.goal[f])]
     \/ x.pc = "undo" /\ repo' = [repo EXCEPT ![f] = x.expect[f]]

TurnsBack(x, y) ==
  /\ x.pc = "write" /\ y.pc = "undo" /\ Kept(x, y) /\ y.result = x.result
  /\ y.todo = Changed(x) /\ y.since = x.since /\ UNCHANGED <<repo, Rows>>

\* apply_changes returns to the promotion or, after success, to the resume
Returns(x, y) ==
  /\ Applying(x) /\ Kept(x, y) /\ UNCHANGED <<repo, Rows>>
  /\ \/ x.kind = "promote" /\ y.pc = "settle" /\ y.result = "conflict"
     \/ x.kind = "promote" /\ y.pc = "settle" /\ y.result = "applied" /\ x.pc = "write" /\ x.todo = {}
     \/ x.kind = "revert" /\ y.pc = "commit" /\ y.result = x.result /\ x.pc = "write"

Settles(x, y) ==
  /\ x.pc = "settle" /\ y.pc = "report" /\ Kept(x, y) /\ y.result = x.result
  /\ journal' = [journal EXCEPT !.state = IF x.result = "applied" THEN "completed" ELSE "failed"]
  /\ UNCHANGED <<repo, checkpoint, status, outcome, holder, asked, edits>>

IsTold(x, y) ==
  /\ y.pc = x.pc /\ Kept(x, y) /\ y.result = x.result /\ y.todo = x.todo /\ y.since = x.since
  /\ status' # "completed" /\ UNCHANGED <<repo, journal, checkpoint, outcome, holder, asked, edits>>

Plans(x, y) ==
  /\ y.pc = IF PromotionState = "PARTIAL" THEN "revert" ELSE "commit"
  /\ y.kind = "promote" /\ y.expect = journal.new /\ y.goal = journal.base
  /\ y.reconciled = (PromotionState = "APPLIED") /\ y.result = "none"
  /\ asked' = (asked \/ PromotionState \in {"PARTIAL", "UNKNOWN"} \/ Drifted)
  /\ UNCHANGED <<repo, journal, checkpoint, status, outcome, holder, edits>>

Reverts(x, y) ==
  /\ x.pc = "revert" /\ y.pc = "check" /\ y.kind = "revert" /\ checkpoint.kind # "early"
  /\ y.expect = x.expect /\ y.reconciled = x.reconciled /\ y.result = x.result
  /\ y.todo = {f \in Files : repo[f] = x.expect[f] /\ x.expect[f] # x.goal[f]}
  /\ y.goal = [f \in Files |-> IF f \in y.todo THEN checkpoint.expect[f] ELSE x.expect[f]]
  /\ UNCHANGED <<repo, Rows>>

Resumes(p, x, y) ==
  /\ x.pc = "commit" /\ y.pc = "begin" /\ y.kind = "promote" /\ y.reconciled = x.reconciled
  /\ y.result = "none" /\ status' = "running" /\ holder' = p
  /\ UNCHANGED <<repo, journal, checkpoint, outcome, asked, edits>>

Restores(x, y) ==
  /\ x.pc = "begin" /\ y.pc = CASE checkpoint.kind = "early" -> "work" [] checkpoint.kind = "patched" -> "gate"
                                [] checkpoint.kind = "final" -> "finish"
  /\ y.kind = x.kind /\ y.expect = checkpoint.expect /\ y.goal = checkpoint.goal
  /\ y.reconciled = (x.reconciled \/ checkpoint.reconciled) /\ y.result = checkpoint.result
  /\ UNCHANGED <<repo, Rows>>

Moves(p, x, y) ==
  \/ Leaves(x, y) \/ Decides(x, y) \/ Works(x, y) \/ Saves(x, y) \/ Starts(p, x, y) \/ Checks(x, y)
  \/ TurnsBack(x, y) \/ Returns(x, y) \/ Settles(x, y) \/ IsTold(x, y) \/ Plans(x, y) \/ Reverts(x, y)
  \/ Resumes(p, x, y) \/ Restores(x, y) \/ \E f \in Files : Puts(x, y, f)

LEMMA StepMoves ==
  ASSUME OneProcess, TypeOK, NEW p \in Procs, ex[p].told # "abandon", Step(p)
  PROVE  Moves(p, ex[p], ex'[p])
<1> DEFINE x == ex[p]
           y == ex'[p]
<1>0. x \in Exec
  BY DEF TypeOK
<1>g. ASSUME NEW z, Goes(p, z) PROVE y = z
  BY <1>g DEF Goes, TypeOK
<1>1. CASE Begin(p)
  <2>1. CASE Goes(p, Restored(x)) /\ UNCHANGED <<status, outcome, holder>>
    <3>1. Restores(x, y)
      BY <1>0, <1>1, <1>g, <2>1, Zenon DEF Begin, Steps, At, Restored, Restores, Exec, Rows
    <3> QED
      BY <3>1, Zenon DEF Moves
  <2>2. CASE Goes(p, Fresh) /\ Fails(Restored(x), "failed")
    BY <1>1, <1>g, <2>2, ZenonT(30) DEF Begin, Fails, Leaves, Moves
  <2> QED
    BY <1>1, <2>1, <2>2, ZenonT(30) DEF Begin
<1>2. CASE Work(p)
  <2>1. PICK v \in Patches, promotable \in Verdicts :
       Goes(p, [ex[p] EXCEPT !.pc = "save", !.expect = repo, !.goal = PatchedCopy(v),
                             !.promotable = promotable])
    BY <1>2, Zenon DEF Work
  <2>2. y = [ex[p] EXCEPT !.pc = "save", !.expect = repo, !.goal = PatchedCopy(v),
                             !.promotable = promotable]
    BY <1>g, <2>1
  <2>3. /\ y.pc = "save" /\ y.kind = x.kind /\ y.expect = repo /\ y.goal = PatchedCopy(v)
        /\ y.reconciled = x.reconciled /\ y.result = x.result
    BY <1>0, <2>2 DEF Exec
  <2>5. PatchGoal(y.goal)
    BY <2>3, CopyPatches DEF PatchGoal, PatchFor
  <2>4. Works(x, y)
    BY <1>2, <2>3, <2>5 DEF Work, Works, Steps, At, db, Rows
  <2> QED
    BY <2>4, Zenon DEF Moves
<1>3. CASE Save(p)
  <2>1. y = [x EXCEPT !.pc = "gate"] /\ x.pc = "save"
    BY <1>3, <1>g DEF Save, Steps, At
  <2>2. Saves(x, y)
    BY <1>0, <1>3, <2>1 DEF Save, Saves, Kept, Exec
  <2> QED
    BY <2>2, Zenon DEF Moves
<1>4. CASE PhaseFails(p) \/ Unwind(p) \/ Stops(p) \/ Crash(p) \/ Finish(p) \/ UndoFails(p)
  <2>1. y = Fresh /\ UNCHANGED <<journal, checkpoint, asked, edits>>
    <3>1. Goes(p, Fresh)
      BY <1>4, Zenon DEF PhaseFails, Unwind, Stops, Crash, Finish, UndoFails
    <3>2. UNCHANGED <<journal, checkpoint, asked, edits>>
      BY <1>4, ZenonT(30) DEF PhaseFails, Unwind, Stops, Crash, Finish, UndoFails, db
    <3> QED
      BY <1>g, <3>1, <3>2, Zenon
  <2>2. \/ repo' = repo
        \/ x.pc = "undo" /\ \E f \in x.todo : repo' = [repo EXCEPT ![f] = Plain("torn")]
    BY <1>4, Zenon DEF PhaseFails, Unwind, Stops, Crash, Finish, UndoFails, MayTear, At
  <2>3. status' = "completed" => \/ status = "completed" /\ outcome' = outcome
                                 \/ x.pc = "finish" /\ outcome' = x.result
    BY <1>4, Zenon DEF PhaseFails, Unwind, Stops, Crash, Finish, UndoFails, Fails, Steps, At, db
  <2> QED
    BY <2>1, <2>2, <2>3, ZenonT(30) DEF Moves, Leaves
<1>5. x.reconciled => /\ Allowed(x).pc = "report" /\ Allowed(x).result = "applied" /\ Kept(x, Allowed(x))
  BY <1>0, Zenon DEF Allowed, Exec, Kept
<1>6. ~x.reconciled => /\ Allowed(x).pc = "ready" /\ Allowed(x).result = x.result /\ Kept(x, Allowed(x))
  BY <1>0 DEF Allowed, Exec, Kept
<1>7. ASSUME NEW r \in Results
      PROVE  LET z == [x EXCEPT !.pc = "report", !.result = r]
             IN  z.pc = "report" /\ z.result = r /\ Kept(x, z)
  BY <1>0 DEF Exec, Kept
<1>8. CASE Gate(p)
  <2>1. x.promotable \in Verdicts /\ x.pc = "gate" /\ UNCHANGED <<repo, Rows>>
    BY <1>0, <1>8 DEF Exec, Gate, Steps, At, db, Rows
  <2>2. \/ y = [x EXCEPT !.pc = "report", !.result = "no_changes"]
        \/ y = [x EXCEPT !.pc = "report", !.result = "rejected"]
        \/ y = [x EXCEPT !.pc = "wait"]
        \/ y = Allowed(x)
    BY <1>8, <1>g, <2>1 DEF Gate, Verdicts
  <2>3. LET z == [x EXCEPT !.pc = "wait"] IN z.pc = "wait" /\ z.result = x.result /\ Kept(x, z)
    BY <1>0 DEF Exec, Kept
  <2>4. x.reconciled \in BOOLEAN
    BY <1>0 DEF Exec
  <2>5. Decides(x, y)
    BY <1>5, <1>6, <1>7, <2>1, <2>2, <2>3, <2>4, ZenonT(30) DEF Decides, Results
  <2> QED
    BY <2>5, Zenon DEF Moves
<1>9. CASE Answer(p)
  <2>1. x.pc = "wait" /\ UNCHANGED <<repo, Rows>>
    BY <1>9 DEF Answer, Steps, At, db, Rows
  <2>2. y = [x EXCEPT !.pc = "report", !.result = "rejected"] \/ y = Allowed(x)
    BY <1>9, <1>g DEF Answer
  <2>3. x.reconciled \in BOOLEAN
    BY <1>0 DEF Exec
  <2>4. Decides(x, y)
    BY <1>5, <1>6, <1>7, <2>1, <2>2, <2>3, Zenon DEF Decides, Results
  <2> QED
    BY <2>4, Zenon DEF Moves
<1>10. CASE Start(p)
  <2>1. y = [x EXCEPT !.pc = "check", !.kind = "promote", !.todo = Changed(x)]
    BY <1>10, <1>g DEF Start
  <2>2. Starts(p, x, y)
    BY <1>0, <1>10, <2>1 DEF Start, Starts, Steps, At, Fenced, Exec
  <2> QED
    BY <2>2, Zenon DEF Moves
<1>11. ~StartAbandoned(p) /\ ~Abandon(p)
  BY DEF StartAbandoned, Abandon, OneProcess
\* apply_changes has failed
<1>12. ASSUME Goes(p, AfterFailure(x)), Applying(x), UNCHANGED <<repo, db, edits>> PROVE Moves(p, x, y)
  <2>1. CASE x.kind = "promote"
    <3>1. y = [x EXCEPT !.pc = "settle", !.result = "conflict"]
      BY <1>12, <1>g, <2>1 DEF AfterFailure
    <3>2. Returns(x, y)
      BY <1>0, <1>12, <2>1, <3>1 DEF Returns, Kept, Exec, db, Rows
    <3> QED
      BY <3>2, Zenon DEF Moves
  <2>2. CASE x.kind # "promote"
    <3>1. y = Fresh
      BY <1>12, <1>g, <2>2 DEF AfterFailure
    <3> QED
      BY <1>12, <3>1, Zenon DEF Moves, Leaves, db
  <2> QED
    BY <2>1, <2>2, Zenon
<1>13. CASE Check(p)
  <2>1. UNCHANGED <<repo, db, edits>> /\ x.pc = "check"
    BY <1>13, Zenon DEF Check, At
  <2>2. CASE /\ \A f \in x.todo : repo[f] = x.expect[f]
             /\ Goes(p, [x EXCEPT !.pc = "write", !.todo = Changed(x), !.since = {}])
    <3>1. y = [x EXCEPT !.pc = "write", !.todo = Changed(x), !.since = {}]
      BY <1>g, <2>2
    <3>2. Checks(x, y)
      BY <1>0, <2>1, <2>2, <3>1 DEF Checks, Kept, Exec, db, Rows
    <3> QED
      BY <3>2, Zenon DEF Moves
  <2>3. CASE Goes(p, AfterFailure(x))
    BY <1>12, <2>1, <2>3 DEF Applying
  <2> QED
    BY <1>13, <2>2, <2>3 DEF Check
<1>14. CASE Written(p)
  <2>1. UNCHANGED <<repo, Rows>> /\ x.pc = "write" /\ x.todo = {} /\ Applying(x)
    BY <1>14 DEF Written, At, db, Rows, Applying
  <2>2. CASE x.kind = "promote"
    <3>1. y = [x EXCEPT !.pc = "settle", !.result = "applied"]
      BY <1>14, <1>g, <2>2 DEF Written, AfterSuccess
    <3>2. Returns(x, y)
      BY <1>0, <2>1, <2>2, <3>1, Zenon DEF Returns, Kept, Exec
    <3> QED
      BY <3>2, Zenon DEF Moves
  <2>3. CASE x.kind # "promote"
    <3>1. y = [x EXCEPT !.pc = "commit"] /\ x.kind = "revert"
      BY <1>0, <1>14, <1>g, <2>3 DEF Written, AfterSuccess, Exec
    <3>2. Returns(x, y)
      BY <1>0, <2>1, <3>1, Zenon DEF Returns, Kept, Exec
    <3> QED
      BY <3>2, Zenon DEF Moves
  <2> QED
    BY <2>2, <2>3
<1>15. CASE WriteFails(p)
  <2>1. y = [x EXCEPT !.pc = "undo", !.todo = Changed(x)]
    BY <1>15, <1>g DEF WriteFails
  <2>2. TurnsBack(x, y)
    BY <1>0, <1>15, <2>1 DEF WriteFails, TurnsBack, At, Kept, Exec, db, Rows
  <2> QED
    BY <2>2, Zenon DEF Moves
<1>16. CASE Undone(p)
  BY <1>12, <1>16, Zenon DEF Undone, At, Applying
<1>17. ASSUME NEW f \in Files, Write(p, f) \/ Undo(p, f) PROVE Moves(p, x, y)
  <2>1. y = [x EXCEPT !.todo = @ \ {f}]
    BY <1>17, <1>g DEF Write, Undo
  <2>2. Puts(x, y, f)
    BY <1>0, <1>17, <2>1 DEF Write, Undo, Puts, At, Kept, Exec, db, Rows
  <2> QED
    BY <2>2, Zenon DEF Moves
<1>18. CASE Settle(p)
  <2>1. y = [x EXCEPT !.pc = "report"]
    BY <1>18, <1>g DEF Settle
  <2>2. Settles(x, y)
    BY <1>0, <1>18, <2>1, Zenon DEF Settle, Settles, Steps, At, Kept, Exec
  <2> QED
    BY <2>2, Zenon DEF Moves
<1>19. CASE Report(p)
  <2>1. y = [x EXCEPT !.pc = "finish"] /\ x.pc = "report"
    BY <1>19, <1>g DEF Report, Steps, At
  <2>2. Saves(x, y)
    BY <1>0, <1>19, <2>1 DEF Report, Saves, Kept, Exec
  <2> QED
    BY <2>2, Zenon DEF Moves
<1>20. CASE Cancel(p)
  <2>1. y = [x EXCEPT !.told = "cancel"]
    BY <1>20, <1>g DEF Cancel
  <2>2. IsTold(x, y)
    BY <1>0, <1>20, <2>1 DEF Cancel, IsTold, Kept, Exec
  <2> QED
    BY <2>2, Zenon DEF Moves
<1>21. CASE PlanResume(p)
  <2>1. y = [Fresh EXCEPT !.pc = IF PromotionState = "PARTIAL" THEN "revert" ELSE "commit",
                      !.expect = journal.new, !.goal = journal.base,
                      !.reconciled = (PromotionState = "APPLIED")]
    BY <1>21, <1>g DEF PlanResume
  <2>2. Plans(x, y)
    BY <1>21, <2>1 DEF PlanResume, Plans, Fresh
  <2> QED
    BY <2>2, Zenon DEF Moves
<1>22. CASE Revert(p)
  <2> DEFINE back == {f \in Files : repo[f] = x.expect[f] /\ x.expect[f] # x.goal[f]}
             goal == [f \in Files |-> IF f \in back THEN checkpoint.expect[f] ELSE x.expect[f]]
  <2>1. x.pc = "revert" /\ UNCHANGED <<repo, Rows>>
    BY <1>22 DEF Revert, At, db, Rows
  <2>2. CASE checkpoint.kind = "early"
    <3>1. y = Fresh
      BY <1>22, <1>g, <2>2 DEF Revert
    <3> QED
      BY <2>1, <3>1, Zenon DEF Moves, Leaves, Rows
  <2>3. CASE checkpoint.kind # "early"
    <3>1. y = [x EXCEPT !.pc = "check", !.kind = "revert", !.todo = back, !.goal = goal]
      BY <1>22, <1>g, <2>3 DEF Revert
    <3>2. /\ y.pc = "check" /\ y.kind = "revert" /\ y.todo = back /\ y.goal = goal
          /\ y.expect = x.expect /\ y.reconciled = x.reconciled /\ y.result = x.result
      BY <1>0, <3>1, Zenon DEF Exec
    <3>3. Reverts(x, y)
      BY <2>1, <2>3, <3>2 DEF Reverts
    <3> QED
      BY <3>3, Zenon DEF Moves
  <2> QED
    BY <2>2, <2>3
<1>23. CASE CommitResume(p)
  <2>1. CASE status = "interrupted"
    <3>1. y = [Fresh EXCEPT !.pc = "begin", !.reconciled = x.reconciled]
      BY <1>23, <1>g, <2>1 DEF CommitResume
    <3>2. Resumes(p, x, y)
      BY <1>23, <2>1, <3>1 DEF CommitResume, Resumes, At, Fresh
    <3> QED
      BY <3>2, Zenon DEF Moves
  <2>2. CASE status # "interrupted"
    <3>1. y = Fresh
      BY <1>23, <1>g, <2>2 DEF CommitResume
    <3> QED
      BY <1>23, <2>2, <3>1 DEF CommitResume, Moves, Leaves
  <2> QED
    BY <2>1, <2>2, Zenon
<1> QED
  BY <1>1, <1>2, <1>3, <1>4, <1>8, <1>9, <1>10, <1>11, <1>13, <1>14, <1>15, <1>16, <1>17, <1>18,
     <1>19, <1>20, <1>21, <1>22, <1>23, Zenon DEF Step, Apply

\* the fields of the records that the moves write
LEMMA LeavesFresh ==
  ASSUME NEW x, NEW y, Leaves(x, y)
  PROVE  y.pc = "idle" /\ ~y.reconciled /\ y.result = "none"
<1>1. Fresh.pc = "idle" /\ ~Fresh.reconciled /\ Fresh.result = "none"
  BY DEF Fresh
<1>2. y = Fresh
  BY Zenon DEF Leaves
<1> QED
  BY <1>1, <1>2, Zenon

LEMMA SavesRow ==
  ASSUME NEW x, NEW y, Saves(x, y), checkpoint' # checkpoint
  PROVE  /\ checkpoint'.kind # "early" /\ (checkpoint'.kind = "final" <=> x.pc = "report")
         /\ checkpoint'.expect = x.expect /\ checkpoint'.goal = x.goal
         /\ checkpoint'.reconciled = x.reconciled /\ checkpoint'.result = x.result
<1>1. ASSUME NEW kind
      PROVE  LET s == Saved(x, kind)
             IN  /\ s.kind = kind /\ s.expect = x.expect /\ s.goal = x.goal
                 /\ s.reconciled = x.reconciled /\ s.result = x.result
  BY DEF Saved
<1>2. CASE x.pc = "save" /\ checkpoint' = Saved(x, "patched")
  BY <1>1, <1>2
<1>3. CASE x.pc = "report" /\ checkpoint' = Saved(x, "final")
  BY <1>1, <1>3
<1> QED
  BY <1>2, <1>3, Zenon DEF Saves

LEMMA RevertsTodo ==
  ASSUME NEW x, NEW y, Reverts(x, y)
  PROVE  Changed(y) \subseteq y.todo /\ \A f \in y.todo : repo[f] = x.expect[f]
BY DEF Reverts, Changed

LEMMA ExecTrees == ASSUME NEW x \in Exec PROVE x.expect \in Tree /\ x.goal \in Tree
BY DEF Exec

LEMMA JournalTrees == ASSUME journal \in Journal PROVE journal.base \in Tree /\ journal.new \in Tree
BY DEF Journal

LEMMA EditCounts == ASSUME TypeOK, NEW f, Edit(f) PROVE edits' # edits
BY DEF Edit, TypeOK

\* the journal names the patch of every file
LEMMA JournalPatches ==
  ASSUME Cover, journal.state # "none", NEW f \in Files
  PROVE  /\ Patched(journal.new[f]) /\ journal.new[f] \in Content
         /\ Patched(Stored(f, journal.new[f]))
         /\ journal.base[f] # journal.new[f] => Stored(f, journal.new[f]) # journal.base[f]
<1>1. journal.base \in Tree /\ journal.new \in Tree /\ PatchFor(journal.base, journal.new)
  BY JournalTrees DEF Cover, TypeOK, JournalNames
<1>2. Patched(journal.new[f]) /\ journal.new[f] \in Content
  BY <1>1 DEF PatchFor, Tree
<1> QED
  BY <1>1, <1>2, NotTheBase, StoredContent
-----------------------------------------------------------------------------
(***************************************************************************)
(* The course of an execution: what the checkpoint and the place of the    *)
(* process say about each other.                                           *)
(***************************************************************************)
Reverting(x) == x.pc = "revert" \/ (Applying(x) /\ x.kind = "revert")
Promoting(x) == Applying(x) /\ x.kind = "promote"

Checkpoints ==
  /\ checkpoint.reconciled => checkpoint.kind # "early"
  /\ checkpoint.result = "applied" => checkpoint.kind = "final"
  /\ checkpoint.kind # "early" => PatchGoal(checkpoint.goal)
  /\ journal.state # "none" => PatchGoal(journal.new)

Course(p, x) ==
  /\ x.pc \notin {"idle", "commit"} /\ ~Reverting(x) => holder = p
  /\ x.pc \in {"idle", "ready", "settle"} \/ Reverting(x) \/ Promoting(x) => ~x.reconciled
  /\ x.pc \in {"work", "save", "gate", "wait", "ready", "settle", "report"} \/ Promoting(x)
       => checkpoint.kind # "final"
  /\ Beyond(x) => PatchGoal(x.goal) /\ (checkpoint.reconciled => x.reconciled)
  /\ x.result = "applied" => x.pc \in {"settle", "report", "finish"}
  /\ x.pc = "check" => Changed(x) \subseteq x.todo

LEMMA MoveCourse ==
  ASSUME TypeOK, TypeOK', Checkpoints, NEW p \in Procs, Course(p, ex[p]), Knows(p), OwnJournal(p),
         Moves(p, ex[p], ex'[p])
  PROVE  Checkpoints' /\ Course(p, ex[p])'
<1> DEFINE x == ex[p]
           y == ex'[p]
<1>0. x \in Exec /\ y \in Exec /\ checkpoint \in Checkpoint
  BY Zenon DEF TypeOK
<1>1. ASSUME checkpoint' = checkpoint, journal'.state # "none" => PatchGoal(journal'.new)
      PROVE  Checkpoints'
  BY <1>1 DEF Checkpoints, PatchGoal
<1>2. ASSUME UNCHANGED <<journal, checkpoint>> PROVE Checkpoints'
  BY <1>1, <1>2 DEF Checkpoints
<1>3. CASE Leaves(x, y)
  <2>1. y.pc = "idle" /\ ~y.reconciled /\ y.result = "none"
    BY <1>3, LeavesFresh, Zenon
  <2> QED
    BY <1>2, <1>3, <2>1, ZenonT(30) DEF Leaves, Course, Reverting, Promoting, Beyond, Applying
<1>4. CASE Decides(x, y)
  BY <1>0, <1>2, <1>4, Zenon DEF Decides, Kept, Rows, Course, Reverting, Promoting, Beyond, Applying, PatchGoal
<1>5. CASE Works(x, y)
  BY <1>0, <1>2, <1>5, Zenon
  DEF Works, Rows, Course, Reverting, Promoting, Beyond, Applying, PatchGoal, Knows, PatchKnown, Checkpoints
<1>6. CASE Saves(x, y)
  <2>1. Checkpoints'
    BY <1>6, SavesRow, Zenon DEF Saves, Checkpoints, Course, Beyond, PatchGoal
  <2>2. Course(p, x)'
    <3>1. \/ x.pc = "save" /\ y.pc = "gate"
          \/ x.pc = "report" /\ y.pc = "finish"
      BY <1>6, Zenon DEF Saves
    <3>2. holder' = holder /\ Kept(x, y) /\ y.result = x.result
      BY <1>6, Zenon DEF Saves
    <3>3. x.pc = "save" /\ checkpoint.kind # "final" => checkpoint'.kind # "final"
      BY <1>6, SavesRow, Zenon
    <3>4. (checkpoint.reconciled => x.reconciled) => (checkpoint'.reconciled => x.reconciled)
      BY <1>6, SavesRow, Zenon
    <3>5. Beyond(x)
      BY <3>1, Zenon DEF Beyond
    <3> QED
      BY <3>1, <3>2, <3>3, <3>4, <3>5, Zenon DEF Kept, Course, PatchGoal, Reverting, Promoting, Beyond, Applying
  <2> QED
    BY <2>1, <2>2
<1>7. CASE Starts(p, x, y)
  <2>1. PatchGoal(x.goal) /\ journal'.new = x.goal /\ checkpoint' = checkpoint
    BY <1>7, ZenonT(30) DEF Starts, Course, Beyond
  <2>2. Changed(y) = Changed(x)
    BY <1>7, Zenon DEF Starts, Changed
  <2> QED
    BY <1>1, <1>7, <2>1, <2>2, ZenonT(30) DEF Starts, Course, Reverting, Promoting, Beyond, Applying, PatchGoal
<1>8. CASE Checks(x, y) \/ TurnsBack(x, y) \/ Returns(x, y)
  BY <1>0, <1>2, <1>8, ZenonT(30)
  DEF Checks, TurnsBack, Returns, Kept, Rows, Course, Reverting, Promoting, Beyond, Applying, PatchGoal
<1>9. ASSUME NEW f \in Files, Puts(x, y, f) PROVE Checkpoints' /\ Course(p, x)'
  BY <1>0, <1>2, <1>9, Zenon DEF Puts, Kept, Rows, Course, Reverting, Promoting, Beyond, Applying, PatchGoal
<1>10. CASE Settles(x, y)
  <2>1. journal'.new = journal.new /\ checkpoint' = checkpoint
    BY <1>10 DEF Settles, TypeOK, Journal
  <2>2. journal.new = x.goal /\ PatchGoal(x.goal)
    BY <1>10 DEF Settles, Course, Beyond, Reverting, Applying, OwnJournal, Fenced, Writing, Knows
  <2> QED
    BY <1>1, <1>10, <2>1, <2>2 DEF Settles, Kept, Course, Reverting, Promoting, Beyond, Applying, PatchGoal
<1>11. CASE IsTold(x, y)
  <2>1. Changed(y) = Changed(x)
    BY <1>11 DEF IsTold, Kept, Changed
  <2> QED
    BY <1>2, <1>11, <2>1, ZenonT(30) DEF IsTold, Kept, Course, Reverting, Promoting, Beyond, Applying, PatchGoal
<1>12. CASE Plans(x, y)
  BY <1>2, <1>12, Zenon DEF Plans, Course, Reverting, Promoting, Beyond, Applying
<1>13. CASE Reverts(x, y)
  <2>1. Changed(y) \subseteq y.todo
    BY <1>13, ZenonT(30) DEF Reverts, Changed
  <2> QED
    BY <1>2, <1>13, <2>1, ZenonT(30) DEF Reverts, Rows, Course, Reverting, Promoting, Beyond, Applying
<1>14. CASE Resumes(p, x, y)
  BY <1>2, <1>14, Zenon DEF Resumes, Course, Reverting, Promoting, Beyond, Applying
<1>15. CASE Restores(x, y)
  BY <1>0, <1>2, <1>15
  DEF Restores, Rows, Course, Reverting, Promoting, Beyond, Applying, PatchGoal, Checkpoints, Checkpoint
<1> QED
  BY <1>3, <1>4, <1>5, <1>6, <1>7, <1>8, <1>9, <1>10, <1>11, <1>12, <1>13, <1>14, <1>15, Zenon DEF Moves
-----------------------------------------------------------------------------
(***************************************************************************)
(* What apply_changes knows of the files it compared, except for those     *)
(* that somebody has saved since.                                          *)
(***************************************************************************)
Compared(x) ==
  /\ x.pc \in {"write", "undo"} =>
       /\ \A f \in Changed(x) \ x.since : repo[f] \in {x.expect[f], Stored(f, x.goal[f])}
       /\ edits = 0 => x.since = {}
  /\ x.pc = "write" =>
       \A f \in Changed(x) \ x.since :
         repo[f] = IF f \in x.todo THEN x.expect[f] ELSE Stored(f, x.goal[f])

LEMMA KeptChanged == ASSUME NEW x, NEW y, Kept(x, y) PROVE Changed(y) = Changed(x)
BY DEF Kept, Changed

LEMMA MoveCompared ==
  ASSUME TypeOK, TypeOK', NEW p \in Procs, Course(p, ex[p]), Knows(p), Compared(ex[p]),
         Moves(p, ex[p], ex'[p])
  PROVE  Compared(ex[p])'
<1> DEFINE x == ex[p]
           y == ex'[p]
<1>0. x \in Exec /\ y \in Exec /\ repo \in Tree
  BY DEF TypeOK
<1>1. ASSUME y.pc \notin {"write", "undo"} PROVE Compared(x)'
  BY <1>1, Zenon DEF Compared
<1>2. CASE \/ Leaves(x, y) \/ Decides(x, y) \/ Works(x, y) \/ Saves(x, y) \/ Starts(p, x, y)
           \/ Returns(x, y) \/ Settles(x, y) \/ Plans(x, y) \/ Reverts(x, y) \/ Resumes(p, x, y)
  <2>1. y.pc \notin {"write", "undo"}
    <3>0. CASE Leaves(x, y)
      BY <3>0, LeavesFresh
    <3>1. CASE Decides(x, y) \/ Works(x, y) \/ Saves(x, y) \/ Starts(p, x, y)
      BY <3>1, ZenonT(30) DEF Decides, Works, Saves, Starts
    <3>2. CASE Returns(x, y) \/ Settles(x, y) \/ Plans(x, y) \/ Reverts(x, y) \/ Resumes(p, x, y)
      BY <3>2 DEF Fresh, Returns, Settles, Plans, Reverts, Resumes
    <3> QED
      BY <1>2, <3>0, <3>1, <3>2, Zenon
  <2> QED
    BY <1>1, <2>1, Zenon
<1>3. CASE Restores(x, y)
  <2>1. y.pc \notin {"write", "undo"}
    BY <1>3, Zenon DEF Restores, TypeOK, Checkpoint
  <2> QED
    BY <1>1, <2>1
<1>4. CASE Checks(x, y)
  <2>1. Changed(y) = Changed(x)
    BY <1>4, KeptChanged DEF Checks
  <2>2. \A f \in Changed(x) : repo[f] = x.expect[f]
    BY <1>4, Zenon DEF Checks, Course
  <2> QED
    BY <1>4, <2>1, <2>2, ZenonT(30) DEF Checks, Kept, Compared
<1>5. CASE TurnsBack(x, y) \/ IsTold(x, y)
  <2>1. Changed(y) = Changed(x)
    BY <1>5, KeptChanged DEF TurnsBack, IsTold
  <2> QED
    BY <1>5, <2>1, ZenonT(30) DEF TurnsBack, IsTold, Kept, Compared, Rows
<1>6. ASSUME NEW f \in Files, Puts(x, y, f) PROVE Compared(x)'
  <2>1. Changed(y) = Changed(x) /\ \A g \in Changed(x) : g \in Files
    <3>1. Changed(y) = Changed(x)
      BY <1>6, KeptChanged, Zenon DEF Puts
    <3> QED
      BY <3>1, Zenon DEF Changed
  <2>2. \A g \in Files :
          repo'[g] = IF g = f THEN IF x.pc = "write" THEN Stored(f, x.goal[f]) ELSE x.expect[f]
                              ELSE repo[g]
    BY <1>0, <1>6 DEF Puts, Tree
  <2> QED
    BY <1>6, <2>1, <2>2, ZenonT(30) DEF Puts, Kept, Compared, Rows
<1> QED
  BY <1>2, <1>3, <1>4, <1>5, <1>6, Zenon DEF Moves

\* what a step of the process may do to a file that holds an edit
LostInWindow(x, f) ==
  \/ x.pc \in {"write", "undo"} /\ (f \in x.since \/ x.expect[f] = Plain("edit"))
  \/ x.pc = "undo" /\ x.kind = "revert" /\ x.goal[f] = Plain("edit")

LEMMA MoveOverEdit ==
  ASSUME TypeOK, NEW p \in Procs, Course(p, ex[p]), Knows(p), Compared(ex[p]),
         Moves(p, ex[p], ex'[p]), NEW f \in Files,
         repo[f] = Plain("edit"), repo'[f] # Plain("edit")
  PROVE  LostInWindow(ex[p], f)
<1> DEFINE x == ex[p]
           y == ex'[p]
<1>0. x \in Exec /\ repo \in Tree
  BY DEF TypeOK
<1>1. repo' # repo
  BY Zenon
<1>2. \/ x.pc = "undo" /\ \E g \in x.todo : repo' = [repo EXCEPT ![g] = Plain("torn")]
      \/ \E g \in Files : Puts(x, y, g)
  BY <1>1, ZenonT(30)
  DEF Moves, Leaves, Decides, Works, Saves, Starts, Checks, TurnsBack, Returns, Settles, IsTold,
      Plans, Reverts, Resumes, Restores
<1>3. x.pc \in {"write", "undo"} /\ f \in x.todo
  BY <1>0, <1>2 DEF Puts, Tree
<1>4. f \in Changed(x)
  BY <1>3, ZenonT(30) DEF Knows, PatchKnown
<1>5. CASE f \in x.since \/ x.pc = "write"
  BY <1>3, <1>4, <1>5, Zenon DEF Compared, LostInWindow
<1>6. CASE f \notin x.since /\ x.pc = "undo"
  <2>1. x.expect[f] = Plain("edit") \/ Stored(f, x.goal[f]) = Plain("edit")
    BY <1>4, <1>6, Zenon DEF Compared
  <2>2. x.kind = "promote" => Patched(x.goal[f])
    BY <1>6, Zenon DEF Course, Beyond, Applying, PatchGoal
  <2>3. x.kind = "promote" => Stored(f, x.goal[f]) # Plain("edit")
    <3>1. x.goal[f] \in Content
      BY <1>0, ExecTrees DEF Tree
    <3> QED
      BY <2>2, <3>1, StoredContent, PlainContent
  <2>4. x.kind = "revert" => f \notin Crlf
    BY <1>4, <1>6, Zenon DEF Knows, RevertKnown, Applying
  <2>5. x.kind = "revert" => Stored(f, x.goal[f]) = x.goal[f]
    BY <2>4 DEF Stored
  <2> QED
    BY <1>0, <1>6, <2>1, <2>3, <2>5, Zenon DEF LostInWindow, Exec
<1> QED
  BY <1>3, <1>5, <1>6
-----------------------------------------------------------------------------
(***************************************************************************)
(* What the hashes say while a resumed run is on its way to a promotion,   *)
(* and while a partial one is put back.                                    *)
(***************************************************************************)
Planned == {"commit", "begin", "work", "save", "gate", "wait", "ready"}

\* the patch is not in the file, neither as the journal has it nor as _write stores it
NotNew(f) == repo[f] # journal.new[f] /\ repo[f] # Stored(f, journal.new[f])

Pending(x) ==
  /\ x.pc \in Planned /\ ~x.reconciled => PromotionState # "APPLIED"
  /\ Reverting(x) => /\ asked /\ journal.state \notin {"none", "completed"}
                     /\ \E f \in Manifest : NotNew(f) /\ (Applying(x) => f \notin Changed(x))
  /\ x.pc \in Planned /\ edits = 0 /\ PromotionState \in {"PARTIAL", "UNKNOWN"} => asked

\* when the hashes of an open promotion do not say that it landed
LEMMA NotLanded ==
  ASSUME TypeOK
  PROVE  /\ journal.state = "completed" => PromotionState = "APPLIED"
         /\ journal.state # "completed" /\ (\E f \in Manifest : repo[f] # journal.new[f])
              => PromotionState # "APPLIED"
         /\ PromotionState = "PARTIAL" =>
              /\ journal.state \notin {"none", "completed"}
              /\ \E f \in Manifest : repo[f] # journal.new[f] /\ repo[f] = journal.base[f]
         /\ PromotionState = "APPLIED" =>
              \/ journal.state = "completed"
              \/ journal.state # "none" /\ \A f \in Manifest : repo[f] = journal.new[f]
<1> DEFINE at_base == {f \in Manifest : repo[f] = journal.base[f]}
           at_new  == {f \in Manifest : repo[f] = journal.new[f]}
<1>1. CASE journal.state \in {"none", "completed"}
  BY <1>1 DEF PromotionState
<1>2. CASE journal.state \notin {"none", "completed"}
  <2>1. PromotionState = IF at_base = Manifest THEN "NOT_APPLIED"
                         ELSE IF at_new = Manifest THEN "APPLIED"
                         ELSE IF at_base \cup at_new = Manifest THEN "PARTIAL"
                         ELSE "UNKNOWN"
    BY <1>2 DEF PromotionState
  <2>2. at_new = Manifest <=> \A f \in Manifest : repo[f] = journal.new[f]
    OBVIOUS
  <2>3. at_base \cup at_new = Manifest =>
          \A f \in Manifest : repo[f] = journal.base[f] \/ repo[f] = journal.new[f]
    OBVIOUS
  <2> HIDE DEF at_base, at_new
  <2> QED
    BY <1>2, <2>1, <2>2, <2>3
<1> QED
  BY <1>1, <1>2

LEMMA MovePending ==
  ASSUME TypeOK, TypeOK', Cover, NEW p \in Procs, Course(p, ex[p]), Knows(p), Pending(ex[p]),
         Moves(p, ex[p], ex'[p])
  PROVE  Pending(ex[p])'
<1> DEFINE x == ex[p]
           y == ex'[p]
<1>0. x \in Exec /\ y \in Exec /\ repo \in Tree
  BY DEF TypeOK
<1>1. ASSUME y.pc \notin Planned, ~Reverting(x)' PROVE Pending(x)'
  BY <1>1, Zenon DEF Pending, Reverting
<1>2. UNCHANGED <<repo, journal>> => PromotionState' = PromotionState /\ Manifest' = Manifest
  BY ZenonT(30) DEF PromotionState, Manifest
<1>3. CASE Leaves(x, y) \/ Starts(p, x, y) \/ Settles(x, y)
  <2>1. y.pc \notin Planned /\ ~Reverting(x)'
    BY <1>3, LeavesFresh, Zenon DEF Starts, Settles, Planned, Reverting, Applying
  <2> QED
    BY <1>1, <2>1
<1>4. CASE \/ Decides(x, y) \/ Works(x, y) \/ Saves(x, y) \/ Resumes(p, x, y)
  <2>1. /\ x.pc \in Planned \/ y.pc = "finish"
        /\ ~Reverting(x)' /\ UNCHANGED <<repo, journal, asked, edits>>
        /\ y.reconciled = x.reconciled
    BY <1>4, ZenonT(30) DEF Decides, Works, Saves, Resumes, Kept, Planned, Reverting, Applying, Rows
  <2>2. y.pc = "finish" => y.pc \notin Planned
    BY DEF Planned
  <2>3. CASE x.pc \in Planned
    BY <1>2, <2>1, <2>3, ZenonT(30) DEF Pending, Reverting
  <2> QED
    BY <1>1, <2>1, <2>2, <2>3
<1>5. CASE Restores(x, y)
  <2>1. /\ x.pc \in Planned /\ ~Reverting(x)' /\ UNCHANGED <<repo, journal, asked, edits>>
        /\ ~y.reconciled => ~x.reconciled
    BY <1>5, Zenon DEF Restores, Planned, Reverting, Applying, Rows, TypeOK, Checkpoint
  <2> QED
    BY <1>2, <2>1, Zenon DEF Pending, Reverting
<1>6. CASE Plans(x, y)
  <2>1. PromotionState' = PromotionState /\ Manifest' = Manifest /\ UNCHANGED <<repo, journal>>
    BY <1>2, <1>6, ZenonT(30) DEF Plans
  <2>2. CASE PromotionState = "PARTIAL"
    <3>1. y.pc = "revert" /\ asked'
      BY <1>6, <2>2, Zenon DEF Plans
    <3>2. PICK f \in Manifest : repo[f] # journal.new[f] /\ repo[f] = journal.base[f]
      BY <2>2, NotLanded, ZenonT(30)
    <3>3. ~Applying(x)' /\ y.pc \notin Planned
      BY <3>1, Zenon DEF Applying, Planned
    <3>4. journal.state \notin {"none", "completed"} /\ f \in Files
      BY <2>2, NotLanded, ZenonT(30) DEF Manifest
    <3>5. NotNew(f)
      BY <3>2, <3>4, JournalPatches, ZenonT(30) DEF NotNew
    <3> QED
      BY <2>1, <3>1, <3>3, <3>4, <3>5, Zenon DEF Pending, NotNew
  <2>3. CASE PromotionState # "PARTIAL"
    <3>1. y.pc = "commit" /\ y.reconciled = (PromotionState = "APPLIED")
      BY <1>6, <2>3, Zenon DEF Plans
    <3>2. PromotionState \in {"PARTIAL", "UNKNOWN"} => asked'
      BY <1>6, Zenon DEF Plans
    <3> QED
      BY <2>1, <3>1, <3>2, Zenon DEF Pending, Reverting, Applying
  <2> QED
    BY <2>2, <2>3, Zenon
<1>7. CASE Returns(x, y)
  <2>1. UNCHANGED <<repo, journal, asked, edits>> /\ ~Reverting(x)'
    BY <1>7, ZenonT(30) DEF Returns, Rows, Reverting, Applying
  <2>2. CASE x.kind = "promote"
    BY <1>1, <1>7, <2>1, <2>2, Zenon DEF Returns, Planned
  <2>3. CASE x.kind = "revert"
    <3>1. Reverting(x)
      BY <1>7, <2>3, ZenonT(30) DEF Returns, Reverting
    <3>2. asked /\ PromotionState # "APPLIED"
      BY <3>1, NotLanded, Zenon DEF Pending, NotNew
    <3> QED
      BY <1>2, <1>7, <2>1, <2>3, <3>2, Zenon DEF Pending, Returns, Reverting
  <2> QED
    BY <1>7, <2>2, <2>3, Zenon DEF Returns
<1>8. CASE Reverts(x, y)
  <2>1. y.pc = "check" /\ UNCHANGED <<repo, journal, asked, edits>>
    BY <1>8, ZenonT(30) DEF Reverts, Rows
  <2>2. Changed(y) \subseteq y.todo /\ \A f \in y.todo : repo[f] = x.expect[f]
    BY <1>8, RevertsTodo, Zenon
  <2>3. x.expect = journal.new
    BY <1>8, Zenon DEF Reverts, Knows, RevertKnown
  <2>4. Reverting(x)
    BY <1>8, Zenon DEF Reverts, Reverting
  <2>5. PICK f \in Manifest : NotNew(f)
    BY <2>4, Zenon DEF Pending
  <2>6. f \notin Changed(y)
    BY <2>2, <2>3, <2>5 DEF NotNew
  <2>7. NotNew(f)'
    BY <2>1, <2>5, Zenon DEF NotNew
  <2> QED
    BY <1>2, <2>1, <2>4, <2>5, <2>6, <2>7, Zenon DEF Pending, Planned, Reverting
<1>9. CASE Checks(x, y) \/ TurnsBack(x, y) \/ IsTold(x, y)
  <2>1. Changed(y) = Changed(x)
    BY <1>9, KeptChanged, Zenon DEF Checks, TurnsBack, IsTold
  <2>2. UNCHANGED <<repo, journal, asked, edits>> /\ Kept(x, y)
    BY <1>9, ZenonT(30) DEF Checks, TurnsBack, IsTold, Rows
  <2>3. \/ y.pc = x.pc
        \/ y.pc \notin Planned /\ y.pc # "revert" /\ Applying(x)
    BY <1>9, ZenonT(30) DEF Checks, TurnsBack, IsTold, Planned, Applying
  <2> QED
    BY <1>2, <2>1, <2>2, <2>3, ZenonT(30) DEF Pending, NotNew, Kept, Reverting, Applying
<1>10. ASSUME NEW g \in Files, Puts(x, y, g) PROVE Pending(x)'
  <2>1. Changed(y) = Changed(x)
    BY <1>10, KeptChanged, ZenonT(30) DEF Puts
  <2>2. y.pc = x.pc /\ x.pc \in {"write", "undo"} /\ UNCHANGED <<journal, asked>> /\ y.kind = x.kind
    BY <1>10, ZenonT(30) DEF Puts, Rows, Kept
  <2>3. g \in Changed(x)
    BY <1>10, <2>2, ZenonT(30) DEF Puts, Knows, PatchKnown
  <2>4. \A f \in Files : f # g => repo'[f] = repo[f]
    BY <1>0, <1>10, Zenon DEF Puts, Tree
  <2>5. Manifest' = Manifest /\ Manifest \subseteq Files
    BY <2>2 DEF Manifest
  <2>6. y.pc \notin Planned /\ y.pc # "revert"
    BY <2>2, Zenon DEF Planned
  <2>7. Reverting(x) <=> Reverting(x)'
    BY <2>2, Zenon DEF Reverting, Applying
  <2>8. CASE Reverting(x)
    <3>1. PICK f \in Manifest : NotNew(f) /\ f \notin Changed(x)
      BY <2>2, <2>8, Zenon DEF Pending, Applying
    <3>2. NotNew(f)' /\ f \notin Changed(y) /\ f \in Manifest'
      BY <2>1, <2>2, <2>3, <2>4, <2>5, <3>1, Zenon DEF NotNew
    <3> QED
      BY <2>2, <2>6, <2>8, <3>2, ZenonT(30) DEF Pending
  <2>9. CASE ~Reverting(x)
    BY <1>1, <2>6, <2>7, <2>9, Zenon
  <2> QED
    BY <2>8, <2>9
<1> QED
  BY <1>3, <1>4, <1>5, <1>6, <1>7, <1>8, <1>9, <1>10, ZenonT(30) DEF Moves
-----------------------------------------------------------------------------
(***************************************************************************)
(* Without edits, whoever says that the patch landed is right: the files   *)
(* that change hold what _write stores of the journaled contents.          *)
(***************************************************************************)
\* a file that the change from a to b leaves alone is as b has it
Untouched(a, b) == \A f \in Files : a[f] = b[f] => repo[f] = b[f]
AllNew ==
  /\ journal.state # "none"
  /\ \A f \in Files : repo[f] = IF journal.base[f] = journal.new[f] THEN journal.base[f]
                                 ELSE Stored(f, journal.new[f])

\* the journal, the checkpoint or the run itself says so
Claimed ==
  \/ journal.state = "completed" \/ checkpoint.reconciled \/ checkpoint.result = "applied"
  \/ status = "completed" /\ outcome = "applied"

TreesAgree ==
  /\ journal.state # "none" => Untouched(journal.base, journal.new)
  /\ checkpoint.kind # "early" => Untouched(checkpoint.expect, checkpoint.goal)
  /\ Claimed => AllNew

ExecAgrees(x) ==
  /\ Beyond(x) => Untouched(x.expect, x.goal)
  /\ x.reconciled \/ x.result = "applied" => AllNew
  /\ Applying(x) /\ x.kind = "revert" =>
       \A f \in Changed(x) : f \in Manifest /\ checkpoint.expect[f] # checkpoint.goal[f]

Landing(x) == edits = 0 => TreesAgree /\ ExecAgrees(x)

LEMMA NoClaimYet ==
  ASSUME Fence, Checkpoints, NEW p \in Procs, Course(p, ex[p]), Pending(ex[p]), Landing(ex[p]),
         journal.state = "completed" => Landed(ex[p]),
         edits = 0, Applying(ex[p]) \/ ex[p].pc = "ready"
  PROVE  ~Claimed
<1> DEFINE x == ex[p]
<1>1. CASE x.pc = "ready" \/ Promoting(x)
  <2>1. Beyond(x) /\ ~Reverting(x) /\ x.pc \notin {"idle", "commit"}
    BY <1>1, Zenon DEF Beyond, Promoting, Reverting, Applying
  <2>2. holder = p /\ ~x.reconciled /\ checkpoint.kind # "final"
    BY <1>1, <2>1, ZenonT(30) DEF Course
  <2>3. ~checkpoint.reconciled /\ checkpoint.result # "applied"
    BY <2>1, <2>2, Zenon DEF Course, Checkpoints
  <2>4. p # NoOne /\ status # "completed"
    BY <2>2, PromotionAssumption, Zenon DEF Fence, HolderIsLive, Live
  <2>5. journal.state # "completed"
    BY <1>1 DEF Landed, Promoting, Applying
  <2> QED
    BY <2>3, <2>4, <2>5 DEF Claimed
<1>2. CASE ~(x.pc = "ready" \/ Promoting(x))
  <2>1. Reverting(x)
    BY <1>2, Zenon DEF Reverting, Promoting, Fence, TypeOK, Exec
  <2>2. ~AllNew
    BY <2>1, Zenon DEF Pending, NotNew, Manifest, AllNew
  <2> QED
    BY <2>2, Zenon DEF Landing, TreesAgree
<1> QED
  BY <1>1, <1>2, Zenon

LEMMA MoveLanding ==
  ASSUME Fence, TypeOK', Cover, Checkpoints, NEW p \in Procs, Course(p, ex[p]), Knows(p),
         Compared(ex[p]), Pending(ex[p]), Landing(ex[p]), journal.state = "completed" => Landed(ex[p]),
         Moves(p, ex[p], ex'[p])
  PROVE  Landing(ex[p])'
<1> DEFINE x == ex[p]
           y == ex'[p]
<1>0. x \in Exec /\ y \in Exec /\ repo \in Tree /\ journal \in Journal /\ checkpoint \in Checkpoint
  BY DEF Fence, TypeOK
<1>1. edits' = edits
  BY Zenon DEF Moves, Leaves, Decides, Works, Saves, Starts, Checks, TurnsBack, Returns, Settles, IsTold,
      Plans, Reverts, Resumes, Restores, Puts, Rows
<1> SUFFICES ASSUME edits = 0 PROVE TreesAgree' /\ ExecAgrees(x)'
  BY <1>1, Zenon DEF Landing
<1>2. TreesAgree /\ ExecAgrees(x)
  BY Zenon DEF Landing
<1>3. ASSUME UNCHANGED <<repo, journal, checkpoint>>, Claimed' => Claimed \/ AllNew PROVE TreesAgree'
  BY <1>2, <1>3, Zenon DEF TreesAgree, Untouched, AllNew
<1>4. UNCHANGED <<journal, checkpoint, status, outcome>> => (Claimed' <=> Claimed)
  BY Zenon DEF Claimed
<1>5. ASSUME y.pc = "idle", ~y.reconciled, y.result # "applied" PROVE ExecAgrees(x)'
  BY <1>5, ZenonT(30) DEF ExecAgrees, Beyond, Applying
<1>6. ASSUME UNCHANGED <<repo, journal, checkpoint>>, Kept(x, y), Beyond(x)' => Beyond(x),
             y.result = "applied" => x.result = "applied" \/ AllNew,
             Applying(x)' => Applying(x)
      PROVE  ExecAgrees(x)'
  <2>1. Changed(y) = Changed(x)
    BY <1>6, KeptChanged, ZenonT(30)
  <2>2. Manifest' = Manifest
    BY <1>6, ZenonT(30) DEF Manifest
  <2> QED
    BY <1>2, <1>6, <2>1, <2>2, ZenonT(30) DEF ExecAgrees, Kept, Untouched, AllNew
\* a write of one file by apply_changes
<1>7. ASSUME Applying(x), x.pc \in {"write", "undo"}, NEW g \in x.todo, NEW c, repo' = [repo EXCEPT ![g] = c],
             UNCHANGED <<journal, checkpoint>>, Claimed' => Claimed
      PROVE  TreesAgree' /\ (Kept(x, y) /\ y.result = x.result /\ y.pc = x.pc => ExecAgrees(x)')
  <2>1. ~Claimed
    BY <1>7, NoClaimYet, ZenonT(30)
  <2>2. g \in Changed(x) /\ g \in Files /\ x.goal[g] # x.expect[g]
    BY <1>7, ZenonT(30) DEF Knows, PatchKnown, Changed
  <2>3. \A f \in Files : f # g => repo'[f] = repo[f]
    BY <1>0, <1>7, ZenonT(30) DEF Tree
  <2>4. x.kind = "promote" => /\ Beyond(x) /\ journal.base = x.expect /\ journal.new = x.goal
                              /\ checkpoint.kind # "early" => checkpoint.expect = x.expect /\ checkpoint.goal = x.goal
    BY <1>7, ZenonT(30) DEF Knows, PatchKnown, FromCheckpoint, Beyond
  <2>5. journal.base[g] # journal.new[g] /\ (checkpoint.kind # "early" => checkpoint.expect[g] # checkpoint.goal[g])
    <3>1. CASE x.kind = "promote"
      BY <2>2, <2>4, <3>1, ZenonT(30)
    <3>2. CASE x.kind = "revert"
      BY <1>2, <1>7, <2>2, <3>2, ZenonT(30) DEF ExecAgrees, Manifest
    <3> QED
      BY <1>0, <3>1, <3>2, ZenonT(30) DEF Exec
  <2>6. TreesAgree'
    BY <1>2, <1>7, <2>1, <2>3, <2>5, ZenonT(30) DEF TreesAgree, Untouched
  <2>7. ASSUME Kept(x, y), y.result = x.result, y.pc = x.pc PROVE ExecAgrees(x)'
    <3>1. Changed(y) = Changed(x) /\ Manifest' = Manifest
      BY <1>7, <2>7, KeptChanged, ZenonT(30) DEF Manifest
    <3>2. Beyond(x)' => Untouched(x.expect, x.goal)'
      BY <1>2, <2>2, <2>3, <2>7, ZenonT(30) DEF ExecAgrees, Untouched, Kept, Beyond, Applying
    <3>3. ~y.reconciled /\ y.result # "applied"
      BY <1>0, <1>7, <2>7, ZenonT(30) DEF Course, Kept, Promoting, Reverting, Applying, Exec
    <3> QED
      BY <1>2, <1>7, <2>7, <3>1, <3>2, <3>3, ZenonT(30) DEF ExecAgrees, Kept, Applying
  <2> QED
    BY <2>6, <2>7, ZenonT(30)
<1>8. CASE Leaves(x, y)
  <2>1. y.pc = "idle" /\ ~y.reconciled /\ y.result # "applied"
    BY <1>8, LeavesFresh
  <2>2. CASE repo' = repo
    <3>1. Claimed' => Claimed \/ AllNew
      BY <1>2, <1>8, ZenonT(30) DEF Leaves, Claimed, ExecAgrees
    <3> QED
      BY <1>3, <1>5, <1>8, <2>1, <2>2, <3>1, Zenon DEF Leaves
  <2>3. CASE x.pc = "undo" /\ \E f \in x.todo : repo' = [repo EXCEPT ![f] = Plain("torn")]
    <3>1. Claimed' => Claimed
      BY <1>8, <2>3, Zenon DEF Leaves, Claimed
    <3>2. TreesAgree'
      BY <1>7, <1>8, <2>3, <3>1, Zenon DEF Leaves, Applying
    <3> QED
      BY <1>5, <2>1, <3>2
  <2> QED
    BY <1>8, <2>2, <2>3, ZenonT(30) DEF Leaves
<1>9. CASE Decides(x, y)
  <2>1. UNCHANGED <<repo, journal, checkpoint, status, outcome>> /\ Kept(x, y)
    BY <1>9, ZenonT(30) DEF Decides, Rows
  <2>2. Beyond(x) /\ ~Applying(x)'
    BY <1>9, ZenonT(30) DEF Decides, Beyond, Applying
  <2>3. y.result = "applied" => x.result = "applied" \/ AllNew
    BY <1>2, <1>9, ZenonT(30) DEF Decides, ExecAgrees
  <2> QED
    BY <1>3, <1>4, <1>6, <2>1, <2>2, <2>3, ZenonT(30)
<1>10. CASE Works(x, y)
  <2>1. UNCHANGED <<repo, journal, checkpoint, status, outcome>>
    BY <1>10, Zenon DEF Works, Rows
  <2>2. ExecAgrees(x)'
    BY <1>2, <1>10, <2>1, ZenonT(30) DEF Works, ExecAgrees, Untouched, Applying, AllNew
  <2> QED
    BY <1>3, <1>4, <2>1, <2>2, ZenonT(30)
<1>11. CASE Saves(x, y)
  <2>1. UNCHANGED <<repo, journal, status, outcome>> /\ Kept(x, y) /\ y.result = x.result
    BY <1>11, ZenonT(30) DEF Saves
  <2>2. Beyond(x) /\ ~Applying(x)'
    BY <1>11, Zenon DEF Saves, Beyond, Applying
  <2>3. ExecAgrees(x)'
    BY <1>2, <2>1, <2>2, ZenonT(30) DEF ExecAgrees, Kept, Untouched, AllNew
  <2>4. CASE checkpoint' = checkpoint
    BY <1>3, <1>4, <2>1, <2>3, <2>4, Zenon
  <2>5. CASE checkpoint' # checkpoint
    <3>1. /\ checkpoint'.expect = x.expect /\ checkpoint'.goal = x.goal
          /\ checkpoint'.reconciled = x.reconciled /\ checkpoint'.result = x.result
      BY <1>11, <2>5, SavesRow, Zenon
    <3>2. Untouched(x.expect, x.goal) /\ (Claimed' => AllNew)
      BY <1>2, <2>1, <2>2, <3>1, ZenonT(30) DEF ExecAgrees, Claimed, TreesAgree
    <3>3. TreesAgree'
      BY <1>2, <2>1, <3>1, <3>2, Zenon DEF TreesAgree, Untouched, AllNew
    <3> QED
      BY <2>3, <3>3
  <2> QED
    BY <2>4, <2>5, ZenonT(30)
<1>12. CASE Starts(p, x, y)
  <2>1. ~Claimed
    BY <1>12, NoClaimYet, ZenonT(30) DEF Starts
  <2>2. /\ journal'.state = "started" /\ journal'.base = x.expect /\ journal'.new = x.goal
        /\ UNCHANGED <<repo, checkpoint, status, outcome>>
    BY <1>12, ZenonT(30) DEF Starts
  <2>3. Untouched(x.expect, x.goal)
    BY <1>2, <1>12, ZenonT(30) DEF ExecAgrees, Starts, Beyond
  <2>4. ~Claimed'
    BY <2>1, <2>2, ZenonT(30) DEF Claimed
  <2>5. TreesAgree'
    BY <1>2, <2>2, <2>3, <2>4 DEF TreesAgree, Untouched
  <2>6. ~y.reconciled /\ y.result # "applied" /\ y.kind # "revert"
    BY <1>12, ZenonT(30) DEF Starts, Course
  <2>7. ExecAgrees(x)'
    BY <1>12, <2>2, <2>3, <2>6, ZenonT(30) DEF ExecAgrees, Starts, Untouched
  <2> QED
    BY <2>5, <2>7
<1>13. CASE Checks(x, y) \/ TurnsBack(x, y)
  <2>1. UNCHANGED <<repo, journal, checkpoint, status, outcome>> /\ Kept(x, y) /\ y.result = x.result
    BY <1>13, ZenonT(30) DEF Checks, TurnsBack, Rows
  <2>2. Applying(x) /\ (Beyond(x)' => Beyond(x))
    BY <1>13, <2>1, ZenonT(30) DEF Checks, TurnsBack, Applying, Beyond, Kept
  <2> QED
    BY <1>3, <1>4, <1>6, <2>1, <2>2, ZenonT(30)
<1>14. CASE IsTold(x, y)
  <2>1. UNCHANGED <<repo, journal, checkpoint>> /\ Kept(x, y) /\ y.result = x.result
    BY <1>14, ZenonT(30) DEF IsTold
  <2>2. (Applying(x)' => Applying(x)) /\ (Beyond(x)' => Beyond(x))
    BY <1>14, <2>1, ZenonT(30) DEF IsTold, Applying, Beyond, Kept
  <2>3. Claimed' => Claimed
    BY <1>14, ZenonT(30) DEF IsTold, Claimed
  <2> QED
    BY <1>3, <1>6, <2>1, <2>2, <2>3, ZenonT(30)
<1>15. CASE Returns(x, y)
  <2>1. UNCHANGED <<repo, journal, checkpoint, status, outcome>> /\ Kept(x, y) /\ ~Applying(x)'
    BY <1>15, ZenonT(30) DEF Returns, Rows, Applying
  <2>2. Beyond(x)' => Beyond(x)
    BY <1>15, <2>1, ZenonT(30) DEF Returns, Beyond, Kept
  <2>3. ASSUME y.result = "applied" PROVE x.result = "applied" \/ AllNew
    <3>1. CASE x.kind = "promote" /\ x.pc = "write" /\ x.todo = {}
      <4>1. /\ journal.state # "none" /\ journal.new = x.goal /\ journal.base = x.expect
            /\ Untouched(x.expect, x.goal)
        BY <1>2, <1>15, <3>1, ZenonT(30) DEF Knows, PatchKnown, ExecAgrees, Beyond, Applying
      <4>2. \A f \in Changed(x) : repo[f] = Stored(f, x.goal[f])
        BY <3>1, Zenon DEF Compared
      <4> QED
        BY <4>1, <4>2, ZenonT(30) DEF AllNew, Untouched, Changed
    <3> QED
      BY <1>15, <2>3, <3>1, ZenonT(30) DEF Returns
  <2> QED
    BY <1>3, <1>4, <1>6, <2>1, <2>2, <2>3, ZenonT(30)
<1>16. CASE Settles(x, y)
  <2>1. Beyond(x) /\ holder = p /\ x.kind = "promote" /\ ~Applying(x)' /\ Beyond(x)'
    BY <1>16 DEF Settles, Beyond, Course, Reverting, Applying, OwnJournal, Fence
  <2>2. journal.base = x.expect /\ journal.new = x.goal
    BY <1>16, <2>1 DEF Settles, Fence, OwnJournal, Fenced, Writing, Knows
  <2>3. /\ journal'.base = journal.base /\ journal'.new = journal.new /\ journal'.state # "none"
        /\ journal'.state = "completed" => x.result = "applied"
        /\ Kept(x, y) /\ y.result = x.result /\ UNCHANGED <<repo, checkpoint, status, outcome>>
    BY <1>0, <1>16, Zenon DEF Settles, Journal
  <2>4. AllNew => AllNew'
    BY <2>3 DEF AllNew
  <2>5. ExecAgrees(x)'
    BY <1>2, <2>1, <2>3, <2>4, ZenonT(30) DEF ExecAgrees, Kept, Untouched
  <2>6. Claimed' => AllNew'
    BY <1>2, <2>3, <2>4, ZenonT(30) DEF Claimed, TreesAgree, ExecAgrees
  <2>7. TreesAgree'
    BY <1>2, <2>1, <2>2, <2>3, <2>6, ZenonT(30) DEF TreesAgree, ExecAgrees, Untouched
  <2> QED
    BY <2>5, <2>7
<1>17. CASE Plans(x, y)
  <2>1. UNCHANGED <<repo, journal, checkpoint, status, outcome>>
    BY <1>17, ZenonT(30) DEF Plans
  <2>2. ~Beyond(x)' /\ ~Applying(x)' /\ y.result # "applied"
    BY <1>17, Zenon DEF Plans, Beyond, Applying
  <2>3. ASSUME y.reconciled PROVE AllNew
    <3>1. PromotionState = "APPLIED"
      BY <1>17, <2>3, Zenon DEF Plans
    <3>2. CASE journal.state = "completed"
      BY <1>2, <3>2, ZenonT(30) DEF TreesAgree, Claimed
    <3>3. CASE journal.state # "none" /\ \A f \in Manifest : repo[f] = journal.new[f]
      <4>1. ASSUME NEW f \in Files, journal.base[f] = journal.new[f] PROVE repo[f] = journal.base[f]
        BY <1>2, <3>3, <4>1, ZenonT(30) DEF TreesAgree, Untouched
      <4>2. ASSUME NEW f \in Files, journal.base[f] # journal.new[f]
            PROVE  repo[f] = Stored(f, journal.new[f])
        <5>1. repo[f] = journal.new[f] /\ Patched(repo[f])
          BY <3>3, <4>2, JournalPatches DEF Manifest
        <5> QED
          BY <4>2, <5>1, ZenonT(30) DEF Cover, Covered
      <4> QED
        BY <3>3, <4>1, <4>2, ZenonT(30) DEF AllNew
    <3> QED
      BY <3>1, <3>2, <3>3, NotLanded DEF Fence
  <2>4. ExecAgrees(x)'
    BY <2>1, <2>2, <2>3, Zenon DEF ExecAgrees, AllNew
  <2> QED
    BY <1>3, <1>4, <2>1, <2>4, Zenon
<1>18. CASE Reverts(x, y)
  <2>1. UNCHANGED <<repo, journal, checkpoint, status, outcome>> /\ x.pc = "revert" /\ y.kind = "revert"
    BY <1>18, ZenonT(30) DEF Reverts, Rows
  <2>2. x.expect = journal.new /\ x.goal = journal.base
    BY <2>1, ZenonT(30) DEF Knows, RevertKnown
  <2>3. ASSUME NEW f \in Changed(y) PROVE f \in Manifest /\ checkpoint.expect[f] # checkpoint.goal[f]
    <3>1. f \in Files /\ f \in y.todo /\ y.goal[f] # y.expect[f]
      BY <1>18, ZenonT(30) DEF Reverts, Changed
    <3>2. repo[f] = x.expect[f] /\ x.expect[f] # x.goal[f] /\ checkpoint.expect[f] # x.expect[f]
      BY <1>18, <3>1, Zenon DEF Reverts
    <3>3. checkpoint.expect[f] # checkpoint.goal[f]
      BY <1>2, <1>18, <3>1, <3>2, ZenonT(30) DEF Reverts, TreesAgree, Untouched
    <3> QED
      BY <2>2, <3>1, <3>2, <3>3, ZenonT(30) DEF Manifest
  <2>4. ~Beyond(x)' /\ ~y.reconciled /\ y.result # "applied"
    BY <1>18, <2>1, ZenonT(30) DEF Reverts, Beyond, Applying, Course, Reverting
  <2>5. Manifest' = Manifest
    BY <2>1, ZenonT(30) DEF Manifest
  <2>6. ExecAgrees(x)'
    BY <2>1, <2>3, <2>4, <2>5, ZenonT(30) DEF ExecAgrees
  <2> QED
    BY <1>3, <1>4, <2>1, <2>6, ZenonT(30)
<1>19. CASE Resumes(p, x, y)
  <2>1. ~Beyond(x)' /\ ~Applying(x)' /\ UNCHANGED <<repo, journal, checkpoint>>
    BY <1>19, ZenonT(30) DEF Resumes, Beyond, Applying
  <2>2. Claimed' => Claimed
    BY <1>19, Zenon DEF Resumes, Claimed
  <2>3. ExecAgrees(x)'
    BY <1>2, <1>19, <2>1, ZenonT(30) DEF Resumes, ExecAgrees, AllNew
  <2> QED
    BY <1>3, <2>1, <2>2, <2>3, ZenonT(30)
<1>20. CASE Restores(x, y)
  <2>1. UNCHANGED <<repo, journal, checkpoint, status, outcome>>
    BY <1>20 DEF Restores, Rows
  <2>2. ~Applying(x)' /\ (Beyond(x)' => checkpoint.kind # "early")
    BY <1>0, <1>20 DEF Restores, Applying, Beyond, Checkpoint
  <2>3. y.reconciled \/ y.result = "applied" => AllNew
    BY <1>0, <1>2, <1>20, Zenon DEF Restores, TreesAgree, ExecAgrees, Claimed
  <2>4. ExecAgrees(x)'
    BY <1>2, <1>20, <2>1, <2>2, <2>3 DEF Restores, ExecAgrees, TreesAgree, Untouched, AllNew
  <2> QED
    BY <1>3, <1>4, <2>1, <2>4, Zenon
<1>21. ASSUME NEW f \in Files, Puts(x, y, f) PROVE TreesAgree' /\ ExecAgrees(x)'
  <2>1. /\ x.pc \in {"write", "undo"} /\ Applying(x) /\ f \in x.todo
        /\ UNCHANGED <<journal, checkpoint, status, outcome>>
        /\ Kept(x, y) /\ y.result = x.result /\ y.pc = x.pc
    BY <1>21, ZenonT(30) DEF Puts, Applying, Rows
  <2>2. \E c : repo' = [repo EXCEPT ![f] = c]
    BY <1>21, Zenon DEF Puts
  <2> QED
    BY <1>4, <1>7, <2>1, <2>2, Zenon
<1> QED
  BY <1>8, <1>9, <1>10, <1>11, <1>12, <1>13, <1>14, <1>15, <1>16, <1>17, <1>18, <1>19, <1>20, <1>21, Zenon DEF Moves

\* the inductive invariant of one process without leases
Story ==
  /\ Fence /\ Cover /\ Done /\ Checkpoints
  /\ \A p \in Procs : Course(p, ex[p]) /\ Compared(ex[p]) /\ Pending(ex[p]) /\ Landing(ex[p])

LEMMA InitStory == Init => Story
<1> SUFFICES ASSUME Init PROVE Story
  OBVIOUS
<1>1. Fence /\ Cover
  BY InitFence, InitCover
<1>2. /\ journal.state = "none" /\ checkpoint.kind = "early" /\ ~checkpoint.reconciled
      /\ checkpoint.result # "applied" /\ status # "completed"
  BY DEF Init
<1>3. \A p \in Procs : /\ ex[p].pc \in {"idle", "work"} /\ ~ex[p].reconciled /\ ex[p].result = "none"
                       /\ ex[p].pc = "work" => holder = p
  BY DEF Init, Fresh
<1>4. PromotionState = "NONE"
  BY <1>2 DEF PromotionState
<1>5. Done /\ Checkpoints
  BY <1>2, Zenon DEF Done, Checkpoints
<1>6. \A p \in Procs : Course(p, ex[p])
  BY <1>2, <1>3 DEF Course, Reverting, Promoting, Beyond, Applying
<1>7. \A p \in Procs : Compared(ex[p])
  BY <1>3 DEF Compared
<1>8. \A p \in Procs : Pending(ex[p])
  BY <1>3, <1>4 DEF Pending, Reverting, Applying
<1>9. \A p \in Procs : Landing(ex[p])
  BY <1>2, <1>3 DEF Landing, TreesAgree, ExecAgrees, Claimed, Beyond, Applying
<1> QED
  BY <1>1, <1>5, <1>6, <1>7, <1>8, <1>9 DEF Story

\* A person saves a file: the process notes it if it is writing, and no hash becomes that of
\* a patch.
LEMMA EditStory ==
  ASSUME Story, Cover', Fence', NEW f \in Files, Edit(f)
  PROVE  Story'
<1>1. /\ UNCHANGED <<journal, checkpoint, status, outcome, holder, asked>>
      /\ edits' = edits + 1 /\ edits \in Nat /\ repo \in Tree
  BY DEF Story, Fence, TypeOK, Edit, db
<1>2. edits' # 0
  BY <1>1
<1>3. \A p \in Procs :
        /\ ex'[p].pc = ex[p].pc /\ Kept(ex[p], ex'[p]) /\ ex'[p].result = ex[p].result
        /\ ex'[p].todo = ex[p].todo
        /\ ex[p].pc \in {"write", "undo"} => ex'[p].since = ex[p].since \cup {f}
  BY DEF Edit, Story, Fence, TypeOK, Exec, Kept
<1>4. \A p \in Procs : Changed(ex[p])' = Changed(ex[p]) /\ Changed(ex[p]) \subseteq Files
  BY <1>3 DEF Kept, Changed
<1>5. PICK c \in {Plain("edit"), Plain("orig")} : repo' = [repo EXCEPT ![f] = c]
  BY Zenon DEF Edit
<1>6. /\ \A g \in Files : g # f => repo'[g] = repo[g]
      /\ ~Patched(repo'[f])
  BY <1>1, <1>5, PlainContent DEF Tree
<1>7. Manifest' = Manifest /\ Manifest \subseteq Files
  BY <1>1 DEF Manifest
<1>8. ASSUME journal.state # "none", NEW g \in Manifest, repo[g] # journal.new[g]
      PROVE  repo'[g] # journal.new[g]
  BY <1>6, <1>7, <1>8, JournalPatches, ZenonT(30) DEF Story
<1>14. ASSUME journal.state # "none", NEW g \in Manifest, NotNew(g)
       PROVE  NotNew(g)'
  <2>1. repo'[g] # Stored(g, journal.new[g])
    BY <1>6, <1>7, <1>14, JournalPatches, ZenonT(30) DEF Story, NotNew
  <2> QED
    BY <1>1, <1>8, <1>14, <2>1, Zenon DEF NotNew
<1>9. Done' /\ Checkpoints'
  BY <1>1, <1>3, ZenonT(30) DEF Story, Done, Landed, Kept, Checkpoints, PatchGoal
<1>10. ASSUME NEW p \in Procs PROVE Course(p, ex[p])'
  BY <1>1, <1>3, <1>4, ZenonT(30) DEF Story, Course, Kept, Reverting, Promoting, Beyond, Applying, PatchGoal
<1>11. ASSUME NEW p \in Procs PROVE Compared(ex[p])'
  <2>1. Compared(ex[p])
    BY DEF Story
  <2> QED
    BY <1>2, <1>3, <1>4, <1>6, <2>1, ZenonT(30) DEF Compared, Kept
<1>12. ASSUME NEW p \in Procs PROVE Pending(ex[p])'
  <2>1. Pending(ex[p]) /\ TypeOK /\ TypeOK'
    BY Zenon DEF Story, Fence
  <2>2. PromotionState # "APPLIED" => PromotionState' # "APPLIED"
    <3>1. CASE journal.state = "none"
      BY <1>1, <3>1 DEF PromotionState
    <3>2. CASE journal.state = "completed"
      BY <2>1, <3>2, NotLanded
    <3>3. CASE journal.state \notin {"none", "completed"} /\ Manifest = {}
      BY <1>1, <1>7, <3>3 DEF PromotionState
    <3>4. CASE journal.state \notin {"none", "completed"} /\ \E g \in Manifest : repo[g] # journal.new[g]
      <4>1. journal'.state \notin {"none", "completed"} /\ \E g \in Manifest' : repo'[g] # journal'.new[g]
        BY <1>1, <1>7, <1>8, <3>4
      <4>2. PromotionState' # "APPLIED"
        BY <4>1 DEF PromotionState
      <4> QED
        BY <4>2
    <3>5. CASE /\ journal.state \notin {"none", "completed"}
               /\ Manifest # {} /\ \A g \in Manifest : repo[g] = journal.new[g]
      <4>1. PromotionState = "APPLIED"
        BY <3>5, Zenon DEF PromotionState, Manifest
      <4> QED
        BY <4>1
    <3> QED
      BY <3>1, <3>2, <3>3, <3>4, <3>5
  <2>3. Reverting(ex[p])' <=> Reverting(ex[p])
    BY <1>3 DEF Reverting, Applying, Kept
  <2>4. ASSUME Reverting(ex[p])
        PROVE  /\ asked' /\ journal'.state \notin {"none", "completed"}
               /\ \E g \in Manifest' : /\ NotNew(g)'
                                       /\ Applying(ex[p])' => g \notin Changed(ex[p])'
    BY <1>1, <1>3, <1>4, <1>7, <1>14, <2>1, <2>4, Zenon DEF Pending, Applying
  <2> QED
    BY <1>1, <1>2, <1>3, <2>1, <2>2, <2>3, <2>4, Zenon DEF Pending, Kept
<1>13. \A p \in Procs : Landing(ex[p])'
  BY <1>2 DEF Landing
<1> QED
  BY <1>9, <1>10, <1>11, <1>12, <1>13 DEF Story

\* What one step may not do, next to the invariant.
Honest ==
  /\ \A p \in Procs : At(p, "ready") /\ ex'[p].pc = "check" => PromotionState # "APPLIED"
  /\ \A f \in Files : repo[f] = Plain("edit") /\ repo'[f] # Plain("edit") =>
       edits' # edits \/ \E p \in Procs : LostInWindow(ex[p], f)

LEMMA NextStory ==
  ASSUME OneProcess, Story, [Next]_vars
  PROVE  Story' /\ Honest
<1>1. Fence' /\ Cover'
  BY NextFence, NextCover DEF Story
<1>2. TypeOK /\ TypeOK'
  BY <1>1 DEF Story, Fence
<1>3. \A p \in Procs : At(p, "ready") => PromotionState # "APPLIED"
  BY ZenonT(30) DEF Story, Course, Pending, Planned, At
<1>4. ASSUME NEW p \in Procs, Step(p) PROVE Story' /\ Honest
  <2>1. \A q \in Procs : q = p
    BY DEF OneProcess
  <2>2. Knows(p) /\ OwnJournal(p) /\ (journal.state = "completed" => Landed(ex[p]))
    BY DEF Story, Cover, Fence, Done
  <2>3. Moves(p, ex[p], ex'[p])
    BY <1>2, <1>4, <2>2, StepMoves DEF Knows
  <2>4. /\ Fence /\ Cover /\ Checkpoints /\ Course(p, ex[p]) /\ Compared(ex[p]) /\ Pending(ex[p]) /\ Landing(ex[p])
    BY DEF Story
  <2>5. Done'
    BY <1>4, StepDone, Zenon DEF Story
  <2>6. Checkpoints' /\ Course(p, ex[p])'
    BY <1>2, <2>2, <2>3, <2>4, MoveCourse
  <2>7. Compared(ex[p])'
    BY <1>2, <2>2, <2>3, <2>4, MoveCompared, ZenonT(30)
  <2>8. Pending(ex[p])'
    BY <1>2, <2>2, <2>3, <2>4, MovePending
  <2>9. Landing(ex[p])'
    BY <1>2, <2>2, <2>3, <2>4, MoveLanding, ZenonT(30)
  <2>10. Honest
    BY <1>2, <1>3, <2>2, <2>3, <2>4, MoveOverEdit, Zenon DEF Honest
  <2>11. \A q \in Procs : Course(q, ex[q])' /\ Compared(ex[q])' /\ Pending(ex[q])' /\ Landing(ex[q])'
    BY <2>1, <2>6, <2>7, <2>8, <2>9
  <2> QED
    BY <1>1, <2>5, <2>6, <2>10, <2>11, Zenon DEF Story
<1>5. CASE Recover
  <2>1. /\ UNCHANGED <<repo, journal, checkpoint, asked, ex, edits>>
        /\ status' \in {"cancelled", "interrupted"} /\ holder = NoOne
    BY <1>2, <1>5, Zenon DEF Recover, OneProcess, TypeOK
  <2>2. PromotionState' = PromotionState /\ Manifest' = Manifest
    BY <2>1, Zenon DEF PromotionState, Manifest
  <2>3. Done' /\ Checkpoints'
    BY <2>1, Zenon DEF Story, Done, Checkpoints
  <2>4. ASSUME NEW p \in Procs PROVE Course(p, ex[p])' /\ Compared(ex[p])' /\ Pending(ex[p])'
    <3>1. holder # p
      BY <2>1, PromotionAssumption
    <3>2. Course(p, ex[p])'
      BY <2>1, <3>1, ZenonT(30) DEF Story, Course
    <3>3. Compared(ex[p])'
      BY <2>1, ZenonT(30) DEF Story, Compared
    <3>4. Pending(ex[p])'
      BY <2>1, <2>2, ZenonT(30) DEF Story, Pending, NotNew
    <3> QED
      BY <3>2, <3>3, <3>4
  <2>5. ASSUME NEW p \in Procs PROVE Landing(ex[p])'
    <3>1. Claimed' => Claimed
      BY <2>1 DEF Claimed
    <3>2. Landing(ex[p])
      BY DEF Story
    <3> QED
      BY <2>1, <2>2, <3>1, <3>2, Zenon DEF Landing, TreesAgree, ExecAgrees, Untouched, AllNew
  <2>6. Honest
    BY <1>3, <2>1, Zenon DEF Honest
  <2> QED
    BY <1>1, <2>3, <2>4, <2>5, <2>6, Zenon DEF Story
<1>6. ASSUME NEW f \in Files, Edit(f) PROVE Story' /\ Honest
  <2>1. edits' # edits
    BY <1>2, <1>6, EditCounts, Zenon
  <2> QED
    BY <1>1, <1>3, <1>6, <2>1, EditStory DEF Honest
<1>7. CASE UNCHANGED vars
  <2>1. UNCHANGED <<repo, journal, checkpoint, status, outcome, holder, asked, ex, edits>>
    BY <1>7 DEF vars, db
  <2>2. PromotionState' = PromotionState /\ Manifest' = Manifest
    BY <2>1, Zenon DEF PromotionState, Manifest
  <2>3. Done' /\ Checkpoints'
    BY <2>1, Zenon DEF Story, Done, Checkpoints
  <2>4. ASSUME NEW p \in Procs PROVE Course(p, ex[p])' /\ Compared(ex[p])' /\ Pending(ex[p])'
    BY <2>1, <2>2, ZenonT(30) DEF Story, Course, Compared, Pending, NotNew
  <2>5. ASSUME NEW p \in Procs PROVE Landing(ex[p])'
    <3>1. Landing(ex[p]) /\ (Claimed' => Claimed)
      BY <2>1 DEF Story, Claimed
    <3> QED
      BY <2>1, <2>2, <3>1, Zenon DEF Landing, TreesAgree, ExecAgrees, Untouched, AllNew
  <2>6. Honest
    BY <1>3, <2>1 DEF Honest
  <2> QED
    BY <1>1, <2>3, <2>4, <2>5, <2>6, Zenon DEF Story
<1> QED
  BY <1>4, <1>5, <1>6, <1>7 DEF Next

LEMMA AlwaysStory == OneProcess /\ Spec => []Story
<1> SUFFICES ASSUME OneProcess PROVE Spec => []Story
  OBVIOUS
<1>1. Story /\ [Next]_vars => Story'
  BY NextStory
<1> QED
  BY <1>1, InitStory, PTL DEF Spec

\* _finalize_patch, promote and the reconciliation by hashes: with one process and no leases, for
\* every set of files, with and without CRLF, and any number of crashes and resumes, a run that
\* ends as applied while nobody edits left in every file of the manifest what _write stores of the
\* journaled content, and the other files as the journal found them.
THEOREM AppliedRunsLanded == OneProcess /\ Spec => []AppliedMeansLanded
<1>1. Story => AppliedMeansLanded
  <2>2. AllNew => \A f \in Files : f \notin Crlf => repo[f] = journal.new[f]
    <3> SUFFICES ASSUME AllNew, NEW f \in Files, f \notin Crlf PROVE repo[f] = journal.new[f]
      OBVIOUS
    <3>1. Stored(f, journal.new[f]) = journal.new[f]
      BY Zenon DEF Stored
    <3> QED
      BY <3>1, Zenon DEF AllNew, Manifest
  <2> SUFFICES ASSUME Story, status = "completed", outcome = "applied", edits = 0 PROVE AllNew
    BY <2>2, Zenon DEF AppliedMeansLanded, AllNew, Manifest
  <2>1. PICK p \in Procs : TRUE
    BY PromotionAssumption, Zenon
  <2> QED
    BY <2>1 DEF Story, Landing, TreesAgree, Claimed
<1> QED
  BY <1>1, AlwaysStory, PTL

\* plan_resume and service.resume: with one process and no leases, no execution gets past the plan
\* over files a dead promotion left half written or damaged unless a person has confirmed.
THEOREM UncertainRunsAreAsked == OneProcess /\ Spec => []UncertainMeansAsked
<1>1. Story => UncertainMeansAsked
  BY DEF Story, Pending, Planned, UncertainMeansAsked
<1> QED
  BY <1>1, AlwaysStory, PTL

\* _promotion_reconciled: with one process and no leases, a promotion whose files all hold the
\* journaled contents is not begun again, whatever crashes, resumes and edits came between.
THEOREM LandedPatchesAreNotRerun == OneProcess /\ Spec => NeverRerun
<1> SUFFICES ASSUME OneProcess PROVE Spec => NeverRerun
  OBVIOUS
<1>1. Story /\ [Next]_vars
      => [\A p \in Procs : At(p, "ready") /\ ex'[p].pc = "check" => PromotionState # "APPLIED"]_vars
  BY NextStory DEF Honest
<1>2. Spec => []Story
  BY AlwaysStory
<1> QED
  BY <1>1, <1>2, PTL DEF Spec, NeverRerun

\* apply_changes and rollback: with one process and no leases, for every set of files, an edit is
\* lost only in the window between the comparison and the end of the writes, when the patch was
\* made on top of it, or when a reversal that put it back undoes itself.
THEOREM EditsSurviveOutsideTheWindow == OneProcess /\ Spec => EditsLostOnlyInWindow
<1> SUFFICES ASSUME OneProcess PROVE Spec => EditsLostOnlyInWindow
  OBVIOUS
<1>1. Story /\ [Next]_vars
      => [\A f \in Files : repo[f] = Plain("edit") /\ repo'[f] # Plain("edit") =>
            \/ edits' # edits
            \/ \E p \in Procs :
                 \/ /\ ex[p].pc \in {"write", "undo"}
                    /\ f \in ex[p].since \/ ex[p].expect[f] = Plain("edit")
                 \/ ex[p].pc = "undo" /\ ex[p].kind = "revert" /\ ex[p].goal[f] = Plain("edit")]_vars
  BY NextStory DEF Honest, LostInWindow
<1>2. Spec => []Story
  BY AlwaysStory
<1> QED
  BY <1>1, <1>2, PTL DEF Spec, EditsLostOnlyInWindow
=============================================================================
