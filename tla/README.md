# PatchQuest in TLA+

PatchQuest executes *runs*: an agent works on a repository in phases, asks people for
approval, and promotes its patch. Around the runs there are workflows, schedules,
webhooks and outbound calls, connectors, policies, plugins, memories and calendars.
Nearly all of it is rows of a database that several processes share, and any process
may stall or die between two transactions. This directory models the parts where that
matters and the pure decisions the rest relies on. TLC checks them on small instances;
TLAPS proves the most important properties for every instance. Paths below are relative
to `backend/patchquest`.

## The system and its modules

One transaction, one request or one step of a handler is one action. Every module says in
its header what it leaves out; `PROJECT.json` maps each definition to its lines.

| part of the system | module | what makes it hard |
|---|---|---|
| statuses of a run (`domain/runs.py`) | `RunStatus` | a change that was legal when planned is not when made |
| queue, leases, workers, fenced transactions, task service, startup recovery (`runtime/queue.py`, `runtime/worker.py`, `database.py`, `application/service.py`, `recovery.py`) | `RunQueue`; `RunOwnership` is the promise it implements | stalled workers, expiry, plans read before the transaction that uses them |
| promotion of a patch and resuming (`patching/engine.py`, `runtime/resume.py`, `runtime/workspace.py`) | `Promotion` | crashes between two files, people editing them |
| phases, checkpoints, budgets (`orchestrator/state_machine.py`) | `Execution` | a phase repeated after a crash, repairs after the judgement, tests that rewrite files |
| approvals (`persistence/approvals.py`) | `Approvals` | a decision racing its timeout, in another process |
| calls to models (`agents/roles.py`, `providers/failover.py`) | `ModelCalls`, `Replies` | loops within loops that share budgets; replies cut anywhere |
| forks and replays (`runtime/lineage.py`, `agents/providers_recorded.py`) | `Lineage` | a child that dies before its first checkpoint, answers that were not recorded |
| checkpoints, ledger, import (`persistence/checkpoints.py`, `portability.py`) | `History` | damaged rows; new ids for old references |
| event stream (`application/service.py`, `orchestrator/event_bus.py`) | `EventStream` | the gap between replay and live events, a full queue |
| sandboxed commands (`execution/executor.py`, `runtime/docker_runtime.py`) | `Sandbox` | children that outlive the command and hold its pipes |
| workflow engine and definitions (`workflows/engine.py`, `domain/workflows.py`) | `Workflow`, `WorkflowGraph` | crashes between an effect and its record; events during a pass |
| scheduler (`scheduler/`) | `Scheduler`, `Slots` | running by hand beside the loop, a server that dies in between |
| inbound webhooks (`connectors/webhooks.py`, `api/routes_hooks.py`) | `Ingress`, `Deliveries` | duplicates, a new version while the old one starts |
| outbound deliveries (`connectors/outbound.py`) | `Outbound` | leases that lapse during a request |
| connectors (`connectors/*.py`) | `ConnectorActions`, `Deliveries` | lost responses, searches that do not see yet |
| policy and disclosure (`domain/policy.py`, `runtime/policy.py`, `runtime/egress.py`) | `Policy`, `PolicyStore` | concurrent versions; the order of a chain |
| plugins (`plugins/host.py`, `persistence/plugins.py`) | `Plugins` | answers that come after a plugin was disabled |
| integrations and secrets (`integrations/service.py`, `secrets_store.py`) | `Integrations` | caches and rows of two processes, rotation of keys |
| tenancy (`persistence/tenancy.py`, `api/auth.py`) | `Membership`, `Repositories` | long sequences of grants; roles read earlier |
| memory and context (`persistence/memories.py`, `runtime/memory_service.py`, `context/builder.py`) | `Memory`, `Context` | two writers of a key, authority of sources |
| repository profile (`runtime/repo_profile.py`) | `RepoProfile` | manifests changing, and changing back, while they are read |
| calendar (`calendar/`) | `Calendar`, `Slots` | deletions between listing and updating |
| migrations and backups (`persistence/migrations.py`, `backup.py`) | `Migrations`, `Backups` | processes of two releases starting together |
| edits, diffs, commands (`patching/`, `tools/`) | `Edits`, `Commands` | quoting, repeated text, files that moved on |
| evaluation, traces, datasets (`evaluation/`, `observability/`, `rl/`) | `Evaluation`, `Gym` | figures at their boundaries, episodes that end early |

`Policy`, `WorkflowGraph`, `Deliveries`, `Slots`, `Edits`, `Commands`, `Context`,
`Evaluation` and `Replies` are operators without state. The others are state
machines. How components interact is modelled where the code makes them share state: the
queue with the service, workers, fences and executions (`RunQueue`); promotion with
journal, checkpoints, resume and leases (`Promotion`); the workflow engine with agent runs,
approvals and events (`Workflow`, whose definitions are those of `WorkflowGraph`); webhooks
with stored workflow versions (`Ingress`); model calls with the classification of failures
(`classify` and `decide` of `Replies`, which `ModelCalls` extends).

Instances for TLC: `MCRunQueue`, `MCPromotion`, `MCWorkflow`; `MCServices`, `MCRecords` and
`MCLive` hold components that share nothing, so that a behaviour is about one of them (its
`focus`); `MCRules` picks one input of one pure rule per behaviour.

How `RunQueue` corresponds to the code:

| model | code |
|---|---|
| `status`, `attempt`, `lease_owner`, `lease_epoch` | columns of `runs` |
| `lease_expired` | `lease_expires_at < now`; `Expire` may happen whenever a lease is held |
| `before` | the order of `queued_at` |
| `log` | what the ledger's order shows: last and highest attempt, last fenced writer |
| `machines` | the `RunStateMachine`s with a task, in any process; `epoch` is the fence |
| `loop`, `held` | the position of `Worker.run_forever` and its `Claim` |
| `plan` | local variables of `TaskService.resume` between its transactions |
| `up` | API servers and command-line processes that run |

In `RunQueue` phases are the repeated step `Emit`, approvals end by themselves, and restoring
a checkpoint is the time between `Launch` and `Begin`; `Execution` and `Approvals` have the
phases and the approvals.

How `Promotion` corresponds to the code:

| model | code |
|---|---|
| `repo` | the files of the patch in the real repository, as a text and the number of times its line ends were converted; equal contents are equal hashes |
| `Crlf`, `Stored` | files whose lines end in CRLF, and what `_write` leaves of a content: `promote` and `revert_partial_promotion` hand over the bytes as text, and each `\n` becomes `\r\n` once more |
| `journal` | the last `promotion_started` with its manifest, and the event that closed it |
| `checkpoint` | the newest valid checkpoint: before the patch, of the patch, after the last phase |
| `holder` | the execution whose transactions the fence lets through |
| `ex[p].pc` | `begin` to `finish`: `_execute`; `check`, `write`, `undo`: `apply_changes`; `revert`, `commit`: `resume` |
| `ex[p].told` | `cancel` or `abandon` was called on the machine |
| `since`, `edits`, `asked` | history: files edited since `p` compared them, edits so far, a person confirmed a resume |

`apply_changes` runs in a thread, so neither a cancel nor the fence reaches it. `Crash` may
happen anywhere and tears a file only in `rollback`, which writes in place. Exceptions of
`promote` other than `OSError` are left out.

In the other modules variables have the names of columns, attributes and locals where they
stand for them. Variables that only remember what happened (`fired`, `posts`, `landed`,
`raced`, `cut`, `gone`, `began`, ...) are history: no guard reads them except a bound. What a model
answers, a test prints, a service returns or a person decides is a choice.

## Runs

| run | instance | shows |
|---|---|---|
| `queue_pool` | 1 run, 2 workers, 1 server, 3 attempts | `LeaseMatchesStatus`, `OneWriter`, `MachineKnowsStatus`, and that the pool implements `RunOwnership` |
| `queue_in_process` | 2 runs, 1 server without queue mode | one executor per run without any fence |
| `queue_live` | endless runs, 2 at a time, 2 workers | `QueuedIsClaimed`, `ExpiredIsTakenBack` |
| `promotion_server` | 2 files, 1 process, 3 attempts, 2 edits | one of the files with CRLF: the journal accounts for the repository, `applied` means landed (as `_write` stores it), a landed patch is neither written nor begun again, uncertainty goes to a person, edits are lost only between comparison and write |
| `promotion_pool` | 1 file, 2 workers, 2 attempts | a replaced execution does not close its successor's promotion nor add to an ended run |
| `workflow` | 6 definitions, 2 visits, 2 tries, 2 crashes, lost responses | no write without its approval, effects once per visit, ended runs stay quiet, runs come to rest |
| `services` | ten components, 2 processes or requests each | `EventsAreHandledOnce`, `AccessIsBounded`, `OperatorsWordHolds`, `EffectsAreGranted`, `ExecutionKeepsItsWord` |
| `records` | eight components | `PeoplesWordStays`, `HistoryIsKept`, `StorageSurvives`, `RewardsAddUp` |
| `live` | seven components, with fairness | `WorkIsCounted`, `NothingIsLeftBehind`, `WorkEnds` |
| `rules` | all inputs of a few characters, nodes, rows or figures | eight groups of rules, among them `PoliciesOnlyTighten`, `DefinitionsAreSound`, `EditsAreExact`, `CommandsAreJudged` |
| `promotion_cancel_crash` | violation | cancel, then a crash between two files: `cancelled`, half patched, not resumable |
| `queue_release_strands` | violation | a task that raised early has its lease released; the run stays `running` |

Each property of `services`, `records` and `live` is a conjunction with one commented line
per promise of a component (`Plugins!OffUntilEnabled`, `Lineage!ReplaysNeverWrite`, ...);
the mutants break each component's promises one by one.

Bounds. In the queue `MaxAttempt` is the only counter bound: an epoch grows only with a
claim, and claims of a run need a resume. Three attempts let a worker be replaced twice, so
that a fence two claims old exists. Runs share nothing in the safety properties, so one is
enough for the pool; ordering in the queue needs two. For promotion two files are the least
that can be half written, three attempts allow a resume of a resume, two edits let a person
change a file and put it back; the pool asks only who may write the journal. In the composed
runs two processes are the least that can race and every race of the code is between two;
`MaxCrashes`, `MaxFaults` and `MaxRestarts` of 1 or 2 allow a crash and one during its
recovery; ledgers and queues are one longer than the limit they meet (`QUEUE_MAX`, `PAGE`,
`PIPE`, `QUARANTINE_AFTER`). `CHECK_DEADLOCK` is off: when everything has ended and the
bounds are reached the system rightly stops.

Fairness. Queue: weak fairness of `claim` per worker, since `run_forever` polls until it is
told to stop; workers may die, so each liveness property assumes one that keeps polling.
Workflow: weak fairness of a pass, of its handlers and of restarting, strong fairness of
reconciliation, which needs the lock and may be interrupted. `live`: requests have timeouts (`AttemptsEnd`, `RequestsEnd`); the scheduler's loop polls and its
runs end (`LoopPolls`); a generator runs while its client reads (`ClientReads`); timers fire
(`TimersFire`); the event loop drives an execution (`LoopRuns`); the operating system runs the
executor, its reader thread and its deadline (`SystemRuns`). People, crashes and providers are
never assumed to act, with the one exception that an unanswered request times out. Two things
the program does not guarantee are therefore not assumed. Nothing in it calls `deliver_due`
(only tests do), so that a delivery becomes final is stated under the condition that somebody
polls (`Polled`, part of the property). An interrupted run is resumed by a person
(`api/routes_runs.py`, `cli.py`), so the property of executions is that one that runs comes to
its end, to an interruption or to a crash, and nothing is said about when it goes on.

## Statements the code does not keep

The two violation runs are quoted in `PROJECT.json`. The following properties are stated in the
modules beside the others; TLC refutes each on an instance like those of the runs (with leases,
a command-line process or an endless supply of runs where the table says so). None is part of a
run.

| property | says | the code |
|---|---|---|
| `RunQueue!AttemptsNeverGoBack` | `runtime/replay.py:70` | requeueing records attempt 1 after the new attempt |
| `RunQueue!OnlyDeadRunsRecovered` | `recovery.py:3` | a starting server interrupts a run a command-line process executes |
| `RunQueue!ExpiredIsTakenBackUnderLoad` | `docs/operations.md:11` | expired leases wait while anything is queued |
| `Promotion!NewIsWhatItHolds` | `runtime/workspace.py:140` ("the one it will have afterwards") | a promoted CRLF file has other line ends than the manifest says, and no reconciliation by hashes finds it landed |
| `Promotion!EditsLostOnlyInWindow` without its exceptions | `docs/failure-recovery.md:53` ("never overwritten") | an edit between the comparison of the files and the write, or during a rollback, is overwritten |
| `Promotion!LandedIsReconciled` | `docs/failure-recovery.md:51` | a resumed run asks again about a patch that landed, and may end `rejected` |
| `Promotion!PromotedOnce` with leases | `docs/runtime.md:23` | a replaced execution rolls files back after the promotion completed |
| `Workflow!CompletedMeansFollowed` | `docs/workflows.md:47` | a crash between success and firing of the edges leaves a branch unfollowed |
| `Workflow!NeverRepeated` | `runtime/retry.py:9` | an action whose response was lost is tried again in the same call |
| `EventStream!NothingMissed` | `application/service.py:423` | events of other processes are passed over when the cursor moves on |
| `Execution!ConsumptionSurvives` | `docs/runtime.md:51` | what was consumed since the last checkpoint is forgotten |
| `Execution!PromotedIsReviewed` | `docs/security.md:92` | a test command may rewrite the workspace after the diff was taken, and `promote` writes what the files hold then |
| `ModelCalls!SchemaNeverFallsBack` | `config.py:196` ("never fall back") | a format repair drops the constraint for an endpoint that a run in mode auto found unreliable; the set is one of the process |
| `ModelCalls!OnlyOffendersBlamed` | `config.py:194` | after a failover the first endpoint of the chain is remembered for a reply of another |
| `Outbound!NeverPastTheCap` | `connectors/outbound.py:5` | only a failure that is caught is compared with the cap |
| `ConnectorActions!NoDuplicateOnceIndexed` | `connectors/github.py:8` | one page of comments is read, and the comment may be on another |
| `Plugins!RunsWhatWasEnabled` | `docs/plugins.md` | a process that finds another version installed calls that one |
| `Memory!DeadRecordsLose` | `docs/memory.md` | a record past its time still refuses a weaker one until somebody marks it |
| `RepoProfile!ProfileUpToDate` | `runtime/repo_profile.py:237` | what is detected can change while the fingerprint stays |
| `RepoProfile!InputsAreCovered` | `runtime/repo_profile.py:71` ("changes when profile inputs change") | without a manifest the test commands depend on the files in `tests/` and on whether pytest can be imported |
| `Lineage!RecordedAnswersInOrder` | `docs/replay.md` | not when one of the runs was resumed, or when an answer could not be recorded: `_record` logs that and goes on (`ReplaysInOrder` excepts both) |
| `History!ImportIsConsistent` | `tests/integration/test_portability.py:56` | the import of a resumed run ends with an event of attempt 1 |
| `Backups!KeptForGood` | `backup.py:106` | what an open connection commits while a restore moves the files is in none of them |
| `Migrations!BackupIsBefore` | `persistence/migrations.py:5` | of two processes that start together without a lock, the second backs up what the first has changed |
| `MCRules!NeverMoreThanCeiling` | `runtime/policy.py`, `clamp_overrides` | a ceiling of zero, and zero for settings not listed as unlimited |
| `MCRules!AppliedOrRefused` | `patching/edits.py` | an edit may succeed and change nothing |
| `MCRules!InsertedWhereItSays` | `patching/unified.py:5` | an insertion without context is put elsewhere than after its line |
| `MCRules!FileIsTheTarget` | `patching/unified.py:5` ("never a guess") | a diff that only adds the final newline changes nothing, and in a file with lines added above, a later hunk is looked for without the offset of an earlier one and may match elsewhere |
| `MCRules!AsksBeforeRewriting` | `tools/command_risk.py` ("rewrites files") | `black`, `isort` and `ruff` as modules of python, and `ruff check --fix`, run unasked |
| `MCRules!WithinBudget` | `context/builder.py:5` ("cut to a budget") | a file is redacted after it was cut, and redaction may make it longer |
| `MCRules!CronMeansItsFields`, `NextIsLater` | `scheduler/schedule_calculator.py:1` | without croniter, which is no dependency, any hour means 9, a step means an hour from now, and days are ignored; an interval of 0 is accepted and not later than now |
| `MCRules!RepliesAreHandled` | `agents/roles.py:289` | a reply that is JSON and no object raises |
| `MCRules!PromptFits` | `agents/budget.py:1` | blocks keep their least size |
| `MCRules!WeaknessIsTheModels`, `NoOrphans`, `CostOnlyIfPriced`, `UntestedEarnsNothing`, `DatasetIsOrderFree`, `NeverReasoning` | comments and tests beside the functions | boundary cases of attribution, traces, prices, rewards, order and reasoning text |

Behaviours the models also have: two resumes planned at once may use one attempt number; a
worker that dies before `release` leaves a lease on a finished run; the cancel of a fork that
has not begun is in no row; in the pool an execution abandoned in the last moment writes
without a journal entry; an update of a CalDAV event is a deletion and a creation; two
processes that register paths at once both succeed (`PathsExclusive` is checked with one); a
server that dies between the row of a scheduled run and its history row fires the slot again,
because the recovery makes the task active, and one that dies later leaves a history row open
which keeps the task from running until somebody closes it; a layout that changes and changes
back during a detection leaves an outdated profile under a current fingerprint; and a name that
resolves to another address when a request connects than when it was checked reaches that
address (`connectors/ssrf.py:7` says so; `HopsAreGuarded` is about the addresses checked).

Coarser than the code: `Plugins!restore` and `enable`
are one step each, where the code starts a plugin before or after the transaction that stores
its state. `Gym!Oracle` looks at the same measure as the visible tests, where the code runs
hidden ones on a copy. `Evaluation!compare` leaves out the refusal of another corpus's results.

## Proofs

All theorems hold for every value of the constants that satisfies the named assumptions.

- `RunQueueProofs`, in a pool (`PoolDeployment`: queue mode, at most one API server, no
  command-line executions). `PoolSafety`: `TypeOK`, `LeaseMatchesStatus`, `OneWriter` and
  `MachineKnowsStatus`; `WaitingRunsAreUnleased` and `WritersKnowTheStatus` state two of them
  by themselves. `PoolImplementsOwnership`: `Spec` implements `RunOwnership`. None of the four
  is inductive; the strengthening adds what worker loops, held claims, plans of resumes and
  fenced executions know about the lease. One lemma per action; the refinement maps each
  action to a step of `RunOwnership` or a stutter.
- `RunQueueProofs`, in one server that executes runs itself (`ServerDeployment`: no queue mode,
  no workers, no command-line executions). `OneExecutionPerRun`: `OneWriter` and
  `MachineKnowsStatus`, where no lease keeps two executions apart. The strengthening of the pool
  holds here too, except that `ResumeHere` starts an execution; for that step it needs
  `PlansAlone`: a run whose resume is planned is executed by nobody until the plan is carried
  out, although planning and committing are separate transactions.
- `PromotionProofs`, with any processes: `PromotionsAreSettledByTheirStarter` and
  `EndedRunsStay`, from the invariant `Fence`: the holder's run is live, and an execution that
  may still write the journal has its own promotion in it.
- `PromotionProofs`, with one process (`OneProcess`; with leases most of this is false, see the
  table above): `JournalAlwaysCovers`, `NeverWrittenTwice`, `AppliedRunsLanded`,
  `UncertainRunsAreAsked`, `LandedPatchesAreNotRerun`, `EditsSurviveOutsideTheWindow`, for any
  set of files with CRLF: a file holds the journal's content as `_write` stores it. The
  invariant is `Story`. Its parts: `Cover` (every patch in the files is the journal's, and what
  each execution knows of checkpoint and journal at its position), `Done` (nothing follows a
  completed promotion), `Course` (which checkpoint goes with which position), `Compared` (a
  file being written holds what was compared or what is put there, unless edited since), `Pending` (an execution that
  is on its way to promote has not been told, by the hashes, that the patch landed, and goes on
  over half a patch only after a person was asked) and `Landing` (without edits, whoever
  claims that the patch landed is right). They need each other: that a claim is right
  rests on what was compared, and that on where the execution came from. The proof first
  says, field by field, what each step does (`Moves`), and then shows each part for each move,
  so that no part is proved against the whole of an action.
- `WorkflowProofs`, for any definitions that `parse` accepts (`DefinitionsAssumption`), any
  number of visits, tries and crashes, with lost responses: `WritesWereApproved`
  (`GateHolds`, when unapproved writes are switched off), `StepsActOnce` (`MadeOnce`),
  `EndedRunsAreQuiet` (`EndedIsQuiet`), `EngineStaysTyped` (`TypeOK`). The invariant is
  `EngineInv`: the rows fit together (`Fits`: nothing has been made for a visit later than a
  node's newest row, nor for a pending one unless it may be repeated), every row that a pass
  still holds is *known* (`Queued`, `Known`: its node has the same row still, or a later one),
  and the coroutine with the lock knows why it may go on (`Held`: the gate was given, the
  visit has made nothing yet, the run has not ended). `Known` is what lets a handler, after
  an await, write to a row that a decision, an event or a cancel may have changed meanwhile;
  it is kept because every helper only lets ids and visits grow (`Follows`, `Leads`).
- `Approvals`: `OnlyApprovedRuns`, `AnswersStand`, `RunActsOnTheRow`. The invariant ties the
  waiter's position to the row it waits for and the command it holds.
- `Membership`: `RolesStayInOrg`. Teams have one organisation, their members belong to it, and
  roles of teams lie in it. `PromotionNeedsAnOwner`, from the same invariant and the type of
  what a request read of its principal: a stronger effective role is a role that was not held
  before, and that comes from a grant or from joining a team; the first asks for an owner by
  `may_grant`, the second by the permission to manage the organisation.
- `Outbound`: `RequestsAreCounted`, `FinishedStays`. A sender in flight holds a counted
  attempt; without a lapsed lease there is one sender. `AttemptsAreCapped`, for a positive
  `max_attempts`: a delivery that may yet be claimed has an attempt left, and its one sender
  compares the cap with the count as it is (`Capped`).
- `Plugins`: `FailingIsStopped`, `OnlyEnableTurnsOn`, `StartedIsGranted`. Failures and calls
  under way are bounded together, which needs the cardinality of the calls.
- `PolicyStore`: `OnlyTheNewestIsInForce`. Versions have no gaps, and a writer in its
  transaction has read the newest. `MorePoliciesOnlyTighten`, `OneDenialDenies`: lemmas about
  `evaluate` of `Policy` as a maximum of strictness over the policies that speak.

The invariants `Story`, `EngineInv` and `PlansAlone` were checked with TLC on the instances of
`promotion_server`, `workflow` and `queue_in_process` before they were proved. The proofs name `Zenon` where that
prover is the one that finds the step; each module is proved in less than half an hour, most in
a minute.

Only model-checked:

- liveness: `QueuedIsClaimed`, `ExpiredIsTakenBack`, `ComesToRest`, `WorkEnds`. Fairness and
  ENABLED are outside the prover's reach;
- the groups of `services`, `records`, `live` and `rules`. Of the components in them
  `Approvals`, `Membership`, `Outbound`, `Plugins` and `PolicyStore` have theorems, about their
  own specification; the group as TLC checks it also names components without one, so no
  theorem states a whole group;
- what recursive functions compute (`Edits`, `Commands`, `Replies`, `Slots`, ...), which would
  need induction over data.

Refuted statements need no proof.

## Not modelled

- Text: prompts, messages, reports, templates, request bodies, archives, and redaction but for
  what it adds to the length of a file.
- Drivers and adapters: PostgreSQL dialect and pooling, HTTP transport, subprocess pipes of
  plugins, the calendar and search providers' requests, docker's own command line, most HTTP
  routes, the command line, configuration, diagnostics, the frontend.
- Parsing by grammar and tables: plugin manifests, tree-sitter extractors, the symbols of the
  code index and its cache, manifests of repositories, catalogs and constant workflow
  definitions. The cache and the rate limit of a search in one process.
- Code nothing calls any more (`memory/code_graph.py`, `memory/memory_store.py`,
  `memory/invalidation.py`, parts of `tools/`), demos and fixtures.
- Real time: deadlines, leases and delays are flags that may become true, or small counters.
- Two workflow engines on one database: the engine's lock is one of its process.
