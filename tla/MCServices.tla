----------------------------- MODULE MCServices -----------------------------
(* Who may do what, and what is done with it, for TLC: inbound events,      *)
(* people, repositories, policies, plugins, connectors, approvals, model    *)
(* calls and executions. They share no state, so a behaviour is about one   *)
(* of them (focus), and they share the variables v1, v2, ... of which each  *)
(* uses the first few.                                                      *)
EXTENDS Naturals

VARIABLES focus, v1, v2, v3, v4, v5, v6, v7, v8, v9, v10, v11, v12, v13, v14, v15

vars == <<focus, v1, v2, v3, v4, v5, v6, v7, v8, v9, v10, v11, v12, v13, v14, v15>>

Endpoints == {[local |-> TRUE, schema |-> TRUE], [local |-> FALSE, schema |-> FALSE]}
MCChains == [1..3 -> Endpoints]
MCConfigs == {c \in [allow_cloud : BOOLEAN, allow_capability_downgrade : BOOLEAN,
                     structured_output : {"auto", "off", "schema"}] :
                ~(c.allow_cloud /\ c.allow_capability_downgrade)}
MCPeople == {"a", "b", "c"}
MCWorkspaces == {"wa", "wb"}
MCorg_of == [x \in MCPeople \union MCWorkspaces |-> IF x \in {"a", "c", "wa"} THEN "A" ELSE "B"]
MCInside == {<<"inner", "inner">>, <<"outer", "outer">>, <<"inner", "outer">>}

In == INSTANCE Ingress WITH
    Events <- {"e"}, Names <- {"m", "n"}, Requests <- {"q", "r"}, MaxVersion <- 2, MaxCrashes <- 1,
    stored <- v1, version <- v2, listening <- v3, waiting <- v4, enabled <- v5, started <- v6,
    request <- v7, arrived <- v8, woken <- v9, refused <- v10, raised <- v11, cut <- v12,
    crashes <- v13
Mb == INSTANCE Membership WITH
    People <- MCPeople, Workspaces <- MCWorkspaces, Teams <- {"t"}, Orgs <- {"A", "B"},
    org_of <- MCorg_of, LOCAL_WORKSPACE_ID <- "wa", Grantable <- {"OWNER", "ADMIN"}, none <- "none",
    direct <- v1, team_org <- v2, members <- v3, team_roles <- v4, tokens <- v5, req <- v6
Rp == INSTANCE Repositories WITH
    Workspaces <- {"v", "w"}, Paths <- {"inner", "outer"}, Inside <- MCInside,
    Registrable <- {"inner", "outer"}, Projects <- {"j"}, MaxRuns <- 1, Processes <- {"api"},
    none <- "none",
    repo <- v1, project <- v2, owner <- v3, team <- v4, doing <- v5, runs <- v6
Ps == INSTANCE PolicyStore WITH
    Processes <- {"p", "q"}, MaxVersions <- 3,
    rows <- v1, pc <- v2, doc <- v3, version <- v4, refused <- v5
Pl == INSTANCE Plugins WITH
    Hosts <- {"server", "cli"}, Calls <- {"c", "d"}, Versions <- {1, 2}, QUARANTINE_AFTER <- 3,
    MaxRestarts <- 2,
    row <- v1, trusted <- v2, installed <- v3, found <- v4, live <- v5, calls <- v6, restarts <- v7
Ig == INSTANCE Integrations WITH
    Processes <- {"p", "q"}, MaxStamp <- 2, MaxKey <- 2,
    row <- v1, secret <- v2, env <- v3, cache <- v4, op <- v5, stamp <- v6, raced <- v7
Co == INSTANCE ConnectorActions WITH
    PAGE <- 2, MaxThread <- 4, MaxTries <- 3,
    kind <- v1, target <- v2, thread <- v3, fresh <- v4, flying <- v5, at <- v6, granted <- v7,
    tries <- v8, result <- v9, blind <- v10, unindexed <- v11
App == INSTANCE Approvals WITH
    Requests <- {"q", "r"}, Commands <- {"safe", "wild", "bad"}, Grantable <- {"safe"},
    Blocked <- {"bad"}, Denied <- {}, MaxCrashes <- 1,
    status <- v1, decision <- v2, command <- v3, edited <- v4, late <- v5, grants <- v6, pc <- v7,
    req <- v8, cmd <- v9, event <- v10, result <- v11, cancelled <- v12, crashes <- v13, ran <- v14,
    acted <- v15
Mod == INSTANCE ModelCalls WITH
    Chains <- MCChains, Configs <- MCConfigs, max_model_calls <- 2, max_retries <- 3,
    format_repair_attempts <- 1,
    chain <- v1, cfg <- v2, pc <- v3, at <- v4, attempt <- v5, overflow_retries <- v6,
    constrain <- v7, attempts_left <- v8, reply <- v9, model_calls <- v10, retries <- v11,
    unreliable <- v12
Exe == INSTANCE Execution WITH
    Policies <- {"on_green", "on_no_regression", "always", "never"}, max_commands <- 3,
    max_patch_attempts <- 2, max_repair_rounds <- 1, MaxFaults <- 2,
    Rewritings <- {"rewritten", "leaky", "base"},
    policy <- v1, read_only <- v2, status <- v3, at <- v4, step <- v5, ctx <- v6, cp <- v7,
    local <- v8, faults <- v9, spent <- v10, landed <- v11

Init ==
    \/ focus = "ingress" /\ In!Init /\ v14 = 0 /\ v15 = 0
    \/ focus = "membership" /\ Mb!Init /\ v7 = 0 /\ v8 = 0 /\ v9 = 0 /\ v10 = 0 /\ v11 = 0 /\ v12 = 0 /\ v13 = 0 /\ v14 = 0 /\ v15 = 0
    \/ focus = "repositories" /\ Rp!Init /\ v7 = 0 /\ v8 = 0 /\ v9 = 0 /\ v10 = 0 /\ v11 = 0 /\ v12 = 0 /\ v13 = 0 /\ v14 = 0 /\ v15 = 0
    \/ focus = "policies" /\ Ps!Init /\ v6 = 0 /\ v7 = 0 /\ v8 = 0 /\ v9 = 0 /\ v10 = 0 /\ v11 = 0 /\ v12 = 0 /\ v13 = 0 /\ v14 = 0 /\ v15 = 0
    \/ focus = "plugins" /\ Pl!Init /\ v8 = 0 /\ v9 = 0 /\ v10 = 0 /\ v11 = 0 /\ v12 = 0 /\ v13 = 0 /\ v14 = 0 /\ v15 = 0
    \/ focus = "integrations" /\ Ig!Init /\ v8 = 0 /\ v9 = 0 /\ v10 = 0 /\ v11 = 0 /\ v12 = 0 /\ v13 = 0 /\ v14 = 0 /\ v15 = 0
    \/ focus = "connectors" /\ Co!Init /\ v12 = 0 /\ v13 = 0 /\ v14 = 0 /\ v15 = 0
    \/ focus = "approvals" /\ App!Init
    \/ focus = "calls" /\ Mod!Init /\ v13 = 0 /\ v14 = 0 /\ v15 = 0
    \/ focus = "execution" /\ Exe!Init /\ v12 = 0 /\ v13 = 0 /\ v14 = 0 /\ v15 = 0
Next ==
    \/ focus = "ingress" /\ In!Next /\ UNCHANGED <<focus, v14, v15>>
    \/ focus = "membership" /\ Mb!Next /\ UNCHANGED <<focus, v7, v8, v9, v10, v11, v12, v13, v14, v15>>
    \/ focus = "repositories" /\ Rp!Next /\ UNCHANGED <<focus, v7, v8, v9, v10, v11, v12, v13, v14, v15>>
    \/ focus = "policies" /\ Ps!Next /\ UNCHANGED <<focus, v6, v7, v8, v9, v10, v11, v12, v13, v14, v15>>
    \/ focus = "plugins" /\ Pl!Next /\ UNCHANGED <<focus, v8, v9, v10, v11, v12, v13, v14, v15>>
    \/ focus = "integrations" /\ Ig!Next /\ UNCHANGED <<focus, v8, v9, v10, v11, v12, v13, v14, v15>>
    \/ focus = "connectors" /\ Co!Next /\ UNCHANGED <<focus, v12, v13, v14, v15>>
    \/ focus = "approvals" /\ App!Next /\ UNCHANGED <<focus>>
    \/ focus = "calls" /\ Mod!Next /\ UNCHANGED <<focus, v13, v14, v15>>
    \/ focus = "execution" /\ Exe!Next /\ UNCHANGED <<focus, v12, v13, v14, v15>>
Spec == Init /\ [][Next]_vars
-----------------------------------------------------------------------------
(* Webhooks and workflow starts (connectors/webhooks.py,                    *)
(* workflows/ingress.py): what is stored is genuine, an event starts one    *)
(* version of a definition, the recorded outcome is what happened, and only *)
(* a crash leaves a delivery undecided.                                     *)
EventsAreHandledOnce ==
    \* routes_hooks.receive: a row of inbound events exists only for what a provider
    \* sent; a forged request uses up no external id.
    /\ (focus = "ingress" => In!OnlyGenuineStored)
    \* An event starts at most one version of a workflow, however often it is delivered
    \* and whatever is saved meanwhile.
    /\ (focus = "ingress" => In!OneVersionPerEvent)
    \* record_outcome: STARTED started or woke a workflow run and IGNORED touched none,
    \* unless routing raised.
    /\ (focus = "ingress" => In!OutcomeIsTrue)
    \* Only a crash leaves an accepted event without an outcome, and one request routes
    \* it.
    /\ (focus = "ingress" => In!LimboOnlyByCrash)
    \* A broken workflow does not stop the event from reaching the others.
    /\ (focus = "ingress" => In!ReachesTheOthers)

(* Roles and repositories (persistence/tenancy.py, api/tenancy.py): a role  *)
(* reaches only into its own organisation, owners are made by owners, a     *)
(* path has one registration, and a run is created only where it may be.    *)
AccessIsBounded ==
    \* persistence/tenancy.py: nobody holds a role in a workspace of another
    \* organisation, whichever way it came about.
    /\ [](focus = "membership" => Mb!OrgBounded)
    \* may_grant: a request makes somebody owner or admin only when it was authenticated
    \* as an owner there.
    /\ [][focus = "membership" => Mb!OnlyOwnersPromote]_vars
    \* register: overlapping paths belong to one workspace, as long as one process
    \* registers.
    /\ [](focus = "repositories" => Rp!PathsExclusive)
    \* check_run_allowed: a run is created only on a path its workspace has registered,
    \* and on a project's repository only for its team.
    /\ [][focus = "repositories" => Rp!CreatedAllowed]_vars

(* Policies, plugins and integrations: what the operator last stored is     *)
(* what is in force, a plugin that misbehaves is stopped and runs only when *)
(* enabled and granted, and a cached provider or a secret follows its row.  *)
OperatorsWordHolds ==
    \* policies.put: at most the newest version is in force, and no version is skipped
    \* or comes back.
    /\ [](focus = "policies" => Ps!NewestIsInForce)
    \* runtime/policy.store: a put that raised, also after its writes, left everything
    \* as it was.
    /\ [][focus = "policies" => Ps!RefusedChangesNothing]_vars
    \* PluginHost.invoke: failures recorded and calls under way exceed the threshold
    \* only by calls that were already running.
    /\ [](focus = "plugins" => Pl!MisbehaviourIsBounded)
    \* record_outcome, save: a plugin that is on has not reached the threshold, whatever
    \* late answers come.
    /\ [](focus = "plugins" => Pl!EnabledBelowThreshold)
    \* Once off, only enabling turns a plugin on; a late answer does not.
    /\ [][focus = "plugins" => Pl!OffUntilEnabled]_vars
    \* restore: an instance brought back is of the version somebody granted permissions
    \* to.
    /\ [][focus = "plugins" => Pl!RestoredIsGranted]_vars
    \* IntegrationService: a connector from the cache has the configuration of the row
    \* it is looked up for.
    /\ [](focus = "integrations" => Ig!CacheIsFresh)
    \* Unless two processes raced on the row, its secret exists exactly as long as the
    \* row refers to it.
    /\ [](focus = "integrations" => Ig!SecretFollowsRow)
    \* A process with every key the server ever used can read what was stored before a
    \* rotation.
    /\ [](focus = "integrations" => Ig!RotationKeepsSecrets)
    \* test_connection never connects what an operator disabled, unless the two raced.
    /\ [][focus = "integrations" => Ig!TestRespectsDisabled]_vars

(* Approvals and connector actions: what ran was approved, the first answer *)
(* stands and is the one acted on, an action writes only with its grant,    *)
(* and a retry repeats an effect only when the search missed it.            *)
EffectsAreGranted ==
    \* RunStateMachine._exec: what had to be asked about ran because somebody approved
    \* exactly that, or approved it for the run.
    /\ [](focus = "approvals" => App!RanMeansApproved)
    \* approvals.decide, expire: once a request is decided or expired, nothing changes
    \* its row.
    /\ [][focus = "approvals" => App!AnswerStands]_vars
    \* _request_approval: the run acts on what the row says, whichever of decision,
    \* timeout and other process came first.
    /\ [][focus = "approvals" => App!FollowsTheRow]_vars
    \* perform: an object that carries the key exists once, however often it is
    \* attempted, unless a search missed it.
    /\ [](focus = "connectors" => Co!OnceUnlessMissed)
    \* perform: what is reported created or found is there.
    /\ [](focus = "connectors" => Co!ReportedIsThere)
    \* check_grant: every request of a write follows a valid grant of its attempt.
    /\ [][focus = "connectors" => Co!WritesAreGranted]_vars

(* The run state machine and its model calls: a promoted patch was judged   *)
(* as the policy demands, a secret and a read-only run write nothing, and   *)
(* requests stay within their budgets, their mode and the failover          *)
(* agreement.                                                               *)
ExecutionKeepsItsWord ==
    \* The types of what runs and calls keep, with the limits of their counters.
    /\ [](focus = "approvals" => App!TypeOK)
    /\ [](focus = "calls" => Mod!TypeOK)
    /\ [](focus = "execution" => Exe!TypeOK)
    \* _finalize_patch: without a person's consent, what reaches the repository is what
    \* the verdict, the review and the scan were about, or what a command of the tests has
    \* made of it since.
    /\ [](focus = "execution" => Exe!PromotedIsJudged)
    \* promote_policy: on_green lets no failing test through unasked, on_no_regression
    \* none that passed before, across repairs, crashes and resumes; of the contents the
    \* tests saw.
    /\ [](focus = "execution" => Exe!PolicyKeepsItsWord)
    \* The secret scan: a patch in whose diff it finds a secret never reaches the
    \* repository, whoever approves and wherever the run is resumed.
    /\ [](focus = "execution" => Exe!SecretNeverLands)
    \* A task read as read-only leaves workspace and repository alone.
    /\ [](focus = "execution" => Exe!ReadOnlyWritesNothing)
    \* call_with_retry: whatever fails, one completion sends at most max_attempts + 2
    \* requests to a target.
    /\ [](focus = "calls" => Mod!SendsAreBounded)
    \* failover.check: a local run's prompt stays local and a constrained call stays
    \* constrained along the whole chain, unless configured otherwise.
    /\ [](focus = "calls" => Mod!FailoverKeepsAgreement)
    \* RunBudget: retries and model calls stay within their limits across all calls and
    \* targets.
    /\ [](focus = "calls" => Mod!BudgetsHold)
    \* structured_output "off" never constrains, and "schema" drops the constraint only in
    \* a format repair, for an endpoint another run of the process found unreliable.
    /\ [][focus = "calls" => Mod!ModeIsKept]_vars
=============================================================================
