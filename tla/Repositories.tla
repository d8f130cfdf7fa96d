---------------------------- MODULE Repositories ----------------------------
(* Repositories, projects and the check that lets a run act on a path       *)
(* (persistence/tenancy.py, api/routes_tenancy.py, TaskService.create_run). *)
(* The API server serves one handler at a time, from its first statement to *)
(* its last; the command line is another process, and what one process has  *)
(* read the other may change before it is used.  Inside is the file tree:   *)
(* <<p, q>> when p is q or lies inside it.  check_registrable is the set    *)
(* Registrable.                                                             *)
EXTENDS Integers, FiniteSets

CONSTANTS
    Workspaces,    \* named workspaces; the implicit one needs no registration
    Paths, Inside, Registrable,
    Projects,
    MaxRuns,       \* runs at a time
    Processes,     \* who registers and starts runs: the API server, a command line
    none

Actors == {"member", "admin", "outsider", "system"}

VARIABLES
    repo,          \* the active row of each path: its workspace, or none (idx_repositories_path)
    project,       \* repositories.project_id
    owner,         \* projects.workspace_id, none before it is created
    team,          \* the project belongs to a team
    doing,         \* what each process is in the middle of
    runs           \* runs that were created: [workspace, path, actor]

vars == <<repo, project, owner, team, doing, runs>>

Nothing == [op |-> "idle", workspace |-> none, path |-> none, actor |-> none]
Overlaps(p, q) == <<p, q>> \in Inside \/ <<q, p>> \in Inside

TypeOK ==
    /\ repo \in [Paths -> Workspaces \cup {none}]
    /\ project \in [Paths -> Projects \cup {none}]
    /\ owner \in [Projects -> Workspaces \cup {none}]
    /\ team \in [Projects -> BOOLEAN]
    /\ doing \in [Processes -> [op : {"idle", "insert", "run"}, workspace : Workspaces \cup {none},
                               path : Paths \cup {none}, actor : Actors \cup {none}]]
    /\ runs \subseteq [workspace : Workspaces, path : Paths, actor : Actors]

Init ==
    /\ repo = [p \in Paths |-> none] /\ project = [p \in Paths |-> none]
    /\ owner = [j \in Projects |-> none] /\ team = [j \in Projects |-> FALSE]
    /\ doing = [x \in Processes |-> Nothing] /\ runs = {}
-----------------------------------------------------------------------------
idle(x) == doing[x] = Nothing

(* a slip: a path around a registered one is accepted *)
scan_inside(x, w, p) ==
    /\ idle(x) /\ p \in Registrable
    /\ \A q \in Paths : <<p, q>> \in Inside => repo[q] \in {w, none}
    /\ repo[p] = none
    /\ doing' = [doing EXCEPT ![x] = [op |-> "insert", workspace |-> w, path |-> p, actor |-> none]]
    /\ UNCHANGED <<repo, project, owner, team, runs>>

(* register_repository reads the active rows: refused when another workspace has an overlapping *)
(* path, nothing to do when the workspace has this one                                           *)
scan(x, w, p) ==
    /\ idle(x) /\ p \in Registrable
    /\ \A q \in Paths : Overlaps(p, q) => repo[q] \in {w, none}
    /\ repo[p] = none
    /\ doing' = [doing EXCEPT ![x] = [op |-> "insert", workspace |-> w, path |-> p, actor |-> none]]
    /\ UNCHANGED <<repo, project, owner, team, runs>>

(* ... and inserts its row; the unique index refuses a path that has an active row by now *)
register_repository(x) ==
    /\ doing[x].op = "insert"
    /\ repo' = IF repo[doing[x].path] = none
               THEN [repo EXCEPT ![doing[x].path] = doing[x].workspace] ELSE repo
    /\ doing' = [doing EXCEPT ![x] = Nothing]
    /\ UNCHANGED <<project, owner, team, runs>>

archive_repository(x, w, p) ==
    /\ idle(x) /\ repo[p] = w
    /\ repo' = [repo EXCEPT ![p] = none] /\ project' = [project EXCEPT ![p] = none]
    /\ UNCHANGED <<owner, team, doing, runs>>

assign_repository(x, w, p, j) ==
    /\ idle(x) /\ repo[p] = w /\ (j # none => owner[j] = w)
    /\ project' = [project EXCEPT ![p] = j]
    /\ UNCHANGED <<repo, owner, team, doing, runs>>

create_project(x, w, j, teamed) ==
    /\ idle(x) /\ owner[j] = none
    /\ owner' = [owner EXCEPT ![j] = w] /\ team' = [team EXCEPT ![j] = teamed]
    /\ UNCHANGED <<repo, project, doing, runs>>

set_project_team(x, w, j, teamed) ==
    /\ idle(x) /\ owner[j] = w
    /\ team' = [team EXCEPT ![j] = teamed]
    /\ UNCHANGED <<repo, project, owner, doing, runs>>

(* the innermost registered repository of w that is, or encloses, p *)
Enclosing(w, p) == {q \in Paths : repo[q] = w /\ <<p, q>> \in Inside}
repository_for_path(w, p) ==
    CHOOSE q \in Enclosing(w, p) : \A o \in Enclosing(w, p) : <<q, o>> \in Inside

(* a slip: whoever may start runs in the workspace may start them on any of its projects *)
registered_only(w, p, actor) == Enclosing(w, p) # {}

check_run_allowed(w, p, actor) ==
    /\ Enclosing(w, p) # {}
    /\ LET j == project[repository_for_path(w, p)]
       IN  (j # none /\ owner[j] = w /\ team[j]) => actor \in {"member", "admin", "system"}

(* create_run: the check is one transaction, the row another *)
check(x, w, p, actor) ==
    /\ idle(x) /\ Cardinality(runs) < MaxRuns /\ check_run_allowed(w, p, actor)
    /\ doing' = [doing EXCEPT ![x] = [op |-> "run", workspace |-> w, path |-> p, actor |-> actor]]
    /\ UNCHANGED <<repo, project, owner, team, runs>>
create_run(x) ==
    /\ doing[x].op = "run"
    /\ runs' = runs \cup {[workspace |-> doing[x].workspace, path |-> doing[x].path,
                           actor |-> doing[x].actor]}
    /\ doing' = [doing EXCEPT ![x] = Nothing]
    /\ UNCHANGED <<repo, project, owner, team>>
(* a run ends *)
Finish(r) == r \in runs /\ runs' = runs \ {r} /\ UNCHANGED <<repo, project, owner, team, doing>>

Handler(x) ==
    \/ register_repository(x) \/ create_run(x)
    \/ \E w \in Workspaces, p \in Paths :
          \/ scan(x, w, p) \/ archive_repository(x, w, p)
          \/ \E actor \in Actors : check(x, w, p, actor)
          \/ \E j \in Projects \cup {none} : assign_repository(x, w, p, j)
    \/ \E w \in Workspaces, j \in Projects, teamed \in BOOLEAN :
          create_project(x, w, j, teamed) \/ set_project_team(x, w, j, teamed)

Next == (\E x \in Processes : Handler(x)) \/ \E r \in runs : Finish(r)

Spec == Init /\ [][Next]_vars
-----------------------------------------------------------------------------
(* "A filesystem path belongs to exactly one workspace at a time (and       *)
(* nested or enclosing paths cannot belong to a different one)"             *)
(* (domain/tenancy.py): two workspaces never hold overlapping paths.        *)
PathsExclusive ==
    \A p, q \in Paths : Overlaps(p, q) /\ repo[p] # none /\ repo[q] # none => repo[p] = repo[q]

(* A run is created only on a path its workspace has registered, and on a   *)
(* repository of a team's project only for the team, an admin or the system,*)
(* as the tables are when its row appears (check_run_allowed).              *)
CreatedAllowed ==
    \A r \in runs' \ runs :
       \E q \in Paths :
          /\ repo[q] = r.workspace /\ <<r.path, q>> \in Inside
          /\ ~\E o \in Paths \ {q} : repo[o] = r.workspace /\ <<r.path, o>> \in Inside /\ <<o, q>> \in Inside
          /\ (r.actor = "outsider" /\ project[q] # none) => ~team[project[q]]

(* "A named workspace may act only on repositories it has registered"       *)
(* (docs/tenancy.md): also while its run goes on.                           *)
ActsOnRegistered == \A r \in runs : Enclosing(r.workspace, r.path) # {}
=============================================================================
