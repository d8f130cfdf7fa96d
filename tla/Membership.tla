----------------------------- MODULE Membership -----------------------------
(* Who may do what: roles and permissions (domain/identity.py), direct and  *)
(* team roles (persistence/identity.py, persistence/tenancy.py), tokens,    *)
(* and the requests that manage teams (api/auth.py, api/routes_tenancy.py). *)
(* A request reads its principal when it is authenticated and uses it when  *)
(* its handler runs; other requests may be served in between.               *)
EXTENDS Integers, FiniteSets, TLAPS

CONSTANTS
    People, Workspaces, Teams, Orgs,
    org_of,                \* the organisation of each person and workspace
    LOCAL_WORKSPACE_ID,    \* the workspace of single-user mode
    Grantable,             \* the roles requests ask for
    none

VARIABLES
    direct,        \* memberships: role of a person in a workspace, or none
    team_org,      \* teams.org_id; none before the team is created
    members,       \* team_members
    team_roles,    \* role of a team in a workspace, or none
    tokens,        \* people with a token that is not revoked; one that has expired does not authenticate
    req            \* the request being served: who asked, and the roles read for them

vars == <<direct, team_org, members, team_roles, tokens, req>>

Role == {"OWNER", "ADMIN", "DEVELOPER", "OPERATOR", "VIEWER", "SERVICE"}
Permission ==
    {"run.read", "run.create", "run.control", "workflow.manage", "approval.decide",
     "settings.read", "settings.write", "members.manage", "tokens.manage", "audit.read",
     "repository.manage", "connector.manage", "org.manage"}
ROLE_PERMISSIONS ==
    [r \in Role |->
        CASE r = "OWNER" -> Permission
          [] r = "ADMIN" -> Permission \ {"org.manage"}
          [] r = "DEVELOPER" -> {"run.read", "run.create", "run.control", "approval.decide",
                                 "settings.read", "workflow.manage"}
          [] r = "OPERATOR" -> {"run.read", "run.control", "approval.decide", "settings.read",
                                "audit.read"}
          [] r = "VIEWER" -> {"run.read", "settings.read"}
          [] r = "SERVICE" -> {"run.read", "run.create"}]

ROLE_STRENGTH ==
    [r \in Role \cup {none} |->
        CASE r = "OWNER" -> 6 [] r = "ADMIN" -> 5 [] r = "DEVELOPER" -> 4 [] r = "OPERATOR" -> 3
          [] r = "VIEWER" -> 2 [] r = "SERVICE" -> 1 [] OTHER -> 0]
strongest(roles) ==
    IF roles = {} THEN none
    ELSE CHOOSE r \in roles : \A s \in roles : ROLE_STRENGTH[s] <= ROLE_STRENGTH[r]

(* a slip: an ADMIN may grant ADMIN *)
may_grant_own(granter, target) ==
    IF target = "OWNER" THEN granter = "OWNER" ELSE granter \in {"OWNER", "ADMIN"}

may_grant(granter, target) ==
    IF target \in {"OWNER", "ADMIN"} THEN granter = "OWNER" ELSE granter \in {"OWNER", "ADMIN"}

team_roles_for(p, w) == {team_roles[t][w] : t \in {u \in Teams : p \in members[u]}}
effective_role(p, w) == strongest(({direct[p][w]} \cup team_roles_for(p, w)) \ {none})
load_principal(p) == [w \in Workspaces |-> effective_role(p, w)]

Nobody == [w \in Workspaces |-> none]
local_principal == [Nobody EXCEPT ![LOCAL_WORKSPACE_ID] = "OWNER"]
Idle == [who |-> none, roles |-> Nobody]

can(roles, permission, w) == roles[w] # none /\ permission \in ROLE_PERMISSIONS[roles[w]]

TypeOK ==
    /\ direct \in [People -> [Workspaces -> Role \cup {none}]]
    /\ team_org \in [Teams -> Orgs \cup {none}]
    /\ members \in [Teams -> SUBSET People]
    /\ team_roles \in [Teams -> [Workspaces -> Role \cup {none}]]
    /\ tokens \subseteq People
    /\ req \in [who : People \cup {"local", none}, roles : [Workspaces -> Role \cup {none}]]

Init ==
    /\ direct = [p \in People |-> Nobody]
    /\ team_org = [t \in Teams |-> none]
    /\ members = [t \in Teams |-> {}]
    /\ team_roles = [t \in Teams |-> Nobody]
    /\ tokens = {}
    /\ req = Idle
-----------------------------------------------------------------------------
(* set_role refuses a workspace of another organisation *)
set_role(p, w, r) ==
    /\ org_of[p] = org_of[w]
    /\ direct' = [direct EXCEPT ![p][w] = r]
issue_token(p) == tokens' = tokens \cup {p}
revoke_token(p) == p \in tokens /\ tokens' = tokens \ {p}

(* patchquest admin token create, and revoke *)
admin_token_create(p, w, r) ==
    set_role(p, w, r) /\ issue_token(p) /\ UNCHANGED <<team_org, members, team_roles, req>>
admin_token_revoke(p) ==
    revoke_token(p) /\ UNCHANGED <<direct, team_org, members, team_roles, req>>

(* the bearer token of p; unknown and expired ones find nobody *)
authenticate(p) == p \in tokens /\ req' = [who |-> p, roles |-> load_principal(p)]
has_tokens == tokens # {}

(* without any token the API is local, and the caller is the local owner *)
authenticate_request ==
    /\ req = Idle
    /\ IF has_tokens
       THEN \E p \in People : authenticate(p)
       ELSE req' = [who |-> "local", roles |-> local_principal]
    /\ UNCHANGED <<direct, team_org, members, team_roles, tokens>>

(* routes_tenancy._check *)
_check(w, permission) ==
    /\ req # Idle
    /\ can(req.roles, "run.read", w) /\ can(req.roles, permission, w)

tenancy_create_team(t, w) ==
    team_org[t] = none /\ team_org' = [team_org EXCEPT ![t] = org_of[w]]
create_team(w, t) ==
    /\ _check(w, "org.manage") /\ tenancy_create_team(t, w)
    /\ req' = Idle /\ UNCHANGED <<direct, members, team_roles, tokens>>

get_team(t, w) == team_org[t] = org_of[w]

tenancy_add_member(t, w, p) ==
    /\ get_team(t, w) /\ org_of[p] = org_of[w]
    /\ members' = [members EXCEPT ![t] = @ \cup {p}]
add_member(w, t, p) ==
    /\ _check(w, "org.manage") /\ tenancy_add_member(t, w, p)
    /\ req' = Idle /\ UNCHANGED <<direct, team_org, team_roles, tokens>>

tenancy_remove_member(t, w, p) ==
    get_team(t, w) /\ members' = [members EXCEPT ![t] = @ \ {p}]
remove_member(w, t, p) ==
    /\ _check(w, "org.manage") /\ tenancy_remove_member(t, w, p)
    /\ req' = Idle /\ UNCHANGED <<direct, team_org, team_roles, tokens>>

(* a slip: the team is looked up by its id alone *)
grant_any_team(t, w, r) == team_roles' = [team_roles EXCEPT ![t][w] = r]

grant_team_role(t, w, r) ==
    get_team(t, w) /\ team_roles' = [team_roles EXCEPT ![t][w] = r]
grant_role(w, t, r) ==
    /\ _check(w, "members.manage") /\ may_grant(req.roles[w], r) /\ grant_team_role(t, w, r)
    /\ req' = Idle /\ UNCHANGED <<direct, team_org, members, tokens>>

revoke_team_role(t, w) == team_roles' = [team_roles EXCEPT ![t][w] = none]
revoke_role(w, t) ==
    /\ _check(w, "members.manage") /\ get_team(t, w) /\ revoke_team_role(t, w)
    /\ req' = Idle /\ UNCHANGED <<direct, team_org, members, tokens>>

(* anything else, and everything that is refused, leaves the tables alone *)
Respond == req # Idle /\ req' = Idle /\ UNCHANGED <<direct, team_org, members, team_roles, tokens>>

Handle ==
    \/ Respond
    \/ \E w \in Workspaces, t \in Teams :
          \/ create_team(w, t) \/ revoke_role(w, t)
          \/ \E r \in Grantable : grant_role(w, t, r)
          \/ \E p \in People : add_member(w, t, p) \/ remove_member(w, t, p)

CommandLine ==
    \E p \in People :
        admin_token_revoke(p) \/ \E w \in Workspaces, r \in Grantable : admin_token_create(p, w, r)

Next == CommandLine \/ authenticate_request \/ Handle

Spec == Init /\ [][Next]_vars
-----------------------------------------------------------------------------
(* Nobody holds a role in a workspace of another organisation, whichever    *)
(* way it came about: directly, or by any combination of teams, members and *)
(* grants (persistence/tenancy.py filters each of them).                    *)
OrgBounded ==
    \A p \in People, w \in Workspaces :
        effective_role(p, w) # none => org_of[p] = org_of[w]

Rises(p, w) ==
    /\ effective_role(p, w)' \in {"OWNER", "ADMIN"}
    /\ ROLE_STRENGTH[effective_role(p, w)'] > ROLE_STRENGTH[effective_role(p, w)]

(* A request makes somebody an owner or an admin of a workspace only when   *)
(* it was authenticated as an owner in that organisation: whether by a      *)
(* grant to a team or by a new member of one (domain/identity.py,           *)
(* may_grant).                                                              *)
OnlyOwnersPromote ==
    \A p \in People, w \in Workspaces :
       (req # Idle /\ req' = Idle /\ Rises(p, w)) =>
          \E v \in Workspaces : org_of[v] = org_of[w] /\ req.roles[v] = "OWNER"

-----------------------------------------------------------------------------
(* Tenant isolation of roles, for any people, workspaces, teams and         *)
(* organisations.                                                           *)

(* the hypotheses about the constants: everything has an organisation, and none is no value *)
Constants ==
    /\ org_of \in [People \cup Workspaces -> Orgs]
    /\ none \notin Orgs /\ none \notin Role
    /\ Grantable \subseteq Role
    /\ LOCAL_WORKSPACE_ID \in Workspaces

(* OrgBounded is not inductive: it speaks of effective roles, and a team that is granted a role *)
(* gives it to members it already has.  Each of the three tables keeps to one organisation.     *)
DirectBounded ==
    \A p \in People, w \in Workspaces : direct[p][w] # none => org_of[p] = org_of[w]
MembersBounded == \A t \in Teams : \A p \in members[t] : team_org[t] = org_of[p]
GrantsBounded ==
    \A t \in Teams, w \in Workspaces : team_roles[t][w] # none => team_org[t] = org_of[w]
Tables ==
    /\ direct \in [People -> [Workspaces -> Role \cup {none}]]
    /\ team_org \in [Teams -> Orgs \cup {none}]
    /\ members \in [Teams -> SUBSET People]
    /\ team_roles \in [Teams -> [Workspaces -> Role \cup {none}]]
IInv == Tables /\ DirectBounded /\ MembersBounded /\ GrantsBounded

(* Where an effective role comes from: a membership, or a grant to a team of the person. *)
LEMMA RoleHasASource ==
    ASSUME NEW p \in People, NEW w \in Workspaces, effective_role(p, w) # none
    PROVE  \/ direct[p][w] # none
           \/ \E t \in Teams : p \in members[t] /\ team_roles[t][w] # none
<1>1. ({direct[p][w]} \cup team_roles_for(p, w)) \ {none} # {}
  BY DEF effective_role, strongest
<1>2. PICK r \in {direct[p][w]} \cup team_roles_for(p, w) : r # none
  BY <1>1
<1>3. CASE r = direct[p][w]
  BY <1>2, <1>3
<1>4. CASE r \in team_roles_for(p, w)
  BY <1>2, <1>4 DEF team_roles_for
<1>5. QED BY <1>2, <1>3, <1>4

LEMMA Initially ==
    ASSUME Constants, Init
    PROVE  IInv
BY DEF Constants, Init, IInv, Tables, DirectBounded, MembersBounded, GrantsBounded, Nobody

LEMMA TokenCreateKeeps ==
    ASSUME Constants, IInv, NEW p \in People, NEW w \in Workspaces, NEW r \in Grantable,
           admin_token_create(p, w, r)
    PROVE  IInv'
<1>1. direct' \in [People -> [Workspaces -> Role \cup {none}]]
  BY DEF Constants, IInv, Tables, admin_token_create, set_role
<1>2. \A q \in People, v \in Workspaces :
         direct'[q][v] = IF q = p /\ v = w THEN r ELSE direct[q][v]
  BY DEF IInv, Tables, admin_token_create, set_role
<1>3. DirectBounded'
  BY <1>2 DEF IInv, DirectBounded, admin_token_create, set_role
<1>4. QED
  BY <1>1, <1>3 DEF IInv, Tables, MembersBounded, GrantsBounded, admin_token_create

LEMMA CreateTeamKeeps ==
    ASSUME Constants, IInv, NEW w \in Workspaces, NEW t \in Teams, create_team(w, t)
    PROVE  IInv'
<1>1. org_of[w] \in Orgs /\ \A p \in People : org_of[p] \in Orgs
  BY DEF Constants
<1>2. \A p \in People : p \notin members[t]
  BY <1>1 DEF Constants, IInv, MembersBounded, create_team, tenancy_create_team
<1>3. \A v \in Workspaces : team_roles[t][v] = none
  BY DEF Constants, IInv, GrantsBounded, create_team, tenancy_create_team
<1>4. /\ team_org' \in [Teams -> Orgs \cup {none}]
      /\ \A u \in Teams : u # t => team_org'[u] = team_org[u]
  BY <1>1 DEF IInv, Tables, create_team, tenancy_create_team
<1>5. MembersBounded'
  BY <1>2, <1>4 DEF IInv, Tables, MembersBounded, create_team, tenancy_create_team
<1>6. GrantsBounded'
  BY <1>3, <1>4 DEF IInv, GrantsBounded, create_team, tenancy_create_team
<1>7. QED
  BY <1>4, <1>5, <1>6 DEF IInv, Tables, DirectBounded, create_team, tenancy_create_team

LEMMA MembersKeep ==
    ASSUME Constants, IInv, NEW w \in Workspaces, NEW t \in Teams, NEW p \in People,
           add_member(w, t, p) \/ remove_member(w, t, p)
    PROVE  IInv'
<1>1. members' \in [Teams -> SUBSET People]
  BY DEF IInv, Tables, add_member, remove_member, tenancy_add_member, tenancy_remove_member
<1>2. \A u \in Teams : \A q \in members'[u] : q \in members[u] \/ (u = t /\ q = p /\ team_org[t] = org_of[p])
  BY DEF IInv, Tables, add_member, remove_member, tenancy_add_member, tenancy_remove_member, get_team
<1>3. MembersBounded'
  BY <1>1, <1>2 DEF IInv, MembersBounded, add_member, remove_member
<1>4. QED
  BY <1>1, <1>3 DEF IInv, Tables, DirectBounded, GrantsBounded, add_member, remove_member

LEMMA GrantsKeep ==
    ASSUME Constants, IInv, NEW w \in Workspaces, NEW t \in Teams,
           revoke_role(w, t) \/ \E r \in Grantable : grant_role(w, t, r)
    PROVE  IInv'
<1>1. PICK r \in Role \cup {none} : team_roles' = [team_roles EXCEPT ![t][w] = r]
  BY DEF Constants, revoke_role, grant_role, revoke_team_role, grant_team_role
<1>2. /\ team_org[t] = org_of[w]
      /\ UNCHANGED <<direct, team_org, members>>
  BY DEF revoke_role, grant_role, grant_team_role, get_team
<1>3. team_roles' \in [Teams -> [Workspaces -> Role \cup {none}]]
  BY <1>1 DEF IInv, Tables
<1>4. \A u \in Teams, v \in Workspaces :
         team_roles'[u][v] = IF u = t /\ v = w THEN r ELSE team_roles[u][v]
  BY <1>1 DEF IInv, Tables
<1>5. GrantsBounded'
  BY <1>2, <1>4 DEF IInv, GrantsBounded
<1>6. QED
  BY <1>2, <1>3, <1>5 DEF IInv, Tables, DirectBounded, MembersBounded

LEMMA StepKeeps ==
    ASSUME Constants, IInv, [Next]_vars
    PROVE  IInv'
<1>1. CASE UNCHANGED <<direct, team_org, members, team_roles>>
  BY <1>1 DEF IInv, Tables, DirectBounded, MembersBounded, GrantsBounded
<1>2. CASE UNCHANGED vars
  BY <1>1, <1>2 DEF vars
<1>3. CASE CommandLine
  <2>1. PICK p \in People : admin_token_revoke(p) \/ \E w \in Workspaces, r \in Grantable : admin_token_create(p, w, r)
    BY <1>3 DEF CommandLine
  <2>2. CASE admin_token_revoke(p)
    BY <1>1, <2>2 DEF admin_token_revoke
  <2>3. CASE \E w \in Workspaces, r \in Grantable : admin_token_create(p, w, r)
    BY <2>3, TokenCreateKeeps
  <2>4. QED BY <2>1, <2>2, <2>3
<1>4. CASE authenticate_request
  BY <1>1, <1>4 DEF authenticate_request
<1>5. CASE Handle
  <2>1. CASE Respond
    BY <1>1, <2>1 DEF Respond
  <2>2. ASSUME NEW w \in Workspaces, NEW t \in Teams,
               \/ create_team(w, t) \/ revoke_role(w, t)
               \/ \E r \in Grantable : grant_role(w, t, r)
               \/ \E p \in People : add_member(w, t, p) \/ remove_member(w, t, p)
        PROVE  IInv'
    BY <2>2, CreateTeamKeeps, GrantsKeep, MembersKeep
  <2>3. QED BY <1>5, <2>1, <2>2 DEF Handle
<1>6. QED BY <1>2, <1>3, <1>4, <1>5 DEF Next

LEMMA TablesBoundRoles ==
    ASSUME IInv
    PROVE  OrgBounded
<1> SUFFICES ASSUME NEW p \in People, NEW w \in Workspaces, effective_role(p, w) # none
             PROVE  org_of[p] = org_of[w]
  BY DEF OrgBounded
<1>1. CASE direct[p][w] # none
  BY <1>1 DEF IInv, DirectBounded
<1>2. CASE \E t \in Teams : p \in members[t] /\ team_roles[t][w] # none
  BY <1>2 DEF IInv, MembersBounded, GrantsBounded
<1>3. QED BY <1>1, <1>2, RoleHasASource

(* Whatever requests and commands are served in whatever order, nobody holds *)
(* a role in a workspace of another organisation (persistence/identity.py,   *)
(* persistence/tenancy.py, api/routes_tenancy.py).                           *)
THEOREM RolesStayInOrg ==
    ASSUME Constants
    PROVE  Spec => []OrgBounded
<1>1. Init => IInv
  BY Initially
<1>2. IInv /\ [Next]_vars => IInv'
  BY StepKeeps
<1>3. IInv => OrgBounded
  BY TablesBoundRoles
<1>4. QED BY <1>1, <1>2, <1>3, PTL DEF Spec

(* What a request reads of its principal, and who may promote.  Of any roles there is a strongest one. *)
ReqTyped == req.roles \in [Workspaces -> Role \cup {none}]
RolesOf(p, w) == ({direct[p][w]} \cup team_roles_for(p, w)) \ {none}

LEMMA Strengths ==
    ASSUME none \notin Role
    PROVE  /\ ROLE_STRENGTH["OWNER"] = 6 /\ ROLE_STRENGTH["ADMIN"] = 5 /\ ROLE_STRENGTH["DEVELOPER"] = 4
           /\ ROLE_STRENGTH["OPERATOR"] = 3 /\ ROLE_STRENGTH["VIEWER"] = 2 /\ ROLE_STRENGTH["SERVICE"] = 1
           /\ ROLE_STRENGTH[none] = 0 /\ \A r \in Role \cup {none} : ROLE_STRENGTH[r] \in 0..6
<1>1. \A r \in Role \cup {none} : ROLE_STRENGTH[r] =
         CASE r = "OWNER" -> 6 [] r = "ADMIN" -> 5 [] r = "DEVELOPER" -> 4 [] r = "OPERATOR" -> 3
           [] r = "VIEWER" -> 2 [] r = "SERVICE" -> 1 [] OTHER -> 0
  BY Zenon DEF ROLE_STRENGTH
<1>2. QED BY <1>1 DEF Role

LEMMA StrongestIs ==
    ASSUME none \notin Role, NEW S \in SUBSET Role, S # {}
    PROVE  strongest(S) \in S /\ \A s \in S : ROLE_STRENGTH[s] <= ROLE_STRENGTH[strongest(S)]
<1>1. \A s \in S : ROLE_STRENGTH[s] \in 0..6
  BY Strengths
<1>2. \E r \in S : \A s \in S : ROLE_STRENGTH[s] <= ROLE_STRENGTH[r]
  <2>1. CASE "OWNER" \in S
    BY <1>1, <2>1, Strengths
  <2>2. CASE "OWNER" \notin S /\ "ADMIN" \in S
    BY <2>2, Strengths DEF Role
  <2>3. CASE "OWNER" \notin S /\ "ADMIN" \notin S /\ "DEVELOPER" \in S
    BY <2>3, Strengths DEF Role
  <2>4. CASE S \subseteq {"OPERATOR", "VIEWER", "SERVICE"} /\ "OPERATOR" \in S
    BY <2>4, Strengths
  <2>5. CASE S \subseteq {"VIEWER", "SERVICE"}
    <3>1. CASE "VIEWER" \in S
      BY <2>5, <3>1, Strengths
    <3>2. CASE S = {"SERVICE"}
      BY <3>2, Strengths
    <3>3. "VIEWER" \in S \/ S = {"SERVICE"}
      BY <2>5, Zenon
    <3>4. QED BY <3>1, <3>2, <3>3
  <2>6. S \subseteq {"OPERATOR", "VIEWER", "SERVICE"} \/ \E r \in {"OWNER", "ADMIN", "DEVELOPER"} : r \in S
    BY DEF Role
  <2>7. S \subseteq {"OPERATOR", "VIEWER", "SERVICE"} => S \subseteq {"VIEWER", "SERVICE"} \/ "OPERATOR" \in S
    OBVIOUS
  <2>8. QED BY <2>1, <2>2, <2>3, <2>4, <2>5, <2>6, <2>7
<1>3. QED BY <1>2, Zenon DEF strongest

(* the stronger of two holdings is stronger by a role that the other does not have *)
LEMMA Stronger ==
    ASSUME none \notin Role, NEW S \in SUBSET Role, NEW T \in SUBSET Role, strongest(T) \in Role,
           ROLE_STRENGTH[strongest(T)] > ROLE_STRENGTH[strongest(S)]
    PROVE  strongest(T) \in T /\ strongest(T) \notin S
<1>1. T # {}
  BY Zenon DEF strongest
<1>2. strongest(T) \in T
  BY <1>1, StrongestIs
<1>3. ASSUME strongest(T) \in S PROVE FALSE
  <2>1. ROLE_STRENGTH[strongest(T)] <= ROLE_STRENGTH[strongest(S)] /\ strongest(S) \in S
    BY <1>3, StrongestIs
  <2>2. ROLE_STRENGTH[strongest(T)] \in 0..6 /\ ROLE_STRENGTH[strongest(S)] \in 0..6
    BY <2>1, Strengths
  <2>3. QED BY <2>1, <2>2
<1>4. QED BY <1>2, <1>3

LEMMA RolesTyped ==
    ASSUME none \notin Role, Tables, NEW p \in People, NEW w \in Workspaces
    PROVE  RolesOf(p, w) \subseteq Role /\ effective_role(p, w) \in Role \cup {none}
<1>1. RolesOf(p, w) \subseteq Role
  BY DEF Tables, RolesOf, team_roles_for
<1>2. effective_role(p, w) = strongest(RolesOf(p, w))
  BY Zenon DEF effective_role, RolesOf
<1>3. CASE RolesOf(p, w) = {}
  BY <1>1, <1>2, <1>3 DEF strongest
<1>4. CASE RolesOf(p, w) # {}
  BY <1>1, <1>2, <1>4, StrongestIs
<1>5. QED BY <1>1, <1>3, <1>4

LEMMA ReqStep ==
    ASSUME Constants, IInv, ReqTyped, [Next]_vars
    PROVE  ReqTyped'
<1>1. CASE req' = req
  BY <1>1 DEF ReqTyped
<1>2. CASE req' = Idle
  BY <1>2 DEF ReqTyped, Idle, Nobody
<1>3. CASE authenticate_request
  <2>1. ASSUME NEW p \in People PROVE load_principal(p) \in [Workspaces -> Role \cup {none}]
    BY RolesTyped DEF load_principal, Constants, IInv
  <2>2. local_principal \in [Workspaces -> Role \cup {none}]
    BY Zenon DEF local_principal, Nobody, Role
  <2>3. CASE \E p \in People : authenticate(p)
    BY <2>1, <2>3 DEF authenticate, ReqTyped
  <2>4. CASE req' = [who |-> "local", roles |-> local_principal]
    BY <2>2, <2>4 DEF ReqTyped
  <2>5. QED BY <1>3, <2>3, <2>4, Zenon DEF authenticate_request
<1>4. CASE CommandLine
  BY <1>1, <1>4 DEF CommandLine, admin_token_create, admin_token_revoke
<1>5. CASE Handle
  BY <1>2, <1>5 DEF Handle, Respond, create_team, revoke_role, grant_role, add_member, remove_member
<1>6. CASE UNCHANGED vars
  BY <1>1, <1>6 DEF vars
<1>7. QED BY <1>3, <1>4, <1>5, <1>6 DEF Next

(* Only an owner manages the organisation, and only an owner grants the two strong roles. *)
LEMMA OwnersOnly ==
    ASSUME ReqTyped, NEW w \in Workspaces
    PROVE  /\ _check(w, "org.manage") => req.roles[w] = "OWNER"
           /\ \A r \in {"OWNER", "ADMIN"} : may_grant(req.roles[w], r) => req.roles[w] = "OWNER"
<1>1. ASSUME _check(w, "org.manage") PROVE req.roles[w] = "OWNER"
  <2>1. req.roles[w] \in Role /\ "org.manage" \in ROLE_PERMISSIONS[req.roles[w]]
    BY <1>1 DEF _check, can, ReqTyped
  <2>2. QED BY <2>1 DEF ROLE_PERMISSIONS, Role, Permission
<1>2. QED BY <1>1 DEF may_grant

(* A role that somebody holds after a request and not before came from a team: by a grant to *)
(* it in that workspace, or because they became a member of it.                              *)
LEMMA PromotedByATeam ==
    ASSUME IInv, Handle, NEW p \in People, NEW w \in Workspaces, NEW r \in Role,
           r \in RolesOf(p, w)', r \notin RolesOf(p, w)
    PROVE  \/ \E t \in Teams : grant_role(w, t, r)
           \/ \E t \in Teams, v \in Workspaces : add_member(v, t, p) /\ team_roles[t][w] = r
<1>1. direct' = direct
  BY DEF Handle, Respond, create_team, revoke_role, grant_role, add_member, remove_member
<1>2. r # none /\ r # direct[p][w]
  BY <1>1 DEF RolesOf
<1>3. PICK t \in Teams : p \in members'[t] /\ team_roles'[t][w] = r
  BY <1>1, <1>2 DEF RolesOf, team_roles_for
<1>4. ~(p \in members[t] /\ team_roles[t][w] = r)
  BY <1>2 DEF RolesOf, team_roles_for
<1>5. members \in [Teams -> SUBSET People] /\ team_roles \in [Teams -> [Workspaces -> Role \cup {none}]]
  BY DEF IInv, Tables
<1>6. ASSUME NEW v \in Workspaces, NEW u \in Teams, NEW g, grant_role(v, u, g)
      PROVE  grant_role(w, t, r)
  <2>1. members' = members /\ team_roles' = [team_roles EXCEPT ![u][v] = g]
    BY <1>6 DEF grant_role, grant_team_role
  <2>2. u = t /\ v = w /\ g = r
    BY <1>3, <1>4, <1>5, <2>1
  <2>3. QED BY <1>6, <2>2
<1>7. ASSUME NEW v \in Workspaces, NEW u \in Teams, NEW q \in People, add_member(v, u, q)
      PROVE  add_member(v, t, p) /\ team_roles[t][w] = r
  <2>1. team_roles' = team_roles /\ members' = [members EXCEPT ![u] = @ \cup {q}]
    BY <1>7 DEF add_member, tenancy_add_member
  <2>2. u = t /\ q = p /\ team_roles[t][w] = r
    BY <1>3, <1>4, <1>5, <2>1
  <2>3. QED BY <1>7, <2>2
<1>8. ASSUME NEW v \in Workspaces, NEW u \in Teams, revoke_role(v, u) PROVE FALSE
  <2>1. members' = members /\ team_roles' = [team_roles EXCEPT ![u][v] = none]
    BY <1>8 DEF revoke_role, revoke_team_role
  <2>2. QED BY <1>2, <1>3, <1>4, <1>5, <2>1
<1>9. ASSUME NEW v \in Workspaces, NEW u \in Teams, NEW q \in People, remove_member(v, u, q) PROVE FALSE
  <2>1. team_roles' = team_roles /\ members' = [members EXCEPT ![u] = @ \ {q}]
    BY <1>9 DEF remove_member, tenancy_remove_member
  <2>2. QED BY <1>3, <1>4, <1>5, <2>1
<1>10. ASSUME Respond \/ \E v \in Workspaces, u \in Teams : create_team(v, u) PROVE FALSE
  BY <1>3, <1>4, <1>10 DEF Respond, create_team
<1>11. QED BY <1>6, <1>7, <1>8, <1>9, <1>10, Zenon DEF Handle

LEMMA PromotionStep ==
    ASSUME Constants, IInv, ReqTyped, [Next]_vars
    PROVE  OnlyOwnersPromote
<1> SUFFICES ASSUME NEW p \in People, NEW w \in Workspaces, req # Idle, req' = Idle, Rises(p, w)
             PROVE  \E v \in Workspaces : org_of[v] = org_of[w] /\ req.roles[v] = "OWNER"
  BY Zenon DEF OnlyOwnersPromote
<1>1. Handle
  BY DEF Next, vars, CommandLine, admin_token_create, admin_token_revoke, authenticate_request
<1>2. PICK r \in {"OWNER", "ADMIN"} : r \in RolesOf(p, w)' /\ r \notin RolesOf(p, w)
  <2>1. RolesOf(p, w) \in SUBSET Role
    BY RolesTyped DEF Constants, IInv
  <2>2. IInv'
    BY StepKeeps
  <2>3. RolesOf(p, w)' \in SUBSET Role
    <3>1. Tables'
      BY <2>2 DEF IInv
    <3>2. QED BY <3>1 DEF Tables, RolesOf, team_roles_for
  <2>4. effective_role(p, w) = strongest(RolesOf(p, w)) /\ effective_role(p, w)' = strongest(RolesOf(p, w)')
    BY Zenon DEF effective_role, RolesOf, strongest
  <2>5. /\ strongest(RolesOf(p, w)') \in {"OWNER", "ADMIN"}
        /\ ROLE_STRENGTH[strongest(RolesOf(p, w)')] > ROLE_STRENGTH[strongest(RolesOf(p, w))]
    BY <2>4, Zenon DEF Rises
  <2>6. strongest(RolesOf(p, w)') \in Role
    BY <2>5 DEF Role
  <2>7. QED BY <2>1, <2>3, <2>5, <2>6, Stronger, Zenon DEF Constants
<1>3. \/ \E t \in Teams : grant_role(w, t, r)
      \/ \E t \in Teams, v \in Workspaces : add_member(v, t, p) /\ team_roles[t][w] = r
  BY <1>1, <1>2, PromotedByATeam DEF Role
<1>4. CASE \E t \in Teams : grant_role(w, t, r)
  BY <1>4, OwnersOnly DEF grant_role
<1>5. ASSUME NEW t \in Teams, NEW v \in Workspaces, add_member(v, t, p), team_roles[t][w] = r
      PROVE  org_of[v] = org_of[w] /\ req.roles[v] = "OWNER"
  <2>1. req.roles[v] = "OWNER" /\ team_org[t] = org_of[v]
    BY <1>5, OwnersOnly DEF add_member, tenancy_add_member, get_team
  <2>2. team_roles[t][w] # none
    BY <1>5 DEF Constants, Role
  <2>3. team_org[t] = org_of[w]
    BY <2>2 DEF IInv, GrantsBounded
  <2>4. QED BY <2>1, <2>3
<1>6. QED BY <1>3, <1>4, <1>5

(* Whoever becomes an owner or an admin by a request, by a grant or by joining a team that has *)
(* one, it was authenticated as an owner of that organisation (domain/identity.py may_grant,   *)
(* api/routes_tenancy.py), for any people, workspaces and teams.                               *)
THEOREM PromotionNeedsAnOwner ==
    ASSUME Constants
    PROVE  Spec => [][OnlyOwnersPromote]_vars
<1>1. Init => IInv /\ ReqTyped
  BY Initially DEF Init, ReqTyped, Idle, Nobody
<1>2. IInv /\ ReqTyped /\ [Next]_vars => (IInv /\ ReqTyped)'
  BY StepKeeps, ReqStep
<1>3. IInv /\ ReqTyped /\ [Next]_vars => [OnlyOwnersPromote]_vars
  BY PromotionStep
<1>4. QED BY <1>1, <1>2, <1>3, PTL DEF Spec
=============================================================================
