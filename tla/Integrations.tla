---------------------------- MODULE Integrations ----------------------------
(***************************************************************************)
(* One workspace's integration of one kind: its row, its stored secret and *)
(* the connectors each process has built from it (integrations/service.py, *)
(* secrets_store.py).  The API server and the command line are processes   *)
(* with one database.  An operation reads the row, works (it may call the  *)
(* service), and writes; only its writes are in a transaction of their     *)
(* own, so another process may write in between.                           *)
(***************************************************************************)
EXTENDS Integers, FiniteSets

CONSTANTS
    Processes,   \* the server and command-line processes
    MaxStamp,    \* bound: values of updated_at
    MaxKey       \* bound: encryption keys, numbered as they are rotated in

VARIABLES
    row,         \* the row of integrations; present is FALSE when there is none
    secret,      \* the key the stored secret is encrypted under; 0: no secret
    env,         \* [Processes -> the key PATCHQUEST_SECRET_KEY names]; older ones are PREVIOUS
    cache,       \* [Processes -> set of <<updated_at, config>>]: _cache
    op,          \* [Processes -> the operation in progress]
    stamp,       \* the clock of updated_at
    raced        \* history: a write was planned from a row that changed meanwhile

vars == <<row, secret, env, cache, op, stamp, raced>>

Refs == {"env", "stored"}
STATUSES == {"connected", "disabled", "error"}
Configs == {1, 2}
Absent == [present |-> FALSE, status |-> "connected", config |-> 1, refs |-> "env", updated_at |-> 0]
Idle == [do |-> "none", row |-> Absent, secret |-> 0, ok |-> TRUE, up |-> TRUE]

Init ==
    /\ row = Absent
    /\ secret = 0
    /\ env = [p \in Processes |-> 1]
    /\ cache = [p \in Processes |-> {}]
    /\ op = [p \in Processes |-> Idle]
    /\ stamp = 0
    /\ raced = FALSE

Stale(p) == op[p].row # row \/ op[p].secret # secret
Ends(p) == /\ op' = [op EXCEPT ![p] = Idle]
           /\ raced' = (raced \/ Stale(p))

-----------------------------------------------------------------------------
(* secrets_store.put encrypts under the current key; get tries the current *)
(* and the previous ones; delete_owner leaves nothing                      *)
put(p) == env[p]
get(p) == secret \in 1..env[p]
delete_owner == 0

(* create: one integration of a kind per workspace.  A race of two creates *)
(* ends at UNIQUE (workspace_id, kind), so the INSERT decides.             *)
create(p, config, refs) ==
    /\ op[p].do = "none"
    /\ ~row.present
    /\ stamp < MaxStamp
    /\ stamp' = stamp + 1
    /\ row' = [present |-> TRUE, status |-> "connected", config |-> config, refs |-> refs, updated_at |-> stamp']
    /\ secret' = IF refs = "stored" THEN put(p) ELSE secret
    /\ UNCHANGED <<env, cache, op, raced>>

(* _row: the read an update or a test of the connection starts with *)
Plan(p, do) ==
    /\ op[p].do = "none"
    /\ row.present
    /\ op' = [op EXCEPT ![p] = [Idle EXCEPT !.do = do, !.row = row, !.secret = secret]]
    /\ UNCHANGED <<row, secret, env, cache, stamp, raced>>

(* _refs: what the update does to the stored secret before the row is written. *)
(* A secret given by value is encrypted under the current key; naming an       *)
(* environment variable deletes the stored one; none given keeps it.           *)
_refs(p, given) ==
    CASE given = "stored" -> put(p)
      [] given = "env"    -> 0
      [] OTHER            -> secret

(* the bug of an update that writes the row without renewing updated_at *)
update_in_place(p, config, given, enabled) ==
    /\ op[p].do = "update"
    /\ stamp < MaxStamp
    /\ stamp' = stamp + 1
    /\ secret' = _refs(p, given)
    /\ row' = IF ~row.present THEN row ELSE
              [present |-> TRUE, status |-> IF enabled = "same" THEN op[p].row.status ELSE enabled, config |-> config,
               refs |-> IF given = "same" THEN op[p].row.refs ELSE given, updated_at |-> row.updated_at]
    /\ cache' = [cache EXCEPT ![p] = {c \in @ : c[1] # op[p].row.updated_at}]
    /\ Ends(p)
    /\ UNCHANGED env

(* update: writes every column, the ones not given from the row it read;   *)
(* the connector built from that row leaves this process's cache.  A row   *)
(* that has gone is not written, but its secret is.                        *)
update(p, config, given, enabled) ==
    /\ op[p].do = "update"
    /\ stamp < MaxStamp
    /\ stamp' = stamp + 1
    /\ secret' = _refs(p, given)
    /\ row' = IF ~row.present THEN row ELSE
              [present |-> TRUE,
               status |-> IF enabled = "same" THEN op[p].row.status ELSE enabled,
               config |-> config,
               refs |-> IF given = "same" THEN op[p].row.refs ELSE given,
               updated_at |-> stamp']
    /\ cache' = [cache EXCEPT ![p] = {c \in @ : c[1] # op[p].row.updated_at}]
    /\ Ends(p)
    /\ UNCHANGED env

(* the bug of a delete that forgets the secrets *)
delete_row_only(p) ==
    /\ op[p].do = "none"
    /\ row.present
    /\ row' = Absent
    /\ UNCHANGED <<secret, env, cache, op, stamp, raced>>

(* delete: the secrets of the integration go with it *)
delete(p) ==
    /\ op[p].do = "none"
    /\ row.present
    /\ row' = Absent
    /\ secret' = delete_owner
    /\ UNCHANGED <<env, cache, op, stamp, raced>>

-----------------------------------------------------------------------------
(* connector_for: the cached connector of (id, updated_at), or a new one   *)
connector_for(p, r) ==
    IF \E c \in cache[p] : c[1] = r.updated_at
    THEN CHOOSE c \in cache[p] : c[1] = r.updated_at
    ELSE <<r.updated_at, r.config>>

(* find_enabled, backend_for: a workflow acts only through a connected row *)
find_enabled == row.present /\ row.status = "connected"

backend_for(p) ==
    /\ op[p].do = "none"
    /\ find_enabled
    /\ cache' = [cache EXCEPT ![p] = @ \union {connector_for(p, row)}]
    /\ UNCHANGED <<row, secret, env, op, stamp, raced>>

(* the bug of a rotation that re-keys only new secrets and drops the old keys *)
resolve_current(p) == op[p].row.refs = "env" \/ secret = env[p]

(* StoredSecretRef.resolve: the current key and the previous ones are tried *)
resolve(p) == op[p].row.refs = "env" \/ get(p)

(* test_connection, the call: health uses the connector of the row read.   *)
(* Credentials that do not resolve fail it, and so may the service.        *)
Health(p) ==
    /\ op[p].do = "test"
    /\ cache' = [cache EXCEPT ![p] = @ \union {connector_for(p, op[p].row)}]
    /\ \E up \in BOOLEAN :
          op' = [op EXCEPT ![p] = [@ EXCEPT !.do = "tested", !.up = up, !.ok = up /\ resolve(p)]]
    /\ UNCHANGED <<row, secret, env, stamp, raced>>

(* the bug of a test that records its verdict whatever the status was *)
test_connection_blind(p) ==
    /\ op[p].do = "tested"
    /\ row' = IF ~row.present THEN row
              ELSE [row EXCEPT !.status = IF op[p].ok THEN "connected" ELSE "error"]
    /\ Ends(p)
    /\ UNCHANGED <<secret, env, cache, stamp>>

(* test_connection, the result: updated_at is not renewed                  *)
test_connection(p) ==
    /\ op[p].do = "tested"
    /\ row' = IF ~row.present THEN row
              ELSE [row EXCEPT !.status = IF op[p].row.status = "disabled" THEN "disabled"
                                          ELSE IF op[p].ok THEN "connected" ELSE "error"]
    /\ Ends(p)
    /\ UNCHANGED <<secret, env, cache, stamp>>

(* _fernet after a restart with a new PATCHQUEST_SECRET_KEY and the old    *)
(* ones in PREVIOUS: the process loses its cache and its operation         *)
_fernet(p) ==
    /\ env[p] < MaxKey
    /\ env' = [env EXCEPT ![p] = @ + 1]
    /\ cache' = [cache EXCEPT ![p] = {}]
    /\ op' = [op EXCEPT ![p] = Idle]
    /\ UNCHANGED <<row, secret, stamp, raced>>

Next ==
    \E p \in Processes :
        \/ \E c \in Configs, r \in Refs : create(p, c, r)
        \/ \E do \in {"update", "test"} : Plan(p, do)
        \/ \E c \in Configs, g \in Refs \union {"same"}, e \in {"same", "connected", "disabled"} : update(p, c, g, e)
        \/ delete(p)
        \/ backend_for(p)
        \/ Health(p)
        \/ test_connection(p)
        \/ _fernet(p)

Spec == Init /\ [][Next]_vars

-----------------------------------------------------------------------------
(* A connector taken from the cache acts with the configuration of the row *)
(* it was looked up for: an edit made by another process is never answered *)
(* with the connector built before it.                                     *)
CacheIsFresh ==
    \A p \in Processes : \A c \in cache[p] :
        row.present /\ c[1] = row.updated_at => c[2] = row.config

(* Unless two processes raced on the row, its secret exists exactly as     *)
(* long as the row refers to it: a deleted or re-pointed integration leaves*)
(* no secret behind, and no row refers to one that is gone.                *)
SecretFollowsRow == raced \/ ((secret # 0) <=> (row.present /\ row.refs = "stored"))

(* Testing the connection never connects what an operator disabled, unless *)
(* the test raced with the disabling.                                      *)
TestRespectsDisabled ==
    (row.present /\ row.status = "disabled" /\ row'.present /\ row'.status # "disabled" /\ ~raced')
     => \E p \in Processes : op[p].do = "update"

(* A test made by a process that has every key the server ever used fails  *)
(* only for what the service answered: after a rotation with the old keys  *)
(* kept, what was stored before is still readable.                         *)
RotationKeepsSecrets ==
    \A p \in Processes :
        (op[p].do = "tested" /\ op[p].up /\ ~raced /\ ~Stale(p) /\ \A q \in Processes : env[q] <= env[p])
        => op[p].ok
=============================================================================
