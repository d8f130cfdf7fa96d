------------------------------ MODULE Plugins ------------------------------
(* One plugin, the processes that host it and its row of plugin_state              *)
(* (plugins/host.py, persistence/plugins.py). A host is a server or one command of *)
(* the CLI; hosts share the row and nothing else. Permissions, settings and the     *)
(* policy verdict of a call are data: what counts is the version they belong to.    *)
EXTENDS Integers, FiniteSets, FiniteSetTheorems, TLAPS

CONSTANTS Hosts,              \* processes with a PluginHost
          Calls,              \* invocations under way at a time
          Versions,           \* versions an operator may install
          QUARANTINE_AFTER,
          MaxRestarts

VARIABLES row,        \* plugin_state: state, version, the version whose permissions were granted, failures
          trusted,    \* manifest.trust: in-process, or a process per call
          installed,  \* the version on disk
          found,      \* host -> the version it discovered (0: not yet)
          live,       \* host -> the version of its running instance (0: none); trusted only
          calls,      \* call -> the host and version it runs in, or NoCall
          restarts    \* bound
vars == <<row, trusted, installed, found, live, calls, restarts>>

NoCall == [host |-> "none", version |-> 0]
NoRow == [state |-> "discovered", version |-> 0, granted |-> 0, failures |-> 0]
InFlight == {c \in Calls : calls[c] # NoCall}

Init == /\ row = NoRow /\ trusted \in BOOLEAN /\ installed = 1 /\ restarts = 0
        /\ found = [h \in Hosts |-> 0] /\ live = [h \in Hosts |-> 0] /\ calls = [c \in Calls |-> NoCall]
-----------------------------------------------------------------------------
\* pip install, or a new directory under plugins/
Install(v) == /\ installed # v /\ installed' = v
              /\ UNCHANGED <<row, trusted, found, live, calls, restarts>>

\* list and status always look again; the other operations only when they know no such name
discover(h) == /\ found' = [found EXCEPT ![h] = installed]
               /\ UNCHANGED <<row, trusted, installed, live, calls, restarts>>

_get(h) == IF found[h] = 0 THEN installed ELSE found[h]

\* the second half of enable: initialize the instance, or ask a fresh process for its health
_start(h, v) == live' = IF trusted THEN [live EXCEPT ![h] = v] ELSE live

\* store.save: an upsert that forgets the failures
save_keeping(v, s, g) == row' = [row EXCEPT !.state = s, !.version = v, !.granted = g]
save(v, s, g) == row' = [state |-> s, version |-> v, granted |-> g, failures |-> 0]

\* compatible, the grant equals the permissions of the manifest found, it starts
enable(h) ==
  /\ found' = [found EXCEPT ![h] = _get(h)]
  /\ _start(h, _get(h)) /\ save(_get(h), "enabled", _get(h))
  /\ UNCHANGED <<trusted, installed, calls, restarts>>

set_state(s) == row' = [row EXCEPT !.state = s]

\* the host that was asked stops its own instance; other hosts keep theirs
disable(h) ==
  /\ row # NoRow /\ set_state("disabled") /\ live' = [live EXCEPT ![h] = 0]
  /\ UNCHANGED <<trusted, installed, found, calls, restarts>>
-----------------------------------------------------------------------------
\* mutant of invoke: the state is looked at when the plugin answers, not before
invoke_unchecked(h, c) ==
  /\ calls[c] = NoCall /\ row # NoRow
  /\ found' = [found EXCEPT ![h] = _get(h)]
  /\ calls' = [calls EXCEPT ![c] = [host |-> h, version |-> _get(h)]]
  /\ UNCHANGED <<row, trusted, installed, live, restarts>>

\* up to the await of _run: the row is read once, policy let the call through
invoke(h, c) ==
  /\ calls[c] = NoCall /\ row.state = "enabled"
  /\ found' = [found EXCEPT ![h] = _get(h)]
  /\ calls' = [calls EXCEPT ![c] = [host |-> h, version |-> _get(h)]]
  /\ UNCHANGED <<row, trusted, installed, live, restarts>>

\* mutant of record_outcome: a success brings the plugin back
record_reviving(ok) ==
  LET n == IF ok THEN 0 ELSE row.failures + 1 IN
  row' = [row EXCEPT !.failures = n,
                     !.state = IF ok THEN "enabled" ELSE IF n >= QUARANTINE_AFTER /\ @ = "enabled" THEN "quarantined" ELSE @]

record_outcome(ok) ==
  LET n == IF ok THEN 0 ELSE row.failures + 1 IN
  row' = [row EXCEPT !.failures = n,
                     !.state = IF n >= QUARANTINE_AFTER /\ @ = "enabled" THEN "quarantined" ELSE @]

\* _run answered, failed, timed out, or found no instance (a trusted plugin that another host enabled)
Runs(c) == ~trusted \/ live[calls[c].host] # 0
Answered(c, ok) ==
  /\ calls[c] # NoCall /\ (ok => Runs(c)) /\ record_outcome(ok)
  /\ calls' = [calls EXCEPT ![c] = NoCall]
  /\ UNCHANGED <<trusted, installed, found, live, restarts>>
-----------------------------------------------------------------------------
\* a process dies or ends; a command of the CLI always does
Restart(h) ==
  /\ restarts < MaxRestarts /\ restarts' = restarts + 1
  /\ found' = [found EXCEPT ![h] = 0] /\ live' = [live EXCEPT ![h] = 0]
  /\ calls' = [c \in Calls |-> IF calls[c].host = h THEN NoCall ELSE calls[c]]
  /\ UNCHANGED <<row, trusted, installed>>

\* mutant of restore: what is installed is what was enabled
restore_any(h) ==
  /\ found[h] = 0 /\ row.state = "enabled" /\ found' = [found EXCEPT ![h] = _get(h)]
  /\ \/ _start(h, _get(h)) /\ UNCHANGED row
     \/ set_state("quarantined") /\ UNCHANGED live
  /\ UNCHANGED <<trusted, installed, calls, restarts>>

\* the version is the one that was enabled and it starts, or the plugin is quarantined; an embedding
\* application calls it, the server and the CLI do not
restore(h) ==
  /\ found[h] = 0 /\ row.state = "enabled" /\ found' = [found EXCEPT ![h] = _get(h)]
  /\ \/ _get(h) = row.version /\ _start(h, _get(h)) /\ UNCHANGED row
     \/ set_state("quarantined") /\ UNCHANGED live
  /\ UNCHANGED <<trusted, installed, calls, restarts>>

Next == \/ \E v \in Versions : Install(v)
        \/ \E h \in Hosts : discover(h) \/ enable(h) \/ disable(h) \/ Restart(h) \/ restore(h)
        \/ \E h \in Hosts, c \in Calls : invoke(h, c)
        \/ \E c \in Calls, ok \in BOOLEAN : Answered(c, ok)

Spec == Init /\ [][Next]_vars
-----------------------------------------------------------------------------
(* Properties *)

\* A failing plugin is stopped in time: failures recorded and calls under way together
\* never exceed the threshold by more than the calls that were already running
MisbehaviourIsBounded ==
  row.failures + Cardinality(InFlight) <= QUARANTINE_AFTER - 1 + Cardinality(Calls)

\* A plugin that is on has not reached the threshold: re-enabling starts a new count, and
\* no interleaving of late answers leaves an enabled plugin with three failures behind it
EnabledBelowThreshold == row.state = "enabled" => row.failures < QUARANTINE_AFTER

\* Once off, only enabling turns a plugin on, for the version then granted; a late answer
\* of a call that was under way when it was disabled or quarantined does not
OffUntilEnabled ==
  (row.state # "enabled" /\ row'.state = "enabled")
    => (calls' = calls /\ row'.granted = row'.version)

\* An instance brought back after a restart is of the version somebody granted permissions to
RestoredIsGranted ==
  \A h \in Hosts : (live[h] = 0 /\ live'[h] # 0) => live'[h] = row'.granted

\* docs/plugins.md: what runs is the version that was enabled, or the plugin is quarantined
RunsWhatWasEnabled == \A c \in InFlight : row.state = "enabled" => calls[c].version = row.version

-----------------------------------------------------------------------------
(***************************************************************************)
(* For any hosts, versions and threshold and any finite number of calls at *)
(* a time: a failing plugin is stopped in time, nothing but enabling turns *)
(* one on, and what runs after a restart was granted its permissions.      *)
(***************************************************************************)

Constants == /\ QUARANTINE_AFTER \in Nat \ {0} /\ IsFiniteSet(Calls)
             /\ Versions \subseteq Nat

States == {"discovered", "enabled", "disabled", "quarantined"}

Types == /\ row \in [state : States, version : Nat, granted : Nat, failures : Nat]
         /\ installed \in Nat /\ found \in [Hosts -> Nat] /\ live \in [Hosts -> Nat]
         /\ calls \in [Calls -> [host : Hosts \cup {"none"}, version : Nat]]

\* enable stores the grant for the version it found
Granted == row.state = "enabled" => row.granted = row.version

IInv == Types /\ Granted /\ EnabledBelowThreshold /\ MisbehaviourIsBounded

LEMMA FewCalls ==
  ASSUME Constants
  PROVE  /\ IsFiniteSet(InFlight) /\ Cardinality(InFlight) \in Nat /\ Cardinality(Calls) \in Nat
         /\ Cardinality(InFlight) <= Cardinality(Calls)
<1>1. InFlight \subseteq Calls
  BY DEF InFlight
<1>. QED  BY <1>1, FS_Subset, FS_CardinalityType DEF Constants

\* a step that leaves the failures alone and begins no call
LEMMA BoundKept ==
  ASSUME Constants, IInv, row'.failures = row.failures, InFlight' \subseteq InFlight
  PROVE  MisbehaviourIsBounded'
<1>1. Cardinality(InFlight') <= Cardinality(InFlight) /\ Cardinality(InFlight') \in Nat
  BY FewCalls, FS_Subset, FS_CardinalityType
<1>2. row.failures \in Nat /\ QUARANTINE_AFTER \in Nat
  BY DEF IInv, Types, Constants
<1>. QED  BY <1>1, <1>2, FewCalls DEF IInv, MisbehaviourIsBounded

\* a step after which the failures are below the threshold
LEMMA BoundBelow ==
  ASSUME Constants, row'.failures \in Nat, row'.failures < QUARANTINE_AFTER, InFlight' \subseteq Calls
  PROVE  MisbehaviourIsBounded'
<1>1. Cardinality(InFlight') <= Cardinality(Calls) /\ Cardinality(InFlight') \in Nat
      /\ Cardinality(Calls) \in Nat
  BY FS_Subset, FS_CardinalityType DEF Constants
<1>. QED  BY <1>1 DEF MisbehaviourIsBounded, Constants

LEMMA Initial == ASSUME Constants, Init PROVE IInv
<1>1. Types
  BY DEF Init, Types, NoRow, NoCall, States
<1>2. InFlight = {}
  BY DEF Init, InFlight
<1>3. MisbehaviourIsBounded
  BY <1>2, FewCalls, FS_EmptySet DEF Init, NoRow, MisbehaviourIsBounded, Constants
<1>. QED  BY <1>1, <1>3 DEF IInv, Init, NoRow, Granted, EnabledBelowThreshold

LEMMA Preserved == ASSUME Constants, IInv, [Next]_vars PROVE IInv'
<1>0. /\ row \in [state : States, version : Nat, granted : Nat, failures : Nat]
      /\ QUARANTINE_AFTER \in Nat \ {0} /\ \A h \in Hosts : _get(h) \in Nat
  BY DEF IInv, Types, Constants, _get
<1>1. ASSUME UNCHANGED <<row, calls>>, Types' PROVE IInv'
  <2>1. InFlight' \subseteq InFlight
    BY <1>1 DEF InFlight
  <2>. QED  BY <1>1, <2>1, BoundKept DEF IInv, Granted, EnabledBelowThreshold
<1>2. ASSUME NEW v \in Versions, Install(v) PROVE IInv'
  BY <1>1, <1>2 DEF Install, IInv, Types, Constants
<1>3. ASSUME NEW h \in Hosts, discover(h) PROVE IInv'
  BY <1>1, <1>3 DEF discover, IInv, Types
<1>4. ASSUME NEW h \in Hosts, enable(h) PROVE IInv'
  <2>1. row' = [state |-> "enabled", version |-> _get(h), granted |-> _get(h), failures |-> 0]
        /\ calls' = calls
    BY <1>4 DEF enable, save
  <2>2. Types'
    BY <1>0, <1>4, <2>1 DEF enable, _start, IInv, Types, States
  <2>3. MisbehaviourIsBounded'
    BY <1>0, <2>1, BoundBelow DEF InFlight
  <2>. QED  BY <1>0, <2>1, <2>2, <2>3 DEF IInv, Granted, EnabledBelowThreshold
<1>5. ASSUME NEW s \in States \ {"enabled"}, set_state(s), InFlight' \subseteq InFlight, Types'
      PROVE  IInv'
  <2>1. row'.state = s /\ row'.failures = row.failures
    BY <1>0, <1>5 DEF set_state
  <2>2. MisbehaviourIsBounded'
    BY <1>5, <2>1, BoundKept
  <2>. QED  BY <1>5, <2>1, <2>2 DEF IInv, Granted, EnabledBelowThreshold
<1>6. ASSUME NEW h \in Hosts, disable(h) PROVE IInv'
  <2>1. Types'
    BY <1>0, <1>6 DEF disable, set_state, IInv, Types, States
  <2>. QED  BY <1>5, <1>6, <2>1 DEF disable, InFlight, States
<1>7. ASSUME NEW h \in Hosts, Restart(h) PROVE IInv'
  <2>1. Types'
    BY <1>7 DEF Restart, IInv, Types, NoCall
  <2>2. InFlight' \subseteq InFlight
    BY <1>7 DEF Restart, InFlight, IInv, Types
  <2>3. row' = row
    BY <1>7 DEF Restart
  <2>4. MisbehaviourIsBounded'
    BY <2>2, <2>3, BoundKept
  <2>. QED  BY <2>1, <2>3, <2>4 DEF IInv, Granted, EnabledBelowThreshold
<1>8. ASSUME NEW h \in Hosts, restore(h) PROVE IInv'
  <2>1. CASE UNCHANGED row
    <3>1. Types' /\ calls' = calls
      BY <1>0, <1>8, <2>1 DEF restore, _start, IInv, Types
    <3>. QED  BY <1>1, <2>1, <3>1
  <2>2. CASE set_state("quarantined") /\ UNCHANGED live
    <3>1. Types'
      BY <1>0, <1>8, <2>2 DEF restore, set_state, IInv, Types, States
    <3>2. calls' = calls
      BY <1>8 DEF restore
    <3>. QED  BY <1>5, <2>2, <3>1, <3>2 DEF InFlight, States
  <2>. QED  BY <1>8, <2>1, <2>2 DEF restore
<1>9. ASSUME NEW h \in Hosts, NEW c \in Calls, invoke(h, c) PROVE IInv'
  <2>1. row' = row /\ row.state = "enabled"
    BY <1>9 DEF invoke
  <2>2. Types'
    BY <1>0, <1>9 DEF invoke, IInv, Types
  <2>3. row'.failures \in Nat /\ row'.failures < QUARANTINE_AFTER
    BY <1>0, <2>1 DEF IInv, EnabledBelowThreshold
  <2>4. MisbehaviourIsBounded'
    BY <2>3, BoundBelow DEF InFlight
  <2>. QED  BY <2>1, <2>2, <2>4 DEF IInv, Granted, EnabledBelowThreshold
<1>10. ASSUME NEW c \in Calls, NEW ok \in BOOLEAN, Answered(c, ok) PROVE IInv'
  <2> DEFINE n == IF ok THEN 0 ELSE row.failures + 1
             s == IF n >= QUARANTINE_AFTER /\ row.state = "enabled" THEN "quarantined" ELSE row.state
  <2>1. /\ row' = [row EXCEPT !.failures = n, !.state = s] /\ calls[c] # NoCall
        /\ calls' = [calls EXCEPT ![c] = NoCall]
    BY <1>0, <1>10 DEF Answered, record_outcome
  <2>2. /\ row'.failures = n /\ row'.state = s /\ row'.granted = row.granted
        /\ row'.version = row.version /\ n \in Nat /\ s \in States
        /\ row' \in [state : States, version : Nat, granted : Nat, failures : Nat]
    <3>1. n \in Nat
      BY <1>0
    <3>2. s \in States
      BY <1>0 DEF States
    <3> HIDE DEF n, s
    <3>. QED  BY <1>0, <2>1, <3>1, <3>2, Zenon
  <2>3. Types'
    BY <1>10, <2>1, <2>2 DEF Answered, IInv, Types, NoCall
  <2>4. InFlight' = InFlight \ {c} /\ c \in InFlight
    BY <2>1 DEF InFlight, IInv, Types
  <2>5. Cardinality(InFlight') = Cardinality(InFlight) - 1
    BY <2>4, FewCalls, FS_RemoveElement, Zenon
  <2>6. row.failures + Cardinality(InFlight) <= QUARANTINE_AFTER - 1 + Cardinality(Calls)
    BY DEF IInv, MisbehaviourIsBounded
  <2>7. MisbehaviourIsBounded'
    BY <1>0, <2>2, <2>5, <2>6, FewCalls DEF MisbehaviourIsBounded
  <2>8. Granted' /\ EnabledBelowThreshold'
    BY <1>0, <2>2 DEF IInv, Granted, EnabledBelowThreshold
  <2>. QED  BY <2>3, <2>7, <2>8 DEF IInv
<1>11. CASE UNCHANGED vars
  BY <1>1, <1>11 DEF vars, IInv, Types
<1>. QED  BY <1>2, <1>3, <1>4, <1>6, <1>7, <1>8, <1>9, <1>10, <1>11 DEF Next

LEMMA Invariant == ASSUME Constants PROVE Spec => []IInv
<1>1. Init => IInv
  BY Initial
<1>2. IInv /\ [Next]_vars => IInv'
  BY Preserved
<1>. QED  BY <1>1, <1>2, PTL DEF Spec

\* Quarantine comes in time (invoke and record_outcome): an enabled plugin is below the
\* threshold, and calls that were under way are all that can still fail.
THEOREM FailingIsStopped ==
  ASSUME Constants PROVE Spec => [](EnabledBelowThreshold /\ MisbehaviourIsBounded)
<1>1. IInv => EnabledBelowThreshold /\ MisbehaviourIsBounded
  BY DEF IInv
<1>. QED  BY <1>1, Invariant, PTL

\* Nothing but enable turns a plugin on (record_outcome, set_state, restore do not).
THEOREM OnlyEnableTurnsOn == ASSUME Constants PROVE Spec => [][OffUntilEnabled]_vars
<1>1. ASSUME IInv, [Next]_vars, row.state # "enabled", row'.state = "enabled"
      PROVE  calls' = calls /\ row'.granted = row'.version
  <2>1. row \in [state : States, version : Nat, granted : Nat, failures : Nat]
    BY <1>1, Zenon DEF IInv, Types
  <2>2. PICK h \in Hosts : enable(h)
    BY <1>1, <2>1, Zenon DEF Next, Install, discover, disable, Restart, restore, invoke, Answered,
                      record_outcome, set_state, vars
  <2>. QED  BY <2>2 DEF enable, save
<1>2. IInv /\ [Next]_vars => [OffUntilEnabled]_vars
  BY <1>1 DEF OffUntilEnabled
<1>. QED  BY <1>2, Invariant, PTL DEF Spec

\* An instance that enable or restore starts is of the version that was granted permissions.
THEOREM StartedIsGranted == ASSUME Constants PROVE Spec => [][RestoredIsGranted]_vars
<1>1. ASSUME IInv, [Next]_vars, NEW h \in Hosts, live[h] = 0, live'[h] # 0
      PROVE  live'[h] = row'.granted
  <2>1. live \in [Hosts -> Nat]
    BY <1>1 DEF IInv, Types
  <2>2. ASSUME NEW g \in Hosts, enable(g) PROVE live'[h] = row'.granted
    BY <1>1, <2>1, <2>2 DEF enable, _start, save
  <2>3. ASSUME NEW g \in Hosts, restore(g) PROVE live'[h] = row'.granted
    BY <1>1, <2>1, <2>3 DEF restore, _start, IInv, Granted
  <2>4. ASSUME NEW g \in Hosts, disable(g) \/ Restart(g) PROVE live'[h] = 0
    BY <1>1, <2>1, <2>4 DEF disable, Restart
  <2>. QED  BY <1>1, <2>2, <2>3, <2>4 DEF Next, Install, discover, invoke, Answered, vars
<1>2. IInv /\ [Next]_vars => [RestoredIsGranted]_vars
  BY <1>1 DEF RestoredIsGranted
<1>. QED  BY <1>2, Invariant, PTL DEF Spec
=============================================================================
