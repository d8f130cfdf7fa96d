---------------------------- MODULE PolicyStore ----------------------------
(***************************************************************************)
(* persistence/policies.py and runtime/policy.py store: the versions of    *)
(* one named policy. put reads the newest version, and only its first      *)
(* write takes the database's lock; the unique constraint on the version   *)
(* decides between two of them. Documents are "fine", "limits" (they parse *)
(* but ask for an unknown limit) or "bad". What is proved of it, and of        *)
(* evaluate over what it stores, comes at the end.                         *)
(***************************************************************************)
EXTENDS Policy, FiniteSets, FiniteSetsExt, FiniteSetTheorems, WellFoundedInduction, TLAPS

CONSTANTS Processes, MaxVersions

VARIABLES
  rows,     \* version -> active, document
  pc, doc, version,  \* what each process stores: idle, read or write; the version it counted
  refused   \* history: the last step was a put that raised

vars == <<rows, pc, doc, version, refused>>

Init ==
  /\ rows = [v \in {} |-> 0] /\ pc = [p \in Processes |-> "idle"]
  /\ doc = [p \in Processes |-> "fine"] /\ version = [p \in Processes |-> 0] /\ refused = FALSE
-----------------------------------------------------------------------------
\* parse_policy comes first; then SELECT COALESCE(MAX(version), 0)
put(p, d) ==
  /\ pc[p] = "idle"
  /\ IF d = "bad" THEN UNCHANGED <<pc, doc, version>> /\ refused' = TRUE
     ELSE /\ pc' = [pc EXCEPT ![p] = "write"] /\ doc' = [doc EXCEPT ![p] = d]
          /\ version' = [version EXCEPT ![p] = Max(DOMAIN rows \union {0}) + 1] /\ refused' = FALSE
  /\ UNCHANGED rows

Inactive(r) == [v \in DOMAIN r |-> [r[v] EXCEPT !.active = FALSE]]
With(r, v, d) == [w \in DOMAIN r \union {v} |-> IF w = v THEN [active |-> TRUE, document |-> d] ELSE r[w]]

\* mutant: limits are looked at after the version was committed
WriteFirst(p) ==
  /\ pc[p] = "write" /\ pc' = [pc EXCEPT ![p] = "idle"] /\ version[p] <= MaxVersions
  /\ LET unique == version[p] \notin DOMAIN rows
     IN  /\ rows' = IF unique THEN With(Inactive(rows), version[p], doc[p]) ELSE rows
         /\ refused' = (~unique \/ doc[p] = "limits")
  /\ UNCHANGED <<doc, version>>

\* mutant: a version that exists is written over
WriteOver(p) ==
  /\ pc[p] = "write" /\ pc' = [pc EXCEPT ![p] = "idle"] /\ version[p] <= MaxVersions
  /\ LET stored == doc[p] # "limits"
     IN  /\ rows' = IF stored THEN With(Inactive(rows), version[p], doc[p]) ELSE rows
         /\ refused' = ~stored
  /\ UNCHANGED <<doc, version>>

\* UPDATE, INSERT and validate_limits in one transaction: all of it or nothing
Write(p) ==
  /\ pc[p] = "write" /\ pc' = [pc EXCEPT ![p] = "idle"] /\ version[p] <= MaxVersions
  /\ LET stored == version[p] \notin DOMAIN rows /\ doc[p] # "limits"
     IN  /\ rows' = IF stored THEN With(Inactive(rows), version[p], doc[p]) ELSE rows
         /\ refused' = ~stored
  /\ UNCHANGED <<doc, version>>

\* disable: whatever version is active
disable(p) ==
  /\ pc[p] = "idle" /\ \E v \in DOMAIN rows : rows[v].active
  /\ rows' = Inactive(rows) /\ refused' = FALSE
  /\ UNCHANGED <<pc, doc, version>>

Next == \E p \in Processes : (\E d \in {"fine", "limits", "bad"} : put(p, d)) \/ Write(p) \/ disable(p)

Spec == Init /\ [][Next]_vars
-----------------------------------------------------------------------------
\* Of a policy at most the newest version is in force, whoever else stores it at the same time, and its versions
\* have no gaps: an older one never comes back by a put that was slow.
NewestIsInForce ==
  /\ DOMAIN rows = 1..Cardinality(DOMAIN rows)
  /\ \A v \in DOMAIN rows : rows[v].active => v = Cardinality(DOMAIN rows)

\* A put that raised left the policy that was in force in force, with its history: also when it raised after its
\* writes (store checks the limits last), or because another put took its version.
RefusedChangesNothing == refused' => rows' = rows

-----------------------------------------------------------------------------
(***************************************************************************)
(* For any number of processes that store the policy at once and any       *)
(* number of versions: at most the newest version is in force.             *)
(***************************************************************************)

Newest == Cardinality(DOMAIN rows)

\* put counted before it writes: by then another put may have taken its version, but no
\* version beyond it
Types == /\ pc \in [Processes -> {"idle", "write"}] /\ version \in [Processes -> Nat]
         /\ rows \in [DOMAIN rows -> [active : BOOLEAN, document : {"fine", "limits"}]]
         /\ doc \in [Processes -> {"fine", "limits"}]
IInv == /\ Types /\ Newest \in Nat /\ NewestIsInForce
        /\ \A p \in Processes : pc[p] = "write" => version[p] \in 1..(Newest + 1)

\* MAX(version) of versions without gaps
LEMMA LastOfAll == ASSUME NEW n \in Nat PROVE Max((1..n) \union {0}) = n
<1> DEFINE P(x) == x \in (1..n) \union {0} /\ \A y \in (1..n) \union {0} : x >= y
<1>1. P(n)
  OBVIOUS
<1>2. \A x : P(x) => x = n
  OBVIOUS
<1>. QED  BY <1>1, <1>2 DEF Max

LEMMA Interval == ASSUME NEW n \in Nat PROVE Cardinality(1..n) = n
BY FS_Interval, 1 \in Int, n \in Int

LEMMA Preserved == ASSUME IInv, [Next]_vars PROVE IInv'
<1>1. ASSUME NEW p \in Processes, NEW d \in {"fine", "limits", "bad"}, put(p, d) PROVE IInv'
  <2>1. Max(DOMAIN rows \union {0}) = Newest
    BY LastOfAll DEF IInv, NewestIsInForce, Newest
  <2>2. rows' = rows /\ Newest' = Newest
    BY <1>1 DEF put, Newest
  <2>3. CASE d = "bad"
    BY <1>1, <2>2, <2>3 DEF put, IInv, Types, NewestIsInForce
  <2>4. CASE d # "bad"
    <3>1. /\ pc' = [pc EXCEPT ![p] = "write"] /\ doc' = [doc EXCEPT ![p] = d]
          /\ version' = [version EXCEPT ![p] = Newest + 1]
      BY <1>1, <2>1, <2>4 DEF put
    <3>2. Types'
      BY <2>2, <2>4, <3>1 DEF IInv, Types
    <3>. QED  BY <2>2, <3>1, <3>2 DEF IInv, Types, NewestIsInForce
  <2>. QED  BY <2>3, <2>4
<1>2. ASSUME NEW p \in Processes, Write(p) PROVE IInv'
  <2>1. CASE rows' = rows
    BY <1>2, <2>1 DEF Write, IInv, Types, NewestIsInForce, Newest
  <2>2. CASE rows' # rows
    <3> DEFINE n == Newest
    <3>1. /\ version[p] \notin DOMAIN rows /\ rows' = With(Inactive(rows), version[p], doc[p])
          /\ pc' = [pc EXCEPT ![p] = "idle"] /\ pc[p] = "write" /\ version' = version /\ doc' = doc
      BY <1>2, <2>2 DEF Write
    <3>2. n \in Nat /\ DOMAIN rows = 1..n /\ version[p] = n + 1
      BY <3>1 DEF IInv, NewestIsInForce, Newest
    <3>3. DOMAIN rows' = 1..(n + 1)
      BY <3>1, <3>2 DEF With, Inactive
    <3>4. Newest' = n + 1
      BY <3>2, <3>3, Interval DEF Newest
    <3>5. \A v \in DOMAIN rows' : rows'[v] = IF v = n + 1 THEN [active |-> TRUE, document |-> doc[p]]
                                             ELSE [rows[v] EXCEPT !.active = FALSE]
      BY <3>1, <3>2, Zenon DEF With, Inactive
    <3>6. \A v \in 1..n : rows[v] \in [active : BOOLEAN, document : {"fine", "limits"}]
      BY <3>2 DEF IInv, Types
    <3>7. \A v \in DOMAIN rows' : rows'[v].active => v = n + 1
      BY <3>2, <3>3, <3>5, <3>6
    <3>8. rows' \in [DOMAIN rows' -> [active : BOOLEAN, document : {"fine", "limits"}]]
      <4>1. \A v \in DOMAIN rows' : rows'[v] \in [active : BOOLEAN, document : {"fine", "limits"}]
        <5>1. doc[p] \in {"fine", "limits"}
          BY DEF IInv, Types
        <5>2. \A v \in 1..n : [rows[v] EXCEPT !.active = FALSE] \in [active : BOOLEAN, document : {"fine", "limits"}]
          BY <3>6, Zenon
        <5> SUFFICES ASSUME NEW v \in DOMAIN rows'
                     PROVE  rows'[v] \in [active : BOOLEAN, document : {"fine", "limits"}]
          OBVIOUS
        <5>3. CASE v = n + 1
          <6>1. [active |-> TRUE, document |-> doc[p]] \in [active : BOOLEAN, document : {"fine", "limits"}]
            BY <5>1
          <6>2. rows'[v] = [active |-> TRUE, document |-> doc[p]]
            BY <3>5, <5>3, Zenon
          <6>. QED  BY <6>1, <6>2
        <5>4. CASE v # n + 1
          <6>1. v \in 1..n
            BY <3>2, <3>3, <5>4
          <6>. QED  BY <3>5, <5>2, <5>4, <6>1, Zenon
        <5>. QED  BY <5>3, <5>4
      <4>2. rows' = [v \in DOMAIN rows' |-> rows'[v]]
        BY <3>1 DEF With
      <4>. QED  BY <4>1, <4>2
    <3>9. NewestIsInForce'
      BY <3>3, <3>4, <3>7 DEF NewestIsInForce, Newest
    <3>. QED  BY <3>1, <3>2, <3>4, <3>8, <3>9 DEF IInv, Types
  <2>. QED  BY <2>1, <2>2
<1>3. ASSUME NEW p \in Processes, disable(p) PROVE IInv'
  <2>1. rows' = Inactive(rows) /\ UNCHANGED <<pc, doc, version>>
    BY <1>3 DEF disable
  <2>2. DOMAIN rows' = DOMAIN rows /\ Newest' = Newest
    BY <2>1 DEF Inactive, Newest
  <2>3. \A v \in DOMAIN rows : rows'[v] = [rows[v] EXCEPT !.active = FALSE]
    BY <2>1 DEF Inactive
  <2>4. \A v \in DOMAIN rows : /\ ~rows'[v].active
                               /\ rows'[v] \in [active : BOOLEAN, document : {"fine", "limits"}]
    BY <2>3, Zenon DEF IInv, Types
  <2>5. rows' \in [DOMAIN rows' -> [active : BOOLEAN, document : {"fine", "limits"}]]
    BY <2>1, <2>2, <2>4 DEF Inactive
  <2>. QED  BY <2>1, <2>2, <2>4, <2>5 DEF IInv, Types, NewestIsInForce, Newest
<1>4. CASE UNCHANGED vars
  BY <1>4 DEF vars, IInv, Types, NewestIsInForce, Newest
<1>. QED  BY <1>1, <1>2, <1>3, <1>4 DEF Next

\* persistence/policies.py: of the stored versions of a policy at most the newest is in force
\* and none is missing, though put reads MAX(version) before it takes the write lock.
THEOREM OnlyTheNewestIsInForce == Spec => []NewestIsInForce
<1>1. Init => IInv
  <2> SUFFICES ASSUME Init PROVE IInv
    OBVIOUS
  <2>1. DOMAIN rows = {} /\ Newest = 0
    BY FS_EmptySet DEF Init, Newest
  <2>2. 1..0 = {}
    OBVIOUS
  <2>. QED  BY <2>1, <2>2 DEF Init, IInv, Types, NewestIsInForce, Newest
<1>2. IInv /\ [Next]_vars => IInv'
  BY Preserved
<1>3. IInv => NewestIsInForce
  BY DEF IInv
<1>. QED  BY <1>1, <1>2, <1>3, PTL DEF Spec
-----------------------------------------------------------------------------
(***************************************************************************)
(* The strictest answer wins, for any floor, any set of policies and any   *)
(* rules in them: domain/policy.py, evaluate.                              *)
(***************************************************************************)

\* what parse_policy makes sure of
WellFormed(p) == /\ DOMAIN p.rules \subseteq Nat
                 /\ \A i \in DOMAIN p.rules : p.rules[i].result \in Result

Heard(floor, policies, action, effect) == {p \in {floor} \union policies : Speaks(p, action, effect)}
Answer(p, action, effect) == SpeaksFirst(p, action, effect).result

\* a policy that speaks has a first rule that does
LEMMA FirstRule ==
  ASSUME NEW p, WellFormed(p), NEW action, NEW effect, Speaks(p, action, effect)
  PROVE  Answer(p, action, effect) \in Result
<1> DEFINE T == {i \in DOMAIN p.rules : matches(p.rules[i], action, effect)}
<1>1. T # {} /\ T \subseteq Nat
  BY DEF Speaks, WellFormed
<1>2. PICK i \in T : \A j \in T : <<j, i>> \notin OpToRel(<, Nat)
  BY <1>1, NatLessThanWellFounded, WFMin, Zenon
<1>3. \A j \in T : ~(j < i)
  BY <1>1, <1>2, Zenon DEF OpToRel
<1>4. \E k \in DOMAIN p.rules : /\ matches(p.rules[k], action, effect)
                                /\ \A j \in DOMAIN p.rules : j < k => ~matches(p.rules[j], action, effect)
  BY <1>3
<1>5. \E k \in DOMAIN p.rules : SpeaksFirst(p, action, effect) = p.rules[k]
  BY <1>4, Zenon DEF SpeaksFirst
<1>. QED  BY <1>5 DEF Answer, WellFormed

\* results are ordered by strictness, so a set of them has a strictest one
LEMMA Strictest ==
  ASSUME NEW S, S \subseteq Result, S # {}
  PROVE  \E r \in S : \A s \in S : _STRICTNESS[s] <= _STRICTNESS[r]
<1>1. /\ _STRICTNESS["ALLOW"] = 0 /\ _STRICTNESS["ALLOW_WITH_LIMITS"] = 1
      /\ _STRICTNESS["REQUIRE_APPROVAL"] = 2 /\ _STRICTNESS["DENY"] = 3
  BY DEF _STRICTNESS, Result
<1>2. CASE "DENY" \in S
  BY <1>1, <1>2 DEF Result
<1>3. CASE "DENY" \notin S /\ "REQUIRE_APPROVAL" \in S
  BY <1>1, <1>3 DEF Result
<1>4. CASE "DENY" \notin S /\ "REQUIRE_APPROVAL" \notin S /\ "ALLOW_WITH_LIMITS" \in S
  BY <1>1, <1>4 DEF Result
<1>5. CASE "DENY" \notin S /\ "REQUIRE_APPROVAL" \notin S /\ "ALLOW_WITH_LIMITS" \notin S
  <2>1. \A s \in S : s = "ALLOW"
    BY <1>5 DEF Result
  <2>2. PICK r \in S : r = "ALLOW"
    BY <2>1
  <2>3. \A s \in S : _STRICTNESS[s] = 0
    BY <1>1, <2>1
  <2>. QED  BY <1>1, <2>2, <2>3
<1>. QED  BY <1>2, <1>3, <1>4, <1>5

\* the answer is one that was given, and none that was given is stricter
LEMMA EvaluateIsStrictest ==
  ASSUME NEW floor, NEW policies, NEW action, NEW effect,
         \A p \in {floor} \union policies : WellFormed(p),
         Heard(floor, policies, action, effect) # {}
  PROVE  LET heard == Heard(floor, policies, action, effect)
             given == evaluate(floor, policies, action, effect).result
         IN  /\ given \in Result
             /\ \E p \in heard : Answer(p, action, effect) = given
             /\ \A p \in heard : _STRICTNESS[Answer(p, action, effect)] <= _STRICTNESS[given]
<1> DEFINE heard == Heard(floor, policies, action, effect)
           answers == {Answer(p, action, effect) : p \in heard}
           best == CHOOSE r \in Result :
                      /\ \E p \in heard : Answer(p, action, effect) = r
                      /\ \A p \in heard : _STRICTNESS[Answer(p, action, effect)] <= _STRICTNESS[r]
<1>1. answers \subseteq Result /\ answers # {}
  BY FirstRule DEF Heard
<1>2. \E r \in answers : \A s \in answers : _STRICTNESS[s] <= _STRICTNESS[r]
  BY <1>1, Strictest, Zenon
<1>3. \E r \in Result : /\ \E p \in heard : Answer(p, action, effect) = r
                        /\ \A p \in heard : _STRICTNESS[Answer(p, action, effect)] <= _STRICTNESS[r]
  BY <1>1, <1>2
<1>4. /\ best \in Result /\ \E p \in heard : Answer(p, action, effect) = best
      /\ \A p \in heard : _STRICTNESS[Answer(p, action, effect)] <= _STRICTNESS[best]
  BY <1>3, Zenon
<1>5. evaluate(floor, policies, action, effect).result = best
  BY Zenon DEF evaluate, Heard, Answer
<1>. QED  BY <1>4, <1>5, Zenon

\* A policy added, at whatever scope, never makes an answer weaker: evaluate is monotone in the
\* set of policies (the statement NarrowerOnlyTightens checks on small documents).
THEOREM MorePoliciesOnlyTighten ==
  ASSUME NEW floor, NEW policies, NEW more, NEW action, NEW effect, policies \subseteq more,
         \A p \in {floor} \union more : WellFormed(p)
  PROVE  _STRICTNESS[evaluate(floor, policies, action, effect).result]
           <= _STRICTNESS[evaluate(floor, more, action, effect).result]
<1> DEFINE few == Heard(floor, policies, action, effect)
           many == Heard(floor, more, action, effect)
<1>1. few \subseteq many
  BY DEF Heard
<1>2. \A r \in Result : _STRICTNESS[r] \in Nat /\ _STRICTNESS["ALLOW"] = 0
  BY DEF _STRICTNESS, Result
<1>3. ASSUME NEW P, Heard(floor, P, action, effect) = {}
      PROVE  evaluate(floor, P, action, effect).result = "ALLOW"
  BY <1>3 DEF evaluate, Heard
<1>4. CASE few = {}
  <2>1. evaluate(floor, more, action, effect).result \in Result
    BY <1>3, EvaluateIsStrictest DEF Result
  <2>. QED  BY <1>2, <1>3, <1>4, <2>1 DEF Result
<1>5. CASE few # {}
  <2>1. PICK p \in few : Answer(p, action, effect) = evaluate(floor, policies, action, effect).result
    BY <1>5, EvaluateIsStrictest
  <2>2. p \in many /\ many # {}
    BY <1>1, <2>1
  <2>. QED  BY <2>1, <2>2, EvaluateIsStrictest
<1>. QED  BY <1>4, <1>5

\* What any policy denies stays denied, whatever the others allow.
THEOREM OneDenialDenies ==
  ASSUME NEW floor, NEW policies, NEW action, NEW effect,
         \A p \in {floor} \union policies : WellFormed(p),
         NEW p \in {floor} \union policies, Speaks(p, action, effect), Answer(p, action, effect) = "DENY"
  PROVE  evaluate(floor, policies, action, effect).result = "DENY"
<1>1. p \in Heard(floor, policies, action, effect)
  BY DEF Heard
<1>2. /\ evaluate(floor, policies, action, effect).result \in Result
      /\ _STRICTNESS["DENY"] <= _STRICTNESS[evaluate(floor, policies, action, effect).result]
  BY <1>1, EvaluateIsStrictest
<1>. QED  BY <1>2 DEF _STRICTNESS, Result
=============================================================================
