--------------------------- MODULE WorkflowGraph ---------------------------
(***************************************************************************)
(* Workflow definitions and their validation: domain/workflows.py.  A      *)
(* definition is a record                                                  *)
(*   nodes    a sequence of Node records, in the order they were written   *)
(*   edges    a set of Edge records                                        *)
(*   trigger  "manual", or "event" for every type that names an event      *)
(*   required does a variable without a default have to be given?          *)
(* What a node's config says in words is reduced to what validation and    *)
(* the engine tell apart.                                                  *)
(***************************************************************************)
EXTENDS Naturals, FiniteSets, Sequences, Integers

NodeType == {"agent", "action", "condition", "approval", "wait_event", "timer", "end"}

\* an edge without `when` is "always"
EDGE_LABELS == {"true", "false", "approved", "denied", "timeout", "failed"}
Labels == EDGE_LABELS \cup {"always"}

REQUIRES_APPROVAL_EFFECTS ==
  {"EXTERNAL_WRITE", "DESTRUCTIVE", "HOST_MUTATION", "REPOSITORY_WRITE", "UNKNOWN"}
SideEffect == REQUIRES_APPROVAL_EFFECTS \cup {"PURE", "READ_ONLY", "NETWORK_READ", "WORKSPACE_WRITE"}

(***************************************************************************)
(* effect, idempotent, recorded: the ActionInfo of an action node, and     *)
(* whether its connector can find the object an earlier attempt made.      *)
(* known: is the action in the catalogue?  well_formed: the config has     *)
(* what its type needs, within its limits, and no literal secret.  refs:   *)
(* the nodes named by {{nodes.x...}} templates.  timeout: timeout_s is     *)
(* set.  handles: on_failure is "continue".                                *)
(***************************************************************************)
Node(ids) ==
  [id : ids, type : NodeType, max_visits : Nat, effect : SideEffect, idempotent : BOOLEAN,
   recorded : BOOLEAN, known : BOOLEAN, well_formed : BOOLEAN, refs : SUBSET ids,
   timeout : BOOLEAN, handles : BOOLEAN, overrides : BOOLEAN, result : {"success", "failure"}]
Edge(ids) == [source : ids, target : ids, when : Labels]

Nodes(wf) == {wf.nodes[i] : i \in DOMAIN wf.nodes}
Ids(wf)   == {n.id : n \in Nodes(wf)}
node(wf, id) == LET i == CHOOSE i \in DOMAIN wf.nodes :
                           /\ wf.nodes[i].id = id
                           /\ \A j \in 1..(i - 1) : wf.nodes[j].id # id
                IN wf.nodes[i]
outgoing(wf, id) == {e \in wf.edges : e.source = id}
incoming(wf, id) == {e \in wf.edges : e.target = id}
entries(wf) == {id \in Ids(wf) : incoming(wf, id) = {}}
LabelsFrom(wf, id) == {e.when : e \in outgoing(wf, id)}

\* the least set that holds `start` and is closed under `edges`: every worklist loop
\* of the source computes one of these
Closure(start, edges) ==
  LET Step(S) == S \cup {e.target : e \in {e \in edges : e.source \in S}}
      f[n \in 0..Cardinality(edges)] == IF n = 0 THEN start ELSE Step(f[n - 1])
  IN f[Cardinality(edges)]

Backwards(edges) == {[source |-> e.target, target |-> e.source, when |-> e.when] : e \in edges}

_reachable(wf, starts) == Closure(starts, wf.edges)
_ancestors(wf, id) == Closure({e.source : e \in incoming(wf, id)}, Backwards(wf.edges))
_has_terminal(wf) == \E id \in Ids(wf) : outgoing(wf, id) = {}
cycle_nodes(wf) == {id \in Ids(wf) : id \in Closure({e.target : e \in outgoing(wf, id)}, wf.edges)}

\* mutant of ReachableUnapproved: an approval right before the node is enough
ReachableDirectly(wf, id) ==
  /\ id \in Closure(entries(wf), wf.edges)
  /\ \A e \in incoming(wf, id) : node(wf, e.source).type # "approval"

\* _reachable_avoiding_approval: nothing past an approval node counts as unapproved
ReachableUnapproved(wf, id) ==
  id \in Closure(entries(wf), {e \in wf.edges : node(wf, e.source).type # "approval"})
-----------------------------------------------------------------------------
Problem(code, found) == IF found THEN {code} ELSE {}

StructuralProblems(wf) ==
  Problem("duplicate_node", Cardinality(Ids(wf)) < Len(wf.nodes))
  \cup Problem("dangling_edge", \E e \in wf.edges : ~({e.source, e.target} \subseteq Ids(wf)))

_check_node(wf, n) ==
  LET labels == LabelsFrom(wf, n.id)
      is(type) == n.type = type
  IN Problem("config", ~n.well_formed)
     \cup Problem("unknown_action", is("action") /\ ~n.known)
     \cup Problem("condition_edges", is("condition") /\ ~({"true", "false"} \subseteq labels))
     \cup Problem("edge_label", \/ ~is("condition") /\ labels \cap {"true", "false"} # {}
                                \/ is("approval") /\ ~(labels \subseteq {"always", "approved", "denied", "timeout"}))
     \cup Problem("end_has_edges", is("end") /\ outgoing(wf, n.id) # {})
     \cup Problem("bad_reference", ~(n.refs \subseteq _ancestors(wf, n.id)))

_check_approval_gates(wf, unapproved_writes) ==
  Problem("missing_approval",
          /\ ~unapproved_writes
          /\ \E n \in Nodes(wf) : /\ n.type = "action" /\ n.known
                                  /\ n.effect \in REQUIRES_APPROVAL_EFFECTS
                                  /\ ReachableUnapproved(wf, n.id))

\* the codes of the problems found; none means the workflow may be saved and run
validate(wf, unapproved_writes) ==
  IF StructuralProblems(wf) # {} THEN StructuralProblems(wf)
  ELSE Problem("no_entry", entries(wf) = {})
       \cup Problem("unreachable", Ids(wf) # _reachable(wf, entries(wf)))
       \cup Problem("no_end", ~(\E n \in Nodes(wf) : n.type = "end") /\ ~_has_terminal(wf))
       \cup Problem("unbounded_loop", \E id \in cycle_nodes(wf) : node(wf, id).max_visits < 2)
       \cup UNION {_check_node(wf, n) : n \in Nodes(wf)}
       \cup _check_approval_gates(wf, unapproved_writes)
       \cup Problem("unbound_variable", wf.trigger # "manual" /\ wf.required)
-----------------------------------------------------------------------------
\* reference definition: the paths without repetition that start at an entry
Paths(wf) ==
  {p \in UNION {[1..k -> Ids(wf)] : k \in 1..Cardinality(Ids(wf))} :
     /\ p[1] \in entries(wf)
     /\ \A i \in 1..(Len(p) - 1) : \E e \in outgoing(wf, p[i]) : e.target = p[i + 1]
     /\ \A i, j \in DOMAIN p : i # j => p[i] # p[j]}

-----------------------------------------------------------------------------
(***************************************************************************)
(* domain/workflows.py: conditions, templates, trigger filters, and the    *)
(* plain-data form of a definition.  A value is [kind, n] (a number or a   *)
(* text), or [kind |-> "list", items]; an operand is a value or a template *)
(* [kind |-> "ref", path].  A context maps the paths that resolve to their *)
(* values.  What raises TemplateError is the outcome "error".              *)
(***************************************************************************)

OPERATORS == {"eq", "ne", "in", "contains", "gt", "ge", "lt", "le", "exists"}
Error == "error"

(* lookup: a path resolves only through what is there *)
lookup(context, path) == IF path \in DOMAIN context THEN context[path] ELSE [kind |-> Error]

(* render of an operand: one placeholder keeps the value's type            *)
render(operand, context) == IF operand.kind = "ref" THEN lookup(context, operand.path) ELSE operand

references(operand) == IF operand.kind = "ref" THEN {operand.path} ELSE {}

Truth(b) == IF b THEN "true" ELSE "false"

(* A comparison of two rendered values: Python compares any two for        *)
(* equality, orders only like with like, and looks only into containers;   *)
(* `in` between texts means the same text here.                            *)
Compare(op, left, right) ==
    CASE op = "eq" -> Truth(left = right)
      [] op = "ne" -> Truth(left # right)
      [] op = "in" -> IF right.kind = "list" THEN Truth(left \in right.items)
                      ELSE IF right.kind = "text" /\ left.kind = "text" THEN Truth(left = right) ELSE Error
      [] op = "contains" -> IF left.kind = "list" THEN Truth(right \in left.items)
                            ELSE IF right.kind = "text" /\ left.kind = "text" THEN Truth(left = right) ELSE Error
      [] OTHER -> IF left.kind # right.kind \/ left.kind \notin {"number", "text"} THEN Error
                  ELSE CASE op = "gt" -> Truth(left.n > right.n) [] op = "ge" -> Truth(left.n >= right.n)
                         [] op = "lt" -> Truth(left.n < right.n) [] op = "le" -> Truth(left.n <= right.n)

(* mutant: every part is evaluated first *)
FirstOfAll(results, stop) ==
    IF \E i \in DOMAIN results : results[i] = Error THEN Error
    ELSE IF \E i \in DOMAIN results : results[i] = stop THEN stop
    ELSE Truth(stop = "false")

(* all() and any(): from the left, up to the first that decides or raises  *)
First(results, stop) ==
    LET deciding == {i \in DOMAIN results : results[i] \in {stop, Error}} IN
    IF deciding = {} THEN Truth(stop = "false")
    ELSE results[CHOOSE i \in deciding : \A j \in deciding : i <= j]

(* evaluate: a condition lists its parts, the inner ones first; `all`,     *)
(* `any` and `not` name the places of theirs, and the last part is the     *)
(* condition itself.                                                       *)
evaluate(c, context) ==
    LET value[i \in DOMAIN c] ==
          LET part == c[i] IN
          CASE part.op = "all" -> First([j \in DOMAIN part.parts |-> value[part.parts[j]]], "false")
            [] part.op = "any" -> First([j \in DOMAIN part.parts |-> value[part.parts[j]]], "true")
            [] part.op = "not" -> LET r == value[part.parts[1]] IN IF r = Error THEN Error ELSE Truth(r = "false")
            [] part.op = "exists" -> Truth(part.left.kind = "ref" /\ part.left.path \in DOMAIN context)
            [] part.op \in OPERATORS \ {"exists"} ->
                  LET left == render(part.left, context)  right == render(part.right, context) IN
                  IF Error \in {left.kind, right.kind} THEN Error ELSE Compare(part.op, left, right)
            [] OTHER -> Error
    IN  value[Len(c)]

Compound == {"all", "any", "not"}

condition_references(c) ==
    UNION {references(c[i].left) \union references(c[i].right) : i \in {i \in DOMAIN c : c[i].op \notin Compound}}

_validate_condition(c) ==
    \A i \in DOMAIN c : IF c[i].op \in Compound THEN c[i].op = "not" \/ c[i].parts # <<>> ELSE c[i].op \in OPERATORS

-----------------------------------------------------------------------------
(* matches: every path of a trigger's filter has its value, one of a list, *)
(* or is there at all; a filter is a function from paths to expectations   *)
(* [how, items]                                                            *)
matches(filter, event) ==
    \A p \in DOMAIN filter :
        /\ p \in DOMAIN event
        /\ CASE filter[p].how \in {"equals", "in"} -> event[p] \in filter[p].items
             [] filter[p].how = "exists" -> TRUE
             [] OTHER -> FALSE

-----------------------------------------------------------------------------
(* Plain data: type, config, label and numbers as they were written        *)
(* ("absent", or Unwritten for a number, where they were not).             *)
MAX_VISITS_LIMIT == 20
Unwritten == -1

ParsedVisits(raw) == IF raw = Unwritten THEN 1 ELSE raw

(* parse: the problems of plain data, and the workflow where there are     *)
(* none.  raw is [schema, name_ok, trigger, nodes, edges, layout], its     *)
(* nodes a function from ids to [type, config, max_visits, stray].         *)
ParseProblems(raw, types, labels) ==
    (IF raw.schema \in {Unwritten, 1} THEN {} ELSE {"schema_version"})
    \union (IF raw.name_ok THEN {} ELSE {"name"})
    \union (IF raw.trigger.type # "absent" THEN {} ELSE {"trigger"})
    \union (IF DOMAIN raw.nodes = {} THEN {"nodes"} ELSE {})
    \union {code \in {"node_type", "unknown_config", "max_visits"} :
              \E n \in DOMAIN raw.nodes :
                 CASE code = "node_type" -> raw.nodes[n].type \notin types
                   [] code = "unknown_config" -> raw.nodes[n].stray
                   [] OTHER -> ParsedVisits(raw.nodes[n].max_visits) \notin 1..MAX_VISITS_LIMIT}
    \union (IF \A e \in raw.edges : e.when \in labels \union {"absent"} THEN {} ELSE {"edge_label"})
    \union (IF \A l \in raw.layout : l \in DOMAIN raw.nodes THEN {} ELSE {"layout"})

parse(raw) ==
    [name_ok |-> raw.name_ok, trigger |-> raw.trigger.type,
     filter |-> IF raw.trigger.filter = "absent" THEN "empty" ELSE raw.trigger.filter,
     nodes |-> [n \in DOMAIN raw.nodes |->
                  [type |-> raw.nodes[n].type,
                   config |-> IF raw.nodes[n].config = "absent" THEN "empty" ELSE raw.nodes[n].config,
                   max_visits |-> ParsedVisits(raw.nodes[n].max_visits)]],
     edges |-> {[source |-> e.source, target |-> e.target,
                 when |-> IF e.when = "absent" THEN "always" ELSE e.when] : e \in raw.edges},
     layout |-> raw.layout]

(* mutant: the number of visits is never written *)
to_dict_short(wf) ==
    [schema |-> 1, name_ok |-> wf.name_ok, trigger |-> [type |-> wf.trigger, filter |-> wf.filter],
     nodes |-> [n \in DOMAIN wf.nodes |-> [type |-> wf.nodes[n].type, config |-> wf.nodes[n].config,
                                           max_visits |-> Unwritten, stray |-> FALSE]],
     edges |-> {[source |-> e.source, target |-> e.target,
                 when |-> IF e.when = "always" THEN "absent" ELSE e.when] : e \in wf.edges},
     layout |-> wf.layout]

(* to_dict: what is stored, exported and shown                             *)
to_dict(wf) ==
    [schema |-> 1, name_ok |-> wf.name_ok, trigger |-> [type |-> wf.trigger, filter |-> wf.filter],
     nodes |-> [n \in DOMAIN wf.nodes |->
                  [type |-> wf.nodes[n].type, config |-> wf.nodes[n].config, stray |-> FALSE,
                   max_visits |-> IF wf.nodes[n].max_visits = 1 THEN Unwritten ELSE wf.nodes[n].max_visits]],
     edges |-> {[source |-> e.source, target |-> e.target,
                 when |-> IF e.when = "always" THEN "absent" ELSE e.when] : e \in wf.edges},
     layout |-> wf.layout]
=============================================================================
