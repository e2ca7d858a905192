------------------------------ MODULE Evidence ------------------------------
(***************************************************************************)
(* What is made of an analysis and of its results: the plan of what a      *)
(* session observes (runtime/planning.py), the checks of a verification    *)
(* run with their keys (evidence/normalization.py, contracts.py and        *)
(* catalog.py), the comparison of two runs (remediation/comparison.py) and *)
(* the gate of a pipeline (ci/gate.py).                                    *)
(***************************************************************************)
EXTENDS Applicability

(* build_runtime_target_plan refuses what it cannot bind to one route: the  *)
(* routes of ingresses, of mutations and of acknowledgements, and controls  *)
(* that are not what the graph says.                                        *)
RouteBindings(g) ==
  /\ \A i, j \in Ingresses(g) : i.route = j.route => i = j
  /\ \A n \in g.nodes : n.kind \in {"mutation", "ack"} => n.route \in {i.route : i \in Ingresses(g)}

CustomerTargets(g, art) ==
  \A c \in art.controls :
    /\ c.ingress \in Ingresses(g) /\ c.ingress.route = c.route
    /\ c.value \in g.nodes /\ c.value.kind = "value"
    /\ c.edge \in g.edges /\ c.edge.source = c.ingress /\ c.edge.target = c.value

(* Mutant of ExpectedMutations: any trust gate protects.                    *)
ExpectedMutationsOfAnyGate(g, x) ==
  LET route == x.ingress.route
      onRoute == {n \in g.nodes : n.kind = "mutation" /\ n.route = route}
      captured == {e \in g.edges : e.kind = "BRANCHES_TO" /\ e.matched /\ "captured" \in BareStates(e)}
      guarded == {e.target : e \in {y \in g.edges : y.kind = "GUARDS" /\ y.source.route = route}}
  IN  IF x.scenario = "SG-05" THEN onRoute \cap {e.target : e \in captured}
      ELSE {n \in onRoute : n \in guarded \/ n.assigned # "none"}

(* The mutations that a session observes for an instance of SG-05 or SG-06, *)
(* found again from the graph.                                              *)
ExpectedMutations(g, x) ==
  LET route == x.ingress.route
      onRoute == {n \in g.nodes : n.kind = "mutation" /\ n.route = route}
      captured == {e \in g.edges : e.kind = "BRANCHES_TO" /\ e.matched /\ "captured" \in BareStates(e)}
      gates == {e.source : e \in {y \in captured : /\ y.source.route = route
                                                   /\ x.control = None \/ y.target = x.control.value}}
      guarded == {e.target : e \in {y \in g.edges :
                    /\ y.kind = "GUARDS" /\ y.source.route = route
                    /\ y.source.trust \in {"CHECKOUT_SIGNATURE", "SERVER_ORDER"}}}
  IN  IF x.scenario = "SG-05"
      THEN onRoute \cap {e.target : e \in {y \in captured : y.source \in gates}}
      ELSE {n \in onRoute : n \in guarded \/ n.assigned # "none"}

MutationEvidenceMatches(g, art) ==
  \A x \in art.instances : x.scenario \in {"SG-05", "SG-06"} /\ x.ingress # None =>
    \A a \in x.assertions :
      a.judged.reason = "MUTATION_TARGET_AVAILABLE" => a.judged.nodes = ExpectedMutations(g, x)

BuildRuntimeTargetPlan(g, art) ==
  RouteBindings(g) /\ CustomerTargets(g, art) /\ MutationEvidenceMatches(g, art)
-----------------------------------------------------------------------------
(* ASSERTION_DEFINITIONS: how many requests an assertion may have, the      *)
(* policies it is decided under and those that are part of its identity.    *)
RequestRoles(key) == IF key \in {"SG01", "SG07", "SG08_LATE_POLICY"} THEN 1 ELSE 2
LateKeys == {"SG08_PRECAPTURE", "SG08_CAPTURE", "SG08_LATE_POLICY"}
PolicyAuthority(key) ==
  IF key \in LateKeys THEN {"fulfilment", "late"}
  ELSE IF key \in {"SG01", "SG02", "SG03", "SG04", "SG07"} THEN {"fulfilment"} ELSE {}
KeyPolicyDimensions(key) == IF key \in LateKeys \cup {"SG01"} THEN PolicyAuthority(key) ELSE {}

(* Mutant of TargetReference: the path to the value is not part of it.      *)
TargetReferenceOfScenario(x, a) ==
  LET Of(kind) == {n \in a.judged.nodes : n.kind = kind}
  IN  [ingress |-> None, edge |-> None, mutations |-> Of("mutation"), acks |-> Of("ack")]

(* What a check is about.  Of the nodes that the assertion rests on, the    *)
(* mutations and the acknowledgements; those that an execution observed are *)
(* among them.                                                              *)
TargetReference(x, a) ==
  LET Of(kind) == {n \in a.judged.nodes : n.kind = kind}
      identity == IF x.control # None THEN x.control ELSE a.control
  IN  [ingress |-> x.ingress, edge |-> IF identity = None THEN None ELSE identity.edge,
       mutations |-> Of("mutation"), acks |-> Of("ack")]

BuildVerificationCheckKey(x, a, p) ==
  [scenario |-> x.scenario, assertion |-> a.key, targets |-> TargetReference(x, a),
   policy |-> [d \in KeyPolicyDimensions(a.key) |-> p[d]]]

(* The checks of a run, one for each assertion of the artifact, whose       *)
(* executions all succeed (module ScenarioExecution): what can be executed  *)
(* has one result, the rest follows from its state.                         *)
ResultOf(a, executed) ==
  CASE a.judged.state = "APPLICABLE" -> executed
    [] a.judged.state = "INDETERMINATE" -> "UNVERIFIED"
    [] OTHER -> a.judged.state

ChecksOf(art, executed) ==
  {[key |-> BuildVerificationCheckKey(y[1], y[2], art.policy), instance |-> y[1].scenario,
    role |-> y[2].role, assertion |-> y[2], result |-> ResultOf(y[2], executed)] : y \in UNION {
     {<<x, a>> : a \in x.assertions} : x \in art.instances}}

(* derive_findings: what a reader is told of a check.                       *)
FindingKind(check) ==
  CASE check.result = "VERIFIED_FAIL" -> "VERIFIED_FAILURE"
    [] check.result = "NEEDS_INPUT" -> "RESOLUTION_REQUIRED"
    [] check.result = "UNVERIFIED" -> "VERIFICATION_COVERAGE"
    [] OTHER -> "none"

(* compare_exact_check: an earlier check and a later run.                   *)
CompareExactCheck(check, checks) ==
  LET matches == {c \in checks : c.key = check.key}
  IN  IF Cardinality(matches) # 1 THEN "NOT_DIRECTLY_COMPARABLE"
      ELSE LET result == (CHOOSE c \in matches : TRUE).result
           IN  CASE result = "VERIFIED_PASS" -> "PROVEN_RESOLVED"
                 [] result = "VERIFIED_FAIL" -> "STILL_VERIFIED_FAIL"
                 [] result = "NOT_APPLICABLE" -> "NOT_APPLICABLE"
                 [] OTHER -> "NOT_PROVEN"

(* Mutant of EvaluateCiGate: only what was executed is required.            *)
EvaluateCiGateExecuted(checks) ==
  IF \E c \in checks : c.result = "VERIFIED_FAIL" THEN "VERIFIED_FAILURE"
  ELSE IF \E c \in checks : c.role = "CORE" /\ c.result = "VERIFIED_PASS" THEN "PASSED"
  ELSE "NOT_PROVEN"

EvaluateCiGate(checks) ==
  LET core == {c \in checks : c.role = "CORE"}
  IN  IF \E c \in checks : c.result = "VERIFIED_FAIL" THEN "VERIFIED_FAILURE"
      ELSE IF \E c \in core : c.result \in {"NEEDS_INPUT", "UNVERIFIED"} THEN "NOT_PROVEN"
      ELSE IF \A c \in core : c.result = "NOT_APPLICABLE" THEN "NOT_PROVEN"
      ELSE "PASSED"
-----------------------------------------------------------------------------
PassingChecks(art) == ChecksOf(art, "VERIFIED_PASS")
FailingChecks(art) == ChecksOf(art, "VERIFIED_FAIL")

(* The planner finds for itself what the engine has found: it refuses no    *)
(* analysis of a graph whose routes have an ingress each.  A refusal is a   *)
(* ValueError in every session, so that nothing could be verified.          *)
PlanAcceptsAnalysis == RouteBindings(graph) => BuildRuntimeTargetPlan(graph, Now)

(* A run can be published for whatever the engine has found: its check keys *)
(* are unique (validate_run), for no two assertions share their targets.    *)
CheckKeysAreUnique ==
  \A artifact \in {Now} :
    \A checks \in {{<<y, BuildVerificationCheckKey(y[1], y[2], artifact.policy)>> : y \in Assertions(artifact)}} :
      \A c, d \in checks : c[2] = d[2] => c = d

(* Uncertainty opens no gate.  The gate is passed only when no finding is   *)
(* left on a core assertion.  Where it is passed after coverage was lost it *)
(* is passed before, with the same results of what is executed, unless the  *)
(* merchant's word was missing then.  And a failure of before is not called *)
(* absent, nor the same check anything but what can still be executed.      *)
LostCoverageOpensNoGate ==
  \A now \in {Now} : \A before \in {PassingChecks(now)} :
    /\ EvaluateCiGate(before) = "PASSED" =>
         \A c \in before : c.role = "CORE" => FindingKind(c) = "none"
    /\ \A route \in {"none"} \cup {i.route : i \in Ingresses(graph)} :
         \A after \in {PassingChecks(EvaluateApplicability(WithDiagnostic(graph, route), config))} :
           /\ EvaluateCiGate(after) = "PASSED" =>
                \/ EvaluateCiGate(before) = "PASSED"
                \/ \E c \in before : c.result = "NEEDS_INPUT"
           /\ \A c \in FailingChecks(now) :
                c.result = "VERIFIED_FAIL" => CompareExactCheck(c, after) # "NOT_APPLICABLE"
=============================================================================
