--------------------------- MODULE Applicability ---------------------------
(***************************************************************************)
(* The applicability engine (applicability/engine.py): from the payment    *)
(* safety graph, the resolution of the customer value and the merchant's   *)
(* policies, which assertions of SG-01 to SG-08 can be executed, and why.  *)
(*                                                                         *)
(* The engine is a function; it is run again at every command, on a source *)
(* that is edited and against policies that were confirmed on an earlier   *)
(* graph.  Evidence fingerprints are the evidence itself.                  *)
(***************************************************************************)
EXTENDS Naturals, FiniteSets

CONSTANTS
  Sources,      \* the graphs that the merchant's source may have
  MaxEdits      \* bound: how often the source is edited

VARIABLES
  graph,        \* the projected graph of the source as it is
  config,       \* the policies in stateguard.yaml, each with its evidence
  basis,        \* history: what the merchant was shown when each was confirmed
  edits
vars == <<graph, config, basis, edits>>

None == [kind |-> "none"]
-----------------------------------------------------------------------------
(* The nodes of a graph.  The customer-value node has no route of its own.  *)
Ingress(id, ingress, method, binding) ==
  [kind |-> "ingress", route |-> id, ingress |-> ingress, method |-> method, binding |-> binding]
Value(symbol) == [kind |-> "value", symbol |-> symbol]
StateGate(route, states) == [kind |-> "state_gate", route |-> route, states |-> states]
TrustGate(route, trust) == [kind |-> "trust_gate", route |-> route, trust |-> trust]
Mutation(route, carrier, assigned) ==
  [kind |-> "mutation", route |-> route, carrier |-> carrier, assigned |-> assigned]
Acknowledgement(route, outcome, anchor) ==
  [kind |-> "ack", route |-> route, outcome |-> outcome, anchor |-> anchor]

(* The edges of a graph; sites are the call sites in a CALLS edge's         *)
(* provenance.                                                              *)
Calls(source, target, sites) ==
  [kind |-> "CALLS", source |-> source, target |-> target, sites |-> sites]
Branches(source, target, matched, states) ==
  [kind |-> "BRANCHES_TO", source |-> source, target |-> target, matched |-> matched, states |-> states]
Edge(kind, source, target) == [kind |-> kind, source |-> source, target |-> target]

(* graph_completeness_for.  A diagnostic has an impact and, perhaps, a      *)
(* route.                                                                   *)
Partial(g) == \E d \in g.diagnostics : d.impact = "COVERAGE_REDUCED"

Called == {"trust_gate", "state_gate", "mutation", "value"}
EdgeKindsValid(e) ==
  LET s == e.source.kind
      t == e.target.kind
  IN  /\ e.kind \in {"CALLS", "GUARDS", "BRANCHES_TO", "ACKNOWLEDGES_AFTER"}
      /\ e.kind = "CALLS" => s \in (Called \ {"value"}) \cup {"ingress"} /\ t \in Called
      /\ e.kind = "GUARDS" => s = "trust_gate" /\ t \in Called
      /\ e.kind = "BRANCHES_TO" => s = "state_gate" /\ t \in Called \cup {"ack"}
      /\ e.kind = "ACKNOWLEDGES_AFTER" => s = "ack" /\ t \in Called

(* A matched branch has the states of its gate; no other has any.           *)
BranchStates(e) == IF e.matched THEN e.source.states ELSE {}

GraphValid(g) ==
  /\ \A e \in g.edges : {e.source, e.target} \subseteq g.nodes /\ EdgeKindsValid(e)
  /\ \A e \in g.edges : e.kind = "BRANCHES_TO" => e.states = BranchStates(e)
  /\ \A n \in g.nodes : "kind" \in DOMAIN n
  /\ \A n \in g.nodes : n.kind = "ingress" => ~(n.ingress = "WEBHOOK" /\ n.binding)

ASSUME SourcesAssumption == \A g \in Sources : GraphValid(g)

(* A state may be spelled with the prefix of its event.                     *)
Bare(state) ==
  CASE state = "payment.captured" -> "captured"
    [] state = "payment.authorized" -> "authorized"
    [] OTHER -> state
Paid == {"authorized", "captured"}
BareStates(x) == {Bare(s) : s \in x.states}
-----------------------------------------------------------------------------
(* A normal control: an ingress that calls the customer-value target, over  *)
(* known call sites, where the resolution is unique.                        *)
NormalControls(g) ==
  IF g.symbol = "none" THEN {}
  ELSE {[ingress |-> e.source, route |-> e.source.route, value |-> e.target, edge |-> e] :
          e \in {x \in g.edges : /\ x.kind = "CALLS" /\ x.source.kind = "ingress"
                                 /\ x.target = Value(g.symbol) /\ x.sites # {}}}

Routes(cs) == {c.route : c \in cs}

RelevantDiagnostics(g, cs) ==
  {d \in g.diagnostics : d.impact = "COVERAGE_REDUCED" /\ d.route \in Routes(cs)}

StateEdges(g, cs) ==
  {e \in g.edges : /\ e.kind = "BRANCHES_TO" /\ e.matched
                   /\ e.target \in {c.value : c \in cs}
                   /\ e.source.route \in Routes(cs)}

ObservedOn(g, cs, route) ==
  Paid \cap UNION {BareStates(e) : e \in {x \in StateEdges(g, cs) : x.source.route = route}}

ControlEvidence(cs) ==
  {[ingress |-> c.ingress, value |-> c.value, sites |-> c.edge.sites] : c \in cs}

FulfilmentEvidenceOfControls(g, cs) ==        \* mutant: the state edges are not evidence
  [controls |-> ControlEvidence(cs), diagnostics |-> RelevantDiagnostics(g, cs)]

FulfilmentEvidence(g, cs) ==
  [controls |-> ControlEvidence(cs), edges |-> StateEdges(g, cs),
   diagnostics |-> RelevantDiagnostics(g, cs)]

WebhookControls(cs) == {c \in cs : c.ingress.ingress = "WEBHOOK"}

LateEvidence(g, cs) ==
  LET web == WebhookControls(cs)
  IN  [controls |-> ControlEvidence(web), nodes |-> {c.ingress : c \in web},
       edges |-> {e \in StateEdges(g, cs) : e.source.route \in Routes(web)},
       diagnostics |-> RelevantDiagnostics(g, web)]

(* What the source suggests, what the merchant declared, and whether the    *)
(* declaration was made on the evidence there is now.                       *)
Suggestion(g, cs) ==
  LET observed == UNION {ObservedOn(g, cs, r) : r \in Routes(cs)}
  IN  IF \/ RelevantDiagnostics(g, cs) # {} \/ cs = {}
         \/ \E r \in Routes(cs) : ObservedOn(g, cs, r) = {}
      THEN [status |-> "INSUFFICIENT_EVIDENCE", policy |-> "none"]
      ELSE CASE observed = {"captured"} ->
                  [status |-> "CONSISTENT_SUGGESTION", policy |-> "CAPTURE_REQUIRED"]
             [] observed = {"authorized"} ->
                  [status |-> "CONSISTENT_SUGGESTION", policy |-> "AUTHORIZED_ALLOWED"]
             [] OTHER -> [status |-> "CONFLICTING_EVIDENCE", policy |-> "none"]

PolicyAssessment(g, cs, cf) ==
  LET s == Suggestion(g, cs)
      f == cf.fulfilment
      l == cf.late
  IN  [status |-> s.status, suggestion |-> s.policy,
       fulfilment |-> f.value,
       current |-> f.value # "none" /\ f.evidence = FulfilmentEvidence(g, cs),
       mismatch |-> f.value # "none" /\ s.policy # "none" /\ f.value # s.policy,
       late |-> l.value,
       late_current |-> l.value # "none" /\ l.evidence = LateEvidence(g, cs)]
-----------------------------------------------------------------------------
(* A judgement: a state, the code of its reason and the nodes it rests on.  *)
Judged(state, reason, nodes) == [state |-> state, reason |-> reason, nodes |-> nodes]

Ingresses(g) == {n \in g.nodes : n.kind = "ingress"}
IngressesOf(g, kind) == {n \in Ingresses(g) : n.ingress = kind}

FallbackState(g, ingresses) ==
  IF ingresses = {}
  THEN IF Partial(g) THEN Judged("INDETERMINATE", "GRAPH_COVERAGE_INSUFFICIENT", {})
                     ELSE Judged("NOT_APPLICABLE", "INGRESS_ABSENT", {})
  ELSE IF g.symbol = "none" THEN Judged("NEEDS_INPUT", "CUSTOMER_VALUE_UNRESOLVED", {})
  ELSE IF Partial(g) THEN Judged("INDETERMINATE", "GRAPH_COVERAGE_INSUFFICIENT", {})
                     ELSE Judged("NOT_APPLICABLE", "CUSTOMER_VALUE_PATH_ABSENT", {})

PolicyState(p) ==
  IF p.fulfilment = "none" THEN Judged("NEEDS_INPUT", "FULFILMENT_POLICY_REQUIRED", {})
  ELSE IF ~p.current THEN Judged("NEEDS_INPUT", "FULFILMENT_POLICY_STALE", {})
  ELSE Judged("APPLICABLE", "EXACT_CONTROL_AVAILABLE", {})

ControlStateEdgesAnywhere(g, c) ==            \* mutant: another route's gate is evidence
  {e \in g.edges : e.kind = "BRANCHES_TO" /\ e.matched /\ e.target = c.value}

ControlStateEdges(g, c) ==
  {e \in g.edges : /\ e.kind = "BRANCHES_TO" /\ e.matched
                   /\ e.target = c.value /\ e.source.route = c.route}

(* The gates of the captured branch of a webhook's control, if its coverage *)
(* is not reduced.                                                          *)
CapturedGates(g, c) ==
  IF /\ c.ingress.ingress = "WEBHOOK" /\ c.ingress.method = "POST"
     /\ RelevantDiagnostics(g, {c}) = {}
  THEN {e.source : e \in {x \in ControlStateEdges(g, c) : "captured" \in BareStates(x)}}
  ELSE {}

NormalCaptureState(g, p, c) ==
  LET policy == PolicyState(p)
  IN  IF policy.state # "APPLICABLE" THEN policy
      ELSE IF p.fulfilment # "CAPTURE_REQUIRED" \/ CapturedGates(g, c) = {}
      THEN Judged("INDETERMINATE", "NORMAL_CAPTURE_THRESHOLD_UNPROVEN", {})
      ELSE Judged("APPLICABLE", "NORMAL_CAPTURE_THRESHOLD_AVAILABLE", CapturedGates(g, c))

CapturedTarget(g, c) ==
  IF CapturedGates(g, c) = {} THEN Judged("INDETERMINATE", "CAPTURED_EVENT_TARGET_UNPROVEN", {})
  ELSE Judged("APPLICABLE", "CAPTURED_EVENT_TARGET_AVAILABLE", CapturedGates(g, c))

DuplicateCaptureState(g, p, c) ==
  IF PolicyState(p).state # "APPLICABLE" THEN PolicyState(p) ELSE CapturedTarget(g, c)
-----------------------------------------------------------------------------
(* The mutations that assertions about merchant state are bound to.         *)
StateMutations(g, route) ==
  {e \in g.edges : /\ e.kind = "BRANCHES_TO" /\ e.matched
                   /\ e.target.kind = "mutation"
                   /\ e.source.route = route /\ e.target.route = route}

(* For each carrier that is assigned both states under a gate of that       *)
(* state: of the mutations that assign it a state, one (the last edge's).   *)
RegressionMutations(g, c) ==
  LET assigning == {e.target : e \in {x \in StateMutations(g, c.route) :
                      x.target.assigned \in Paid \cap BareStates(x)}}
      Of(carrier, state) == {m \in assigning : m.carrier = carrier /\ m.assigned = state}
      carriers == {m.carrier : m \in assigning}
  IN  {CHOOSE m \in Of(x[1], x[2]) : TRUE :
         x \in {k \in carriers : \A s \in Paid : Of(k, s) # {}} \X Paid}

CheckoutProtectedMutations(g, i) ==
  {n \in g.nodes : /\ n.kind = "mutation" /\ n.route = i.route
                   /\ \/ n.assigned # "none"
                      \/ \E e \in g.edges : /\ e.kind = "GUARDS" /\ e.target = n
                                            /\ e.source.route = i.route
                                            /\ e.source.trust \in {"CHECKOUT_SIGNATURE", "SERVER_ORDER"}}

CapturedPathMutations(g, i, c) ==
  LET gates == IF c = None
               THEN {n \in g.nodes : n.kind = "state_gate" /\ n.route = i.route /\ "captured" \in BareStates(n)}
               ELSE {e.source : e \in {x \in ControlStateEdges(g, c) : "captured" \in BareStates(x)}}
  IN  IF i.ingress # "WEBHOOK" \/ i.method # "POST" THEN {}
      ELSE {e.target : e \in {x \in StateMutations(g, i.route) :
              x.source \in gates /\ "captured" \in BareStates(x)}}

RoutePaymentStates(g, c) ==
  UNION {BareStates(n) : n \in {x \in g.nodes : x.kind = "state_gate" /\ x.route = c.route}}
-----------------------------------------------------------------------------
(* An assertion, and an instance of a scenario for one control, for one     *)
(* ingress without a control, or for none ("catalog").                      *)
Assertion(key, role, judged, c) == [key |-> key, role |-> role, judged |-> judged, control |-> c]

Instance(scenario, i, c, assertions) ==
  [scenario |-> scenario, ingress |-> i, control |-> c, assertions |-> assertions]

OfControl(scenario, c, assertions) == Instance(scenario, c.ingress, c, assertions)
Catalog(scenario, key, judged) ==
  Instance(scenario, None, None, {Assertion(key, "CORE", judged, None)})

OrCatalog(instances, catalog) == IF instances = {} THEN {catalog} ELSE instances

Scenario01(g, p, cs) ==
  OrCatalog({OfControl("SG-01", c, {Assertion("SG01", "CORE", NormalCaptureState(g, p, c), c)}) :
               c \in WebhookControls(cs)},
            Catalog("SG-01", "SG01", FallbackState(g, Ingresses(g))))

Scenario02(g, p, cs) ==
  OrCatalog({OfControl("SG-02", c, {Assertion("SG02", "CORE", DuplicateCaptureState(g, p, c), c)}) :
               c \in WebhookControls(cs)},
            Catalog("SG-02", "SG02", FallbackState(g, IngressesOf(g, "WEBHOOK"))))

RetryState(g, p, c) ==
  LET base == DuplicateCaptureState(g, p, c)
      acks == {e \in g.edges : /\ e.kind = "ACKNOWLEDGES_AFTER" /\ e.target = c.value
                               /\ e.source.route = c.route /\ e.source.outcome = "SUCCESS_2XX"}
  IN  IF base.state # "APPLICABLE" THEN base
      ELSE IF Cardinality(acks) = 1
      THEN Judged("APPLICABLE", "VALUE_BEFORE_ACK_PROVEN", base.nodes \cup {e.source : e \in acks})
      ELSE Judged("INDETERMINATE", "ACK_ORDER_UNRESOLVED", {})

Scenario03(g, p, cs) ==
  OrCatalog({OfControl("SG-03", c, {Assertion("SG03", "CORE", RetryState(g, p, c), c)}) :
               c \in WebhookControls(cs)},
            Catalog("SG-03", "SG03", FallbackState(g, IngressesOf(g, "WEBHOOK"))))

RegressionStateUncovered(g, c) ==             \* mutant: missing coverage proves absence
  IF RelevantDiagnostics(g, {c}) = {} /\ RegressionMutations(g, c) # {}
  THEN Judged("APPLICABLE", "STATE_REGRESSION_TARGET_AVAILABLE", RegressionMutations(g, c))
  ELSE Judged("NOT_APPLICABLE", "STATE_REGRESSION_TARGET_ABSENT", {})

RegressionState(g, c) ==
  LET mutations == RegressionMutations(g, c)
      state == IF RelevantDiagnostics(g, {c}) # {} THEN "INDETERMINATE"
               ELSE IF mutations # {} THEN "APPLICABLE" ELSE "NOT_APPLICABLE"
      reason == IF mutations # {} THEN "STATE_REGRESSION_TARGET_AVAILABLE"
                ELSE IF state = "INDETERMINATE" THEN "STATE_REGRESSION_TARGET_UNRESOLVED"
                ELSE "STATE_REGRESSION_TARGET_ABSENT"
  IN  Judged(state, reason, mutations)

Scenario04(g, p, cs) ==
  OrCatalog({OfControl("SG-04", c, {Assertion("SG04", "CORE", DuplicateCaptureState(g, p, c), c),
                                    Assertion("SG04_STATE", "OPTIONAL", RegressionState(g, c), c)}) :
               c \in WebhookControls(cs)},
            Catalog("SG-04", "SG04", FallbackState(g, IngressesOf(g, "WEBHOOK"))))

(* SG-05 and SG-06: one instance for each control of an ingress, or for the *)
(* ingress alone; the mutation assertion needs no control.                  *)
TrustValueState(g, scenario, i, c) ==
  IF c = None THEN FallbackState(g, {i})
  ELSE IF scenario = "SG-05" THEN CapturedTarget(g, c)
  ELSE IF ~i.binding THEN Judged("INDETERMINATE", "CHECKOUT_REQUEST_BINDING_UNRESOLVED", {})
  ELSE Judged("APPLICABLE", "CHECKOUT_REQUEST_BINDING_AVAILABLE", {})

TrustMutationState(g, scenario, i, c) ==
  LET mutations == IF scenario = "SG-05" THEN CapturedPathMutations(g, i, c)
                                         ELSE CheckoutProtectedMutations(g, i)
      onRoute == {n \in g.nodes : n.kind = "mutation" /\ n.route = i.route}
  IN  IF scenario = "SG-06" /\ ~i.binding
      THEN Judged("INDETERMINATE", "CHECKOUT_REQUEST_BINDING_UNRESOLVED", mutations)
      ELSE IF mutations # {} THEN Judged("APPLICABLE", "MUTATION_TARGET_AVAILABLE", mutations)
      ELSE IF Partial(g) \/ onRoute # {} THEN Judged("INDETERMINATE", "MUTATION_TARGET_ABSENT", {})
      ELSE Judged("NOT_APPLICABLE", "MUTATION_TARGET_ABSENT", {})

TrustScenario(g, cs, scenario, ingresses, value, mutation) ==
  LET Targets(i) == LET mine == {c \in cs : c.ingress = i} IN IF mine = {} THEN {None} ELSE mine
      One(i, c) == Instance(scenario, i, c,
                     {Assertion(mutation, "CORE", TrustMutationState(g, scenario, i, c), None),
                      Assertion(value, "CORE", TrustValueState(g, scenario, i, c), c)})
  IN  OrCatalog(UNION {{One(i, c) : c \in Targets(i)} : i \in ingresses},
                Catalog(scenario, value, FallbackState(g, ingresses)))

Scenario05(g, p, cs) ==
  TrustScenario(g, cs, "SG-05", IngressesOf(g, "WEBHOOK"), "SG05", "SG05_MUTATION")
Scenario06(g, p, cs) ==
  TrustScenario(g, cs, "SG-06", IngressesOf(g, "CHECKOUT_CALLBACK"), "SG06", "SG06_MUTATION")

WithoutCallbackState(g, p, cs, c) ==
  LET base == DuplicateCaptureState(g, p, c)
      linked == {x \in cs : x.ingress.ingress = "CHECKOUT_CALLBACK" /\ x.value = c.value}
  IN  IF base.state # "APPLICABLE" THEN base
      ELSE IF linked = {} THEN Judged("INDETERMINATE", "CHECKOUT_TARGET_LINK_UNRESOLVED", {})
      ELSE Judged("APPLICABLE", "CHECKOUT_TARGET_LINK_AVAILABLE", base.nodes)

Scenario07(g, p, cs) ==
  LET checkout == IngressesOf(g, "CHECKOUT_CALLBACK")
  IN  OrCatalog(IF checkout = {} THEN {}
                ELSE {OfControl("SG-07", c, {Assertion("SG07", "CORE", WithoutCallbackState(g, p, cs, c), c)}) :
                        c \in WebhookControls(cs)},
                Catalog("SG-07", "SG07",
                  IF checkout # {} THEN FallbackState(g, IngressesOf(g, "WEBHOOK"))
                  ELSE Judged("NOT_APPLICABLE", "CHECKOUT_SURFACE_REQUIRED", {})))
-----------------------------------------------------------------------------
(* SG-08: the assertions are chosen by the two policies.  A route that has  *)
(* state gates and none for an authorized payment is left out.              *)
LateSupported(g, c) == "authorized" \in RoutePaymentStates(g, c) \/ RoutePaymentStates(g, c) = {}

LateCapture(g, c) ==
  IF CapturedGates(g, c) = {} THEN Judged("INDETERMINATE", "CAPTURED_EVENT_TARGET_UNPROVEN", {})
  ELSE Judged("APPLICABLE", "POLICY_MATRIX_SELECTED", CapturedGates(g, c))

LateAssertionsByCapture(g, p, c) ==           \* mutant: the late policy does not choose
  IF ~p.current \/ ~p.late_current
  THEN {Assertion("SG08_LATE_POLICY", "CORE", Judged("NEEDS_INPUT", "FULFILMENT_POLICY_STALE", {}), c)}
  ELSE {Assertion("SG08_PRECAPTURE", "CORE", Judged("APPLICABLE", "POLICY_MATRIX_SELECTED", {}), c),
        Assertion("SG08_CAPTURE", "CORE", LateCapture(g, c), c)}

LateAssertions(g, p, c) ==
  LET Open(state, reason) == {Assertion("SG08_LATE_POLICY", "CORE", Judged(state, reason, {}), c)}
      precapture == Assertion("SG08_PRECAPTURE", "CORE", Judged("APPLICABLE", "POLICY_MATRIX_SELECTED", {}), c)
      capture == Assertion("SG08_CAPTURE", "CORE", LateCapture(g, c), c)
  IN  IF PolicyState(p).state # "APPLICABLE" THEN Open("NEEDS_INPUT", PolicyState(p).reason)
      ELSE IF p.late = "none" THEN Open("NEEDS_INPUT", "LATE_AUTHORISATION_POLICY_REQUIRED")
      ELSE IF ~p.late_current THEN Open("NEEDS_INPUT", "LATE_AUTHORISATION_POLICY_STALE")
      ELSE IF RoutePaymentStates(g, c) = {} \/ RelevantDiagnostics(g, {c}) # {}
      THEN Open("INDETERMINATE", "LATE_SEQUENCE_UNRESOLVED")
      ELSE IF p.fulfilment # "CAPTURE_REQUIRED" THEN Open("INDETERMINATE", "MERCHANT_LATE_CONTEXT_UNPROVEN")
      ELSE {precapture} \cup (IF p.late = "FULFIL_LATER" THEN {capture} ELSE {})

Scenario08OfControls(g, p, cs) ==             \* mutant: an unsupported sequence leaves no instance
  {OfControl("SG-08", c, LateAssertions(g, p, c)) : c \in {x \in WebhookControls(cs) : LateSupported(g, x)}}

Scenario08(g, p, cs) ==
  LET supported == {c \in WebhookControls(cs) : LateSupported(g, c)}
  IN  OrCatalog({OfControl("SG-08", c, LateAssertions(g, p, c)) : c \in supported},
                Catalog("SG-08", "SG08_LATE_POLICY",
                  IF WebhookControls(cs) # {} THEN Judged("NOT_APPLICABLE", "LATE_SEQUENCE_NOT_SUPPORTED", {})
                  ELSE FallbackState(g, IngressesOf(g, "WEBHOOK"))))

CatalogScenarios(g, p, cs) ==
  UNION {Scenario01(g, p, cs), Scenario02(g, p, cs), Scenario03(g, p, cs), Scenario04(g, p, cs),
         Scenario05(g, p, cs), Scenario06(g, p, cs), Scenario07(g, p, cs), Scenario08(g, p, cs)}

EvaluateApplicability(g, cf) ==
  LET cs == NormalControls(g)
      p == PolicyAssessment(g, cs, cf)
  IN  [policy |-> p, controls |-> cs, instances |-> CatalogScenarios(g, p, cs)]
-----------------------------------------------------------------------------
(* The merchant edits the source, and confirms a policy on the evidence     *)
(* that an analysis has just found.                                         *)
Unconfirmed == [value |-> "none", evidence |-> None]

Shown(g, cs) == [r \in Routes(cs) |-> <<ObservedOn(g, cs, r), RelevantDiagnostics(g, {c \in cs : c.route = r})>>]

EngineInit ==
  /\ graph \in Sources
  /\ config = [fulfilment |-> Unconfirmed, late |-> Unconfirmed]
  /\ basis = [fulfilment |-> <<>>, late |-> <<>>]
  /\ edits = 0

ConfirmFulfilment(value) ==
  /\ config' = [config EXCEPT !.fulfilment =
                  [value |-> value, evidence |-> FulfilmentEvidence(graph, NormalControls(graph))]]
  /\ basis' = [basis EXCEPT !.fulfilment = Shown(graph, NormalControls(graph))]
  /\ UNCHANGED <<graph, edits>>

ConfirmLate(value) ==
  /\ config' = [config EXCEPT !.late =
                  [value |-> value, evidence |-> LateEvidence(graph, NormalControls(graph))]]
  /\ basis' = [basis EXCEPT !.late = Shown(graph, WebhookControls(NormalControls(graph)))]
  /\ UNCHANGED <<graph, edits>>

EditSource ==
  /\ edits < MaxEdits
  /\ graph' \in Sources \ {graph}
  /\ edits' = edits + 1
  /\ UNCHANGED <<config, basis>>

EngineNext ==
  \/ \E value \in {"CAPTURE_REQUIRED", "AUTHORIZED_ALLOWED"} : ConfirmFulfilment(value)
  \/ \E value \in {"DO_NOT_FULFIL", "FULFIL_LATER"} : ConfirmLate(value)
  \/ EditSource

EngineSpec == EngineInit /\ [][EngineNext]_vars
-----------------------------------------------------------------------------
(* customer_value_allowed: what the two policies allow.  No caller in the   *)
(* repository uses it; it is the reference for the policy matrix of SG-08.  *)
CustomerValueAllowed(fulfilment, late_policy, isLate, state) ==
  /\ ~(isLate /\ late_policy = "DO_NOT_FULFIL")
  /\ Bare(state) \in IF fulfilment = "CAPTURE_REQUIRED" THEN {"captured"} ELSE Paid

Now == EvaluateApplicability(graph, config)
Assertions(artifact) == UNION {{<<i, a>> : a \in i.assertions} : i \in artifact.instances}
Applicable(artifact) == {x \in Assertions(artifact) : x[2].judged.state = "APPLICABLE"}

MutationKeys == {"SG04_STATE", "SG05_MUTATION", "SG06_MUTATION"}
CapturedKeys == {"SG01", "SG02", "SG03", "SG04", "SG05", "SG07", "SG08_CAPTURE"}
PolicyKeys == {"SG01", "SG02", "SG03", "SG04", "SG07", "SG08_PRECAPTURE", "SG08_CAPTURE"}

Reduced(g, route) == \E d \in g.diagnostics : d.impact = "COVERAGE_REDUCED" /\ d.route = route

(* An assertion is applicable only on evidence that the graph itself holds: *)
(* a call from its ingress to the one customer value; for a captured        *)
(* payment, a branch on that state, on that route, to that value, where no  *)
(* coverage is missing; for merchant state, mutations of that route.        *)
ApplicableIsBacked ==
  \A x \in Applicable(Now) :
    LET a == x[2]
        i == x[1].ingress
    IN  /\ a.key \in MutationKeys =>
             a.judged.nodes # {} /\ \A n \in a.judged.nodes : n.kind = "mutation" /\ n.route = i.route
        /\ a.key \notin MutationKeys =>
             \E e \in graph.edges : e.kind = "CALLS" /\ e.source = i /\ e.target = Value(graph.symbol)
        /\ a.key \in CapturedKeys =>
             /\ i.ingress = "WEBHOOK" /\ i.method = "POST" /\ ~Reduced(graph, i.route)
             /\ \E e \in graph.edges : /\ e.kind = "BRANCHES_TO" /\ e.matched
                                       /\ e.source.route = i.route /\ e.target = Value(graph.symbol)
                                       /\ "captured" \in BareStates(e)

(* What depends on a merchant policy is applicable only while the merchant  *)
(* would be shown what was shown when the policy was confirmed: the same    *)
(* routes, with the same observed states and the same lack of coverage.     *)
(* SG-08 needs this of both policies.                                       *)
PolicyBasisIsCurrent ==
  \A x \in Applicable(Now) :
    /\ x[2].key \in PolicyKeys => basis.fulfilment = Shown(graph, NormalControls(graph))
    /\ x[2].key \in {"SG08_PRECAPTURE", "SG08_CAPTURE"} =>
         basis.late = Shown(graph, WebhookControls(NormalControls(graph)))

(* The engine never builds an artifact that the artifact's own validators   *)
(* refuse (validate_assessment, validate_confirmation, validate_rollup,     *)
(* validate_artifact), so an analysis of a valid graph never fails: every   *)
(* scenario has an instance and a core assertion, an instance is named once *)
(* for its control or ingress, and its assertions name no other control.    *)
ArtifactIsValid ==
  \A art \in {Now} :
    LET p == art.policy
        Name(i) == IF i.control # None THEN i.control ELSE i.ingress
    IN  /\ {i.scenario : i \in art.instances} =
             {"SG-01", "SG-02", "SG-03", "SG-04", "SG-05", "SG-06", "SG-07", "SG-08"}
        /\ \A i \in art.instances :
             /\ \E a \in i.assertions : a.role = "CORE"
             /\ \A j \in art.instances : i.scenario = j.scenario /\ Name(i) = Name(j) => i = j
             /\ i.control # None => i.control \in art.controls /\ i.ingress = i.control.ingress
             /\ \A a \in i.assertions : a.control \in {None, i.control}
             /\ \A a, b \in i.assertions : a.key = b.key => a = b
        /\ (p.status = "CONSISTENT_SUGGESTION") = (p.suggestion # "none")
        /\ p.mismatch => p.suggestion # p.fulfilment /\ p.status = "CONSISTENT_SUGGESTION"

(* Uncertainty reduces what is verified and never the quality of a verdict: *)
(* whatever the policies' evidence, a diagnostic that reduces coverage does *)
(* not make an assertion applicable that was not, nor not applicable one    *)
(* that was; and SG-01 to SG-06 report that something is absent only when   *)
(* the graph is complete.  (SG-07 does so on an incomplete graph without a  *)
(* checkout ingress, SG-08 on one without an authorized state.)             *)
WithDiagnostic(g, route) ==
  [nodes |-> g.nodes, edges |-> g.edges, symbol |-> g.symbol,
   diagnostics |-> g.diagnostics \cup {[impact |-> "COVERAGE_REDUCED", route |-> route]}]

LostCoverageNeverConfirms ==
  \A before \in {Assertions(Now)} :
    /\ \A route \in {"none"} \cup {i.route : i \in Ingresses(graph)} :
         LET after == Assertions(EvaluateApplicability(WithDiagnostic(graph, route), config))
         IN  \A y \in after : \A x \in before :
               /\ x[1].scenario = y[1].scenario /\ x[1].ingress = y[1].ingress
               /\ x[1].control = y[1].control /\ x[2].key = y[2].key
               => /\ x[2].judged.state \in {"NOT_APPLICABLE", "INDETERMINATE"} => y[2].judged.state # "APPLICABLE"
                  /\ y[2].judged.state = "NOT_APPLICABLE" => x[2].judged.state = "NOT_APPLICABLE"
    /\ Partial(graph) =>
         \A x \in before :
           x[2].role = "CORE" /\ x[1].scenario \notin {"SG-07", "SG-08"} => x[2].judged.state # "NOT_APPLICABLE"

(* The assertions of SG-08 say what the policies say of a late payment:     *)
(* nothing before the capture where the policies allow nothing then, and    *)
(* the value after it only where they allow it.                             *)
PolicyMatrixAgrees ==
  \A now \in {Now} :
    LET Allowed(state) == CustomerValueAllowed(now.policy.fulfilment, now.policy.late, TRUE, state)
    IN  \A x \in Applicable(now) :
          /\ x[2].key = "SG08_PRECAPTURE" => ~Allowed("payment.authorized")
          /\ x[2].key = "SG08_CAPTURE" => Allowed("payment.captured")
=============================================================================
