----------------------------- MODULE SafetyGraph -----------------------------
(***************************************************************************)
(* The payment safety graph of a route (graph/recognizers.py, service.py   *)
(* and semantic_projection.py): what is recognized in the functions that   *)
(* the owner of the route calls, and the edges that are drawn from it,     *)
(* against what the functions do when they are executed.                   *)
(*                                                                         *)
(* A project is a record: the text of its functions, one after the other;  *)
(* its functions, which are blocks of the text, each after those that it   *)
(* calls, so that the owner of the route is the last; the names of the     *)
(* provider that each of them mentions; the method of the route; and the   *)
(* callable that delivers the customer value, or 0.  The role of a         *)
(* statement is what its expression is recognized as:                      *)
(*   verify   the SDK's verification, which raises if it fails, of a       *)
(*            webhook's body or of a checkout's order, by a client or not  *)
(*   compare  a digest comparison, plain or negated, that an if tests      *)
(*   lookup   whether the event was seen (or not), that an if tests        *)
(*   claim    the event is recorded as seen                                *)
(*   state    a test of the payment state, or a match on it                *)
(*   write    an assignment to something that may be merchant state        *)
(*   invoke   a resolved call, direct, nested or detached, and what it     *)
(*            passes on                                                    *)
(*   unknown  a call that is not resolved                                  *)
(*   respond  a response, or an HTTP exception, with a status or 0         *)
(***************************************************************************)
EXTENDS ControlFlow

CONSTANT Projects

VARIABLE project      \* <<>>, or the project that is analysed, alone in a sequence

(* What is recognized in a statement fits it; a project has no recursion.   *)
RoleValid(s, f) ==
  LET role == s.does
  IN  /\ role.role \in {"verify", "claim", "write", "invoke", "unknown"} => s.kind = "call"
      /\ role.role \in {"compare", "lookup"} => s.kind = "if"
      /\ role.role = "invoke" => role.callee \in 1 .. f - 1
      /\ role.role = "state" =>
           IF role.operator = "MATCH_CASE"
           THEN /\ s.kind = "match" /\ UNION Range(role.cases) \subseteq role.states
                /\ \A j \in DOMAIN role.cases : j \in DOMAIN s.parts /\ ~IsDefault(s, j)
           ELSE s.kind = "if" /\ role.operator \in {"EQUALS", "IN", "NOT_EQUALS", "NOT_IN", "COMPOUND"}

ProjectValid(p) ==
  LET functions == p.functions
  IN  /\ TextValid(p.text)
      /\ Len(functions) \in Nat \ {0} /\ DOMAIN functions = 1 .. Len(functions)
      /\ functions[Len(functions)].last = Len(p.text) /\ p.customer \in 0 .. Len(functions)
      /\ \A f \in DOMAIN functions :
           LET block == functions[f]
           IN  /\ block \in [first : 1 .. Len(p.text), last : 1 .. Len(p.text)] /\ ~IsEmpty(block)
               /\ block.first = IF f = 1 THEN 1 ELSE functions[f - 1].last + 1
               /\ ~JumpsOut(p.text, block, {"break", "continue"})
               /\ \A k \in Places(block) : End(p.text, k) <= block.last /\ RoleValid(p.text[k], f)

ASSUME ProjectsAssumption == \A p \in Projects : ProjectValid(p)

Owner(p) == Len(p.functions)
Functions(p) == 1 .. Owner(p)
Role(c) == c.node.does
Statements(p, f) == Range(p.statements[f])
In(p, f, role) == {c \in Statements(p, f) : Role(c).role = role}
Invocations(p) == UNION {In(p, f, "invoke") : f \in Functions(p)}

(* resolved_call_paths: breadth first, the calls of a function in the order *)
(* of the text; the first path to a function is the only one.  The queue is *)
(* that of the statements of the functions that were found, one looked at   *)
(* after the other.                                                         *)
Found(paths, call) == Role(call).role = "invoke" /\ Role(call).callee \notin DOMAIN paths
CallPaths(p) ==
  LET after[n \in 0 .. Len(p.text)] ==
        IF n = 0 THEN [paths |-> [f \in {Owner(p)} |-> <<>>], queue |-> p.statements[Owner(p)]]
        ELSE LET paths == after[n - 1].paths
                 queue == after[n - 1].queue
                 call == queue[n]
             IN  IF n <= Len(queue) /\ Found(paths, call)
                 THEN [paths |-> [f \in DOMAIN paths \cup {Role(call).callee} |->
                                    IF f \in DOMAIN paths THEN paths[f] ELSE Append(paths[call.symbol], call)],
                       queue |-> queue \o p.statements[Role(call).callee]]
                 ELSE after[n - 1]
  IN  after[Len(p.text)].paths

(* _models_with_forwarded_origins: where a parameter comes from, by the     *)
(* calls of the path.                                                       *)
ParameterOrigin(path) ==
  LET hops == {i \in DOMAIN path : Role(path[i]).passes # "parameter"}
  IN  IF hops = {} THEN "unknown" ELSE Role(path[Max(hops)]).passes
BodyOrigin(path, role) == IF role.body = "parameter" THEN ParameterOrigin(path) ELSE role.body

FailureBranch(role) == IF role.negated THEN 1 ELSE 2
Swallowed(c) == \E i \in DOMAIN c.regions : c.regions[i].kind = "TRY_BODY" /\ c.regions[i].handlers_allow_continuation
Fact(concept, of, c) == [concept |-> concept, of |-> of, context |-> c]


(* A comparison counts only if what is executed on a failure ends there.    *)
DirectComparison(p, c) == Role(c).role = "compare" /\ Terminates(p.text, c.node.parts[FailureBranch(Role(c))])

RecognizeTrust(p, path, f) ==
  LET Genuine(c) == Role(c).of = "webhook" => BodyOrigin(path, Role(c)) = "raw"
      Sdk(c) == Role(c).role = "verify" /\ Role(c).client /\ ~Swallowed(c)
      Kinds(role) ==
        IF role.of = "webhook" THEN {"WEBHOOK_SIGNATURE_VERIFICATION"}
        ELSE {"CHECKOUT_SIGNATURE_VERIFICATION"}
               \cup (IF role.order = "server" THEN {"SERVER_ORDER_IDENTITY_BINDING"} ELSE {})
  IN  UNION {{Fact("TRUST_GATE", k, c) : k \in Kinds(Role(c))} :
             c \in {x \in Statements(p, f) : (DirectComparison(p, x) \/ Sdk(x)) /\ Genuine(x)}}

RecognizeStateGates(p, f) == {Fact("PAYMENT_STATE_GATE", Role(c).operator, c) : c \in In(p, f, "state")}

(* A write to merchant state is one of the payment if it says so itself, or *)
(* if a payment controls it.                                                *)
RecognizeMutations(p, f, gates, trust) ==
  LET Controlled(c) ==
        \/ \E i \in DOMAIN c.ancestors, g \in gates : c.ancestors[i].gate = g.context.at
        \/ \E t \in trust : /\ t.of # "WEBHOOK_SIGNATURE_VERIFICATION"
                            /\ ContextDominates(t.context, c)
      OfPayment(c) == Role(c).value = "event" \/ (Controlled(c) /\ Role(c).field)
  IN  {Fact("MERCHANT_STATE_MUTATION", "write", c) :
       c \in {x \in In(p, f, "write") : Role(x).carrier /\ OfPayment(x)}}

RecognizeEventIdentity(p, f, mutations) ==
  LET Claimed(c) ==
        \E k \in In(p, f, "claim") : k.at > c.at /\ \A m \in mutations : k.at < m.context.at
  IN  {Fact("EVENT_IDENTITY_GUARD", "LOOKUP_AND_RECORD", c) :
       c \in {x \in In(p, f, "lookup") : Terminates(p.text, x.node.parts[1]) /\ Claimed(x)}}

Outcome2xx(status) == CASE status = 0 -> "UNKNOWN" [] status \in 200 .. 299 -> "SUCCESS_2XX" [] OTHER -> "NON_SUCCESS"

(* The end of a function that may be reached is an acknowledgement without  *)
(* a context.                                                               *)
RecognizeAcknowledgements(p) ==
  LET cs == Statements(p, Owner(p))
      Status(c) == IF Role(c).role = "respond" THEN Role(c).status ELSE 200
  IN  {Fact("ACKNOWLEDGEMENT_BOUNDARY", Outcome2xx(Status(c)), c) :
       c \in {x \in cs : x.node.kind = "return" \/ (x.node.kind = "raise" /\ Role(x).role = "respond")}}
      \cup (IF Terminates(p.text, p.functions[Owner(p)]) THEN {}
            ELSE {Fact("ACKNOWLEDGEMENT_BOUNDARY", "SUCCESS_2XX", [at |-> 0, symbol |-> Owner(p)])})
-----------------------------------------------------------------------------
(* _route_guard_context: where in the route a verification takes effect.    *)
Nowhere == [at |-> 0]
Callers(path) == {path[i] : i \in DOMAIN path \ {1}}
RouteGuardContext(trust, path) ==
  CASE path = <<>> -> trust.context
    [] path # <<>> /\ (\A c \in {trust.context} \cup Callers(path) : ExceptionPropagates(c)) -> path[1]
    [] OTHER -> Nowhere

(* exception_failure_allows_continuation.                                   *)
FailureAllowsContinuation(c) ==
  \E i \in DOMAIN c.regions :
    LET r == c.regions[i]
    IN  r.kind = "TRY_BODY" /\ r.handlers_allow_continuation /\ ~r.finally_terminates

Remark(impact, reason, c) == [impact |-> impact, reason |-> reason, at |-> c.at]
Notice(reason, c) == Remark("NOTICE", reason, c)
Reduced(reason, c) == Remark("COVERAGE_REDUCED", reason, c)

(* _trust_candidate_diagnostics.                                            *)
TrustRemarks(p, path, f) ==
  LET calls == In(p, f, "verify")
      ofClients == {c \in calls : Role(c).client}
      Parsed(c) == Role(c).of = "webhook" /\ BodyOrigin(path, Role(c)) = "parsed"
      Unresolved(c) == Role(c).of = "webhook" /\ BodyOrigin(path, Role(c)) = "unknown"
  IN  {Reduced("SDK_BINDING_UNRESOLVED", c) : c \in calls \ ofClients}
      \cup {Notice("PARSED_BODY_USED", c) : c \in {x \in ofClients : Parsed(x)}}
      \cup {Notice("RAW_BODY_UNRESOLVED", c) : c \in {x \in ofClients : Unresolved(x)}}
      \cup {Notice("VALIDATION_NOT_CONTROL_EFFECTIVE", c) :
            c \in {x \in ofClients : ~Parsed(x) /\ ~Unresolved(x) /\ Swallowed(x)}}

CheckoutIdentifiers == {"razorpay_payment_id", "razorpay_order_id", "razorpay_signature"}

(* _unresolved_call_diagnostics.                                            *)
UnresolvedCalls(p, f) ==
  {Reduced("CALL_PATH_UNRESOLVED", c) :
   c \in {x \in In(p, f, "unknown") : p.strings[f] # {}}}

(* analyze_route_concepts.                                                  *)
Analysis(p) ==
  LET paths == CallPaths(p)
      fs == DOMAIN paths
      trustOf == [f \in fs |-> RecognizeTrust(p, paths[f], f)]
      gatesOf == [f \in fs |-> RecognizeStateGates(p, f)]
      mutationsOf == [f \in fs |-> RecognizeMutations(p, f, gatesOf[f], trustOf[f])]
      All(of) == UNION {of[f] : f \in fs}
      identities == UNION {RecognizeEventIdentity(p, f, mutationsOf[f]) : f \in fs}
      strings == UNION {p.strings[f] : f \in fs}
      Verified(kind) == \E t \in All(trustOf) : t.of = kind
      pipeline == "x-razorpay-signature" \in strings /\ Verified("WEBHOOK_SIGNATURE_VERIFICATION")
      eventId == "x-razorpay-event-id" \in strings
      families == Cardinality({n \in 1 .. 3 : <<pipeline, eventId, All(gatesOf) # {}>>[n]})
      identifiers == CheckoutIdentifiers \cap strings
      ingress ==
        CASE p.method = "POST" /\ families >= 2 /\ (pipeline \/ eventId) -> "WEBHOOK"
          [] p.method = "POST" /\ ~(families >= 2 /\ (pipeline \/ eventId))
               /\ \/ identifiers = CheckoutIdentifiers
                  \/ /\ Verified("CHECKOUT_SIGNATURE_VERIFICATION")
                     /\ {"razorpay_payment_id", "razorpay_signature"} \subseteq identifiers -> "CHECKOUT_CALLBACK"
          [] OTHER -> "NONE"
      route == [at |-> 0]
      Ineffective(t) ==
        LET guard == RouteGuardContext(t, paths[t.context.symbol])
        IN  /\ t.context.symbol # Owner(p)
            /\ guard = Nowhere \/ FailureAllowsContinuation(guard)
      OfOrder(order) == {t \in All(trustOf) : /\ t.of = "CHECKOUT_SIGNATURE_VERIFICATION"
                                              /\ Role(t.context).order = order}
  IN  [paths |-> paths, ingress |-> ingress, trust |-> All(trustOf), gates |-> All(gatesOf),
       mutations |-> All(mutationsOf), identities |-> identities,
       acknowledgements |-> IF ingress = "WEBHOOK" THEN RecognizeAcknowledgements(p) ELSE {},
       remarks |->
         (UNION {TrustRemarks(p, paths[f], f) \cup UnresolvedCalls(p, f) : f \in fs})
         \cup {Notice("VALIDATION_NOT_CONTROL_EFFECTIVE", paths[t.context.symbol][1]) :
               t \in {x \in All(trustOf) : Ineffective(x)}}
         \cup (IF ingress = "NONE" /\ (families > 0 \/ identifiers # {} \/ All(trustOf) # {})
               THEN {Notice("INSUFFICIENT_CONVERGING_EVIDENCE", route)} ELSE {})
         \cup (IF ingress = "WEBHOOK" /\ eventId /\ identities = {}
               THEN {Notice("EVENT_ID_OBSERVED_ONLY", route)} ELSE {})
         \cup {Notice("CLIENT_ORDER_ID_USED", t.context) : t \in OfOrder("client")}
         \cup {Notice("ORDER_IDENTITY_UNKNOWN", t.context) : t \in OfOrder("unknown")}]
-----------------------------------------------------------------------------
(* _construct_route_graph: the edges between what is recognized.            *)
Edge(kind, from, to, branch) == [kind |-> kind, from |-> from, to |-> to, branch |-> branch]

(* What a verification guards is asked at its place in the route, if the    *)
(* target is of the route and it is not.                                    *)
GuardContext(p, a, guard, target) ==
  LET inRoute == RouteGuardContext(guard, a.paths[guard.context.symbol])
  IN  IF /\ guard.concept = "TRUST_GATE" /\ inRoute # Nowhere
         /\ guard.context.symbol # target.context.symbol /\ target.context.symbol = Owner(p)
      THEN inRoute ELSE guard.context

(* _work_precedes_ack.                                                      *)
WorkPrecedesAck(p, work, acknowledgement) ==
  IF acknowledgement.context.at # 0 THEN ContextDominates(work, acknowledgement.context)
  ELSE work.symbol = Owner(p) /\ PrecedesEnd(work)

Ingress(p, a) == Fact("PAYMENT_INGRESS", a.ingress, [at |-> 0, symbol |-> Owner(p)])
Guards(a) == a.trust \cup a.identities
Guarded(a) == Guards(a) \cup a.gates \cup a.mutations
Recognized(a) == Guarded(a) \cup a.acknowledgements

RouteEdges(p, a) ==
  {Edge("CALLS", Ingress(p, a), f, "NONE") : f \in {x \in Recognized(a) : x.context.symbol # Owner(p)}}
  \cup {Edge("GUARDS", e[1], e[2], "NONE") :
        e \in {x \in Guards(a) \X Guarded(a) : /\ x[1] # x[2]
                                               /\ ContextDominates(GuardContext(p, a, x[1], x[2]), x[2].context)}}
  \cup (UNION {{Edge("BRANCHES_TO", e[1], e[2], d) : d \in BranchControls(e[1].context, e[2].context)} :
               e \in a.gates \X {f \in Recognized(a) : f.context.at # 0}})
  \cup {Edge("ACKNOWLEDGES_AFTER", e[1], e[2], "NONE") :
        e \in {x \in a.acknowledgements \X Guarded(a) : WorkPrecedesAck(p, x[2].context, x[1])}}

RouteGraph(p, a) ==
  LET late == {t \in a.trust : \E m \in a.mutations : /\ m.context.symbol = t.context.symbol
                                                      /\ m.context.at < t.context.at}
      looped == \E f \in Guarded(a) \cup {k \in a.acknowledgements : k.context.at # 0} : f.context.in_loop
  IN  IF a.ingress = "NONE" THEN [nodes |-> {}, edges |-> {}, remarks |-> a.remarks]
      ELSE [nodes |-> {Ingress(p, a)} \cup Recognized(a), edges |-> RouteEdges(p, a),
            remarks |-> a.remarks \cup {Notice("VALIDATION_AFTER_MUTATION", t.context) : t \in late}
                        \cup (IF looped THEN {Reduced("CONTROL_FLOW_UNSUPPORTED", Ingress(p, a).context)} ELSE {})]

(* Mutant of DirectExecutionProven: a call that is not awaited is a call.   *)
AnyExecution(call) == Role(call).how \in {"direct", "detached"}

(* project_customer_value: the customer value is connected to an ingress    *)
(* that calls lead from; what controls it, and what is acknowledged after   *)
(* it, is said only if each call of the path is made there and then.        *)
DirectExecutionProven(call) == Role(call).how = "direct"

ControlledPath(gate, path) ==
  \E i \in DOMAIN path : path[i].symbol = gate.context.symbol /\ "MATCHED" \in BranchControls(gate.context, path[i])

ProjectCustomerValue(p, a) ==
  LET g == RouteGraph(p, a)
      customer == Fact("CUSTOMER_VALUE_ACTION", "NONE", [at |-> 0, symbol |-> p.customer])
      ingress == {n \in g.nodes : n.concept = "PAYMENT_INGRESS"}
      path == a.paths[p.customer]
      gaps == {i \in DOMAIN path : ~DirectExecutionProven(path[i])}
      calls == {Edge("CALLS", n, customer, "NONE") : n \in ingress}
      control ==
        {Edge("BRANCHES_TO", s, customer, "MATCHED") : s \in {x \in a.gates : ControlledPath(x, path)}}
        \cup {Edge("ACKNOWLEDGES_AFTER", k, customer, "NONE") :
              k \in {x \in a.acknowledgements : WorkPrecedesAck(p, path[1], x)}}
  IN  CASE p.customer = 0 -> g
        [] p.customer # 0 /\ (p.customer \notin DOMAIN a.paths \/ ingress = {}) ->
             [g EXCEPT !.nodes = @ \cup {customer}]
        [] OTHER ->
             [nodes |-> g.nodes \cup {customer},
              edges |-> g.edges \cup calls \cup (IF path # <<>> /\ gaps = {} THEN control ELSE {}),
              remarks |-> g.remarks \cup {Reduced("EXECUTION_SEMANTICS_UNPROVEN", path[i]) :
                                           i \in {x \in gaps : \A y \in gaps : x <= y}}]

(* fulfilment_verification_eligible, of a merchant that can be run.         *)
FulfilmentEligible(g, customer) ==
  \E e \in g.edges : /\ e.kind = "CALLS" /\ e.from.concept = "PAYMENT_INGRESS"
                     /\ e.to.concept = "CUSTOMER_VALUE_ACTION" /\ e.to.context.symbol = customer
-----------------------------------------------------------------------------
(* The worlds that a route is executed in: a request that is forged or not, *)
(* an event that was seen or not, a payment state; each may be undecided.   *)
Undecided == [forged |-> FALSE, seen |-> "either", event |-> "any"]

Holds(role, event) ==
  CASE role.operator \in {"EQUALS", "IN", "MATCH_CASE"} -> event \in role.states
    [] role.operator \in {"NOT_EQUALS", "NOT_IN"} -> event \notin role.states

(* The functions whose parameter is not the raw body in every call.         *)
Tainted(p) ==
  LET Closed(fs) == /\ Owner(p) \in fs
                    /\ \A c \in Invocations(p) :
                         \/ Role(c).passes = "raw" \/ (Role(c).passes = "parameter" /\ c.symbol \notin fs)
                         \/ Role(c).callee \in fs
  IN  {f \in Functions(p) : \A fs \in SUBSET Functions(p) : Closed(fs) => f \in fs}
GivenRaw(p, c) ==
  Role(c).of = "webhook" => Role(c).body = "raw" \/ (Role(c).body = "parameter" /\ c.symbol \notin Tainted(p))

(* What is decided of the tests of a request.                               *)
Detects(p, request, c) == request.forged /\ Role(c).role \in {"verify", "compare"} /\ GivenRaw(p, c)
Looks(request, c) == Role(c).role = "lookup" /\ request.seen # "either"
Selects(request, c) == Role(c).role = "state" /\ request.event # "any" /\ Role(c).operator # "COMPOUND"
Decided(p, request, c) == (Role(c).role = "compare" /\ Detects(p, request, c)) \/ Looks(request, c) \/ Selects(request, c)
CaseOf(c, event) ==
  LET matching == {i \in DOMAIN Role(c).cases : event \in Role(c).cases[i]}
  IN  IF matching # {} THEN Min(matching) ELSE IF c.node.default THEN Len(c.node.parts) ELSE 0
Taking(request, c) ==
  CASE Role(c).role = "compare" -> FailureBranch(Role(c))
    [] Role(c).role = "lookup" -> IF (request.seen = "yes") # Role(c).negated THEN 1 ELSE 2
    [] Role(c).role = "state" /\ c.node.kind = "if" -> IF Holds(Role(c), request.event) THEN 1 ELSE 2
    [] Role(c).role = "state" /\ c.node.kind = "match" -> CaseOf(c, request.event)

(* The world of a function: what its calls do is given by the executions of *)
(* the functions that it calls.                                             *)
World(p, f, request, runs) ==
  LET At(place) == CHOOSE c \in Statements(p, f) : c.at = place
      made == {c \in In(p, f, "invoke") : Role(c).how # "detached"}
      detecting == {c \in In(p, f, "verify") : Detects(p, request, c)}
      decided == {c \in Statements(p, f) : Decided(p, request, c)}
  IN  [calls |-> [at \in {c.at : c \in made} |-> runs[Role(At(at)).callee]],
       fails |-> {c.at : c \in detecting},
       takes |-> [at \in {c.at : c \in decided} |-> {Taking(request, At(at))}]]

FunctionRuns(p, request) ==
  LET runs[f \in Functions(p)] == Execute(World(p, f, request, runs), p.text)[p.functions[f]]
  IN  runs

RouteExecutions(p, request) == FunctionRuns(p, request)[Owner(p)][{}]
BegunBy(o) == o.done \cup o.failed
Takes(p, request, place) == \E o \in RouteExecutions(p, request) : place \in BegunBy(o)

(* The project with the statements of its functions collected.              *)
StatementContexts(p, f) ==
  LET context == CollectStatements(f, p.text)
      block == p.functions[f]
  IN  [i \in 1 .. block.last - block.first + 1 |-> context[block.first + i - 1]]
Collected(p) ==
  [text |-> p.text, functions |-> p.functions, method |-> p.method, customer |-> p.customer, strings |-> p.strings,
   statements |-> [f \in Functions(p) |-> StatementContexts(p, f)]]

GraphInit == \E p \in Projects : project = <<Collected(p)>>
-----------------------------------------------------------------------------
(* What the edges leave out.  Besides loops and the cases of a match, a     *)
(* guard is taken to keep away what it executes itself when it fails; a     *)
(* verification in another function to be made, and awaited, by every call  *)
(* of it, and to raise when it fails; and what is passed to a function to   *)
(* be what the first path passes.                                           *)
ToldOf(p, c) == Told(p.text, c)
Always(p, c) ==
  /\ c.ancestors = <<>> /\ ToldOf(p, c)
  /\ \A i \in DOMAIN c.regions : c.regions[i].kind = "TRY_BODY"
  /\ \A x \in Statements(p, c.symbol) : x.at < c.at => x.node.kind # "return"
Effective(p, a, guard) ==
  LET path == a.paths[guard.context.symbol]
  IN  /\ \A c \in {guard.context} \cup Callers(path) : Always(p, c)
      /\ \A i \in DOMAIN path : Role(path[i]).how # "detached"
      /\ ~MayReturn(p.text, Block(guard.context.at, End(p.text, guard.context.at)))
OnlyWay(p, path) ==
  \A i \in DOMAIN path : \A c \in Invocations(p) : Role(c).callee = Role(path[i]).callee => c = path[i]
FailsInto(guard, target) ==
  LET role == Role(guard.context)
  IN  CASE role.role = "compare" -> IF role.negated THEN "MATCHED" ELSE "NOT_MATCHED"
        [] role.role = "lookup" -> "MATCHED"
        [] OTHER -> "NONE"
Claimed(p, a, e) ==
  LET guard == GuardContext(p, a, e.from, e.to)
  IN  /\ ToldOf(p, guard)
      /\ FailsInto(e.from, e.to) \notin BranchControls(e.from.context, e.to.context)
      /\ e.from.concept = "EVENT_IDENTITY_GUARD" => ~Role(e.from.context).negated
      /\ guard = e.from.context \/ Effective(p, a, e.from)
      /\ e.from.concept = "TRUST_GATE" => GivenRaw(p, e.from.context) \/ OnlyWay(p, a.paths[e.from.context.symbol])

(* What EdgesAreTrue says of a project, its analysis and its graph.         *)
EdgesHold(p, a, g) ==
  LET Edges(kind, concepts) == {e \in g.edges : e.kind = kind /\ e.to.concept \in concepts}
      Facts == {"TRUST_GATE", "EVENT_IDENTITY_GUARD", "PAYMENT_STATE_GATE", "MERCHANT_STATE_MUTATION",
                "ACKNOWLEDGEMENT_BOUNDARY"}
      open == RouteExecutions(p, Undecided)
      delivered == p.functions[p.customer].first
      path == a.paths[p.customer]
      Excluded(e, event) ==
        /\ Role(e.from.context).operator # "COMPOUND"
        /\ CASE e.branch = "MATCHED" -> ~Holds(Role(e.from.context), event)
             [] e.branch = "NOT_MATCHED" -> Holds(Role(e.from.context), event)
             [] e.branch = "DEFAULT" -> event \in UNION Range(Role(e.from.context).cases)
      Precedes(work, k) ==
        ToldOf(p, work) =>
          \A o \in open : IF k.context.at # 0 THEN <<work.at, k.context.at>> \notin o.early
                          ELSE work.regions = <<>> /\ o.exit = "next" => work.at \in o.done
  IN  /\ \A e \in Edges("GUARDS", Facts) :
           Claimed(p, a, e) =>
             ~Takes(p, IF e.from.concept = "TRUST_GATE" THEN [Undecided EXCEPT !.forged = TRUE]
                       ELSE [Undecided EXCEPT !.seen = "yes"], e.to.context.at)
      /\ \A e \in Edges("BRANCHES_TO", Facts), event \in {"captured", "failed"} :
           Excluded(e, event) => ~Takes(p, [Undecided EXCEPT !.event = event], e.to.context.at)
      /\ \A e \in Edges("ACKNOWLEDGES_AFTER", Facts) : Precedes(e.to.context, e.from)
      /\ \A e \in Edges("BRANCHES_TO", {"CUSTOMER_VALUE_ACTION"}), event \in {"captured", "failed"} :
           Excluded(e, event) /\ OnlyWay(p, path) => ~Takes(p, [Undecided EXCEPT !.event = event], delivered)
      /\ \A e \in Edges("ACKNOWLEDGES_AFTER", {"CUSTOMER_VALUE_ACTION"}) :
           /\ Precedes(path[1], e.from)
           /\ \A o \in open : path[Len(path)].at \in o.done => delivered \in BegunBy(o)
      /\ p.customer # 0 /\ a.ingress # "NONE" /\ Takes(p, Undecided, delivered) => FulfilmentEligible(g, p.customer)

(* The edges are true of every execution of the route.  What a verification *)
(* guards is not begun on a forged request, nor what an event's identity    *)
(* guards on one that was seen; what a payment state branches to is not     *)
(* begun in another state; the work that is acknowledged has been executed  *)
(* to its end when the acknowledgement begins, and the call of the customer *)
(* value has then delivered it.                                             *)
EdgesAreTrue ==
  project # <<>> =>
    LET p == project[1]
    IN  \A a \in {Analysis(p)} : EdgesHold(p, a, ProjectCustomerValue(p, a))
=============================================================================
