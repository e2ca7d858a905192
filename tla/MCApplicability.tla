-------------------------- MODULE MCApplicability --------------------------
(* Merchants with a webhook, perhaps a second route, state gates, mutations *)
(* and acknowledgements, each of them there or not.                         *)
EXTENDS Evidence

V == Value("fulfil")
W(method) == Ingress("w", "WEBHOOK", method, FALSE)
C(binding) == Ingress("c", "CHECKOUT_CALLBACK", "POST", binding)
GateA == StateGate("w", {"authorized"})
GateC == StateGate("w", {"payment.captured"})
GateF == StateGate("w", {"failed"})
GateX == StateGate("c", {"captured"})
MA == Mutation("w", "status", "authorized")
MC == Mutation("w", "status", "captured")
MX == Mutation("c", "paid", "none")
Ack(anchor) == Acknowledgement("w", "SUCCESS_2XX", anchor)
Trust == TrustGate("c", "CHECKOUT_SIGNATURE")

(* How the webhook comes to the customer value, what it does to merchant    *)
(* state, what else the application serves, and what could not be read.     *)
Webhooks == {
  {}, {Calls(W("POST"), V, {})}, {Calls(W("GET"), V, {"s"}), Branches(GateC, V, TRUE, {"payment.captured"})},
  {Calls(W("POST"), V, {"s"})},
  {Calls(W("POST"), V, {"s"}), Branches(GateF, V, TRUE, {"failed"})},
  {Calls(W("POST"), V, {"s"}), Branches(GateC, V, TRUE, {"payment.captured"})},
  {Calls(W("POST"), V, {"s"}), Branches(GateC, V, TRUE, {"payment.captured"}), Edge("ACKNOWLEDGES_AFTER", Ack("1"), V)},
  {Calls(W("POST"), V, {"s"}), Branches(GateC, MC, FALSE, {}), Branches(GateA, V, TRUE, {"authorized"})},
  {Calls(W("POST"), V, {"s"}), Branches(GateC, V, TRUE, {"payment.captured"}), Branches(GateA, V, TRUE, {"authorized"}),
   Edge("ACKNOWLEDGES_AFTER", Ack("1"), V), Edge("ACKNOWLEDGES_AFTER", Ack("2"), V)}}
States == {{}, {Branches(GateC, MC, TRUE, {"payment.captured"})},
           {Branches(GateC, MC, TRUE, {"payment.captured"}), Branches(GateA, MA, TRUE, {"authorized"})}}
BothRoutes ==
  {Calls(C(TRUE), V, {"t"}), Branches(GateX, V, TRUE, {"captured"}), Edge("GUARDS", Trust, V),
   Edge("GUARDS", Trust, MX), Edge("GUARDS", TrustGate("c", "WEBHOOK_SIGNATURE"), Mutation("c", "seen", "none"))}
Others == {{}, BothRoutes, {Calls(Ingress("w2", "WEBHOOK", "POST", FALSE), V, {"u"})},
           {Calls(C(FALSE), V, {"t"}), Edge("GUARDS", Trust, MX)}}
Diagnostics == {{}, {[impact |-> "NOTICE", route |-> "w"]}}
               \cup {{[impact |-> "COVERAGE_REDUCED", route |-> r]} : r \in {"w", "c", "none"}}

Nodes(edges) == UNION {{e.source, e.target} : e \in edges}
Served(nodes) ==    \* every route that has a node has an ingress
  LET bare == {n.route : n \in nodes \ {V}} \ {n.route : n \in {x \in nodes : x.kind = "ingress"}}
  IN  nodes \cup {IF r = "w" THEN W("POST") ELSE C(FALSE) : r \in bare}
Build(w, s, o, d, extra) ==
  LET edges == w \cup s \cup o
  IN  [nodes |-> Served(Nodes(edges) \cup extra), edges |-> edges, diagnostics |-> d, symbol |-> "fulfil"]

(* Without a resolution nothing of the customer value is in the graph.      *)
Unresolved(g) ==
  [nodes |-> g.nodes \ {V}, edges |-> {e \in g.edges : e.target # V},
   diagnostics |-> g.diagnostics, symbol |-> "none"]

Resolved ==
  {Build(w, {}, o, {}, {}) : w \in Webhooks, o \in Others}
  \cup {Build(w, {}, o, d, {}) : w \in Webhooks, o \in {{}, BothRoutes}, d \in Diagnostics}
  \cup {Build(w, s, {}, {}, {}) : w \in Webhooks, s \in States}
  \cup {Build({}, {}, {}, d, x) : d \in Diagnostics, x \in {{W("POST"), GateC}, {W("POST"), MC}, {C(TRUE), MX}}}
  \cup {Build({}, s, o, {}, {W("POST")}) : s \in States, o \in Others}

MCSources == Resolved \cup {Unresolved(x) : x \in Resolved}

(* The source is first a merchant's with one webhook, or with both routes   *)
(* and a webhook that branches on a captured payment, complete or not, and  *)
(* is then edited into any other.                                           *)
First ==
  {Build(w, {}, {}, {}, {}) : w \in Webhooks}
  \cup {Build(w, {}, BothRoutes, d, {}) :
           d \in {{}, {[impact |-> "COVERAGE_REDUCED", route |-> "w"]}},
           w \in {{Calls(W("POST"), V, {"s"}), Branches(GateC, V, TRUE, {"payment.captured"})}}}
MCInit == EngineInit /\ graph \in First
MCSpec == MCInit /\ [][EngineNext]_vars
ASSUME SourcesHaveIngresses == \A g \in MCSources : RouteBindings(g)
=============================================================================
