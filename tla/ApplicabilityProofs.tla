------------------------ MODULE ApplicabilityProofs ------------------------
(***************************************************************************)
(* Proofs about the applicability engine and what is made of its result,   *)
(* for any set of valid graphs: what each instance and assertion looks     *)
(* like, what an applicable one rests on, when a policy counts, and that   *)
(* neither the artifact's validators nor the planner refuse a result.      *)
(***************************************************************************)
EXTENDS Evidence, ScenarioAssertions, FiniteSetTheorems, TLAPS

(* The instances of a scenario: the catalog's if there is no other.         *)
LEMMA OrCatalogHolds ==
  ASSUME NEW instances, NEW catalog
  PROVE  /\ OrCatalog(instances, catalog) # {}
         /\ \A x \in OrCatalog(instances, catalog) : x \in instances \/ (x = catalog /\ instances = {})
  BY DEF OrCatalog

(* A normal control is an ingress that calls the value, and its route.      *)
LEMMA ControlsAreCalls ==
  ASSUME NEW g, NEW c \in NormalControls(g)
  PROVE  /\ c.edge \in g.edges /\ c.edge.kind = "CALLS" /\ c.edge.source = c.ingress
         /\ c.edge.target = c.value /\ c.value = Value(g.symbol)
         /\ c.ingress.kind = "ingress" /\ c.route = c.ingress.route
         /\ c # None
<1>1. PICK e \in g.edges : /\ e.kind = "CALLS" /\ e.source.kind = "ingress" /\ e.target = Value(g.symbol)
                           /\ c = [ingress |-> e.source, route |-> e.source.route, value |-> e.target, edge |-> e]
  BY DEF NormalControls
<1>2. c # None
  BY <1>1 DEF None
<1> QED
  BY <1>1, <1>2
-----------------------------------------------------------------------------
(* What an applicable assertion of an instance rests on: mutations of its   *)
(* route, or its control; the gates of the captured branch; and policies    *)
(* that are declared on current evidence.                                   *)
MutationsOf(nodes, route) == nodes # {} /\ \A n \in nodes : n.kind = "mutation" /\ n.route = route

Supported(g, p, x, a) ==
  /\ a.key \in MutationKeys => MutationsOf(a.judged.nodes, x.ingress.route)
  /\ a.key \notin MutationKeys => x.control \in NormalControls(g) /\ x.ingress = x.control.ingress
  /\ a.key \in CapturedKeys => CapturedGates(g, x.control) # {}
  /\ a.key \in PolicyKeys => p.fulfilment # "none" /\ p.current
  /\ a.key \in {"SG08_PRECAPTURE", "SG08_CAPTURE"} =>
       p.late # "none" /\ p.late_current /\ p.fulfilment = "CAPTURE_REQUIRED"
  /\ a.key = "SG08_CAPTURE" => p.late = "FULFIL_LATER"

AllSupported(g, p, x) ==
  \A a \in x.assertions : a.judged.state = "APPLICABLE" => Supported(g, p, x, a)

(* The shape of an instance of a scenario.                                  *)
Formed(g, x) ==
  /\ \E a \in x.assertions : a.role = "CORE"
  /\ x.control # None => x.control \in NormalControls(g) /\ x.ingress = x.control.ingress
  /\ x.control = None => x.ingress = None \/ x.ingress \in Ingresses(g)
  /\ \A a \in x.assertions : a.control \in {None, x.control}
  /\ \A a, b \in x.assertions : a.key = b.key => a = b
-----------------------------------------------------------------------------
(* The judgements, by when they say APPLICABLE.                             *)
LEMMA FallbackIsNotApplicable ==
  ASSUME NEW g, NEW ingresses
  PROVE  FallbackState(g, ingresses).state # "APPLICABLE"
  BY DEF FallbackState, Judged

(* A policy's state is applicable only when it is declared and current.     *)
LEMMA PolicyStateApplicable ==
  ASSUME NEW p
  PROVE  PolicyState(p).state = "APPLICABLE" <=> p.fulfilment # "none" /\ p.current
  BY DEF PolicyState, Judged

(* SG-01 is: on a current policy, with a captured branch.                   *)
LEMMA NormalCaptureApplicable ==
  ASSUME NEW g, NEW p, NEW c, NormalCaptureState(g, p, c).state = "APPLICABLE"
  PROVE  p.fulfilment # "none" /\ p.current /\ CapturedGates(g, c) # {}
  BY PolicyStateApplicable DEF NormalCaptureState, Judged

(* A captured target is exactly a captured branch.                          *)
LEMMA CapturedTargetApplicable ==
  ASSUME NEW g, NEW c
  PROVE  CapturedTarget(g, c).state = "APPLICABLE" <=> CapturedGates(g, c) # {}
  BY DEF CapturedTarget, Judged

(* SG-02 and SG-04 are: on a current policy, with a captured branch.        *)
LEMMA DuplicateCaptureApplicable ==
  ASSUME NEW g, NEW p, NEW c, DuplicateCaptureState(g, p, c).state = "APPLICABLE"
  PROVE  p.fulfilment # "none" /\ p.current /\ CapturedGates(g, c) # {}
  BY PolicyStateApplicable, CapturedTargetApplicable DEF DuplicateCaptureState

(* SG-03 is only where SG-02 is.                                            *)
LEMMA RetryApplicable ==
  ASSUME NEW g, NEW p, NEW c, RetryState(g, p, c).state = "APPLICABLE"
  PROVE  p.fulfilment # "none" /\ p.current /\ CapturedGates(g, c) # {}
<1>1. DuplicateCaptureState(g, p, c).state = "APPLICABLE"
  BY DEF RetryState
<1> QED
  BY <1>1, DuplicateCaptureApplicable

(* SG-07 is only where SG-02 is.                                            *)
LEMMA WithoutCallbackApplicable ==
  ASSUME NEW g, NEW p, NEW cs, NEW c, WithoutCallbackState(g, p, cs, c).state = "APPLICABLE"
  PROVE  p.fulfilment # "none" /\ p.current /\ CapturedGates(g, c) # {}
<1>1. DuplicateCaptureState(g, p, c).state = "APPLICABLE"
  BY DEF WithoutCallbackState
<1> QED
  BY <1>1, DuplicateCaptureApplicable

(* The mutations that are found are mutations of the route.                 *)
LEMMA RegressionMutationsAreOfRoute ==
  ASSUME NEW g, NEW c, NEW m \in RegressionMutations(g, c)
  PROVE  m.kind = "mutation" /\ m.route = c.route
<1> DEFINE assigning == {e.target : e \in {x \in StateMutations(g, c.route) :
                           x.target.assigned \in Paid \cap BareStates(x)}}
           Of(carrier, state) == {n \in assigning : n.carrier = carrier /\ n.assigned = state}
           carriers == {n.carrier : n \in assigning}
<1>1. PICK x \in {k \in carriers : \A s \in Paid : Of(k, s) # {}} \X Paid :
        m = CHOOSE n \in Of(x[1], x[2]) : TRUE
  BY DEF RegressionMutations
<1>2. Of(x[1], x[2]) # {}
  BY <1>1
<1>3. m \in Of(x[1], x[2])
  BY <1>1, <1>2
<1>4. m \in assigning
  BY <1>3
<1>5. PICK e \in StateMutations(g, c.route) : m = e.target
  BY <1>4
<1> QED
  BY <1>5 DEF StateMutations

(* The mutations of a captured path are of its ingress's route.             *)
LEMMA CapturedPathMutationsAreOfRoute ==
  ASSUME NEW g, NEW i, NEW c, NEW m \in CapturedPathMutations(g, i, c)
  PROVE  m.kind = "mutation" /\ m.route = i.route
<1>1. PICK e \in StateMutations(g, i.route) : m = e.target
  BY DEF CapturedPathMutations
<1> QED
  BY <1>1 DEF StateMutations

(* A trust assertion about state rests on mutations of the route.           *)
LEMMA TrustMutationApplicable ==
  ASSUME NEW g, NEW scenario, NEW i, NEW c, TrustMutationState(g, scenario, i, c).state = "APPLICABLE"
  PROVE  MutationsOf(TrustMutationState(g, scenario, i, c).nodes, i.route)
<1> DEFINE mutations == IF scenario = "SG-05" THEN CapturedPathMutations(g, i, c)
                                              ELSE CheckoutProtectedMutations(g, i)
<1>1. mutations # {} /\ TrustMutationState(g, scenario, i, c).nodes = mutations
  BY DEF TrustMutationState, Judged
<1>2. \A m \in mutations : m.kind = "mutation" /\ m.route = i.route
  BY CapturedPathMutationsAreOfRoute DEF CheckoutProtectedMutations
<1> QED
  BY <1>1, <1>2 DEF MutationsOf
-----------------------------------------------------------------------------
(* The instances of the scenarios, one lemma for each scenario.             *)
LEMMA CatalogInstance ==
  ASSUME NEW g, NEW p, NEW s, NEW key, NEW judged, judged.state # "APPLICABLE"
  PROVE  /\ AllSupported(g, p, Catalog(s, key, judged))
         /\ Formed(g, Catalog(s, key, judged))
         /\ Catalog(s, key, judged).scenario = s
<1> DEFINE x == Catalog(s, key, judged)
           a == Assertion(key, "CORE", judged, None)
<1>1. x.assertions = {a} /\ x.control = None /\ x.ingress = None /\ x.scenario = s
  BY DEF Catalog, Instance
<1>2. a.judged = judged /\ a.role = "CORE" /\ a.control = None
  BY DEF Assertion
<1> HIDE DEF a, x
<1>3. AllSupported(g, p, x)
  BY <1>1, <1>2 DEF AllSupported
<1>4. Formed(g, x)
  BY <1>1, <1>2 DEF Formed
<1> QED
  BY <1>1, <1>3, <1>4 DEF x

(* An instance with one assertion, which needs a captured branch.           *)
LEMMA CapturedInstance ==
  ASSUME NEW g, NEW p, NEW c \in WebhookControls(NormalControls(g)), NEW x, NEW a,
         x.assertions = {a} /\ x.control = c /\ x.ingress = c.ingress,
         a.key \in {"SG01", "SG02", "SG03", "SG07"} /\ a.role = "CORE" /\ a.control = c,
         a.judged.state = "APPLICABLE" => p.fulfilment # "none" /\ p.current /\ CapturedGates(g, c) # {}
  PROVE  AllSupported(g, p, x) /\ Formed(g, x)
<1>1. c \in NormalControls(g) /\ c # None
  BY ControlsAreCalls DEF WebhookControls
<1>2. AllSupported(g, p, x)
  BY <1>1 DEF AllSupported, Supported, MutationKeys
<1>3. Formed(g, x)
  BY <1>1 DEF Formed
<1> QED
  BY <1>2, <1>3

(* SG-01 has formed and supported instances.                                *)
LEMMA Instances01 ==
  ASSUME NEW g, NEW p, NEW x \in Scenario01(g, p, NormalControls(g))
  PROVE  AllSupported(g, p, x) /\ Formed(g, x) /\ x.scenario = "SG-01"
<1> DEFINE cs == NormalControls(g)
           core(c) == Assertion("SG01", "CORE", NormalCaptureState(g, p, c), c)
           catalog == Catalog("SG-01", "SG01", FallbackState(g, Ingresses(g)))
<1>1. CASE x = catalog
  BY <1>1, CatalogInstance, FallbackIsNotApplicable
<1>2. ASSUME NEW c \in WebhookControls(cs), x = OfControl("SG-01", c, {core(c)})
      PROVE  AllSupported(g, p, x) /\ Formed(g, x) /\ x.scenario = "SG-01"
  <2> DEFINE a == core(c)
  <2>1. x.assertions = {a} /\ x.control = c /\ x.ingress = c.ingress /\ x.scenario = "SG-01"
    BY <1>2 DEF OfControl, Instance
  <2>2. a.key = "SG01" /\ a.role = "CORE" /\ a.control = c /\ a.judged = NormalCaptureState(g, p, c)
    BY DEF Assertion
  <2> HIDE DEF a
  <2>3. a.judged.state = "APPLICABLE" => p.fulfilment # "none" /\ p.current /\ CapturedGates(g, c) # {}
    BY <2>2, NormalCaptureApplicable
  <2> QED
    BY <2>1, <2>2, <2>3, CapturedInstance
<1>3. x \in {OfControl("SG-01", c, {core(c)}) : c \in WebhookControls(cs)} \/ x = catalog
  BY OrCatalogHolds DEF Scenario01
<1> QED
  BY <1>1, <1>2, <1>3

(* SG-02 has.                                                               *)
LEMMA Instances02 ==
  ASSUME NEW g, NEW p, NEW x \in Scenario02(g, p, NormalControls(g))
  PROVE  AllSupported(g, p, x) /\ Formed(g, x) /\ x.scenario = "SG-02"
<1> DEFINE cs == NormalControls(g)
           core(c) == Assertion("SG02", "CORE", DuplicateCaptureState(g, p, c), c)
           catalog == Catalog("SG-02", "SG02", FallbackState(g, IngressesOf(g, "WEBHOOK")))
<1>1. CASE x = catalog
  BY <1>1, CatalogInstance, FallbackIsNotApplicable
<1>2. ASSUME NEW c \in WebhookControls(cs), x = OfControl("SG-02", c, {core(c)})
      PROVE  AllSupported(g, p, x) /\ Formed(g, x) /\ x.scenario = "SG-02"
  <2> DEFINE a == core(c)
  <2>1. x.assertions = {a} /\ x.control = c /\ x.ingress = c.ingress /\ x.scenario = "SG-02"
    BY <1>2 DEF OfControl, Instance
  <2>2. a.key = "SG02" /\ a.role = "CORE" /\ a.control = c /\ a.judged = DuplicateCaptureState(g, p, c)
    BY DEF Assertion
  <2> HIDE DEF a
  <2>3. a.judged.state = "APPLICABLE" => p.fulfilment # "none" /\ p.current /\ CapturedGates(g, c) # {}
    BY <2>2, DuplicateCaptureApplicable
  <2> QED
    BY <2>1, <2>2, <2>3, CapturedInstance
<1>3. x \in {OfControl("SG-02", c, {core(c)}) : c \in WebhookControls(cs)} \/ x = catalog
  BY OrCatalogHolds DEF Scenario02
<1> QED
  BY <1>1, <1>2, <1>3

(* SG-03 has.                                                               *)
LEMMA Instances03 ==
  ASSUME NEW g, NEW p, NEW x \in Scenario03(g, p, NormalControls(g))
  PROVE  AllSupported(g, p, x) /\ Formed(g, x) /\ x.scenario = "SG-03"
<1> DEFINE cs == NormalControls(g)
           core(c) == Assertion("SG03", "CORE", RetryState(g, p, c), c)
           catalog == Catalog("SG-03", "SG03", FallbackState(g, IngressesOf(g, "WEBHOOK")))
<1>1. CASE x = catalog
  BY <1>1, CatalogInstance, FallbackIsNotApplicable
<1>2. ASSUME NEW c \in WebhookControls(cs), x = OfControl("SG-03", c, {core(c)})
      PROVE  AllSupported(g, p, x) /\ Formed(g, x) /\ x.scenario = "SG-03"
  <2> DEFINE a == core(c)
  <2>1. x.assertions = {a} /\ x.control = c /\ x.ingress = c.ingress /\ x.scenario = "SG-03"
    BY <1>2 DEF OfControl, Instance
  <2>2. a.key = "SG03" /\ a.role = "CORE" /\ a.control = c /\ a.judged = RetryState(g, p, c)
    BY DEF Assertion
  <2> HIDE DEF a
  <2>3. a.judged.state = "APPLICABLE" => p.fulfilment # "none" /\ p.current /\ CapturedGates(g, c) # {}
    BY <2>2, RetryApplicable
  <2> QED
    BY <2>1, <2>2, <2>3, CapturedInstance
<1>3. x \in {OfControl("SG-03", c, {core(c)}) : c \in WebhookControls(cs)} \/ x = catalog
  BY OrCatalogHolds DEF Scenario03
<1> QED
  BY <1>1, <1>2, <1>3

(* SG-04 has, with two assertions each.                                     *)
LEMMA Instances04 ==
  ASSUME NEW g, NEW p, NEW x \in Scenario04(g, p, NormalControls(g))
  PROVE  AllSupported(g, p, x) /\ Formed(g, x) /\ x.scenario = "SG-04"
<1> DEFINE cs == NormalControls(g)
           value(c) == Assertion("SG04", "CORE", DuplicateCaptureState(g, p, c), c)
           state(c) == Assertion("SG04_STATE", "OPTIONAL", RegressionState(g, c), c)
<1>1. CASE x = Catalog("SG-04", "SG04", FallbackState(g, IngressesOf(g, "WEBHOOK")))
  BY <1>1, CatalogInstance, FallbackIsNotApplicable
<1>2. CASE \E c \in WebhookControls(cs) : x = OfControl("SG-04", c, {value(c), state(c)})
  <2>1. PICK c \in WebhookControls(cs) : x = OfControl("SG-04", c, {value(c), state(c)})
    BY <1>2
  <2>2. x.assertions = {value(c), state(c)} /\ x.control = c /\ x.ingress = c.ingress /\ x.scenario = "SG-04"
    BY <2>1 DEF OfControl, Instance
  <2>3. /\ value(c).key = "SG04" /\ value(c).role = "CORE" /\ value(c).control = c
        /\ value(c).judged = DuplicateCaptureState(g, p, c)
        /\ state(c).key = "SG04_STATE" /\ state(c).control = c /\ state(c).judged = RegressionState(g, c)
    BY DEF Assertion
  <2>4. c \in cs /\ c # None /\ c.route = c.ingress.route
    BY ControlsAreCalls DEF WebhookControls
  <2> HIDE DEF value, state, cs
  <2>5. RegressionState(g, c).state = "APPLICABLE" => MutationsOf(RegressionState(g, c).nodes, c.ingress.route)
    <3>1. RegressionState(g, c).nodes = RegressionMutations(g, c)
      BY DEF RegressionState, Judged
    <3>2. RegressionState(g, c).state = "APPLICABLE" => RegressionMutations(g, c) # {}
      BY DEF RegressionState, Judged
    <3> QED
      BY <2>4, <3>1, <3>2, RegressionMutationsAreOfRoute DEF MutationsOf
  <2>6. ASSUME value(c).judged.state = "APPLICABLE" PROVE Supported(g, p, x, value(c))
    BY <2>2, <2>3, <2>4, <2>6, DuplicateCaptureApplicable DEF Supported, MutationKeys, cs
  <2>7. ASSUME state(c).judged.state = "APPLICABLE" PROVE Supported(g, p, x, state(c))
    BY <2>2, <2>3, <2>4, <2>5, <2>7 DEF Supported, MutationKeys, CapturedKeys, PolicyKeys
  <2>8. AllSupported(g, p, x)
    BY <2>2, <2>6, <2>7 DEF AllSupported
  <2>9. Formed(g, x)
    BY <2>2, <2>3, <2>4 DEF Formed, cs
  <2> QED
    BY <2>2, <2>8, <2>9
<1>3. \/ x \in {OfControl("SG-04", c, {value(c), state(c)}) : c \in WebhookControls(cs)}
      \/ x = Catalog("SG-04", "SG04", FallbackState(g, IngressesOf(g, "WEBHOOK")))
  BY OrCatalogHolds DEF Scenario04
<1> QED
  BY <1>1, <1>2, <1>3

(* An instance of SG-05 or SG-06 is one of an ingress and each control of   *)
(* it, or none if it has none.                                              *)
TrustInstance(g, s, i, c, value, mutation) ==
  Instance(s, i, c, {Assertion(mutation, "CORE", TrustMutationState(g, s, i, c), None),
                     Assertion(value, "CORE", TrustValueState(g, s, i, c), c)})

TargetOf(cs, i, c) == (c = None /\ \A d \in cs : d.ingress # i) \/ (c \in cs /\ c.ingress = i)

(* Those are all its instances, with the catalog's.                         *)
LEMMA TrustForm ==
  ASSUME NEW g, NEW cs, NEW s, NEW ingresses, NEW value, NEW mutation,
         NEW x \in TrustScenario(g, cs, s, ingresses, value, mutation)
  PROVE  \/ /\ x = Catalog(s, value, FallbackState(g, ingresses))
            /\ ingresses = {}
         \/ \E i \in ingresses : \E c : TargetOf(cs, i, c) /\ x = TrustInstance(g, s, i, c, value, mutation)
<1> DEFINE Mine(i) == {c \in cs : c.ingress = i}
           Targets(i) == IF Mine(i) = {} THEN {None} ELSE Mine(i)
           all == UNION {{TrustInstance(g, s, i, c, value, mutation) : c \in Targets(i)} : i \in ingresses}
<1>1. x \in OrCatalog(all, Catalog(s, value, FallbackState(g, ingresses)))
  BY DEF TrustScenario, TrustInstance
<1>2. x \in all \/ (x = Catalog(s, value, FallbackState(g, ingresses)) /\ all = {})
  BY <1>1, OrCatalogHolds
<1>3. CASE x \in all
  <2>1. PICK i \in ingresses : \E c \in Targets(i) : x = TrustInstance(g, s, i, c, value, mutation)
    BY <1>3
  <2>2. PICK c \in Targets(i) : x = TrustInstance(g, s, i, c, value, mutation)
    BY <2>1
  <2>3. TargetOf(cs, i, c)
    BY <2>2 DEF TargetOf
  <2> QED
    BY <2>2, <2>3
<1>4. CASE x = Catalog(s, value, FallbackState(g, ingresses)) /\ all = {}
  <2>1. ASSUME NEW i \in ingresses PROVE FALSE
    <3>1. PICK c : c \in Targets(i)
      OBVIOUS
    <3>2. TrustInstance(g, s, i, c, value, mutation) \in all
      BY <3>1
    <3> QED
      BY <1>4, <3>2
  <2> QED
    BY <1>4, <2>1
<1> QED
  BY <1>2, <1>3, <1>4

(* A trust assertion about value rests on a control.                        *)
LEMMA TrustValueApplicable ==
  ASSUME NEW g, NEW s \in {"SG-05", "SG-06"}, NEW i, NEW c, TrustValueState(g, s, i, c).state = "APPLICABLE"
  PROVE  c # None /\ (s = "SG-05" => CapturedGates(g, c) # {})
<1>1. c # None
  BY FallbackIsNotApplicable DEF TrustValueState
<1> QED
  BY <1>1, CapturedTargetApplicable DEF TrustValueState

(* The instances of an ingress are formed and supported.                    *)
LEMMA TrustInstances ==
  ASSUME NEW g, NEW p, NEW s, NEW i \in Ingresses(g), NEW c, TargetOf(NormalControls(g), i, c),
         NEW value, NEW mutation,
         \/ s = "SG-05" /\ value = "SG05" /\ mutation = "SG05_MUTATION"
         \/ s = "SG-06" /\ value = "SG06" /\ mutation = "SG06_MUTATION",
         NEW x, x = TrustInstance(g, s, i, c, value, mutation)
  PROVE  AllSupported(g, p, x) /\ Formed(g, x) /\ x.scenario = s /\ x.ingress = i /\ x.control = c
<1> DEFINE m == Assertion(mutation, "CORE", TrustMutationState(g, s, i, c), None)
           v == Assertion(value, "CORE", TrustValueState(g, s, i, c), c)
<1>1. x.assertions = {m, v} /\ x.control = c /\ x.ingress = i /\ x.scenario = s
  BY DEF TrustInstance, Instance
<1>2. /\ m.key = mutation /\ m.role = "CORE" /\ m.control = None /\ m.judged = TrustMutationState(g, s, i, c)
      /\ v.key = value /\ v.control = c /\ v.judged = TrustValueState(g, s, i, c)
  BY DEF Assertion
<1> HIDE DEF m, v
<1>3. ASSUME m.judged.state = "APPLICABLE" PROVE Supported(g, p, x, m)
  <2>1. MutationsOf(m.judged.nodes, i.route)
    BY <1>2, <1>3, TrustMutationApplicable
  <2> QED
    BY <1>1, <1>2, <2>1 DEF Supported, MutationKeys, CapturedKeys, PolicyKeys
<1>4. ASSUME v.judged.state = "APPLICABLE" PROVE Supported(g, p, x, v)
  <2>1. c # None /\ (s = "SG-05" => CapturedGates(g, c) # {})
    BY <1>2, <1>4, TrustValueApplicable
  <2>2. c \in NormalControls(g) /\ c.ingress = i
    BY <2>1 DEF TargetOf
  <2> QED
    BY <1>1, <1>2, <2>1, <2>2 DEF Supported, MutationKeys, CapturedKeys, PolicyKeys
<1>5. AllSupported(g, p, x)
  BY <1>1, <1>3, <1>4 DEF AllSupported
<1>6. Formed(g, x)
  BY <1>1, <1>2 DEF Formed, TargetOf
<1> QED
  BY <1>1, <1>5, <1>6

(* SG-05 has formed and supported instances.                                *)
LEMMA Instances05 ==
  ASSUME NEW g, NEW p, NEW x \in Scenario05(g, p, NormalControls(g))
  PROVE  AllSupported(g, p, x) /\ Formed(g, x) /\ x.scenario = "SG-05"
<1>1. CASE x = Catalog("SG-05", "SG05", FallbackState(g, IngressesOf(g, "WEBHOOK")))
  BY <1>1, CatalogInstance, FallbackIsNotApplicable
<1>2. ASSUME NEW i \in IngressesOf(g, "WEBHOOK"), NEW c, TargetOf(NormalControls(g), i, c),
             x = TrustInstance(g, "SG-05", i, c, "SG05", "SG05_MUTATION")
      PROVE  AllSupported(g, p, x) /\ Formed(g, x) /\ x.scenario = "SG-05"
  <2>1. i \in Ingresses(g)
    BY DEF IngressesOf
  <2> QED
    BY <1>2, <2>1, TrustInstances
<1> QED
  BY <1>1, <1>2, TrustForm DEF Scenario05

(* SG-06 has.                                                               *)
LEMMA Instances06 ==
  ASSUME NEW g, NEW p, NEW x \in Scenario06(g, p, NormalControls(g))
  PROVE  AllSupported(g, p, x) /\ Formed(g, x) /\ x.scenario = "SG-06"
<1>1. CASE x = Catalog("SG-06", "SG06", FallbackState(g, IngressesOf(g, "CHECKOUT_CALLBACK")))
  BY <1>1, CatalogInstance, FallbackIsNotApplicable
<1>2. ASSUME NEW i \in IngressesOf(g, "CHECKOUT_CALLBACK"), NEW c, TargetOf(NormalControls(g), i, c),
             x = TrustInstance(g, "SG-06", i, c, "SG06", "SG06_MUTATION")
      PROVE  AllSupported(g, p, x) /\ Formed(g, x) /\ x.scenario = "SG-06"
  <2>1. i \in Ingresses(g)
    BY DEF IngressesOf
  <2> QED
    BY <1>2, <2>1, TrustInstances
<1> QED
  BY <1>1, <1>2, TrustForm DEF Scenario06

(* SG-07 has, or the catalog's where there is no checkout.                  *)
LEMMA Instances07 ==
  ASSUME NEW g, NEW p, NEW x \in Scenario07(g, p, NormalControls(g))
  PROVE  AllSupported(g, p, x) /\ Formed(g, x) /\ x.scenario = "SG-07"
<1> DEFINE cs == NormalControls(g)
           core(c) == Assertion("SG07", "CORE", WithoutCallbackState(g, p, cs, c), c)
           state == IF IngressesOf(g, "CHECKOUT_CALLBACK") # {} THEN FallbackState(g, IngressesOf(g, "WEBHOOK"))
                    ELSE Judged("NOT_APPLICABLE", "CHECKOUT_SURFACE_REQUIRED", {})
           catalog == Catalog("SG-07", "SG07", state)
<1>1. CASE x = catalog
  <2>1. state.state # "APPLICABLE"
    BY FallbackIsNotApplicable DEF Judged
  <2> QED
    BY <1>1, <2>1, CatalogInstance
<1>2. ASSUME NEW c \in WebhookControls(cs), x = OfControl("SG-07", c, {core(c)})
      PROVE  AllSupported(g, p, x) /\ Formed(g, x) /\ x.scenario = "SG-07"
  <2> DEFINE a == core(c)
  <2>1. x.assertions = {a} /\ x.control = c /\ x.ingress = c.ingress /\ x.scenario = "SG-07"
    BY <1>2 DEF OfControl, Instance
  <2>2. a.key = "SG07" /\ a.role = "CORE" /\ a.control = c /\ a.judged = WithoutCallbackState(g, p, cs, c)
    BY DEF Assertion
  <2> HIDE DEF a
  <2>3. a.judged.state = "APPLICABLE" => p.fulfilment # "none" /\ p.current /\ CapturedGates(g, c) # {}
    BY <2>2, WithoutCallbackApplicable
  <2> QED
    BY <2>1, <2>2, <2>3, CapturedInstance
<1>3. x \in {OfControl("SG-07", c, {core(c)}) : c \in WebhookControls(cs)} \/ x = catalog
  <2> DEFINE instances == IF IngressesOf(g, "CHECKOUT_CALLBACK") = {} THEN {}
                          ELSE {OfControl("SG-07", c, {core(c)}) : c \in WebhookControls(cs)}
  <2>1. x \in OrCatalog(instances, catalog)
    BY DEF Scenario07
  <2>2. x \in instances \/ x = catalog
    BY <2>1, OrCatalogHolds
  <2> QED
    BY <2>2
<1> QED
  BY <1>1, <1>2, <1>3

(* The assertions of SG-08, of which only those that the two policies chose *)
(* are applicable.                                                          *)
LEMMA LateAssertionsHold ==
  ASSUME NEW g, NEW p, NEW c, NEW a \in LateAssertions(g, p, c)
  PROVE  /\ a.role = "CORE" /\ a.control = c
         /\ a.key \in {"SG08_LATE_POLICY", "SG08_PRECAPTURE", "SG08_CAPTURE"}
         /\ a.key = "SG08_LATE_POLICY" => a.judged.state # "APPLICABLE"
         /\ a.key # "SG08_LATE_POLICY" => /\ p.fulfilment # "none" /\ p.current
                                          /\ p.late # "none" /\ p.late_current
                                          /\ p.fulfilment = "CAPTURE_REQUIRED"
         /\ a.key = "SG08_CAPTURE" => /\ p.late = "FULFIL_LATER"
                                      /\ a.judged.state = "APPLICABLE" => CapturedGates(g, c) # {}
<1> DEFINE open(state, reason) == Assertion("SG08_LATE_POLICY", "CORE", Judged(state, reason, {}), c)
           precapture == Assertion("SG08_PRECAPTURE", "CORE", Judged("APPLICABLE", "POLICY_MATRIX_SELECTED", {}), c)
           capture == Assertion("SG08_CAPTURE", "CORE", LateCapture(g, c), c)
<1>1. \A state, reason :
        /\ open(state, reason).key = "SG08_LATE_POLICY" /\ open(state, reason).role = "CORE"
        /\ open(state, reason).control = c /\ open(state, reason).judged.state = state
  BY DEF Assertion, Judged
<1>2. precapture.key = "SG08_PRECAPTURE" /\ precapture.role = "CORE" /\ precapture.control = c
  BY DEF Assertion
<1>3. /\ capture.key = "SG08_CAPTURE" /\ capture.role = "CORE" /\ capture.control = c
      /\ capture.judged = LateCapture(g, c)
  BY DEF Assertion
<1>4. LateCapture(g, c).state = "APPLICABLE" => CapturedGates(g, c) # {}
  BY DEF LateCapture, Judged
<1>5. \/ \E state \in {"NEEDS_INPUT", "INDETERMINATE"} : \E reason : a = open(state, reason)
      \/ /\ a = precapture \/ (a = capture /\ p.late = "FULFIL_LATER")
         /\ PolicyState(p).state = "APPLICABLE" /\ p.late # "none" /\ p.late_current
         /\ p.fulfilment = "CAPTURE_REQUIRED"
  BY DEF LateAssertions
<1> HIDE DEF open, precapture, capture
<1> QED
  BY <1>1, <1>2, <1>3, <1>4, <1>5, PolicyStateApplicable

(* There is one at least, and one for a key.                                *)
LEMMA LateAssertionsForm ==
  ASSUME NEW g, NEW p, NEW c
  PROVE  /\ LateAssertions(g, p, c) # {}
         /\ \A a, b \in LateAssertions(g, p, c) : a.key = b.key => a = b
<1> DEFINE open(state, reason) == Assertion("SG08_LATE_POLICY", "CORE", Judged(state, reason, {}), c)
           precapture == Assertion("SG08_PRECAPTURE", "CORE", Judged("APPLICABLE", "POLICY_MATRIX_SELECTED", {}), c)
           capture == Assertion("SG08_CAPTURE", "CORE", LateCapture(g, c), c)
<1>1. precapture.key = "SG08_PRECAPTURE" /\ capture.key = "SG08_CAPTURE"
  BY DEF Assertion
<1>2. \/ \E state, reason : LateAssertions(g, p, c) = {open(state, reason)}
      \/ LateAssertions(g, p, c) = {precapture}
      \/ LateAssertions(g, p, c) = {precapture, capture}
  BY DEF LateAssertions
<1> HIDE DEF open, precapture, capture
<1> QED
  BY <1>1, <1>2

(* SG-08 has formed and supported instances.                                *)
LEMMA Instances08 ==
  ASSUME NEW g, NEW p, NEW x \in Scenario08(g, p, NormalControls(g))
  PROVE  AllSupported(g, p, x) /\ Formed(g, x) /\ x.scenario = "SG-08"
<1> DEFINE cs == NormalControls(g)
           state == IF WebhookControls(cs) # {} THEN Judged("NOT_APPLICABLE", "LATE_SEQUENCE_NOT_SUPPORTED", {})
                    ELSE FallbackState(g, IngressesOf(g, "WEBHOOK"))
           catalog == Catalog("SG-08", "SG08_LATE_POLICY", state)
<1>1. CASE x = catalog
  <2>1. state.state # "APPLICABLE"
    BY FallbackIsNotApplicable DEF Judged
  <2> QED
    BY <1>1, <2>1, CatalogInstance
<1>2. ASSUME NEW c \in WebhookControls(cs), x = OfControl("SG-08", c, LateAssertions(g, p, c))
      PROVE  AllSupported(g, p, x) /\ Formed(g, x) /\ x.scenario = "SG-08"
  <2>1. x.assertions = LateAssertions(g, p, c) /\ x.control = c /\ x.ingress = c.ingress /\ x.scenario = "SG-08"
    BY <1>2 DEF OfControl, Instance
  <2>2. c \in NormalControls(g) /\ c # None
    BY ControlsAreCalls DEF WebhookControls
  <2>3. ASSUME NEW a \in x.assertions, a.judged.state = "APPLICABLE" PROVE Supported(g, p, x, a)
    BY <2>1, <2>2, <2>3, LateAssertionsHold DEF Supported, MutationKeys, CapturedKeys
  <2>4. Formed(g, x)
    BY <2>1, <2>2, LateAssertionsHold, LateAssertionsForm DEF Formed
  <2> QED
    BY <2>1, <2>3, <2>4 DEF AllSupported
<1>3. \/ x \in {OfControl("SG-08", c, LateAssertions(g, p, c)) : c \in {d \in WebhookControls(cs) : LateSupported(g, d)}}
      \/ x = catalog
  BY OrCatalogHolds DEF Scenario08
<1> QED
  BY <1>1, <1>2, <1>3

(* Every instance that the engine finds is formed, and what is applicable   *)
(* in it is supported.                                                      *)
LEMMA InstancesHold ==
  ASSUME NEW g, NEW p, NEW x \in CatalogScenarios(g, p, NormalControls(g))
  PROVE  /\ AllSupported(g, p, x) /\ Formed(g, x)
         /\ x.scenario \in {"SG-01", "SG-02", "SG-03", "SG-04", "SG-05", "SG-06", "SG-07", "SG-08"}
<1> DEFINE cs == NormalControls(g)
<1>1. \/ x \in Scenario01(g, p, cs) \/ x \in Scenario02(g, p, cs) \/ x \in Scenario03(g, p, cs)
      \/ x \in Scenario04(g, p, cs) \/ x \in Scenario05(g, p, cs) \/ x \in Scenario06(g, p, cs)
      \/ x \in Scenario07(g, p, cs) \/ x \in Scenario08(g, p, cs)
  BY DEF CatalogScenarios
<1> QED
  BY <1>1, Instances01, Instances02, Instances03, Instances04, Instances05, Instances06, Instances07, Instances08
-----------------------------------------------------------------------------
(* The gates of a captured branch are on the control's route, which is a    *)
(* webhook's whose coverage is whole.                                       *)
LEMMA CapturedGatesAreBacked ==
  ASSUME NEW g, NEW c \in NormalControls(g), CapturedGates(g, c) # {}
  PROVE  /\ c.ingress.ingress = "WEBHOOK" /\ c.ingress.method = "POST" /\ ~Reduced(g, c.ingress.route)
         /\ \E e \in g.edges : /\ e.kind = "BRANCHES_TO" /\ e.matched
                               /\ e.source.route = c.ingress.route /\ e.target = Value(g.symbol)
                               /\ "captured" \in BareStates(e)
<1>1. /\ c.ingress.ingress = "WEBHOOK" /\ c.ingress.method = "POST" /\ RelevantDiagnostics(g, {c}) = {}
      /\ \E e \in ControlStateEdges(g, c) : "captured" \in BareStates(e)
  BY DEF CapturedGates
<1>2. c.value = Value(g.symbol) /\ c.route = c.ingress.route
  BY ControlsAreCalls
<1>3. ~Reduced(g, c.ingress.route)
  BY <1>1, <1>2 DEF Reduced, RelevantDiagnostics, Routes
<1> QED
  BY <1>1, <1>2, <1>3 DEF ControlStateEdges

(* What is applicable now is an assertion of an instance, and supported.    *)
LEMMA ApplicableHolds ==
  ASSUME NEW y \in Applicable(Now)
  PROVE  Supported(graph, Now.policy, y[1], y[2])
<1> DEFINE p == PolicyAssessment(graph, NormalControls(graph), config)
<1>1. Now.policy = p /\ Now.instances = CatalogScenarios(graph, p, NormalControls(graph))
  BY DEF Now, EvaluateApplicability
<1> HIDE DEF p
<1>2. PICK x \in Now.instances : \E a \in x.assertions : y = <<x, a>>
  BY DEF Applicable, Assertions
<1>3. PICK a \in x.assertions : y = <<x, a>>
  BY <1>2
<1>4. y[1] = x /\ y[2] = a /\ a.judged.state = "APPLICABLE"
  BY <1>3 DEF Applicable
<1>5. AllSupported(graph, p, x)
  BY <1>1, InstancesHold
<1> QED
  BY <1>1, <1>3, <1>4, <1>5 DEF AllSupported

(* For every graph and every configuration, what is applicable is backed by *)
(* the graph: ApplicableIsBacked of any state.                              *)
LEMMA Backed == ApplicableIsBacked
<1> SUFFICES ASSUME NEW y \in Applicable(Now), NEW a, NEW i, a = y[2], i = y[1].ingress
             PROVE  /\ a.key \in MutationKeys =>
                         a.judged.nodes # {} /\ \A n \in a.judged.nodes : n.kind = "mutation" /\ n.route = i.route
                    /\ a.key \notin MutationKeys =>
                         \E e \in graph.edges : e.kind = "CALLS" /\ e.source = i /\ e.target = Value(graph.symbol)
                    /\ a.key \in CapturedKeys =>
                         /\ i.ingress = "WEBHOOK" /\ i.method = "POST" /\ ~Reduced(graph, i.route)
                         /\ \E e \in graph.edges : /\ e.kind = "BRANCHES_TO" /\ e.matched
                                                   /\ e.source.route = i.route /\ e.target = Value(graph.symbol)
                                                   /\ "captured" \in BareStates(e)
  BY DEF ApplicableIsBacked
<1>1. Supported(graph, Now.policy, y[1], a)
  BY ApplicableHolds
<1>2. CASE a.key \in MutationKeys
  BY <1>1, <1>2 DEF Supported, MutationsOf, MutationKeys, CapturedKeys
<1>3. CASE a.key \notin MutationKeys
  <2> DEFINE c == y[1].control
  <2>1. c \in NormalControls(graph) /\ i = c.ingress
    BY <1>1, <1>3 DEF Supported
  <2>2. a.key \in CapturedKeys => CapturedGates(graph, c) # {}
    BY <1>1 DEF Supported
  <2>3. c.edge \in graph.edges /\ c.edge.kind = "CALLS" /\ c.edge.source = i /\ c.edge.target = Value(graph.symbol)
    BY <2>1, ControlsAreCalls
  <2> HIDE DEF c
  <2> QED
    BY <1>3, <2>1, <2>2, <2>3, CapturedGatesAreBacked
<1> QED
  BY <1>2, <1>3

(* ApplicableIsBacked: it holds of the engine on any graph, so at every     *)
(* moment.                                                                  *)
THEOREM ApplicabilityIsBacked == EngineSpec => []ApplicableIsBacked
  BY Backed, PTL

(* PolicyMatrixAgrees: the engine chooses SG-08's assertions as             *)
(* customer_value_allowed says.                                             *)
THEOREM MatrixAgrees == EngineSpec => []PolicyMatrixAgrees
<1>1. PolicyMatrixAgrees
  <2> DEFINE p == Now.policy
  <2>1. SUFFICES ASSUME NEW y \in Applicable(Now)
                 PROVE  /\ y[2].key = "SG08_PRECAPTURE" =>
                             ~CustomerValueAllowed(p.fulfilment, p.late, TRUE, "payment.authorized")
                        /\ y[2].key = "SG08_CAPTURE" =>
                             CustomerValueAllowed(p.fulfilment, p.late, TRUE, "payment.captured")
    BY DEF PolicyMatrixAgrees
  <2>2. Supported(graph, p, y[1], y[2])
    BY <2>1, ApplicableHolds
  <2>3. Bare("payment.authorized") = "authorized" /\ Bare("payment.captured") = "captured"
    BY DEF Bare
  <2> HIDE DEF p
  <2> QED
    BY <2>2, <2>3 DEF Supported, CustomerValueAllowed
<1> QED
  BY <1>1, PTL
-----------------------------------------------------------------------------
(* What the merchant is shown is told by the evidence: graphs with the same *)
(* evidence show the same.                                                  *)
LEMMA RoutesAreOfIngresses ==
  ASSUME NEW g, NEW cs \in SUBSET NormalControls(g)
  PROVE  Routes(cs) = {e.ingress.route : e \in ControlEvidence(cs)}
<1> DEFINE of(c) == [ingress |-> c.ingress, value |-> c.value, sites |-> c.edge.sites]
<1>1. \A c \in cs : c.route = c.ingress.route
  BY ControlsAreCalls
<1>2. ControlEvidence(cs) = {of(c) : c \in cs} /\ \A c \in cs : of(c).ingress = c.ingress
  BY DEF ControlEvidence
<1>3. ASSUME NEW r \in Routes(cs) PROVE r \in {e.ingress.route : e \in ControlEvidence(cs)}
  <2>1. PICK c \in cs : r = c.route
    BY DEF Routes
  <2>2. of(c) \in ControlEvidence(cs) /\ of(c).ingress.route = r
    BY <1>1, <1>2, <2>1
  <2> HIDE DEF of
  <2> QED
    BY <2>2
<1>4. ASSUME NEW e \in ControlEvidence(cs) PROVE e.ingress.route \in Routes(cs)
  BY <1>1, <1>2 DEF Routes
<1> QED
  BY <1>3, <1>4

(* The diagnostics of one route are among those of the controls' routes.    *)
LEMMA DiagnosticsOfRoute ==
  ASSUME NEW g, NEW cs, NEW r \in Routes(cs)
  PROVE  RelevantDiagnostics(g, {c \in cs : c.route = r}) = {d \in RelevantDiagnostics(g, cs) : d.route = r}
<1>1. Routes({c \in cs : c.route = r}) = {r}
  BY DEF Routes
<1> QED
  BY <1>1 DEF RelevantDiagnostics

(* Shown as a function of the evidence.                                     *)
LEMMA ShownByEvidence ==
  ASSUME NEW g, NEW cs, NEW edges, edges = StateEdges(g, cs)
  PROVE  Shown(g, cs) = [r \in Routes(cs) |->
           <<Paid \cap UNION {BareStates(e) : e \in {x \in edges : x.source.route = r}},
             {d \in RelevantDiagnostics(g, cs) : d.route = r}>>]
<1>1. \A r \in Routes(cs) :
        /\ ObservedOn(g, cs, r) = Paid \cap UNION {BareStates(e) : e \in {x \in edges : x.source.route = r}}
        /\ RelevantDiagnostics(g, {c \in cs : c.route = r}) = {d \in RelevantDiagnostics(g, cs) : d.route = r}
  BY DiagnosticsOfRoute DEF ObservedOn
<1> QED
  BY <1>1 DEF Shown

(* The evidence of the fulfilment policy tells what was shown.              *)
LEMMA FulfilmentEvidenceShows ==
  ASSUME NEW g, NEW h,
         FulfilmentEvidence(g, NormalControls(g)) = FulfilmentEvidence(h, NormalControls(h))
  PROVE  Shown(g, NormalControls(g)) = Shown(h, NormalControls(h))
<1> DEFINE cg == NormalControls(g)
           ch == NormalControls(h)
<1>1. /\ ControlEvidence(cg) = ControlEvidence(ch)
      /\ StateEdges(g, cg) = StateEdges(h, ch)
      /\ RelevantDiagnostics(g, cg) = RelevantDiagnostics(h, ch)
  BY DEF FulfilmentEvidence
<1>2. Routes(cg) = {e.ingress.route : e \in ControlEvidence(cg)} /\ Routes(ch) = {e.ingress.route : e \in ControlEvidence(ch)}
  BY RoutesAreOfIngresses
<1>3. Routes(cg) = Routes(ch)
  BY <1>1, <1>2
<1> DEFINE edges == StateEdges(g, cg)
           diagnostics == RelevantDiagnostics(g, cg)
           shown == [r \in Routes(cg) |->
                       <<Paid \cap UNION {BareStates(e) : e \in {x \in edges : x.source.route = r}},
                         {d \in diagnostics : d.route = r}>>]
<1>4. Shown(g, cg) = shown
  BY ShownByEvidence
<1>5. Shown(h, ch) = [r \in Routes(ch) |->
           <<Paid \cap UNION {BareStates(e) : e \in {x \in edges : x.source.route = r}},
             {d \in RelevantDiagnostics(h, ch) : d.route = r}>>]
  BY <1>1, ShownByEvidence
<1> QED
  BY <1>1, <1>3, <1>4, <1>5

(* Every control has the one customer value, so the edges to the webhooks'  *)
(* value are the edges to the value that are on a webhook's route.          *)
LEMMA WebhookStateEdges ==
  ASSUME NEW g
  PROVE  LET cs == NormalControls(g)
             web == WebhookControls(cs)
         IN  StateEdges(g, web) = {e \in StateEdges(g, cs) : e.source.route \in Routes(web)}
<1> DEFINE cs == NormalControls(g)
           web == WebhookControls(cs)
<1>1. web \subseteq cs /\ Routes(web) \subseteq Routes(cs)
  BY DEF WebhookControls, Routes
<1>2. \A c \in cs : c.value = Value(g.symbol)
  BY ControlsAreCalls
<1>3. {c.value : c \in web} \subseteq {Value(g.symbol)} /\ {c.value : c \in cs} \subseteq {Value(g.symbol)}
  BY <1>1, <1>2
<1>4. \A r \in Routes(web) : {c.value : c \in web} = {c.value : c \in cs}
  <2> SUFFICES ASSUME NEW r \in Routes(web) PROVE {c.value : c \in web} = {c.value : c \in cs}
    OBVIOUS
  <2>1. PICK c \in web : TRUE
    BY DEF Routes
  <2> QED
    BY <1>1, <1>2, <1>3, <2>1
<1> HIDE DEF web, cs
<1>5. StateEdges(g, web) = {e \in StateEdges(g, cs) : e.source.route \in Routes(web)}
  BY <1>1, <1>4 DEF StateEdges
<1> QED
  BY <1>5 DEF web, cs

(* The evidence of the late policy tells what was shown of webhooks.        *)
LEMMA LateEvidenceShows ==
  ASSUME NEW g, NEW h, LateEvidence(g, NormalControls(g)) = LateEvidence(h, NormalControls(h))
  PROVE  Shown(g, WebhookControls(NormalControls(g))) = Shown(h, WebhookControls(NormalControls(h)))
<1> DEFINE cg == WebhookControls(NormalControls(g))
           ch == WebhookControls(NormalControls(h))
<1>1. /\ ControlEvidence(cg) = ControlEvidence(ch)
      /\ {e \in StateEdges(g, NormalControls(g)) : e.source.route \in Routes(cg)}
           = {e \in StateEdges(h, NormalControls(h)) : e.source.route \in Routes(ch)}
      /\ RelevantDiagnostics(g, cg) = RelevantDiagnostics(h, ch)
  BY DEF LateEvidence
<1>2. StateEdges(g, cg) = StateEdges(h, ch)
  BY <1>1, WebhookStateEdges
<1>3. cg \in SUBSET NormalControls(g) /\ ch \in SUBSET NormalControls(h)
  BY DEF WebhookControls
<1>4. Routes(cg) = {e.ingress.route : e \in ControlEvidence(cg)} /\ Routes(ch) = {e.ingress.route : e \in ControlEvidence(ch)}
  BY <1>3, RoutesAreOfIngresses
<1> HIDE DEF cg, ch
<1> DEFINE edges == StateEdges(g, cg)
<1>5. Shown(g, cg) = [r \in Routes(cg) |->
           <<Paid \cap UNION {BareStates(e) : e \in {x \in edges : x.source.route = r}},
             {d \in RelevantDiagnostics(g, cg) : d.route = r}>>]
  BY ShownByEvidence
<1>6. Shown(h, ch) = [r \in Routes(ch) |->
           <<Paid \cap UNION {BareStates(e) : e \in {x \in edges : x.source.route = r}},
             {d \in RelevantDiagnostics(h, ch) : d.route = r}>>]
  BY <1>2, ShownByEvidence
<1>7. Routes(cg) = Routes(ch)
  BY <1>1, <1>4
<1>8. Shown(g, cg) = Shown(h, ch)
  BY <1>1, <1>5, <1>6, <1>7
<1> QED
  BY <1>8 DEF cg, ch

(* A policy that is declared was confirmed on the evidence of a source, and *)
(* the merchant was then shown what that evidence tells.                    *)
Confirmed(declared, shown, Evidence(_, _), Controls(_)) ==
  declared.value # "none" =>
    \E g \in Sources : /\ declared.evidence = Evidence(g, NormalControls(g))
                       /\ shown = Shown(g, Controls(NormalControls(g)))

AllControls(cs) == cs

PolicyInv ==
  /\ graph \in Sources
  /\ config = [fulfilment |-> config.fulfilment, late |-> config.late]
  /\ basis = [fulfilment |-> basis.fulfilment, late |-> basis.late]
  /\ Confirmed(config.fulfilment, basis.fulfilment, FulfilmentEvidence, AllControls)
  /\ Confirmed(config.late, basis.late, LateEvidence, WebhookControls)

(* It holds before anything is declared.                                    *)
LEMMA PolicyInvInit == ASSUME EngineInit PROVE PolicyInv
<1>1. config.fulfilment.value = "none" /\ config.late.value = "none"
  BY DEF EngineInit, Unconfirmed
<1> QED
  BY <1>1 DEF EngineInit, PolicyInv, Confirmed

(* Every confirmation and every edit keeps it.                              *)
LEMMA PolicyInvStep == ASSUME PolicyInv, [EngineNext]_vars PROVE PolicyInv'
<1>1. ASSUME NEW value, ConfirmFulfilment(value) PROVE PolicyInv'
  <2> DEFINE f == [value |-> value, evidence |-> FulfilmentEvidence(graph, NormalControls(graph))]
             b == Shown(graph, NormalControls(graph))
  <2>1. config' = [fulfilment |-> f, late |-> config.late] /\ basis' = [fulfilment |-> b, late |-> basis.late]
    BY <1>1 DEF ConfirmFulfilment, PolicyInv
  <2>2. graph' = graph /\ graph \in Sources
    BY <1>1 DEF ConfirmFulfilment, PolicyInv
  <2>3. f.evidence = FulfilmentEvidence(graph, NormalControls(graph))
    OBVIOUS
  <2>4. Confirmed(f, b, FulfilmentEvidence, AllControls)
    BY <2>2, <2>3 DEF Confirmed, AllControls
  <2> HIDE DEF f, b
  <2> QED
    BY <2>1, <2>2, <2>4 DEF PolicyInv, Confirmed
<1>2. ASSUME NEW value, ConfirmLate(value) PROVE PolicyInv'
  <2> DEFINE l == [value |-> value, evidence |-> LateEvidence(graph, NormalControls(graph))]
             b == Shown(graph, WebhookControls(NormalControls(graph)))
  <2>1. config' = [fulfilment |-> config.fulfilment, late |-> l] /\ basis' = [fulfilment |-> basis.fulfilment, late |-> b]
    BY <1>2 DEF ConfirmLate, PolicyInv
  <2>2. graph' = graph /\ graph \in Sources
    BY <1>2 DEF ConfirmLate, PolicyInv
  <2>3. l.evidence = LateEvidence(graph, NormalControls(graph))
    OBVIOUS
  <2>4. Confirmed(l, b, LateEvidence, WebhookControls)
    BY <2>2, <2>3 DEF Confirmed
  <2> HIDE DEF l, b
  <2> QED
    BY <2>1, <2>2, <2>4 DEF PolicyInv, Confirmed
<1>3. CASE EditSource
  BY <1>3 DEF EditSource, PolicyInv, Confirmed
<1>4. CASE UNCHANGED vars
  BY <1>4 DEF vars, PolicyInv, Confirmed
<1> QED
  BY <1>1, <1>2, <1>3, <1>4 DEF EngineNext

(* What is current was confirmed on what the merchant would be shown now.   *)
LEMMA CurrentBasis ==
  ASSUME PolicyInv
  PROVE  /\ Now.policy.current => basis.fulfilment = Shown(graph, NormalControls(graph))
         /\ Now.policy.late_current => basis.late = Shown(graph, WebhookControls(NormalControls(graph)))
<1>1. /\ Now.policy.current =>
           /\ config.fulfilment.value # "none"
           /\ config.fulfilment.evidence = FulfilmentEvidence(graph, NormalControls(graph))
      /\ Now.policy.late_current =>
           config.late.value # "none" /\ config.late.evidence = LateEvidence(graph, NormalControls(graph))
  BY DEF Now, EvaluateApplicability, PolicyAssessment
<1>2. ASSUME Now.policy.current PROVE basis.fulfilment = Shown(graph, NormalControls(graph))
  BY <1>1, <1>2, FulfilmentEvidenceShows DEF PolicyInv, Confirmed, AllControls
<1>3. ASSUME Now.policy.late_current PROVE basis.late = Shown(graph, WebhookControls(NormalControls(graph)))
  BY <1>1, <1>3, LateEvidenceShows DEF PolicyInv, Confirmed
<1> QED
  BY <1>2, <1>3

(* PolicyBasisIsCurrent: what depends on a policy is applicable only while  *)
(* the merchant would be shown what was shown when it was confirmed.        *)
THEOREM PoliciesAreCurrent == EngineSpec => []PolicyBasisIsCurrent
<1>1. EngineInit => PolicyInv
  BY PolicyInvInit
<1>2. PolicyInv /\ [EngineNext]_vars => PolicyInv'
  BY PolicyInvStep
<1>3. PolicyInv => PolicyBasisIsCurrent
  <2> SUFFICES ASSUME PolicyInv, NEW y \in Applicable(Now)
               PROVE  /\ y[2].key \in PolicyKeys => basis.fulfilment = Shown(graph, NormalControls(graph))
                      /\ y[2].key \in {"SG08_PRECAPTURE", "SG08_CAPTURE"} =>
                           basis.late = Shown(graph, WebhookControls(NormalControls(graph)))
    BY DEF PolicyBasisIsCurrent
  <2>1. Supported(graph, Now.policy, y[1], y[2])
    BY ApplicableHolds
  <2> QED
    BY <2>1, CurrentBasis DEF Supported
<1> QED
  BY <1>1, <1>2, <1>3, PTL DEF EngineSpec
-----------------------------------------------------------------------------
(* An instance is named by its control, or by its ingress without one.      *)
NameOf(x) == IF x.control # None THEN x.control ELSE x.ingress

Named(instances) == \A x, y \in instances : NameOf(x) = NameOf(y) => x = y

(* A control is no node.                                                    *)
LEMMA ControlsAreNoNodes ==
  ASSUME NEW g, NEW c \in NormalControls(g), NEW i, "kind" \in DOMAIN i
  PROVE  c # i
<1>1. PICK e \in g.edges : c = [ingress |-> e.source, route |-> e.source.route, value |-> e.target, edge |-> e]
  BY DEF NormalControls
<1>2. "kind" \notin DOMAIN c
  BY <1>1
<1> QED
  BY <1>2

(* Instances for different controls have different names; a catalog's       *)
(* instance is alone.                                                       *)
LEMMA ControlsAreNamed ==
  ASSUME NEW g, NEW instances, NEW catalog,
         \A x \in instances : x.control \in NormalControls(g),
         \A x, y \in instances : x.control = y.control => x = y
  PROVE  Named(OrCatalog(instances, catalog))
<1> SUFFICES ASSUME NEW x \in OrCatalog(instances, catalog), NEW y \in OrCatalog(instances, catalog),
                    NameOf(x) = NameOf(y)
             PROVE  x = y
  BY DEF Named
<1>1. CASE instances = {}
  BY <1>1 DEF OrCatalog
<1>2. CASE instances # {}
  <2>1. x \in instances /\ y \in instances
    BY <1>2 DEF OrCatalog
  <2>2. x.control # None /\ y.control # None
    BY <2>1, ControlsAreCalls
  <2> QED
    BY <2>1, <2>2 DEF NameOf
<1> QED
  BY <1>1, <1>2

(* The instances of the scenarios of controls have different names.         *)
LEMMA WebhookInstancesAreNamed ==
  ASSUME NEW g, NEW p
  PROVE  LET cs == NormalControls(g)
         IN  /\ Named(Scenario01(g, p, cs)) /\ Named(Scenario02(g, p, cs)) /\ Named(Scenario03(g, p, cs))
             /\ Named(Scenario04(g, p, cs)) /\ Named(Scenario07(g, p, cs)) /\ Named(Scenario08(g, p, cs))
<1> DEFINE cs == NormalControls(g)
           W == WebhookControls(cs)
<1>1. W \subseteq NormalControls(g)
  BY DEF WebhookControls
<1>2. Named(Scenario01(g, p, cs))
  <2> DEFINE One(c) == OfControl("SG-01", c, {Assertion("SG01", "CORE", NormalCaptureState(g, p, c), c)})
             catalog == Catalog("SG-01", "SG01", FallbackState(g, Ingresses(g)))
             instances == {One(c) : c \in W}
  <2>1. Scenario01(g, p, cs) = OrCatalog(instances, catalog)
    BY DEF Scenario01
  <2>2. \A c : One(c).control = c
    BY DEF OfControl, Instance
  <2> HIDE DEF One, catalog, W
  <2>3. /\ \A x \in instances : x.control \in NormalControls(g)
        /\ \A x, y \in instances : x.control = y.control => x = y
    BY <1>1, <2>2
  <2> HIDE DEF instances
  <2> QED
    BY <2>1, <2>3, ControlsAreNamed
<1>3. Named(Scenario02(g, p, cs))
  <2> DEFINE One(c) == OfControl("SG-02", c, {Assertion("SG02", "CORE", DuplicateCaptureState(g, p, c), c)})
             catalog == Catalog("SG-02", "SG02", FallbackState(g, IngressesOf(g, "WEBHOOK")))
             instances == {One(c) : c \in W}
  <2>1. Scenario02(g, p, cs) = OrCatalog(instances, catalog)
    BY DEF Scenario02
  <2>2. \A c : One(c).control = c
    BY DEF OfControl, Instance
  <2> HIDE DEF One, catalog, W
  <2>3. /\ \A x \in instances : x.control \in NormalControls(g)
        /\ \A x, y \in instances : x.control = y.control => x = y
    BY <1>1, <2>2
  <2> HIDE DEF instances
  <2> QED
    BY <2>1, <2>3, ControlsAreNamed
<1>4. Named(Scenario03(g, p, cs))
  <2> DEFINE One(c) == OfControl("SG-03", c, {Assertion("SG03", "CORE", RetryState(g, p, c), c)})
             catalog == Catalog("SG-03", "SG03", FallbackState(g, IngressesOf(g, "WEBHOOK")))
             instances == {One(c) : c \in W}
  <2>1. Scenario03(g, p, cs) = OrCatalog(instances, catalog)
    BY DEF Scenario03
  <2>2. \A c : One(c).control = c
    BY DEF OfControl, Instance
  <2> HIDE DEF One, catalog, W
  <2>3. /\ \A x \in instances : x.control \in NormalControls(g)
        /\ \A x, y \in instances : x.control = y.control => x = y
    BY <1>1, <2>2
  <2> HIDE DEF instances
  <2> QED
    BY <2>1, <2>3, ControlsAreNamed
<1>5. Named(Scenario04(g, p, cs))
  <2> DEFINE One(c) == OfControl("SG-04", c, {Assertion("SG04", "CORE", DuplicateCaptureState(g, p, c), c),
                                            Assertion("SG04_STATE", "OPTIONAL", RegressionState(g, c), c)})
             catalog == Catalog("SG-04", "SG04", FallbackState(g, IngressesOf(g, "WEBHOOK")))
             instances == {One(c) : c \in W}
  <2>1. Scenario04(g, p, cs) = OrCatalog(instances, catalog)
    BY DEF Scenario04
  <2>2. \A c : One(c).control = c
    BY DEF OfControl, Instance
  <2> HIDE DEF One, catalog, W
  <2>3. /\ \A x \in instances : x.control \in NormalControls(g)
        /\ \A x, y \in instances : x.control = y.control => x = y
    BY <1>1, <2>2
  <2> HIDE DEF instances
  <2> QED
    BY <2>1, <2>3, ControlsAreNamed
<1>6. Named(Scenario07(g, p, cs))
  <2> DEFINE One(c) == OfControl("SG-07", c, {Assertion("SG07", "CORE", WithoutCallbackState(g, p, cs, c), c)})
             catalog == Catalog("SG-07", "SG07",
                          IF IngressesOf(g, "CHECKOUT_CALLBACK") # {} THEN FallbackState(g, IngressesOf(g, "WEBHOOK"))
                          ELSE Judged("NOT_APPLICABLE", "CHECKOUT_SURFACE_REQUIRED", {}))
             instances == IF IngressesOf(g, "CHECKOUT_CALLBACK") = {} THEN {} ELSE {One(c) : c \in W}
  <2>1. Scenario07(g, p, cs) = OrCatalog(instances, catalog)
    BY DEF Scenario07
  <2>2. \A c : One(c).control = c
    BY DEF OfControl, Instance
  <2> HIDE DEF One, catalog, W
  <2>3. /\ \A x \in instances : x.control \in NormalControls(g)
        /\ \A x, y \in instances : x.control = y.control => x = y
    BY <1>1, <2>2
  <2> HIDE DEF instances
  <2> QED
    BY <2>1, <2>3, ControlsAreNamed
<1>7. Named(Scenario08(g, p, cs))
  <2> DEFINE One(c) == OfControl("SG-08", c, LateAssertions(g, p, c))
             catalog == Catalog("SG-08", "SG08_LATE_POLICY",
                          IF W # {} THEN Judged("NOT_APPLICABLE", "LATE_SEQUENCE_NOT_SUPPORTED", {})
                          ELSE FallbackState(g, IngressesOf(g, "WEBHOOK")))
             instances == {One(c) : c \in {d \in W : LateSupported(g, d)}}
  <2>1. Scenario08(g, p, cs) = OrCatalog(instances, catalog)
    BY DEF Scenario08
  <2>2. \A c : One(c).control = c
    BY DEF OfControl, Instance
  <2> HIDE DEF One, catalog, W
  <2>3. /\ \A x \in instances : x.control \in NormalControls(g)
        /\ \A x, y \in instances : x.control = y.control => x = y
    BY <1>1, <2>2
  <2> HIDE DEF instances
  <2> QED
    BY <2>1, <2>3, ControlsAreNamed
<1> QED
  BY <1>2, <1>3, <1>4, <1>5, <1>6, <1>7

(* Those of SG-05 and SG-06 too.                                            *)
LEMMA TrustInstancesAreNamed ==
  ASSUME NEW g, GraphValid(g), NEW s, NEW value, NEW mutation, NEW ingresses \in SUBSET Ingresses(g)
  PROVE  Named(TrustScenario(g, NormalControls(g), s, ingresses, value, mutation))
<1> DEFINE cs == NormalControls(g)
           One(i, c) == TrustInstance(g, s, i, c, value, mutation)
           catalog == Catalog(s, value, FallbackState(g, ingresses))
           instances == TrustScenario(g, cs, s, ingresses, value, mutation)
<1>1. \A i, c : One(i, c).control = c /\ One(i, c).ingress = i
  BY DEF TrustInstance, Instance
<1>2. \A x \in instances : \/ x = catalog /\ ingresses = {}
                           \/ \E i \in ingresses : \E c : TargetOf(cs, i, c) /\ x = One(i, c)
  BY TrustForm
<1>3. \A i \in ingresses : "kind" \in DOMAIN i
  <2>1. \A n \in g.nodes : "kind" \in DOMAIN n
    BY Zenon DEF GraphValid
  <2>2. ingresses \subseteq g.nodes
    BY DEF Ingresses
  <2> QED
    BY <2>1, <2>2, Zenon
<1> HIDE DEF One, catalog, instances
<1>4. ASSUME NEW x \in instances, NEW y \in instances, NameOf(x) = NameOf(y) PROVE x = y
  <2>1. CASE ingresses = {}
    BY <1>2, <2>1
  <2>2. CASE ingresses # {}
    <3>1. PICK i \in ingresses : \E c : TargetOf(cs, i, c) /\ x = One(i, c)
      BY <1>2, <2>2
    <3>2. PICK c : TargetOf(cs, i, c) /\ x = One(i, c)
      BY <3>1
    <3>3. PICK j \in ingresses : \E d : TargetOf(cs, j, d) /\ y = One(j, d)
      BY <1>2, <2>2
    <3>4. PICK d : TargetOf(cs, j, d) /\ y = One(j, d)
      BY <3>3
    <3>5. /\ NameOf(x) = (IF c # None THEN c ELSE i) /\ NameOf(y) = (IF d # None THEN d ELSE j)
      BY <1>1, <3>2, <3>4 DEF NameOf
    <3>6. CASE c = None
      <4>1. d = None
        BY <1>3, <1>4, <3>4, <3>5, <3>6, ControlsAreNoNodes DEF TargetOf
      <4> QED
        BY <1>4, <3>2, <3>4, <3>5, <3>6, <4>1
    <3>7. CASE c # None
      <4>1. c \in cs /\ c.ingress = i
        BY <3>2, <3>7 DEF TargetOf
      <4>2. d # None
        BY <1>3, <1>4, <3>5, <3>7, <4>1, ControlsAreNoNodes
      <4>3. d \in cs /\ d.ingress = j
        BY <3>4, <4>2 DEF TargetOf
      <4>4. c = d
        BY <1>4, <3>5, <3>7, <4>2
      <4> QED
        BY <3>2, <3>4, <4>1, <4>3, <4>4
    <3> QED
      BY <3>6, <3>7
  <2> QED
    BY <2>1, <2>2
<1> QED
  BY <1>4 DEF Named, instances

(* Of all scenarios together, two instances of one scenario have different  *)
(* names.                                                                   *)
LEMMA InstancesAreNamed ==
  ASSUME NEW g, GraphValid(g), NEW p,
         NEW x \in CatalogScenarios(g, p, NormalControls(g)), NEW y \in CatalogScenarios(g, p, NormalControls(g)),
         x.scenario = y.scenario, NameOf(x) = NameOf(y)
  PROVE  x = y
<1> DEFINE cs == NormalControls(g)
<1>1. ASSUME NEW z \in CatalogScenarios(g, p, cs)
      PROVE  /\ z.scenario = "SG-01" => z \in Scenario01(g, p, cs)
             /\ z.scenario = "SG-02" => z \in Scenario02(g, p, cs)
             /\ z.scenario = "SG-03" => z \in Scenario03(g, p, cs)
             /\ z.scenario = "SG-04" => z \in Scenario04(g, p, cs)
             /\ z.scenario = "SG-05" => z \in Scenario05(g, p, cs)
             /\ z.scenario = "SG-06" => z \in Scenario06(g, p, cs)
             /\ z.scenario = "SG-07" => z \in Scenario07(g, p, cs)
             /\ z.scenario = "SG-08" => z \in Scenario08(g, p, cs)
  BY <1>1, Instances01, Instances02, Instances03, Instances04, Instances05, Instances06, Instances07, Instances08
  DEF CatalogScenarios
<1>2. Named(Scenario05(g, p, cs)) /\ Named(Scenario06(g, p, cs))
  <2>1. IngressesOf(g, "WEBHOOK") \in SUBSET Ingresses(g) /\ IngressesOf(g, "CHECKOUT_CALLBACK") \in SUBSET Ingresses(g)
    BY DEF IngressesOf
  <2> QED
    BY <2>1, TrustInstancesAreNamed DEF Scenario05, Scenario06
<1>3. x.scenario \in {"SG-01", "SG-02", "SG-03", "SG-04", "SG-05", "SG-06", "SG-07", "SG-08"}
  BY InstancesHold
<1> HIDE DEF cs
<1>4. CASE x.scenario \in {"SG-01", "SG-02", "SG-03", "SG-04"}
  BY <1>1, <1>4, WebhookInstancesAreNamed DEF Named, cs
<1>5. CASE x.scenario \in {"SG-05", "SG-06"}
  BY <1>1, <1>2, <1>5 DEF Named, cs
<1>6. CASE x.scenario \in {"SG-07", "SG-08"}
  BY <1>1, <1>6, WebhookInstancesAreNamed DEF Named, cs
<1> QED
  BY <1>3, <1>4, <1>5, <1>6

(* No scenario is without an instance.                                      *)
LEMMA EveryScenarioIsThere ==
  ASSUME NEW g, NEW p
  PROVE  {x.scenario : x \in CatalogScenarios(g, p, NormalControls(g))}
           = {"SG-01", "SG-02", "SG-03", "SG-04", "SG-05", "SG-06", "SG-07", "SG-08"}
<1> DEFINE cs == NormalControls(g)
<1>1. /\ Scenario01(g, p, cs) # {} /\ Scenario02(g, p, cs) # {} /\ Scenario03(g, p, cs) # {}
      /\ Scenario04(g, p, cs) # {} /\ Scenario05(g, p, cs) # {} /\ Scenario06(g, p, cs) # {}
      /\ Scenario07(g, p, cs) # {} /\ Scenario08(g, p, cs) # {}
  BY OrCatalogHolds
  DEF Scenario01, Scenario02, Scenario03, Scenario04, Scenario05, Scenario06, Scenario07, Scenario08, TrustScenario
<1>2. ASSUME NEW s \in {"SG-01", "SG-02", "SG-03", "SG-04", "SG-05", "SG-06", "SG-07", "SG-08"}
      PROVE  \E x \in CatalogScenarios(g, p, cs) : x.scenario = s
  BY <1>1, Instances01, Instances02, Instances03, Instances04, Instances05, Instances06, Instances07, Instances08
  DEF CatalogScenarios
<1>3. \A x \in CatalogScenarios(g, p, cs) :
        x.scenario \in {"SG-01", "SG-02", "SG-03", "SG-04", "SG-05", "SG-06", "SG-07", "SG-08"}
  BY InstancesHold
<1> HIDE DEF cs
<1>4. {x.scenario : x \in CatalogScenarios(g, p, cs)}
        = {"SG-01", "SG-02", "SG-03", "SG-04", "SG-05", "SG-06", "SG-07", "SG-08"}
  BY <1>2, <1>3
<1> QED
  BY <1>4 DEF cs

(* A suggestion is consistent exactly when there is one.                    *)
LEMMA SuggestionIsConsistent ==
  ASSUME NEW g, NEW cs
  PROVE  (Suggestion(g, cs).status = "CONSISTENT_SUGGESTION") = (Suggestion(g, cs).policy # "none")
<1> DEFINE observed == UNION {ObservedOn(g, cs, r) : r \in Routes(cs)}
<1>1. \/ Suggestion(g, cs) = [status |-> "INSUFFICIENT_EVIDENCE", policy |-> "none"]
      \/ Suggestion(g, cs) = [status |-> "CONSISTENT_SUGGESTION", policy |-> "CAPTURE_REQUIRED"]
      \/ Suggestion(g, cs) = [status |-> "CONSISTENT_SUGGESTION", policy |-> "AUTHORIZED_ALLOWED"]
      \/ Suggestion(g, cs) = [status |-> "CONFLICTING_EVIDENCE", policy |-> "none"]
  <2> HIDE DEF observed
  <2> QED
    BY DEF Suggestion, observed
<1> QED
  BY <1>1

(* ArtifactIsValid: of a valid graph the engine makes what the artifact's   *)
(* validators accept.                                                       *)
THEOREM ArtifactsAreValid == EngineSpec => []ArtifactIsValid
<1>1. EngineInit => graph \in Sources
  BY DEF EngineInit
<1>2. graph \in Sources /\ [EngineNext]_vars => (graph \in Sources)'
  BY DEF EngineNext, ConfirmFulfilment, ConfirmLate, EditSource, vars
<1>3. graph \in Sources => ArtifactIsValid
  <2> DEFINE cs == NormalControls(graph)
             p == PolicyAssessment(graph, cs, config)
  <2> SUFFICES ASSUME graph \in Sources PROVE ArtifactIsValid
    OBVIOUS
  <2>1. Now.policy = p /\ Now.controls = cs /\ Now.instances = CatalogScenarios(graph, p, cs)
    BY DEF Now, EvaluateApplicability
  <2>2. GraphValid(graph)
    BY SourcesAssumption
  <2>3. p.status = Suggestion(graph, cs).status /\ p.suggestion = Suggestion(graph, cs).policy
    BY DEF PolicyAssessment
  <2>4. (p.status = "CONSISTENT_SUGGESTION") = (p.suggestion # "none")
    <3> HIDE DEF p, cs
    <3> QED
      BY <2>3, SuggestionIsConsistent
  <2>9. p.mismatch => p.suggestion # p.fulfilment /\ p.suggestion # "none"
    BY DEF PolicyAssessment
  <2> HIDE DEF p
  <2>5. {x.scenario : x \in Now.instances} = {"SG-01", "SG-02", "SG-03", "SG-04", "SG-05", "SG-06", "SG-07", "SG-08"}
    BY <2>1, EveryScenarioIsThere
  <2>6. \A x \in Now.instances : Formed(graph, x)
    BY <2>1, InstancesHold
  <2>7. \A x, y \in Now.instances : x.scenario = y.scenario /\ NameOf(x) = NameOf(y) => x = y
    BY <2>1, <2>2, InstancesAreNamed
  <2>8. ASSUME NEW x \in Now.instances
        PROVE  /\ \E a \in x.assertions : a.role = "CORE"
               /\ \A y \in Now.instances :
                    /\ x.scenario = y.scenario
                    /\ (IF x.control # None THEN x.control ELSE x.ingress)
                         = (IF y.control # None THEN y.control ELSE y.ingress)
                    => x = y
               /\ x.control # None => x.control \in Now.controls /\ x.ingress = x.control.ingress
               /\ \A a \in x.assertions : a.control \in {None, x.control}
               /\ \A a, b \in x.assertions : a.key = b.key => a = b
    <3>1. Formed(graph, x)
      BY <2>6
    <3>2. \A y \in Now.instances : x.scenario = y.scenario /\ NameOf(x) = NameOf(y) => x = y
      BY <2>7
    <3> QED
      BY <2>1, <3>1, <3>2 DEF Formed, NameOf
  <2> HIDE DEF cs
  <2> QED
    BY <2>1, <2>4, <2>9, <2>5, <2>8 DEF ArtifactIsValid
<1> QED
  BY <1>1, <1>2, <1>3, PTL DEF EngineSpec
-----------------------------------------------------------------------------
(* The mutations that the engine names and those that the planner finds are *)
(* the same, because a matched branch has the states of its gate.           *)
LEMMA CheckoutMutationsAgree ==
  ASSUME NEW g, NEW x, x.scenario = "SG-06"
  PROVE  CheckoutProtectedMutations(g, x.ingress) = ExpectedMutations(g, x)
  BY DEF CheckoutProtectedMutations, ExpectedMutations

(* Of a captured path, where there is any mutation.                         *)
LEMMA CapturedMutationsAgree ==
  ASSUME NEW g, GraphValid(g), NEW x, x.scenario = "SG-05",
         TargetOf(NormalControls(g), x.ingress, x.control),
         CapturedPathMutations(g, x.ingress, x.control) # {}
  PROVE  CapturedPathMutations(g, x.ingress, x.control) = ExpectedMutations(g, x)
<1> DEFINE i == x.ingress
           c == x.control
           gates == IF c = None
                    THEN {n \in g.nodes : n.kind = "state_gate" /\ n.route = i.route /\ "captured" \in BareStates(n)}
                    ELSE {e.source : e \in {y \in ControlStateEdges(g, c) : "captured" \in BareStates(y)}}
           onRoute == {n \in g.nodes : n.kind = "mutation" /\ n.route = i.route}
           captured == {e \in g.edges : e.kind = "BRANCHES_TO" /\ e.matched /\ "captured" \in BareStates(e)}
           expected == {e.source : e \in {y \in captured : /\ y.source.route = i.route
                                                           /\ c = None \/ y.target = c.value}}
<1>1. CapturedPathMutations(g, i, c)
        = {e.target : e \in {y \in StateMutations(g, i.route) : y.source \in gates /\ "captured" \in BareStates(y)}}
  BY DEF CapturedPathMutations
<1>2. ExpectedMutations(g, x) = onRoute \cap {e.target : e \in {y \in captured : y.source \in expected}}
  BY DEF ExpectedMutations
<1>3. \A e \in g.edges : e.source \in g.nodes /\ e.target \in g.nodes
  BY DEF GraphValid
<1>4. ASSUME NEW e \in captured PROVE e.source.kind = "state_gate" /\ "captured" \in BareStates(e.source)
  <2>1. EdgeKindsValid(e) /\ e.states = e.source.states
    BY DEF GraphValid, BranchStates
  <2>2. BareStates(e.source) = BareStates(e)
    BY <2>1 DEF BareStates
  <2> QED
    BY <2>1, <2>2 DEF EdgeKindsValid
<1>5. c # None => c.route = i.route
  BY ControlsAreCalls DEF TargetOf
<1>6. ASSUME NEW e \in captured, e.source.route = i.route PROVE e.source \in gates <=> e.source \in expected
  <2>1. CASE c = None
    BY <1>3, <1>4, <1>6, <2>1
  <2>2. CASE c # None
    BY <1>5, <2>2 DEF ControlStateEdges
  <2> QED
    BY <2>1, <2>2
<1>7. \A e \in StateMutations(g, i.route) : /\ e \in g.edges /\ e.kind = "BRANCHES_TO" /\ e.matched
                                            /\ e.target \in onRoute /\ e.source.route = i.route
  BY <1>3 DEF StateMutations
<1>8. \A e \in captured : e.target \in onRoute /\ e.source.route = i.route => e \in StateMutations(g, i.route)
  BY DEF StateMutations
<1>9. \A e \in captured : e.source \in expected => e.source.route = i.route
  OBVIOUS
<1>10. \A n \in CapturedPathMutations(g, i, c) : n \in ExpectedMutations(g, x)
  <2> SUFFICES ASSUME NEW n \in CapturedPathMutations(g, i, c) PROVE n \in ExpectedMutations(g, x)
    OBVIOUS
  <2>1. PICK e \in StateMutations(g, i.route) : n = e.target /\ e.source \in gates /\ "captured" \in BareStates(e)
    BY <1>1
  <2>2. e \in captured /\ e.source.route = i.route /\ n \in onRoute
    BY <1>7, <2>1
  <2>3. e.source \in expected
    BY <1>6, <2>1, <2>2
  <2> HIDE DEF captured, expected, onRoute
  <2> QED
    BY <1>2, <2>1, <2>2, <2>3
<1>11. \A n \in ExpectedMutations(g, x) : n \in CapturedPathMutations(g, i, c)
  <2> SUFFICES ASSUME NEW n \in ExpectedMutations(g, x) PROVE n \in CapturedPathMutations(g, i, c)
    OBVIOUS
  <2> HIDE DEF captured, expected, onRoute, gates
  <2>1. PICK e \in captured : n = e.target /\ n \in onRoute /\ e.source \in expected
    BY <1>2
  <2>2. e.source.route = i.route /\ e \in StateMutations(g, i.route) /\ e.source \in gates
    BY <1>6, <1>8, <1>9, <2>1
  <2>3. "captured" \in BareStates(e)
    BY <2>1 DEF captured
  <2> QED
    BY <1>1, <2>1, <2>2, <2>3
<1> QED
  BY <1>10, <1>11

(* Only a mutation assertion that has mutations names the reason that the   *)
(* planner looks for.                                                       *)
LEMMA OnlyMutationsAreNamed ==
  ASSUME NEW g, NEW s \in {"SG-05", "SG-06"}, NEW i, NEW c
  PROVE  /\ TrustValueState(g, s, i, c).reason # "MUTATION_TARGET_AVAILABLE"
         /\ TrustMutationState(g, s, i, c).reason = "MUTATION_TARGET_AVAILABLE" =>
              /\ TrustMutationState(g, s, i, c).nodes # {}
              /\ TrustMutationState(g, s, i, c).nodes =
                   IF s = "SG-05" THEN CapturedPathMutations(g, i, c) ELSE CheckoutProtectedMutations(g, i)
<1>1. FallbackState(g, {i}).reason # "MUTATION_TARGET_AVAILABLE"
  BY DEF FallbackState, Judged
<1>2. CapturedTarget(g, c).reason # "MUTATION_TARGET_AVAILABLE"
  BY DEF CapturedTarget, Judged
<1>3. TrustValueState(g, s, i, c).reason # "MUTATION_TARGET_AVAILABLE"
  BY <1>1, <1>2 DEF TrustValueState, Judged
<1> QED
  BY <1>3 DEF TrustMutationState, Judged

(* The mutations of an instance that stands for an ingress are those that   *)
(* the planner expects of it.                                               *)
LEMMA TrustMutationsAgree ==
  ASSUME NEW g, GraphValid(g), NEW s \in {"SG-05", "SG-06"}, NEW i, NEW c,
         TargetOf(NormalControls(g), i, c), NEW value, NEW mutation, NEW x,
         x = TrustInstance(g, s, i, c, value, mutation),
         NEW a \in x.assertions, a.judged.reason = "MUTATION_TARGET_AVAILABLE"
  PROVE  a.judged.nodes = ExpectedMutations(g, x)
<1>1. /\ x.scenario = s /\ x.ingress = i /\ x.control = c
      /\ x.assertions = {Assertion(mutation, "CORE", TrustMutationState(g, s, i, c), None),
                         Assertion(value, "CORE", TrustValueState(g, s, i, c), c)}
  BY DEF TrustInstance, Instance
<1>2. a.judged = TrustMutationState(g, s, i, c) \/ a.judged = TrustValueState(g, s, i, c)
  BY <1>1 DEF Assertion
<1>3. a.judged = TrustMutationState(g, s, i, c)
  BY <1>2, OnlyMutationsAreNamed
<1>4. CASE s = "SG-05"
  <2>1. a.judged.nodes = CapturedPathMutations(g, i, c) /\ a.judged.nodes # {}
    BY <1>3, <1>4, OnlyMutationsAreNamed
  <2> QED
    BY <1>1, <1>4, <2>1, CapturedMutationsAgree
<1>5. CASE s = "SG-06"
  <2>1. a.judged.nodes = CheckoutProtectedMutations(g, i)
    BY <1>3, <1>5, OnlyMutationsAreNamed
  <2> QED
    BY <1>1, <1>5, <2>1, CheckoutMutationsAgree
<1> QED
  BY <1>4, <1>5

(* So do those of every instance of SG-05 or SG-06.                         *)
LEMMA ScenarioMutationsAgree ==
  ASSUME NEW g, GraphValid(g), NEW s \in {"SG-05", "SG-06"}, NEW ingresses, NEW value, NEW mutation,
         NEW x \in TrustScenario(g, NormalControls(g), s, ingresses, value, mutation), x.ingress # None,
         NEW a \in x.assertions, a.judged.reason = "MUTATION_TARGET_AVAILABLE"
  PROVE  a.judged.nodes = ExpectedMutations(g, x)
<1>1. x # Catalog(s, value, FallbackState(g, ingresses))
  BY DEF Catalog, Instance
<1>2. PICK i \in ingresses : \E c : /\ TargetOf(NormalControls(g), i, c)
                                    /\ x = TrustInstance(g, s, i, c, value, mutation)
  BY <1>1, TrustForm
<1> QED
  BY <1>2, TrustMutationsAgree

(* PlanAcceptsAnalysis: whatever valid graph the engine has judged, the     *)
(* planner finds every control and every mutation where the engine did.     *)
THEOREM PlansAcceptAnalyses == EngineSpec => []PlanAcceptsAnalysis
<1>1. EngineInit => graph \in Sources
  BY DEF EngineInit
<1>2. graph \in Sources /\ [EngineNext]_vars => (graph \in Sources)'
  BY DEF EngineNext, ConfirmFulfilment, ConfirmLate, EditSource, vars
<1>3. graph \in Sources => PlanAcceptsAnalysis
  <2> DEFINE cs == NormalControls(graph)
             p == PolicyAssessment(graph, cs, config)
  <2> SUFFICES ASSUME graph \in Sources, RouteBindings(graph) PROVE BuildRuntimeTargetPlan(graph, Now)
    BY DEF PlanAcceptsAnalysis
  <2>1. Now.controls = cs /\ Now.instances = CatalogScenarios(graph, p, cs)
    BY DEF Now, EvaluateApplicability
  <2>2. GraphValid(graph)
    BY SourcesAssumption
  <2>3. CustomerTargets(graph, Now)
    <3> SUFFICES ASSUME NEW c \in cs
                 PROVE  /\ c.ingress \in Ingresses(graph) /\ c.ingress.route = c.route
                        /\ c.value \in graph.nodes /\ c.value.kind = "value"
                        /\ c.edge \in graph.edges /\ c.edge.source = c.ingress /\ c.edge.target = c.value
      BY <2>1 DEF CustomerTargets
    <3>1. /\ c.edge \in graph.edges /\ c.edge.source = c.ingress
          /\ c.edge.target = c.value /\ c.value = Value(graph.symbol)
          /\ c.ingress.kind = "ingress" /\ c.route = c.ingress.route
      BY ControlsAreCalls
    <3>2. c.edge.source \in graph.nodes /\ c.edge.target \in graph.nodes
      BY <2>2, <3>1 DEF GraphValid
    <3> QED
      BY <3>1, <3>2 DEF Ingresses, Value
  <2>4. MutationEvidenceMatches(graph, Now)
    <3> SUFFICES ASSUME NEW x \in Now.instances, x.scenario \in {"SG-05", "SG-06"}, x.ingress # None,
                        NEW a \in x.assertions, a.judged.reason = "MUTATION_TARGET_AVAILABLE"
                 PROVE  a.judged.nodes = ExpectedMutations(graph, x)
      BY DEF MutationEvidenceMatches
    <3>1. x \in Scenario05(graph, p, cs) \/ x \in Scenario06(graph, p, cs)
      <4> HIDE DEF cs, p
      <4>1. \/ x \in Scenario01(graph, p, cs) \/ x \in Scenario02(graph, p, cs) \/ x \in Scenario03(graph, p, cs)
            \/ x \in Scenario04(graph, p, cs) \/ x \in Scenario05(graph, p, cs) \/ x \in Scenario06(graph, p, cs)
            \/ x \in Scenario07(graph, p, cs) \/ x \in Scenario08(graph, p, cs)
        BY <2>1 DEF CatalogScenarios
      <4> QED
        BY <4>1, Instances01, Instances02, Instances03, Instances04, Instances07, Instances08 DEF cs
    <3> HIDE DEF p
    <3> QED
      BY <2>2, <3>1, ScenarioMutationsAgree DEF Scenario05, Scenario06
  <2> QED
    BY <2>3, <2>4 DEF BuildRuntimeTargetPlan
<1> QED
  BY <1>1, <1>2, <1>3, PTL DEF EngineSpec
-----------------------------------------------------------------------------
(* What each assertion is judged by: a function of its scenario, its        *)
(* ingress, its control and its key.                                        *)
ControlJudged(g, p, x, a) ==
  LET c == x.control
      s == x.scenario
      web == IngressesOf(g, "WEBHOOK")
  IN  /\ s = "SG-01" => a.judged = IF c = None THEN FallbackState(g, Ingresses(g)) ELSE NormalCaptureState(g, p, c)
      /\ s = "SG-03" => a.judged = IF c = None THEN FallbackState(g, web) ELSE RetryState(g, p, c)
      /\ s = "SG-02" \/ (s = "SG-04" /\ a.key # "SG04_STATE") =>
           a.judged = IF c = None THEN FallbackState(g, web) ELSE DuplicateCaptureState(g, p, c)
      /\ s = "SG-04" /\ a.key = "SG04_STATE" => a.role # "CORE" /\ a.judged = RegressionState(g, c)
      /\ s = "SG-07" =>
           a.judged = IF c # None THEN WithoutCallbackState(g, p, NormalControls(g), c)
                      ELSE IF IngressesOf(g, "CHECKOUT_CALLBACK") # {} THEN FallbackState(g, web)
                      ELSE Judged("NOT_APPLICABLE", "CHECKOUT_SURFACE_REQUIRED", {})

TrustJudged(g, x, a) ==
  LET s == x.scenario
      i == x.ingress
  IN  s \in {"SG-05", "SG-06"} =>
        a.judged = IF i = None
                   THEN FallbackState(g, IngressesOf(g, IF s = "SG-05" THEN "WEBHOOK" ELSE "CHECKOUT_CALLBACK"))
                   ELSE IF a.key \in {"SG05_MUTATION", "SG06_MUTATION"} THEN TrustMutationState(g, s, i, x.control)
                   ELSE TrustValueState(g, s, i, x.control)

LateJudged(g, p, x, a) ==
  x.scenario = "SG-08" =>
    IF x.control # None THEN a \in LateAssertions(g, p, x.control)
    ELSE a.judged = IF WebhookControls(NormalControls(g)) # {}
                    THEN Judged("NOT_APPLICABLE", "LATE_SEQUENCE_NOT_SUPPORTED", {})
                    ELSE FallbackState(g, IngressesOf(g, "WEBHOOK"))

(* An instance with one assertion of a control, or the catalog's.           *)
LEMMA CatalogJudged ==
  ASSUME NEW s, NEW key, NEW judged, NEW x, x = Catalog(s, key, judged), NEW a \in x.assertions
  PROVE  x.control = None /\ x.ingress = None /\ a.key = key /\ a.judged = judged /\ a.role = "CORE"
<1>1. x.control = None /\ x.ingress = None /\ x.assertions = {Assertion(key, "CORE", judged, None)}
  BY DEF Catalog, Instance
<1> QED
  BY <1>1 DEF Assertion

(* The assertion of an instance with one of a control.                      *)
LEMMA OneJudged ==
  ASSUME NEW g, NEW c \in WebhookControls(NormalControls(g)), NEW s, NEW key, NEW judged, NEW x,
         x = OfControl(s, c, {Assertion(key, "CORE", judged, c)}), NEW a \in x.assertions
  PROVE  x.control = c /\ c # None /\ a.key = key /\ a.judged = judged /\ a.role = "CORE"
<1>1. x.control = c /\ x.assertions = {Assertion(key, "CORE", judged, c)}
  BY DEF OfControl, Instance
<1>2. c # None
  BY ControlsAreCalls DEF WebhookControls
<1> QED
  BY <1>1, <1>2 DEF Assertion

(* SG-01, SG-02, SG-03 and SG-07 judge one assertion of each control.       *)
LEMMA Judged01 ==
  ASSUME NEW g, NEW p, NEW x \in Scenario01(g, p, NormalControls(g)), NEW a \in x.assertions
  PROVE  ControlJudged(g, p, x, a) /\ a.role = "CORE"
<1>1. CASE x = Catalog("SG-01", "SG01", FallbackState(g, Ingresses(g)))
  BY <1>1, CatalogJudged, Instances01 DEF ControlJudged
<1>2. ASSUME NEW c \in WebhookControls(NormalControls(g)),
             x = OfControl("SG-01", c, {Assertion("SG01", "CORE", NormalCaptureState(g, p, c), c)})
      PROVE  ControlJudged(g, p, x, a) /\ a.role = "CORE"
  BY <1>2, OneJudged, Instances01 DEF ControlJudged
<1>3. \/ x \in {OfControl("SG-01", c, {Assertion("SG01", "CORE", NormalCaptureState(g, p, c), c)}) :
              c \in WebhookControls(NormalControls(g))}
      \/ x = Catalog("SG-01", "SG01", FallbackState(g, Ingresses(g)))
  BY OrCatalogHolds DEF Scenario01
<1> QED
  BY <1>1, <1>2, <1>3

(* SG-02.                                                                   *)
LEMMA Judged02 ==
  ASSUME NEW g, NEW p, NEW x \in Scenario02(g, p, NormalControls(g)), NEW a \in x.assertions
  PROVE  ControlJudged(g, p, x, a)
<1>1. CASE x = Catalog("SG-02", "SG02", FallbackState(g, IngressesOf(g, "WEBHOOK")))
  BY <1>1, CatalogJudged, Instances02 DEF ControlJudged
<1>2. ASSUME NEW c \in WebhookControls(NormalControls(g)),
             x = OfControl("SG-02", c, {Assertion("SG02", "CORE", DuplicateCaptureState(g, p, c), c)})
      PROVE  ControlJudged(g, p, x, a)
  BY <1>2, OneJudged, Instances02 DEF ControlJudged
<1>3. \/ x \in {OfControl("SG-02", c, {Assertion("SG02", "CORE", DuplicateCaptureState(g, p, c), c)}) :
              c \in WebhookControls(NormalControls(g))}
      \/ x = Catalog("SG-02", "SG02", FallbackState(g, IngressesOf(g, "WEBHOOK")))
  BY OrCatalogHolds DEF Scenario02
<1> QED
  BY <1>1, <1>2, <1>3

(* SG-03.                                                                   *)
LEMMA Judged03 ==
  ASSUME NEW g, NEW p, NEW x \in Scenario03(g, p, NormalControls(g)), NEW a \in x.assertions
  PROVE  ControlJudged(g, p, x, a)
<1>1. CASE x = Catalog("SG-03", "SG03", FallbackState(g, IngressesOf(g, "WEBHOOK")))
  BY <1>1, CatalogJudged, Instances03 DEF ControlJudged
<1>2. ASSUME NEW c \in WebhookControls(NormalControls(g)),
             x = OfControl("SG-03", c, {Assertion("SG03", "CORE", RetryState(g, p, c), c)})
      PROVE  ControlJudged(g, p, x, a)
  BY <1>2, OneJudged, Instances03 DEF ControlJudged
<1>3. \/ x \in {OfControl("SG-03", c, {Assertion("SG03", "CORE", RetryState(g, p, c), c)}) :
              c \in WebhookControls(NormalControls(g))}
      \/ x = Catalog("SG-03", "SG03", FallbackState(g, IngressesOf(g, "WEBHOOK")))
  BY OrCatalogHolds DEF Scenario03
<1> QED
  BY <1>1, <1>2, <1>3

(* SG-07, for a merchant with a checkout.                                   *)
LEMMA Judged07 ==
  ASSUME NEW g, NEW p, NEW x \in Scenario07(g, p, NormalControls(g)), NEW a \in x.assertions
  PROVE  ControlJudged(g, p, x, a)
<1> DEFINE cs == NormalControls(g)
           state == IF IngressesOf(g, "CHECKOUT_CALLBACK") # {} THEN FallbackState(g, IngressesOf(g, "WEBHOOK"))
                    ELSE Judged("NOT_APPLICABLE", "CHECKOUT_SURFACE_REQUIRED", {})
           catalog == Catalog("SG-07", "SG07", state)
           instances == IF IngressesOf(g, "CHECKOUT_CALLBACK") = {} THEN {}
                        ELSE {OfControl("SG-07", c, {Assertion("SG07", "CORE", WithoutCallbackState(g, p, cs, c), c)}) :
                                c \in WebhookControls(cs)}
<1>1. CASE x = catalog
  <2>1. x.control = None /\ a.judged = state
    BY <1>1, CatalogJudged
  <2> QED
    BY <2>1, Instances07 DEF ControlJudged
<1>2. ASSUME NEW c \in WebhookControls(cs),
             x = OfControl("SG-07", c, {Assertion("SG07", "CORE", WithoutCallbackState(g, p, cs, c), c)})
      PROVE  ControlJudged(g, p, x, a)
  BY <1>2, OneJudged, Instances07 DEF ControlJudged
<1>3. x \in OrCatalog(instances, catalog)
  BY DEF Scenario07
<1>4. x \in instances \/ x = catalog
  BY <1>3, OrCatalogHolds
<1> HIDE DEF catalog
<1> QED
  BY <1>1, <1>2, <1>4

(* SG-04 judges the value and the state of each control.                    *)
LEMMA Judged04 ==
  ASSUME NEW g, NEW p, NEW x \in Scenario04(g, p, NormalControls(g)), NEW a \in x.assertions
  PROVE  ControlJudged(g, p, x, a)
<1> DEFINE value(c) == Assertion("SG04", "CORE", DuplicateCaptureState(g, p, c), c)
           state(c) == Assertion("SG04_STATE", "OPTIONAL", RegressionState(g, c), c)
<1>1. CASE x = Catalog("SG-04", "SG04", FallbackState(g, IngressesOf(g, "WEBHOOK")))
  BY <1>1, CatalogJudged, Instances04 DEF ControlJudged
<1>2. ASSUME NEW c \in WebhookControls(NormalControls(g)), x = OfControl("SG-04", c, {value(c), state(c)})
      PROVE  ControlJudged(g, p, x, a)
  <2>1. x.assertions = {value(c), state(c)} /\ x.control = c /\ c # None
    BY <1>2, ControlsAreCalls DEF OfControl, Instance, WebhookControls
  <2>2. /\ value(c).key = "SG04" /\ value(c).judged = DuplicateCaptureState(g, p, c)
        /\ state(c).key = "SG04_STATE" /\ state(c).role # "CORE" /\ state(c).judged = RegressionState(g, c)
    BY DEF Assertion
  <2> HIDE DEF value, state
  <2> QED
    BY <2>1, <2>2, Instances04 DEF ControlJudged
<1>3. \/ x \in {OfControl("SG-04", c, {value(c), state(c)}) : c \in WebhookControls(NormalControls(g))}
      \/ x = Catalog("SG-04", "SG04", FallbackState(g, IngressesOf(g, "WEBHOOK")))
  BY OrCatalogHolds DEF Scenario04
<1> QED
  BY <1>1, <1>2, <1>3

(* SG-05 and SG-06 judge the value and the mutation of each ingress.        *)
LEMMA JudgedTrust ==
  ASSUME NEW g, NEW s \in {"SG-05", "SG-06"}, NEW ingresses,
         ingresses = IngressesOf(g, IF s = "SG-05" THEN "WEBHOOK" ELSE "CHECKOUT_CALLBACK"),
         NEW value \in {"SG05", "SG06"}, NEW mutation \in {"SG05_MUTATION", "SG06_MUTATION"},
         NEW x \in TrustScenario(g, NormalControls(g), s, ingresses, value, mutation),
         NEW a \in x.assertions
  PROVE  TrustJudged(g, x, a)
<1>1. CASE x = Catalog(s, value, FallbackState(g, ingresses))
  <2>1. x.scenario = s
    BY <1>1 DEF Catalog, Instance
  <2> QED
    BY <1>1, <2>1, CatalogJudged DEF TrustJudged
<1>2. ASSUME NEW i \in ingresses, NEW c, x = TrustInstance(g, s, i, c, value, mutation)
      PROVE  TrustJudged(g, x, a)
  <2> DEFINE m == Assertion(mutation, "CORE", TrustMutationState(g, s, i, c), None)
             v == Assertion(value, "CORE", TrustValueState(g, s, i, c), c)
  <2>1. x.assertions = {m, v} /\ x.ingress = i /\ x.control = c /\ x.scenario = s
    BY <1>2 DEF TrustInstance, Instance
  <2>2. /\ m.key = mutation /\ m.judged = TrustMutationState(g, s, i, c)
        /\ v.key = value /\ v.judged = TrustValueState(g, s, i, c)
    BY DEF Assertion
  <2>3. i # None
    BY DEF IngressesOf, Ingresses, None
  <2> HIDE DEF m, v
  <2>4. a = m \/ a = v
    BY <2>1
  <2>5. CASE a = m
    BY <2>1, <2>2, <2>3, <2>5 DEF TrustJudged
  <2>6. CASE a = v
    BY <2>1, <2>2, <2>3, <2>6 DEF TrustJudged
  <2> QED
    BY <2>4, <2>5, <2>6
<1> QED
  BY <1>1, <1>2, TrustForm

(* SG-08 judges what the policies chose, or the catalog.                    *)
LEMMA Judged08 ==
  ASSUME NEW g, NEW p, NEW x \in Scenario08(g, p, NormalControls(g)), NEW a \in x.assertions
  PROVE  LateJudged(g, p, x, a)
<1> DEFINE cs == NormalControls(g)
           state == IF WebhookControls(cs) # {} THEN Judged("NOT_APPLICABLE", "LATE_SEQUENCE_NOT_SUPPORTED", {})
                    ELSE FallbackState(g, IngressesOf(g, "WEBHOOK"))
           catalog == Catalog("SG-08", "SG08_LATE_POLICY", state)
<1>1. CASE x = catalog
  <2>1. x.control = None /\ a.judged = state
    BY <1>1, CatalogJudged
  <2> QED
    BY <2>1 DEF LateJudged
<1>2. ASSUME NEW c \in WebhookControls(cs), x = OfControl("SG-08", c, LateAssertions(g, p, c))
      PROVE  LateJudged(g, p, x, a)
  <2>1. x.assertions = LateAssertions(g, p, c) /\ x.control = c /\ c # None
    BY <1>2, ControlsAreCalls DEF OfControl, Instance, WebhookControls
  <2> QED
    BY <2>1 DEF LateJudged
<1>3. \/ x \in {OfControl("SG-08", c, LateAssertions(g, p, c)) : c \in {d \in WebhookControls(cs) : LateSupported(g, d)}}
      \/ x = catalog
  BY OrCatalogHolds DEF Scenario08
<1> HIDE DEF catalog
<1> QED
  BY <1>1, <1>2, <1>3
-----------------------------------------------------------------------------
(* h is g with less coverage, and q the same declarations as p: what is     *)
(* judged of h is kept, that is no more certain than what is judged of g.   *)
Less(g, h) ==
  /\ h.nodes = g.nodes /\ h.edges = g.edges /\ h.symbol = g.symbol
  /\ g.diagnostics \subseteq h.diagnostics /\ Partial(h)

Kept(s, t) ==
  /\ s \in {"NOT_APPLICABLE", "INDETERMINATE"} => t # "APPLICABLE"
  /\ t = "NOT_APPLICABLE" => s = "NOT_APPLICABLE"

(* The facts that do not depend on coverage.                                *)
LEMMA LessIsSame ==
  ASSUME NEW g, NEW h, Less(g, h)
  PROVE  /\ NormalControls(h) = NormalControls(g) /\ Ingresses(h) = Ingresses(g)
         /\ \A kind : IngressesOf(h, kind) = IngressesOf(g, kind)
         /\ \A c : ControlStateEdges(h, c) = ControlStateEdges(g, c)
         /\ \A route : StateMutations(h, route) = StateMutations(g, route)
         /\ \A cs : RelevantDiagnostics(g, cs) \subseteq RelevantDiagnostics(h, cs)
<1>1. /\ NormalControls(h) = NormalControls(g) /\ Ingresses(h) = Ingresses(g)
      /\ \A kind : IngressesOf(h, kind) = IngressesOf(g, kind)
  BY DEF Less, NormalControls, Ingresses, IngressesOf
<1>2. /\ \A c : ControlStateEdges(h, c) = ControlStateEdges(g, c)
      /\ \A route : StateMutations(h, route) = StateMutations(g, route)
  BY DEF Less, ControlStateEdges, StateMutations
<1>3. \A cs : RelevantDiagnostics(g, cs) \subseteq RelevantDiagnostics(h, cs)
  BY DEF Less, RelevantDiagnostics
<1> QED
  BY <1>1, <1>2, <1>3

(* Nor do the mutations that are found.                                     *)
LEMMA LessMutations ==
  ASSUME NEW g, NEW h, Less(g, h), NEW i, NEW c
  PROVE  /\ RegressionMutations(h, c) = RegressionMutations(g, c)
         /\ CapturedPathMutations(h, i, c) = CapturedPathMutations(g, i, c)
         /\ CheckoutProtectedMutations(h, i) = CheckoutProtectedMutations(g, i)
<1>1. RegressionMutations(h, c) = RegressionMutations(g, c)
  BY LessIsSame DEF RegressionMutations
<1>2. CapturedPathMutations(h, i, c) = CapturedPathMutations(g, i, c)
  <2> DEFINE gates(f) == IF c = None
                         THEN {n \in f.nodes : n.kind = "state_gate" /\ n.route = i.route /\ "captured" \in BareStates(n)}
                         ELSE {e.source : e \in {y \in ControlStateEdges(f, c) : "captured" \in BareStates(y)}}
  <2>1. gates(h) = gates(g)
    <3>1. h.nodes = g.nodes /\ ControlStateEdges(h, c) = ControlStateEdges(g, c)
      BY LessIsSame DEF Less
    <3> QED
      BY <3>1
  <2>2. \A f : CapturedPathMutations(f, i, c) =
                 IF i.ingress # "WEBHOOK" \/ i.method # "POST" THEN {}
                 ELSE {e.target : e \in {y \in StateMutations(f, i.route) :
                         y.source \in gates(f) /\ "captured" \in BareStates(y)}}
    BY DEF CapturedPathMutations
  <2>3. StateMutations(h, i.route) = StateMutations(g, i.route)
    BY LessIsSame
  <2> HIDE DEF gates
  <2> QED
    BY <2>1, <2>2, <2>3
<1>3. CheckoutProtectedMutations(h, i) = CheckoutProtectedMutations(g, i)
  BY DEF CheckoutProtectedMutations, Less
<1> QED
  BY <1>1, <1>2, <1>3

(* A diagnostic that reduces coverage leaves less of it.                    *)
LEMMA LessWithDiagnostic ==
  ASSUME NEW g, NEW route
  PROVE  Less(g, WithDiagnostic(g, route))
<1> DEFINE d == [impact |-> "COVERAGE_REDUCED", route |-> route]
           h == WithDiagnostic(g, route)
<1>1. /\ h.nodes = g.nodes /\ h.edges = g.edges /\ h.symbol = g.symbol
      /\ h.diagnostics = g.diagnostics \cup {d}
  BY DEF WithDiagnostic
<1>2. d.impact = "COVERAGE_REDUCED"
  OBVIOUS
<1> HIDE DEF d, h
<1>3. Less(g, h)
  BY <1>1, <1>2 DEF Less, Partial
<1> QED
  BY <1>3 DEF h

(* Less coverage opens no gate of a captured branch.                        *)
LEMMA LessGates ==
  ASSUME NEW g, NEW h, Less(g, h), NEW c, CapturedGates(h, c) # {}
  PROVE  CapturedGates(h, c) = CapturedGates(g, c)
<1>1. RelevantDiagnostics(h, {c}) = {} => RelevantDiagnostics(g, {c}) = {}
  BY LessIsSame
<1> QED
  BY <1>1, LessIsSame DEF CapturedGates

(* Each judgement is kept.                                                  *)
LEMMA FallbackIsKept ==
  ASSUME NEW g, NEW h, Less(g, h), NEW ingresses
  PROVE  /\ Kept(FallbackState(g, ingresses).state, FallbackState(h, ingresses).state)
         /\ FallbackState(h, ingresses).state # "NOT_APPLICABLE"
<1>1. h.symbol = g.symbol /\ Partial(h)
  BY DEF Less
<1>2. FallbackState(h, ingresses).state \in {"NEEDS_INPUT", "INDETERMINATE"}
  BY <1>1 DEF FallbackState, Judged
<1> QED
  BY <1>2 DEF Kept

(* A policy is applicable or asked for.                                     *)
LEMMA PolicyStateHolds ==
  ASSUME NEW p
  PROVE  PolicyState(p).state \in {"APPLICABLE", "NEEDS_INPUT"}
  BY DEF PolicyState, Judged

(* SG-01's judgement.                                                       *)
LEMMA NormalCaptureIsKept ==
  ASSUME NEW g, NEW h, Less(g, h), NEW p, NEW q, q.fulfilment = p.fulfilment, NEW c
  PROVE  Kept(NormalCaptureState(g, p, c).state, NormalCaptureState(h, q, c).state)
<1>1. NormalCaptureState(h, q, c).state # "NOT_APPLICABLE"
  BY PolicyStateHolds DEF NormalCaptureState, Judged
<1>2. ASSUME NormalCaptureState(h, q, c).state = "APPLICABLE"
      PROVE  NormalCaptureState(g, p, c).state \in {"APPLICABLE", "NEEDS_INPUT"}
  <2>1. q.fulfilment = "CAPTURE_REQUIRED" /\ CapturedGates(h, c) # {}
    BY <1>2 DEF NormalCaptureState, Judged
  <2>2. p.fulfilment = "CAPTURE_REQUIRED" /\ CapturedGates(g, c) # {}
    BY <2>1, LessGates
  <2> QED
    BY <2>2, PolicyStateHolds DEF NormalCaptureState, Judged
<1> QED
  BY <1>1, <1>2 DEF Kept

(* SG-05's judgement of a control.                                          *)
LEMMA CapturedTargetIsKept ==
  ASSUME NEW g, NEW h, Less(g, h), NEW c
  PROVE  Kept(CapturedTarget(g, c).state, CapturedTarget(h, c).state)
<1>1. CapturedTarget(h, c).state \in {"APPLICABLE", "INDETERMINATE"}
  BY DEF CapturedTarget, Judged
<1>2. CapturedTarget(h, c).state = "APPLICABLE" => CapturedTarget(g, c).state = "APPLICABLE"
  BY LessGates, CapturedTargetApplicable
<1> QED
  BY <1>1, <1>2 DEF Kept

(* SG-02's judgement, whichever policy is current.                          *)
LEMMA DuplicateCaptureIsKept ==
  ASSUME NEW g, NEW h, Less(g, h), NEW p, NEW q, NEW c
  PROVE  /\ Kept(DuplicateCaptureState(g, p, c).state, DuplicateCaptureState(h, q, c).state)
         /\ DuplicateCaptureState(g, p, c).state \in {"APPLICABLE", "NEEDS_INPUT", "INDETERMINATE"}
<1>1. /\ CapturedTarget(h, c).state \in {"APPLICABLE", "INDETERMINATE"}
      /\ CapturedTarget(g, c).state \in {"APPLICABLE", "INDETERMINATE"}
  BY DEF CapturedTarget, Judged
<1>2. /\ DuplicateCaptureState(h, q, c).state \in {"APPLICABLE", "NEEDS_INPUT", "INDETERMINATE"}
      /\ DuplicateCaptureState(g, p, c).state \in {"APPLICABLE", "NEEDS_INPUT", "INDETERMINATE"}
  BY <1>1, PolicyStateHolds DEF DuplicateCaptureState
<1>3. ASSUME DuplicateCaptureState(h, q, c).state = "APPLICABLE"
      PROVE  DuplicateCaptureState(g, p, c).state \in {"APPLICABLE", "NEEDS_INPUT"}
  <2>1. CapturedGates(h, c) # {}
    BY <1>3, DuplicateCaptureApplicable
  <2>2. CapturedTarget(g, c).state = "APPLICABLE"
    BY <2>1, LessGates, CapturedTargetApplicable
  <2> QED
    BY <2>2, PolicyStateHolds DEF DuplicateCaptureState
<1> QED
  BY <1>2, <1>3 DEF Kept

(* SG-03's judgement: the order of the acknowledgement is of the edges.     *)
LEMMA RetryIsKept ==
  ASSUME NEW g, NEW h, Less(g, h), NEW p, NEW q, NEW c
  PROVE  Kept(RetryState(g, p, c).state, RetryState(h, q, c).state)
<1> DEFINE acks(f) == {e \in f.edges : /\ e.kind = "ACKNOWLEDGES_AFTER" /\ e.target = c.value
                                       /\ e.source.route = c.route /\ e.source.outcome = "SUCCESS_2XX"}
<1>1. acks(h) = acks(g)
  BY DEF Less
<1>2. \A f, r : RetryState(f, r, c).state = IF DuplicateCaptureState(f, r, c).state # "APPLICABLE"
                                           THEN DuplicateCaptureState(f, r, c).state
                                           ELSE IF Cardinality(acks(f)) = 1 THEN "APPLICABLE" ELSE "INDETERMINATE"
  BY DEF RetryState, Judged
<1> HIDE DEF acks
<1> QED
  BY <1>1, <1>2, DuplicateCaptureIsKept DEF Kept

(* SG-07's judgement: the link to the checkout is of the controls.          *)
LEMMA WithoutCallbackIsKept ==
  ASSUME NEW g, NEW h, Less(g, h), NEW p, NEW q, NEW cs, NEW c
  PROVE  Kept(WithoutCallbackState(g, p, cs, c).state, WithoutCallbackState(h, q, cs, c).state)
<1> DEFINE linked == {x \in cs : x.ingress.ingress = "CHECKOUT_CALLBACK" /\ x.value = c.value}
<1>1. \A f, r : WithoutCallbackState(f, r, cs, c).state = IF DuplicateCaptureState(f, r, c).state # "APPLICABLE"
                                                         THEN DuplicateCaptureState(f, r, c).state
                                                         ELSE IF linked = {} THEN "INDETERMINATE" ELSE "APPLICABLE"
  BY DEF WithoutCallbackState, Judged
<1> HIDE DEF linked
<1> QED
  BY <1>1, DuplicateCaptureIsKept DEF Kept

(* SG-04's judgement of the state.                                          *)
LEMMA RegressionIsKept ==
  ASSUME NEW g, NEW h, Less(g, h), NEW c
  PROVE  Kept(RegressionState(g, c).state, RegressionState(h, c).state)
<1>1. \A f : RegressionState(f, c).state = IF RelevantDiagnostics(f, {c}) # {} THEN "INDETERMINATE"
                                           ELSE IF RegressionMutations(f, c) # {} THEN "APPLICABLE" ELSE "NOT_APPLICABLE"
  BY DEF RegressionState, Judged
<1>2. RelevantDiagnostics(h, {c}) = {} => RelevantDiagnostics(g, {c}) = {}
  BY LessIsSame
<1>3. RegressionMutations(h, c) = RegressionMutations(g, c)
  BY LessMutations
<1> QED
  BY <1>1, <1>2, <1>3 DEF Kept

(* SG-05's and SG-06's judgement of the value.                              *)
LEMMA TrustValueIsKept ==
  ASSUME NEW g, NEW h, Less(g, h), NEW s, NEW i, NEW c
  PROVE  Kept(TrustValueState(g, s, i, c).state, TrustValueState(h, s, i, c).state)
  BY FallbackIsKept, CapturedTargetIsKept DEF TrustValueState, Kept

(* And of the mutations.                                                    *)
LEMMA TrustMutationIsKept ==
  ASSUME NEW g, NEW h, Less(g, h), NEW s, NEW i, NEW c
  PROVE  /\ Kept(TrustMutationState(g, s, i, c).state, TrustMutationState(h, s, i, c).state)
         /\ TrustMutationState(h, s, i, c).state # "NOT_APPLICABLE"
<1> DEFINE mutations(f) == IF s = "SG-05" THEN CapturedPathMutations(f, i, c) ELSE CheckoutProtectedMutations(f, i)
           onRoute(f) == {n \in f.nodes : n.kind = "mutation" /\ n.route = i.route}
<1>1. \A f : TrustMutationState(f, s, i, c).state =
               IF s = "SG-06" /\ ~i.binding THEN "INDETERMINATE"
               ELSE IF mutations(f) # {} THEN "APPLICABLE"
               ELSE IF Partial(f) \/ onRoute(f) # {} THEN "INDETERMINATE" ELSE "NOT_APPLICABLE"
  BY DEF TrustMutationState, Judged
<1>2. mutations(h) = mutations(g) /\ Partial(h)
  BY LessMutations DEF Less
<1> HIDE DEF mutations, onRoute
<1> QED
  BY <1>1, <1>2 DEF Kept

(* The late assertions, by key: an open policy is never absent; SG-08's     *)
(* capture is one of its control's gates.                                   *)
LEMMA LateStates ==
  ASSUME NEW g, NEW p, NEW c, NEW a \in LateAssertions(g, p, c)
  PROVE  /\ a.judged.state \in {"APPLICABLE", "NEEDS_INPUT", "INDETERMINATE"}
         /\ a.role = "CORE"
         /\ a.key = "SG08_PRECAPTURE" => a.judged.state = "APPLICABLE"
         /\ a.key = "SG08_CAPTURE" => a.judged = LateCapture(g, c)
<1> DEFINE open(state, reason) == Assertion("SG08_LATE_POLICY", "CORE", Judged(state, reason, {}), c)
           precapture == Assertion("SG08_PRECAPTURE", "CORE", Judged("APPLICABLE", "POLICY_MATRIX_SELECTED", {}), c)
           capture == Assertion("SG08_CAPTURE", "CORE", LateCapture(g, c), c)
<1>1. \A state, reason : /\ open(state, reason).key = "SG08_LATE_POLICY" /\ open(state, reason).role = "CORE"
                         /\ open(state, reason).judged.state = state
  BY DEF Assertion, Judged
<1>2. precapture.key = "SG08_PRECAPTURE" /\ precapture.role = "CORE" /\ precapture.judged.state = "APPLICABLE"
  BY DEF Assertion, Judged
<1>3. capture.key = "SG08_CAPTURE" /\ capture.role = "CORE" /\ capture.judged = LateCapture(g, c)
  BY DEF Assertion
<1>4. LateCapture(g, c).state \in {"INDETERMINATE", "APPLICABLE"}
  BY DEF LateCapture, Judged
<1>5. (\E state \in {"NEEDS_INPUT", "INDETERMINATE"} : \E reason : a = open(state, reason))
        \/ a = precapture \/ a = capture
  BY DEF LateAssertions
<1> HIDE DEF open, precapture, capture
<1> QED
  BY <1>1, <1>2, <1>3, <1>4, <1>5

(* SG-08's judgements, key by key.                                          *)
LEMMA LateIsKept ==
  ASSUME NEW g, NEW h, Less(g, h), NEW p, NEW q, NEW c,
         NEW a \in LateAssertions(g, p, c), NEW b \in LateAssertions(h, q, c), a.key = b.key
  PROVE  Kept(a.judged.state, b.judged.state)
<1>1. \A f : LateCapture(f, c).state = IF CapturedGates(f, c) = {} THEN "INDETERMINATE" ELSE "APPLICABLE"
  BY DEF LateCapture, Judged
<1>2. b.key \in {"SG08_LATE_POLICY", "SG08_PRECAPTURE", "SG08_CAPTURE"}
  BY LateAssertionsHold
<1>3. b.key = "SG08_LATE_POLICY" => b.judged.state # "APPLICABLE"
  BY LateAssertionsHold
<1> QED
  BY <1>1, <1>2, <1>3, LateStates, LessGates DEF Kept

(* The assertions of an artifact are judged as above.                       *)
LEMMA JudgementsHold ==
  ASSUME NEW g, NEW p, NEW x \in CatalogScenarios(g, p, NormalControls(g)), NEW a \in x.assertions
  PROVE  ControlJudged(g, p, x, a) /\ TrustJudged(g, x, a) /\ LateJudged(g, p, x, a)
<1> DEFINE cs == NormalControls(g)
<1>1. \/ x \in Scenario01(g, p, cs) \/ x \in Scenario02(g, p, cs) \/ x \in Scenario03(g, p, cs)
      \/ x \in Scenario04(g, p, cs) \/ x \in Scenario05(g, p, cs) \/ x \in Scenario06(g, p, cs)
      \/ x \in Scenario07(g, p, cs) \/ x \in Scenario08(g, p, cs)
  BY DEF CatalogScenarios
<1>2. CASE \/ x \in Scenario01(g, p, cs) \/ x \in Scenario02(g, p, cs) \/ x \in Scenario03(g, p, cs)
           \/ x \in Scenario04(g, p, cs) \/ x \in Scenario07(g, p, cs)
  <2>1. ControlJudged(g, p, x, a)
    BY <1>2, Judged01, Judged02, Judged03, Judged04, Judged07
  <2>2. x.scenario \in {"SG-01", "SG-02", "SG-03", "SG-04", "SG-07"}
    BY <1>2, Instances01, Instances02, Instances03, Instances04, Instances07
  <2> QED
    BY <2>1, <2>2 DEF TrustJudged, LateJudged
<1>3. CASE x \in Scenario05(g, p, cs) \/ x \in Scenario06(g, p, cs)
  <2>1. x.scenario \in {"SG-05", "SG-06"}
    BY <1>3, Instances05, Instances06
  <2>2. TrustJudged(g, x, a)
    BY <1>3, JudgedTrust DEF Scenario05, Scenario06
  <2> QED
    BY <2>1, <2>2 DEF ControlJudged, LateJudged
<1>4. CASE x \in Scenario08(g, p, cs)
  BY <1>4, Instances08, Judged08 DEF ControlJudged, TrustJudged
<1> HIDE DEF cs
<1> QED
  BY <1>1, <1>2, <1>3, <1>4

(* The same assertion is kept when coverage is lost.                        *)
LEMMA AssertionIsKept ==
  ASSUME NEW g, NEW h, Less(g, h), NEW p, NEW q, q.fulfilment = p.fulfilment,
         NEW x \in CatalogScenarios(g, p, NormalControls(g)), NEW a \in x.assertions,
         NEW y \in CatalogScenarios(h, q, NormalControls(h)), NEW b \in y.assertions,
         x.scenario = y.scenario, x.ingress = y.ingress, x.control = y.control, a.key = b.key
  PROVE  Kept(a.judged.state, b.judged.state)
<1> DEFINE s == x.scenario
           c == x.control
<1>1. /\ ControlJudged(g, p, x, a) /\ TrustJudged(g, x, a) /\ LateJudged(g, p, x, a)
      /\ ControlJudged(h, q, y, b) /\ TrustJudged(h, y, b) /\ LateJudged(h, q, y, b)
  BY JudgementsHold
<1>2. /\ NormalControls(h) = NormalControls(g) /\ Ingresses(h) = Ingresses(g)
      /\ \A kind : IngressesOf(h, kind) = IngressesOf(g, kind)
  BY LessIsSame
<1>3. \A judged : Kept(judged.state, judged.state)
  BY DEF Kept
<1>4. CASE s = "SG-01"
  BY <1>1, <1>2, <1>4, FallbackIsKept, NormalCaptureIsKept DEF ControlJudged
<1>5. CASE s = "SG-02" \/ (s = "SG-04" /\ a.key # "SG04_STATE")
  BY <1>1, <1>2, <1>5, FallbackIsKept, DuplicateCaptureIsKept DEF ControlJudged
<1>6. CASE s = "SG-03"
  BY <1>1, <1>2, <1>6, FallbackIsKept, RetryIsKept DEF ControlJudged
<1>7. CASE s = "SG-04" /\ a.key = "SG04_STATE"
  BY <1>1, <1>7, RegressionIsKept DEF ControlJudged
<1>8. CASE s \in {"SG-05", "SG-06"}
  BY <1>1, <1>2, <1>8, FallbackIsKept, TrustMutationIsKept, TrustValueIsKept DEF TrustJudged
<1>9. CASE s = "SG-07"
  BY <1>1, <1>2, <1>3, <1>9, FallbackIsKept, WithoutCallbackIsKept DEF ControlJudged
<1>10. CASE s = "SG-08"
  BY <1>1, <1>2, <1>3, <1>10, FallbackIsKept, LateIsKept DEF LateJudged
<1>11. s \in {"SG-01", "SG-02", "SG-03", "SG-04", "SG-05", "SG-06", "SG-07", "SG-08"}
  BY InstancesHold
<1> HIDE DEF s
<1> QED
  BY <1>4, <1>5, <1>6, <1>7, <1>8, <1>9, <1>10, <1>11

(* On an incomplete graph no core assertion of SG-01 to SG-06 is absent.    *)
LEMMA NothingIsAbsent ==
  ASSUME NEW g, Partial(g), NEW p,
         NEW x \in CatalogScenarios(g, p, NormalControls(g)), NEW a \in x.assertions,
         a.role = "CORE", x.scenario \notin {"SG-07", "SG-08"}
  PROVE  a.judged.state # "NOT_APPLICABLE"
<1>1. Less(g, g)
  BY DEF Less
<1>2. ControlJudged(g, p, x, a) /\ TrustJudged(g, x, a)
  BY JudgementsHold
<1>3. x.scenario \in {"SG-01", "SG-02", "SG-03", "SG-04", "SG-05", "SG-06"}
  BY InstancesHold
<1>4. \A ingresses : FallbackState(g, ingresses).state # "NOT_APPLICABLE"
  BY <1>1, FallbackIsKept
<1>5. \A c : DuplicateCaptureState(g, p, c).state # "NOT_APPLICABLE"
  BY <1>1, DuplicateCaptureIsKept
<1>6. \A c : NormalCaptureState(g, p, c).state # "NOT_APPLICABLE"
  BY PolicyStateHolds DEF NormalCaptureState, Judged
<1>7. \A c : RetryState(g, p, c).state # "NOT_APPLICABLE"
  BY <1>5 DEF RetryState, Judged
<1>8. \A s, i, c : TrustMutationState(g, s, i, c).state # "NOT_APPLICABLE"
  BY <1>1, TrustMutationIsKept
<1>9. \A s, i, c : TrustValueState(g, s, i, c).state # "NOT_APPLICABLE"
  BY <1>4 DEF TrustValueState, CapturedTarget, Judged
<1>10. CASE x.scenario \in {"SG-05", "SG-06"}
  BY <1>2, <1>4, <1>8, <1>9, <1>10 DEF TrustJudged
<1>11. CASE x.scenario = "SG-01"
  BY <1>2, <1>4, <1>6, <1>11 DEF ControlJudged
<1>12. CASE x.scenario \in {"SG-02", "SG-04"}
  BY <1>2, <1>4, <1>5, <1>12 DEF ControlJudged
<1>13. CASE x.scenario = "SG-03"
  BY <1>2, <1>4, <1>7, <1>13 DEF ControlJudged
<1> QED
  BY <1>3, <1>10, <1>11, <1>12, <1>13

(* LostCoverageNeverConfirms: whatever the declarations, a diagnostic that  *)
(* reduces coverage makes nothing applicable that was judged otherwise, and *)
(* proves nothing absent.                                                   *)
THEOREM LostCoverageConfirmsNothing == EngineSpec => []LostCoverageNeverConfirms
<1>1. LostCoverageNeverConfirms
  <2> DEFINE p == PolicyAssessment(graph, NormalControls(graph), config)
  <2>1. Now.instances = CatalogScenarios(graph, p, NormalControls(graph))
    BY DEF Now, EvaluateApplicability
  <2>2. ASSUME NEW route, NEW x \in Assertions(Now),
               NEW y \in Assertions(EvaluateApplicability(WithDiagnostic(graph, route), config)),
               x[1].scenario = y[1].scenario, x[1].ingress = y[1].ingress,
               x[1].control = y[1].control, x[2].key = y[2].key
        PROVE  Kept(x[2].judged.state, y[2].judged.state)
    <3> DEFINE h == WithDiagnostic(graph, route)
               q == PolicyAssessment(h, NormalControls(h), config)
    <3>1. Less(graph, h)
      BY LessWithDiagnostic
    <3>2. q.fulfilment = p.fulfilment
      BY DEF PolicyAssessment
    <3>3. EvaluateApplicability(h, config).instances = CatalogScenarios(h, q, NormalControls(h))
      BY DEF EvaluateApplicability
    <3>4. x[1] \in CatalogScenarios(graph, p, NormalControls(graph)) /\ x[2] \in x[1].assertions
      BY <2>1 DEF Assertions
    <3>5. y[1] \in CatalogScenarios(h, q, NormalControls(h)) /\ y[2] \in y[1].assertions
      BY <2>2, <3>3 DEF Assertions
    <3> HIDE DEF h, p, q
    <3> QED
      BY <2>2, <3>1, <3>2, <3>4, <3>5, AssertionIsKept
  <2>3. ASSUME Partial(graph), NEW x \in Assertions(Now),
               x[2].role = "CORE", x[1].scenario \notin {"SG-07", "SG-08"}
        PROVE  x[2].judged.state # "NOT_APPLICABLE"
    <3>1. x[1] \in CatalogScenarios(graph, p, NormalControls(graph)) /\ x[2] \in x[1].assertions
      BY <2>1 DEF Assertions
    <3> HIDE DEF p
    <3> QED
      BY <2>3, <3>1, NothingIsAbsent
  <2> QED
    BY <2>2, <2>3 DEF LostCoverageNeverConfirms, Kept
<1> QED
  BY <1>1, PTL
-----------------------------------------------------------------------------
(* A control is known by its edge, and an instance with its assertion by    *)
(* the key of its check.                                                    *)
LEMMA ControlsByEdge ==
  ASSUME NEW g, NEW c \in NormalControls(g), NEW d \in NormalControls(g), c.edge = d.edge
  PROVE  c = d
<1>1. PICK e \in g.edges : c = [ingress |-> e.source, route |-> e.source.route, value |-> e.target, edge |-> e]
  BY DEF NormalControls
<1>2. PICK f \in g.edges : d = [ingress |-> f.source, route |-> f.source.route, value |-> f.target, edge |-> f]
  BY DEF NormalControls
<1> QED
  BY <1>1, <1>2

(* What a check's key tells of its assertion.                               *)
LEMMA KeyTells ==
  ASSUME NEW g, NEW p, NEW x \in CatalogScenarios(g, p, NormalControls(g)), NEW a \in x.assertions, NEW q
  PROVE  LET key == BuildVerificationCheckKey(x, a, q)
         IN  /\ key.scenario = x.scenario /\ key.assertion = a.key
             /\ key.targets.ingress = x.ingress
             /\ key.targets.edge = IF x.control = None THEN None ELSE x.control.edge
<1> DEFINE key == BuildVerificationCheckKey(x, a, q)
           identity == IF x.control # None THEN x.control ELSE a.control
<1>1. key.scenario = x.scenario /\ key.assertion = a.key /\ key.targets = TargetReference(x, a)
  BY DEF BuildVerificationCheckKey
<1>2. /\ TargetReference(x, a).ingress = x.ingress
      /\ TargetReference(x, a).edge = IF identity = None THEN None ELSE identity.edge
  BY DEF TargetReference
<1>3. identity = x.control
  BY InstancesHold DEF Formed
<1> HIDE DEF key, identity
<1> QED
  BY <1>1, <1>2, <1>3 DEF key

(* The same key names the same scenario, ingress and control, of whatever   *)
(* artifact of the same nodes and edges.                                    *)
LEMMA SameKey ==
  ASSUME NEW g, NEW h, NormalControls(h) = NormalControls(g), NEW p, NEW q,
         NEW x \in CatalogScenarios(g, p, NormalControls(g)), NEW a \in x.assertions,
         NEW y \in CatalogScenarios(h, q, NormalControls(h)), NEW b \in y.assertions,
         BuildVerificationCheckKey(x, a, p) = BuildVerificationCheckKey(y, b, q)
  PROVE  x.scenario = y.scenario /\ x.ingress = y.ingress /\ x.control = y.control /\ a.key = b.key
<1>1. /\ x.scenario = y.scenario /\ x.ingress = y.ingress /\ a.key = b.key
      /\ (IF x.control = None THEN None ELSE x.control.edge) = (IF y.control = None THEN None ELSE y.control.edge)
  BY KeyTells
<1>2. \A c \in NormalControls(g) : c.edge # None
  BY ControlsAreCalls DEF None
<1>3. x.control # None => x.control \in NormalControls(g)
  BY InstancesHold DEF Formed
<1>4. y.control # None => y.control \in NormalControls(g)
  BY InstancesHold DEF Formed
<1>5. x.control = y.control
  BY <1>1, <1>2, <1>3, <1>4, ControlsByEdge
<1> QED
  BY <1>1, <1>5

(* CheckKeysAreUnique: no two assertions of an artifact have the same key,  *)
(* so that the run that publishes their checks is valid.                    *)
THEOREM KeysAreUnique == EngineSpec => []CheckKeysAreUnique
<1>1. EngineInit => graph \in Sources
  BY DEF EngineInit
<1>2. graph \in Sources /\ [EngineNext]_vars => (graph \in Sources)'
  BY DEF EngineNext, ConfirmFulfilment, ConfirmLate, EditSource, vars
<1>3. graph \in Sources => CheckKeysAreUnique
  <2> DEFINE p == PolicyAssessment(graph, NormalControls(graph), config)
             Key(y) == BuildVerificationCheckKey(y[1], y[2], p)
  <2>1. Now.policy = p /\ Now.instances = CatalogScenarios(graph, p, NormalControls(graph))
    BY DEF Now, EvaluateApplicability
  <2>2. ASSUME graph \in Sources, NEW y \in Assertions(Now), NEW z \in Assertions(Now), Key(y) = Key(z)
        PROVE  y = z
    <3>1. PICK x \in Now.instances : \E a \in x.assertions : y = <<x, a>>
      BY DEF Assertions
    <3>2. PICK a \in x.assertions : y = <<x, a>>
      BY <3>1
    <3>3. PICK w \in Now.instances : \E b \in w.assertions : z = <<w, b>>
      BY DEF Assertions
    <3>4. PICK b \in w.assertions : z = <<w, b>>
      BY <3>3
    <3>5. BuildVerificationCheckKey(x, a, p) = BuildVerificationCheckKey(w, b, p)
      BY <2>2, <3>2, <3>4
    <3> HIDE DEF p
    <3>6. x.scenario = w.scenario /\ x.ingress = w.ingress /\ x.control = w.control /\ a.key = b.key
      BY <2>1, <3>5, SameKey
    <3>7. GraphValid(graph)
      BY <2>2, SourcesAssumption
    <3>8. x = w
      BY <2>1, <3>6, <3>7, InstancesAreNamed DEF NameOf
    <3>9. a = b
      BY <2>1, <3>6, <3>8, InstancesHold DEF Formed
    <3> QED
      BY <3>2, <3>4, <3>8, <3>9
  <2> HIDE DEF p
  <2>3. ASSUME graph \in Sources,
               NEW c \in {<<y, Key(y)>> : y \in Assertions(Now)}, NEW d \in {<<y, Key(y)>> : y \in Assertions(Now)},
               c[2] = d[2]
        PROVE  c = d
    <3>1. PICK y \in Assertions(Now) : c = <<y, Key(y)>>
      OBVIOUS
    <3>2. PICK z \in Assertions(Now) : d = <<z, Key(z)>>
      OBVIOUS
    <3>3. Key(y) = Key(z)
      BY <2>3, <3>1, <3>2
    <3>4. y = z
      BY <2>2, <2>3, <3>3
    <3> QED
      BY <3>1, <3>2, <3>4
  <2> QED
    BY <2>1, <2>3 DEF CheckKeysAreUnique
<1> QED
  BY <1>1, <1>2, <1>3, PTL DEF EngineSpec
-----------------------------------------------------------------------------
(* What is judged, and what becomes of it in a check.                       *)
States == {"APPLICABLE", "INDETERMINATE", "NEEDS_INPUT", "NOT_APPLICABLE"}

(* Every assertion is judged to be in one of the four states.               *)
LEMMA StatesHold ==
  ASSUME NEW g, NEW p, NEW x \in CatalogScenarios(g, p, NormalControls(g)), NEW a \in x.assertions
  PROVE  a.judged.state \in States
<1>1. ControlJudged(g, p, x, a) /\ TrustJudged(g, x, a) /\ LateJudged(g, p, x, a)
  BY JudgementsHold
<1>2. x.scenario \in {"SG-01", "SG-02", "SG-03", "SG-04", "SG-05", "SG-06", "SG-07", "SG-08"}
  BY InstancesHold
<1>3. \A ingresses : FallbackState(g, ingresses).state \in States
  BY DEF FallbackState, Judged, States
<1>4. \A c : CapturedTarget(g, c).state \in States
  BY DEF CapturedTarget, Judged, States
<1>5. \A c : DuplicateCaptureState(g, p, c).state \in States
  BY <1>4, PolicyStateHolds DEF DuplicateCaptureState, States
<1>6. CASE x.scenario = "SG-01"
  <2>1. \A c : NormalCaptureState(g, p, c).state \in States
    BY PolicyStateHolds DEF NormalCaptureState, Judged, States
  <2> QED
    BY <1>1, <1>3, <1>6, <2>1 DEF ControlJudged
<1>7. CASE x.scenario = "SG-02" \/ (x.scenario = "SG-04" /\ a.key # "SG04_STATE")
  BY <1>1, <1>3, <1>5, <1>7 DEF ControlJudged
<1>8. CASE x.scenario = "SG-04" /\ a.key = "SG04_STATE"
  <2>1. \A c : RegressionState(g, c).state \in States
    BY DEF RegressionState, Judged, States
  <2> QED
    BY <1>1, <1>8, <2>1 DEF ControlJudged
<1>9. CASE x.scenario = "SG-03"
  <2>1. \A c : RetryState(g, p, c).state \in States
    BY <1>5 DEF RetryState, Judged, States
  <2> QED
    BY <1>1, <1>3, <1>9, <2>1 DEF ControlJudged
<1>10. CASE x.scenario \in {"SG-05", "SG-06"}
  <2>1. \A s, i, c : TrustMutationState(g, s, i, c).state \in States
    BY DEF TrustMutationState, Judged, States
  <2>2. \A s, i, c : TrustValueState(g, s, i, c).state \in States
    BY <1>3, <1>4 DEF TrustValueState, Judged, States
  <2> QED
    BY <1>1, <1>3, <1>10, <2>1, <2>2 DEF TrustJudged
<1>11. CASE x.scenario = "SG-07"
  <2>1. \A cs, c : WithoutCallbackState(g, p, cs, c).state \in States
    BY <1>5 DEF WithoutCallbackState, Judged, States
  <2>2. Judged("NOT_APPLICABLE", "CHECKOUT_SURFACE_REQUIRED", {}).state \in States
    BY DEF Judged, States
  <2> QED
    BY <1>1, <1>3, <1>11, <2>1, <2>2 DEF ControlJudged
<1>12. CASE x.scenario = "SG-08"
  <2>1. Judged("NOT_APPLICABLE", "LATE_SEQUENCE_NOT_SUPPORTED", {}).state \in States
    BY DEF Judged, States
  <2>2. \A c : \A b \in LateAssertions(g, p, c) : b.judged.state \in States
    BY LateStates DEF States
  <2> QED
    BY <1>1, <1>3, <1>12, <2>1, <2>2 DEF LateJudged
<1> QED
  BY <1>2, <1>6, <1>7, <1>8, <1>9, <1>10, <1>11, <1>12

(* The result of a check by the state of its assertion.                     *)
LEMMA ResultsFollow ==
  ASSUME NEW a, NEW executed, a.judged.state \in States
  PROVE  /\ a.judged.state = "APPLICABLE" => ResultOf(a, executed) = executed
         /\ a.judged.state = "INDETERMINATE" => ResultOf(a, executed) = "UNVERIFIED"
         /\ a.judged.state \in {"NEEDS_INPUT", "NOT_APPLICABLE"} => ResultOf(a, executed) = a.judged.state
<1>1. ASSUME a.judged.state = "APPLICABLE" PROVE ResultOf(a, executed) = executed
  BY <1>1, Zenon DEF ResultOf
<1>2. ASSUME a.judged.state = "INDETERMINATE" PROVE ResultOf(a, executed) = "UNVERIFIED"
  BY <1>2, Zenon DEF ResultOf
<1>3. ASSUME a.judged.state \in {"NEEDS_INPUT", "NOT_APPLICABLE"} PROVE ResultOf(a, executed) = a.judged.state
  <2>1. a.judged.state # "APPLICABLE" /\ a.judged.state # "INDETERMINATE"
    BY <1>3
  <2> QED
    BY <2>1, Zenon DEF ResultOf
<1> QED
  BY <1>1, <1>2, <1>3

(* A check for every assertion, and no other.                               *)
LEMMA ChecksAre ==
  ASSUME NEW art, NEW executed
  PROVE  /\ \A c \in ChecksOf(art, executed) : \E x \in art.instances : \E a \in x.assertions :
              /\ c.key = BuildVerificationCheckKey(x, a, art.policy)
              /\ c.role = a.role /\ c.result = ResultOf(a, executed)
         /\ \A x \in art.instances : \A a \in x.assertions : \E c \in ChecksOf(art, executed) :
              /\ c.key = BuildVerificationCheckKey(x, a, art.policy)
              /\ c.role = a.role /\ c.result = ResultOf(a, executed)
<1> DEFINE pairs == UNION {{<<x, a>> : a \in x.assertions} : x \in art.instances}
           of(y) == [key |-> BuildVerificationCheckKey(y[1], y[2], art.policy), instance |-> y[1].scenario,
                     role |-> y[2].role, assertion |-> y[2], result |-> ResultOf(y[2], executed)]
<1>1. ChecksOf(art, executed) = {of(y) : y \in pairs}
  BY DEF ChecksOf
<1>2. \A x, a : /\ of(<<x, a>>).key = BuildVerificationCheckKey(x, a, art.policy)
                /\ of(<<x, a>>).role = a.role /\ of(<<x, a>>).result = ResultOf(a, executed)
  OBVIOUS
<1>3. \A y \in pairs : \E x \in art.instances : \E a \in x.assertions : y = <<x, a>>
  OBVIOUS
<1>4. \A x \in art.instances : \A a \in x.assertions : <<x, a>> \in pairs
  OBVIOUS
<1> DEFINE Is(c, x, a) == /\ c.key = BuildVerificationCheckKey(x, a, art.policy)
                          /\ c.role = a.role /\ c.result = ResultOf(a, executed)
<1>5. \A x, a : Is(of(<<x, a>>), x, a)
  BY <1>2
<1> HIDE DEF of, pairs, Is
<1>6. ASSUME NEW c \in ChecksOf(art, executed) PROVE \E x \in art.instances : \E a \in x.assertions : Is(c, x, a)
  <2>1. PICK y \in pairs : c = of(y)
    BY <1>1
  <2>2. PICK x \in art.instances : \E a \in x.assertions : y = <<x, a>>
    BY <1>3
  <2> QED
    BY <1>5, <2>1, <2>2
<1>7. ASSUME NEW x \in art.instances, NEW a \in x.assertions PROVE \E c \in ChecksOf(art, executed) : Is(c, x, a)
  <2>1. <<x, a>> \in pairs
    BY <1>4
  <2>2. of(<<x, a>>) \in ChecksOf(art, executed)
    BY <1>1, <2>1
  <2> QED
    BY <1>5, <2>2
<1> QED
  BY <1>6, <1>7 DEF Is
-----------------------------------------------------------------------------
(* Of the same nodes and edges, the same instances: coverage and policies   *)
(* choose only how they are judged, and what SG-08 asks of a control.       *)
SameGraph(g, h) == h.nodes = g.nodes /\ h.edges = g.edges /\ h.symbol = g.symbol

Twin(h, q, x, y) ==
  /\ y.scenario = x.scenario /\ y.ingress = x.ingress /\ y.control = x.control
  /\ IF x.scenario = "SG-08" /\ x.control # None
     THEN y.assertions = LateAssertions(h, q, x.control)
     ELSE \A a \in x.assertions : \E b \in y.assertions : b.key = a.key /\ b.role = a.role

(* Controls, ingresses and payment states are of nodes and edges.           *)
LEMMA SameIsSame ==
  ASSUME NEW g, NEW h, SameGraph(g, h)
  PROVE  /\ NormalControls(h) = NormalControls(g)
         /\ \A kind : IngressesOf(h, kind) = IngressesOf(g, kind)
         /\ \A c : LateSupported(h, c) = LateSupported(g, c) /\ RoutePaymentStates(h, c) = RoutePaymentStates(g, c)
<1>1. NormalControls(h) = NormalControls(g) /\ \A kind : IngressesOf(h, kind) = IngressesOf(g, kind)
  BY DEF SameGraph, NormalControls, Ingresses, IngressesOf
<1>2. \A c : RoutePaymentStates(h, c) = RoutePaymentStates(g, c)
  BY DEF SameGraph, RoutePaymentStates
<1> QED
  BY <1>1, <1>2 DEF LateSupported

(* The catalog's instances are twins.                                       *)
LEMMA CatalogTwin ==
  ASSUME NEW h, NEW q, NEW s, NEW key, NEW j, NEW k
  PROVE  Twin(h, q, Catalog(s, key, j), Catalog(s, key, k))
<1> DEFINE x == Catalog(s, key, j)
           y == Catalog(s, key, k)
           a == Assertion(key, "CORE", j, None)
           b == Assertion(key, "CORE", k, None)
<1>1. /\ x.scenario = s /\ x.ingress = None /\ x.control = None /\ x.assertions = {a}
      /\ y.scenario = s /\ y.ingress = None /\ y.control = None /\ y.assertions = {b}
  BY DEF Catalog, Instance
<1>2. a.key = b.key /\ a.role = b.role
  BY DEF Assertion
<1> HIDE DEF x, y, a, b
<1>3. Twin(h, q, x, y)
  BY <1>1, <1>2 DEF Twin
<1> QED
  BY <1>3 DEF x, y

(* So are a control's with one assertion.                                   *)
LEMMA OneTwin ==
  ASSUME NEW h, NEW q, NEW s, s # "SG-08", NEW key, NEW c, NEW j, NEW k
  PROVE  Twin(h, q, OfControl(s, c, {Assertion(key, "CORE", j, c)}), OfControl(s, c, {Assertion(key, "CORE", k, c)}))
<1> DEFINE a == Assertion(key, "CORE", j, c)
           b == Assertion(key, "CORE", k, c)
           x == OfControl(s, c, {a})
           y == OfControl(s, c, {b})
<1>1. /\ x.scenario = s /\ x.ingress = c.ingress /\ x.control = c /\ x.assertions = {a}
      /\ y.scenario = s /\ y.ingress = c.ingress /\ y.control = c /\ y.assertions = {b}
  BY DEF OfControl, Instance
<1>2. a.key = b.key /\ a.role = b.role
  BY DEF Assertion
<1> HIDE DEF x, y, a, b
<1>3. Twin(h, q, x, y)
  BY <1>1, <1>2 DEF Twin
<1> QED
  BY <1>3 DEF x, y, a, b

(* The instances of SG-01 to SG-04 are those of the webhook's controls.     *)
LEMMA Stays01 ==
  ASSUME NEW g, NEW h, SameGraph(g, h), NEW p, NEW q, NEW x \in Scenario01(g, p, NormalControls(g))
  PROVE  \E y \in Scenario01(h, q, NormalControls(h)) : Twin(h, q, x, y)
<1> DEFINE cs == NormalControls(g)
           web == WebhookControls(cs)
           one(f, r, c) == OfControl("SG-01", c, {Assertion("SG01", "CORE", NormalCaptureState(f, r, c), c)})
           catalog(f) == Catalog("SG-01", "SG01", FallbackState(f, Ingresses(f)))
<1>1. NormalControls(h) = cs
  BY SameIsSame
<1>2. \A f, r : Scenario01(f, r, cs) = OrCatalog({one(f, r, c) : c \in web}, catalog(f))
  BY DEF Scenario01
<1>3. Twin(h, q, catalog(g), catalog(h))
  BY CatalogTwin
<1>4. \A c \in web : Twin(h, q, one(g, p, c), one(h, q, c))
  BY OneTwin
<1> HIDE DEF one, catalog, web, cs
<1>5. CASE web = {}
  <2>1. x = catalog(g) /\ catalog(h) \in Scenario01(h, q, cs)
    BY <1>2, <1>5 DEF OrCatalog, cs
  <2> QED
    BY <1>1, <1>3, <2>1
<1>6. ASSUME web # {} PROVE \E y \in Scenario01(h, q, cs) : Twin(h, q, x, y)
  <2>1. x \in {one(g, p, c) : c \in web}
    BY <1>2, <1>6 DEF OrCatalog, cs
  <2>2. PICK c \in web : x = one(g, p, c)
    BY <2>1
  <2>3. one(h, q, c) \in Scenario01(h, q, cs)
    BY <1>2, <1>6 DEF OrCatalog
  <2> QED
    BY <1>4, <2>2, <2>3
<1> QED
  BY <1>1, <1>5, <1>6

(* SG-02.                                                                   *)
LEMMA Stays02 ==
  ASSUME NEW g, NEW h, SameGraph(g, h), NEW p, NEW q, NEW x \in Scenario02(g, p, NormalControls(g))
  PROVE  \E y \in Scenario02(h, q, NormalControls(h)) : Twin(h, q, x, y)
<1> DEFINE cs == NormalControls(g)
           web == WebhookControls(cs)
           one(f, r, c) == OfControl("SG-02", c, {Assertion("SG02", "CORE", DuplicateCaptureState(f, r, c), c)})
           catalog(f) == Catalog("SG-02", "SG02", FallbackState(f, IngressesOf(f, "WEBHOOK")))
<1>1. NormalControls(h) = cs
  BY SameIsSame
<1>2. \A f, r : Scenario02(f, r, cs) = OrCatalog({one(f, r, c) : c \in web}, catalog(f))
  BY DEF Scenario02
<1>3. Twin(h, q, catalog(g), catalog(h))
  BY CatalogTwin
<1>4. \A c \in web : Twin(h, q, one(g, p, c), one(h, q, c))
  BY OneTwin
<1> HIDE DEF one, catalog, web, cs
<1>5. CASE web = {}
  <2>1. x = catalog(g) /\ catalog(h) \in Scenario02(h, q, cs)
    BY <1>2, <1>5 DEF OrCatalog, cs
  <2> QED
    BY <1>1, <1>3, <2>1
<1>6. ASSUME web # {} PROVE \E y \in Scenario02(h, q, cs) : Twin(h, q, x, y)
  <2>1. x \in {one(g, p, c) : c \in web}
    BY <1>2, <1>6 DEF OrCatalog, cs
  <2>2. PICK c \in web : x = one(g, p, c)
    BY <2>1
  <2>3. one(h, q, c) \in Scenario02(h, q, cs)
    BY <1>2, <1>6 DEF OrCatalog
  <2> QED
    BY <1>4, <2>2, <2>3
<1> QED
  BY <1>1, <1>5, <1>6

(* SG-03.                                                                   *)
LEMMA Stays03 ==
  ASSUME NEW g, NEW h, SameGraph(g, h), NEW p, NEW q, NEW x \in Scenario03(g, p, NormalControls(g))
  PROVE  \E y \in Scenario03(h, q, NormalControls(h)) : Twin(h, q, x, y)
<1> DEFINE cs == NormalControls(g)
           web == WebhookControls(cs)
           one(f, r, c) == OfControl("SG-03", c, {Assertion("SG03", "CORE", RetryState(f, r, c), c)})
           catalog(f) == Catalog("SG-03", "SG03", FallbackState(f, IngressesOf(f, "WEBHOOK")))
<1>1. NormalControls(h) = cs
  BY SameIsSame
<1>2. \A f, r : Scenario03(f, r, cs) = OrCatalog({one(f, r, c) : c \in web}, catalog(f))
  BY DEF Scenario03
<1>3. Twin(h, q, catalog(g), catalog(h))
  BY CatalogTwin
<1>4. \A c \in web : Twin(h, q, one(g, p, c), one(h, q, c))
  BY OneTwin
<1> HIDE DEF one, catalog, web, cs
<1>5. CASE web = {}
  <2>1. x = catalog(g) /\ catalog(h) \in Scenario03(h, q, cs)
    BY <1>2, <1>5 DEF OrCatalog, cs
  <2> QED
    BY <1>1, <1>3, <2>1
<1>6. ASSUME web # {} PROVE \E y \in Scenario03(h, q, cs) : Twin(h, q, x, y)
  <2>1. x \in {one(g, p, c) : c \in web}
    BY <1>2, <1>6 DEF OrCatalog, cs
  <2>2. PICK c \in web : x = one(g, p, c)
    BY <2>1
  <2>3. one(h, q, c) \in Scenario03(h, q, cs)
    BY <1>2, <1>6 DEF OrCatalog
  <2> QED
    BY <1>4, <2>2, <2>3
<1> QED
  BY <1>1, <1>5, <1>6

(* SG-04, with its two assertions.                                          *)
LEMMA Stays04 ==
  ASSUME NEW g, NEW h, SameGraph(g, h), NEW p, NEW q, NEW x \in Scenario04(g, p, NormalControls(g))
  PROVE  \E y \in Scenario04(h, q, NormalControls(h)) : Twin(h, q, x, y)
<1> DEFINE cs == NormalControls(g)
           web == WebhookControls(cs)
           value(f, r, c) == Assertion("SG04", "CORE", DuplicateCaptureState(f, r, c), c)
           state(f, c) == Assertion("SG04_STATE", "OPTIONAL", RegressionState(f, c), c)
           one(f, r, c) == OfControl("SG-04", c, {value(f, r, c), state(f, c)})
           catalog(f) == Catalog("SG-04", "SG04", FallbackState(f, IngressesOf(f, "WEBHOOK")))
<1>1. NormalControls(h) = cs
  BY SameIsSame
<1>2. \A f, r : Scenario04(f, r, cs) = OrCatalog({one(f, r, c) : c \in web}, catalog(f))
  BY DEF Scenario04
<1>3. Twin(h, q, catalog(g), catalog(h))
  BY CatalogTwin
<1>4. \A c \in web : Twin(h, q, one(g, p, c), one(h, q, c))
  <2> SUFFICES ASSUME NEW c \in web PROVE Twin(h, q, one(g, p, c), one(h, q, c))
    OBVIOUS
  <2>1. \A f, r : /\ one(f, r, c).scenario = "SG-04" /\ one(f, r, c).ingress = c.ingress
                  /\ one(f, r, c).control = c /\ one(f, r, c).assertions = {value(f, r, c), state(f, c)}
    BY DEF OfControl, Instance
  <2>2. \A f, r : /\ value(f, r, c).key = "SG04" /\ value(f, r, c).role = "CORE"
                  /\ state(f, c).key = "SG04_STATE" /\ state(f, c).role = "OPTIONAL"
    BY DEF Assertion
  <2> HIDE DEF one, value, state
  <2> QED
    BY <2>1, <2>2 DEF Twin
<1> HIDE DEF one, catalog, web, cs
<1>5. CASE web = {}
  <2>1. x = catalog(g) /\ catalog(h) \in Scenario04(h, q, cs)
    BY <1>2, <1>5 DEF OrCatalog, cs
  <2> QED
    BY <1>1, <1>3, <2>1
<1>6. ASSUME web # {} PROVE \E y \in Scenario04(h, q, cs) : Twin(h, q, x, y)
  <2>1. x \in {one(g, p, c) : c \in web}
    BY <1>2, <1>6 DEF OrCatalog, cs
  <2>2. PICK c \in web : x = one(g, p, c)
    BY <2>1
  <2>3. one(h, q, c) \in Scenario04(h, q, cs)
    BY <1>2, <1>6 DEF OrCatalog
  <2> QED
    BY <1>4, <2>2, <2>3
<1> QED
  BY <1>1, <1>5, <1>6

(* Those of SG-05 and SG-06 are those of an ingress and its targets.        *)
LEMMA TrustIsThere ==
  ASSUME NEW g, NEW cs, NEW s, NEW ingresses, NEW value, NEW mutation
  PROVE  /\ \A i \in ingresses : \A c : TargetOf(cs, i, c) =>
              TrustInstance(g, s, i, c, value, mutation) \in TrustScenario(g, cs, s, ingresses, value, mutation)
         /\ ingresses = {} =>
              Catalog(s, value, FallbackState(g, ingresses)) \in TrustScenario(g, cs, s, ingresses, value, mutation)
<1> DEFINE Mine(i) == {c \in cs : c.ingress = i}
           Targets(i) == IF Mine(i) = {} THEN {None} ELSE Mine(i)
           all == UNION {{TrustInstance(g, s, i, c, value, mutation) : c \in Targets(i)} : i \in ingresses}
           catalog == Catalog(s, value, FallbackState(g, ingresses))
<1>1. TrustScenario(g, cs, s, ingresses, value, mutation) = OrCatalog(all, catalog)
  BY DEF TrustScenario, TrustInstance
<1>2. \A i, c : TargetOf(cs, i, c) => c \in Targets(i)
  BY DEF TargetOf
<1>3. \A i \in ingresses : \A c \in Targets(i) : TrustInstance(g, s, i, c, value, mutation) \in all
  OBVIOUS
<1>4. ingresses = {} => all = {}
  OBVIOUS
<1> HIDE DEF all, Targets, catalog
<1>5. /\ \A i \in ingresses : \A c : TargetOf(cs, i, c) =>
           TrustInstance(g, s, i, c, value, mutation) \in OrCatalog(all, catalog)
      /\ ingresses = {} => catalog \in OrCatalog(all, catalog)
  BY <1>2, <1>3, <1>4 DEF OrCatalog
<1> QED
  BY <1>1, <1>5 DEF catalog

(* And each is there with its two assertions.                               *)
LEMMA StaysTrust ==
  ASSUME NEW g, NEW h, NEW q, NEW cs, NEW s \in {"SG-05", "SG-06"}, NEW ingresses, NEW value, NEW mutation,
         NEW x \in TrustScenario(g, cs, s, ingresses, value, mutation)
  PROVE  \E y \in TrustScenario(h, cs, s, ingresses, value, mutation) : Twin(h, q, x, y)
<1>1. CASE x = Catalog(s, value, FallbackState(g, ingresses)) /\ ingresses = {}
  BY <1>1, CatalogTwin, TrustIsThere
<1>2. ASSUME NEW i \in ingresses, NEW c, TargetOf(cs, i, c), x = TrustInstance(g, s, i, c, value, mutation)
      PROVE  \E y \in TrustScenario(h, cs, s, ingresses, value, mutation) : Twin(h, q, x, y)
  <2> DEFINE y == TrustInstance(h, s, i, c, value, mutation)
             m(f) == Assertion(mutation, "CORE", TrustMutationState(f, s, i, c), None)
             v(f) == Assertion(value, "CORE", TrustValueState(f, s, i, c), c)
  <2>1. /\ x.scenario = s /\ x.ingress = i /\ x.control = c /\ x.assertions = {m(g), v(g)}
        /\ y.scenario = s /\ y.ingress = i /\ y.control = c /\ y.assertions = {m(h), v(h)}
    BY <1>2 DEF TrustInstance, Instance
  <2>2. m(g).key = m(h).key /\ m(g).role = m(h).role /\ v(g).key = v(h).key /\ v(g).role = v(h).role
    BY DEF Assertion
  <2>3. y \in TrustScenario(h, cs, s, ingresses, value, mutation)
    BY <1>2, TrustIsThere
  <2> HIDE DEF y, m, v
  <2>4. Twin(h, q, x, y)
    BY <2>1, <2>2 DEF Twin
  <2> QED
    BY <2>3, <2>4
<1> QED
  BY <1>1, <1>2, TrustForm

(* SG-07 has instances only with a checkout, SG-08 only for the controls    *)
(* whose route may be late.                                                 *)
LEMMA Stays07 ==
  ASSUME NEW g, NEW h, SameGraph(g, h), NEW p, NEW q, NEW x \in Scenario07(g, p, NormalControls(g))
  PROVE  \E y \in Scenario07(h, q, NormalControls(h)) : Twin(h, q, x, y)
<1> DEFINE cs == NormalControls(g)
           web == IF IngressesOf(g, "CHECKOUT_CALLBACK") = {} THEN {} ELSE WebhookControls(cs)
           one(f, r, c) == OfControl("SG-07", c, {Assertion("SG07", "CORE", WithoutCallbackState(f, r, cs, c), c)})
           catalog(f) == Catalog("SG-07", "SG07",
             IF IngressesOf(f, "CHECKOUT_CALLBACK") # {} THEN FallbackState(f, IngressesOf(f, "WEBHOOK"))
             ELSE Judged("NOT_APPLICABLE", "CHECKOUT_SURFACE_REQUIRED", {}))
<1>1. NormalControls(h) = cs /\ IngressesOf(h, "CHECKOUT_CALLBACK") = IngressesOf(g, "CHECKOUT_CALLBACK")
  BY SameIsSame
<1>2. \A f, r : IngressesOf(f, "CHECKOUT_CALLBACK") = IngressesOf(g, "CHECKOUT_CALLBACK") =>
                  Scenario07(f, r, cs) = OrCatalog({one(f, r, c) : c \in web}, catalog(f))
  <2> SUFFICES ASSUME NEW f, NEW r, IngressesOf(f, "CHECKOUT_CALLBACK") = IngressesOf(g, "CHECKOUT_CALLBACK")
               PROVE  Scenario07(f, r, cs) = OrCatalog({one(f, r, c) : c \in web}, catalog(f))
    OBVIOUS
  <2> DEFINE instances == IF IngressesOf(f, "CHECKOUT_CALLBACK") = {} THEN {}
                          ELSE {one(f, r, c) : c \in WebhookControls(cs)}
  <2>1. Scenario07(f, r, cs) = OrCatalog(instances, catalog(f))
    BY DEF Scenario07
  <2> HIDE DEF one, catalog
  <2>2. instances = {one(f, r, c) : c \in web}
    OBVIOUS
  <2> QED
    BY <2>1, <2>2
<1>3. Twin(h, q, catalog(g), catalog(h))
  BY CatalogTwin
<1>4. \A c \in web : Twin(h, q, one(g, p, c), one(h, q, c))
  BY OneTwin
<1>7. /\ Scenario07(g, p, cs) = OrCatalog({one(g, p, c) : c \in web}, catalog(g))
      /\ Scenario07(h, q, cs) = OrCatalog({one(h, q, c) : c \in web}, catalog(h))
  BY <1>1, <1>2
<1> HIDE DEF one, catalog, web, cs
<1>5. CASE web = {}
  <2>1. x = catalog(g) /\ catalog(h) \in Scenario07(h, q, cs)
    BY <1>7, <1>5 DEF OrCatalog, cs
  <2> QED
    BY <1>1, <1>3, <2>1
<1>6. ASSUME web # {} PROVE \E y \in Scenario07(h, q, cs) : Twin(h, q, x, y)
  <2>1. x \in {one(g, p, c) : c \in web}
    BY <1>7, <1>6 DEF OrCatalog, cs
  <2>2. PICK c \in web : x = one(g, p, c)
    BY <2>1
  <2>3. one(h, q, c) \in Scenario07(h, q, cs)
    BY <1>7, <1>6 DEF OrCatalog
  <2> QED
    BY <1>4, <2>2, <2>3
<1> QED
  BY <1>1, <1>5, <1>6

(* SG-08, whose assertions the policies choose anew.                        *)
LEMMA Stays08 ==
  ASSUME NEW g, NEW h, SameGraph(g, h), NEW p, NEW q, NEW x \in Scenario08(g, p, NormalControls(g))
  PROVE  \E y \in Scenario08(h, q, NormalControls(h)) : Twin(h, q, x, y)
<1> DEFINE cs == NormalControls(g)
           web == {c \in WebhookControls(cs) : LateSupported(g, c)}
           one(f, r, c) == OfControl("SG-08", c, LateAssertions(f, r, c))
           catalog(f) == Catalog("SG-08", "SG08_LATE_POLICY",
             IF WebhookControls(cs) # {} THEN Judged("NOT_APPLICABLE", "LATE_SEQUENCE_NOT_SUPPORTED", {})
             ELSE FallbackState(f, IngressesOf(f, "WEBHOOK")))
<1>1. NormalControls(h) = cs /\ \A c : LateSupported(h, c) = LateSupported(g, c)
  BY SameIsSame
<1>2. \A f, r : (\A c : LateSupported(f, c) = LateSupported(g, c)) =>
                  Scenario08(f, r, cs) = OrCatalog({one(f, r, c) : c \in web}, catalog(f))
  <2> SUFFICES ASSUME NEW f, NEW r, \A c : LateSupported(f, c) = LateSupported(g, c)
               PROVE  Scenario08(f, r, cs) = OrCatalog({one(f, r, c) : c \in web}, catalog(f))
    OBVIOUS
  <2>1. {c \in WebhookControls(cs) : LateSupported(f, c)} = web
    OBVIOUS
  <2> HIDE DEF one
  <2>2. Scenario08(f, r, cs) =
          OrCatalog({one(f, r, c) : c \in {d \in WebhookControls(cs) : LateSupported(f, d)}}, catalog(f))
    BY DEF Scenario08, one
  <2> HIDE DEF web, catalog
  <2> QED
    BY <2>1, <2>2
<1>3. Twin(h, q, catalog(g), catalog(h))
  BY CatalogTwin
<1>4. \A c \in web : Twin(h, q, one(g, p, c), one(h, q, c))
  <2> SUFFICES ASSUME NEW c \in web PROVE Twin(h, q, one(g, p, c), one(h, q, c))
    OBVIOUS
  <2>1. \A f, r : /\ one(f, r, c).scenario = "SG-08" /\ one(f, r, c).ingress = c.ingress
                  /\ one(f, r, c).control = c /\ one(f, r, c).assertions = LateAssertions(f, r, c)
    BY DEF OfControl, Instance
  <2>2. c # None
    BY ControlsAreCalls DEF WebhookControls
  <2> HIDE DEF one
  <2> QED
    BY <2>1, <2>2 DEF Twin
<1>7. /\ Scenario08(g, p, cs) = OrCatalog({one(g, p, c) : c \in web}, catalog(g))
      /\ Scenario08(h, q, cs) = OrCatalog({one(h, q, c) : c \in web}, catalog(h))
  BY <1>1, <1>2
<1> HIDE DEF one, catalog, web, cs
<1>5. CASE web = {}
  <2>1. x = catalog(g) /\ catalog(h) \in Scenario08(h, q, cs)
    BY <1>7, <1>5 DEF OrCatalog, cs
  <2> QED
    BY <1>1, <1>3, <2>1
<1>6. ASSUME web # {} PROVE \E y \in Scenario08(h, q, cs) : Twin(h, q, x, y)
  <2>1. x \in {one(g, p, c) : c \in web}
    BY <1>7, <1>6 DEF OrCatalog, cs
  <2>2. PICK c \in web : x = one(g, p, c)
    BY <2>1
  <2>3. one(h, q, c) \in Scenario08(h, q, cs)
    BY <1>7, <1>6 DEF OrCatalog
  <2> QED
    BY <1>4, <2>2, <2>3
<1> QED
  BY <1>1, <1>5, <1>6

(* Every instance has its twin.                                             *)
LEMMA InstanceStays ==
  ASSUME NEW g, NEW h, SameGraph(g, h), NEW p, NEW q, NEW x \in CatalogScenarios(g, p, NormalControls(g))
  PROVE  \E y \in CatalogScenarios(h, q, NormalControls(h)) : Twin(h, q, x, y)
<1> DEFINE cs == NormalControls(g)
<1>1. \/ x \in Scenario01(g, p, cs) \/ x \in Scenario02(g, p, cs) \/ x \in Scenario03(g, p, cs)
      \/ x \in Scenario04(g, p, cs) \/ x \in Scenario05(g, p, cs) \/ x \in Scenario06(g, p, cs)
      \/ x \in Scenario07(g, p, cs) \/ x \in Scenario08(g, p, cs)
  BY DEF CatalogScenarios
<1>2. NormalControls(h) = cs /\ \A kind : IngressesOf(h, kind) = IngressesOf(g, kind)
  BY SameIsSame
<1>3. CASE \/ x \in Scenario01(g, p, cs) \/ x \in Scenario02(g, p, cs) \/ x \in Scenario03(g, p, cs)
           \/ x \in Scenario04(g, p, cs) \/ x \in Scenario07(g, p, cs) \/ x \in Scenario08(g, p, cs)
  BY <1>3, Stays01, Stays02, Stays03, Stays04, Stays07, Stays08 DEF CatalogScenarios
<1>4. CASE x \in Scenario05(g, p, cs) \/ x \in Scenario06(g, p, cs)
  <2>1. \/ \E y \in Scenario05(h, q, cs) : Twin(h, q, x, y)
        \/ \E y \in Scenario06(h, q, cs) : Twin(h, q, x, y)
    BY <1>2, <1>4, StaysTrust DEF Scenario05, Scenario06
  <2> HIDE DEF cs
  <2> QED
    BY <1>2, <2>1 DEF CatalogScenarios
<1> HIDE DEF cs
<1> QED
  BY <1>1, <1>3, <1>4
-----------------------------------------------------------------------------
(* When the gate is passed by what an analysis finds, if all that can be    *)
(* executed passes.                                                         *)
GateOpen(instances) ==
  /\ \A x \in instances : \A a \in x.assertions :
       a.role = "CORE" => a.judged.state \notin {"NEEDS_INPUT", "INDETERMINATE"}
  /\ \E x \in instances : \E a \in x.assertions : a.role = "CORE" /\ a.judged.state = "APPLICABLE"

Unasked(instances) == \A x \in instances : \A a \in x.assertions : a.judged.state # "NEEDS_INPUT"

(* The gate is passed exactly when it is open.                              *)
LEMMA GateTells ==
  ASSUME NEW art, \A x \in art.instances : \A a \in x.assertions : a.judged.state \in States
  PROVE  EvaluateCiGate(PassingChecks(art)) = "PASSED" <=> GateOpen(art.instances)
<1> DEFINE checks == PassingChecks(art)
<1>1. /\ \A c \in checks : \E x \in art.instances : \E a \in x.assertions :
           c.role = a.role /\ c.result = ResultOf(a, "VERIFIED_PASS")
      /\ \A x \in art.instances : \A a \in x.assertions : \E c \in checks :
           c.role = a.role /\ c.result = ResultOf(a, "VERIFIED_PASS")
  BY ChecksAre DEF PassingChecks
<1>2. \A x \in art.instances : \A a \in x.assertions :
        /\ a.judged.state = "APPLICABLE" => ResultOf(a, "VERIFIED_PASS") = "VERIFIED_PASS"
        /\ a.judged.state = "INDETERMINATE" => ResultOf(a, "VERIFIED_PASS") = "UNVERIFIED"
        /\ a.judged.state \in {"NEEDS_INPUT", "NOT_APPLICABLE"} => ResultOf(a, "VERIFIED_PASS") = a.judged.state
  BY ResultsFollow
<1>3. EvaluateCiGate(checks) = "PASSED" <=>
        /\ \A c \in checks : c.result # "VERIFIED_FAIL"
        /\ \A c \in checks : c.role = "CORE" => c.result \notin {"NEEDS_INPUT", "UNVERIFIED"}
        /\ \E c \in checks : c.role = "CORE" /\ c.result # "NOT_APPLICABLE"
  BY DEF EvaluateCiGate
<1> HIDE DEF checks
<1>4. \A c \in checks : c.result # "VERIFIED_FAIL"
  BY <1>1, <1>2 DEF States
<1>5. (\A c \in checks : c.role = "CORE" => c.result \notin {"NEEDS_INPUT", "UNVERIFIED"}) <=>
        \A x \in art.instances : \A a \in x.assertions :
          a.role = "CORE" => a.judged.state \notin {"NEEDS_INPUT", "INDETERMINATE"}
  BY <1>1, <1>2 DEF States
<1>6. ASSUME \A x \in art.instances : \A a \in x.assertions :
               a.role = "CORE" => a.judged.state \notin {"NEEDS_INPUT", "INDETERMINATE"}
      PROVE  (\E c \in checks : c.role = "CORE" /\ c.result # "NOT_APPLICABLE") <=>
               \E x \in art.instances : \E a \in x.assertions : a.role = "CORE" /\ a.judged.state = "APPLICABLE"
  <2>1. ASSUME NEW c \in checks, c.role = "CORE", c.result # "NOT_APPLICABLE"
        PROVE  \E x \in art.instances : \E a \in x.assertions : a.role = "CORE" /\ a.judged.state = "APPLICABLE"
    <3>1. PICK x \in art.instances : \E a \in x.assertions : c.role = a.role /\ c.result = ResultOf(a, "VERIFIED_PASS")
      BY <1>1
    <3>2. PICK a \in x.assertions : c.role = a.role /\ c.result = ResultOf(a, "VERIFIED_PASS")
      BY <3>1
    <3>3. a.judged.state = "APPLICABLE"
      BY <1>2, <1>6, <2>1, <3>2 DEF States
    <3> QED
      BY <2>1, <3>2, <3>3
  <2>2. ASSUME NEW x \in art.instances, NEW a \in x.assertions, a.role = "CORE", a.judged.state = "APPLICABLE"
        PROVE  \E c \in checks : c.role = "CORE" /\ c.result # "NOT_APPLICABLE"
    <3>1. PICK c \in checks : c.role = a.role /\ c.result = ResultOf(a, "VERIFIED_PASS")
      BY <1>1
    <3> QED
      BY <1>2, <2>2, <3>1
  <2> QED
    BY <2>1, <2>2
<1>7. EvaluateCiGate(checks) = "PASSED" <=> GateOpen(art.instances)
  BY <1>3, <1>4, <1>5, <1>6 DEF GateOpen
<1> QED
  BY <1>7 DEF checks

(* A late sequence that is undecided is undecided with less coverage.       *)
LEMMA LateStaysShut ==
  ASSUME NEW g, NEW h, Less(g, h), NEW p, NEW q, q.fulfilment = p.fulfilment, q.late = p.late, NEW c,
         NEW a \in LateAssertions(g, p, c), a.judged.state = "INDETERMINATE"
  PROVE  \E b \in LateAssertions(h, q, c) : b.role = "CORE" /\ b.judged.state \in {"NEEDS_INPUT", "INDETERMINATE"}
<1> DEFINE open(state, reason) == Assertion("SG08_LATE_POLICY", "CORE", Judged(state, reason, {}), c)
           precapture == Assertion("SG08_PRECAPTURE", "CORE", Judged("APPLICABLE", "POLICY_MATRIX_SELECTED", {}), c)
           capture(f) == Assertion("SG08_CAPTURE", "CORE", LateCapture(f, c), c)
           Decided(f, r) == /\ RoutePaymentStates(f, c) # {} /\ RelevantDiagnostics(f, {c}) = {}
                            /\ r.fulfilment = "CAPTURE_REQUIRED"
<1>1. \A state, reason : open(state, reason).role = "CORE" /\ open(state, reason).judged.state = state
  BY DEF Assertion, Judged
<1>2. precapture.judged.state = "APPLICABLE"
  BY DEF Assertion, Judged
<1>3. \A f : capture(f).role = "CORE" /\ capture(f).judged = LateCapture(f, c)
  BY DEF Assertion
<1>4. \A f : LateCapture(f, c).state = IF CapturedGates(f, c) = {} THEN "INDETERMINATE" ELSE "APPLICABLE"
  BY DEF LateCapture, Judged
<1>5. \A f, r : \/ \E state \in {"NEEDS_INPUT", "INDETERMINATE"} : \E reason :
                      /\ LateAssertions(f, r, c) = {open(state, reason)}
                      /\ state = "INDETERMINATE" => ~Decided(f, r)
                \/ /\ Decided(f, r)
                   /\ LateAssertions(f, r, c) = {precapture} \cup (IF r.late = "FULFIL_LATER" THEN {capture(f)} ELSE {})
  BY PolicyStateHolds DEF LateAssertions
<1>6. Decided(h, q) => Decided(g, p)
  <2>1. RelevantDiagnostics(h, {c}) = {} => RelevantDiagnostics(g, {c}) = {}
    BY LessIsSame
  <2>2. RoutePaymentStates(h, c) = RoutePaymentStates(g, c)
    BY DEF Less, RoutePaymentStates
  <2> QED
    BY <2>1, <2>2
<1> HIDE DEF open, precapture, capture, Decided
<1>7. CASE \E state \in {"NEEDS_INPUT", "INDETERMINATE"} : \E reason : LateAssertions(h, q, c) = {open(state, reason)}
  BY <1>1, <1>7
<1>8. CASE Decided(h, q) /\ LateAssertions(h, q, c) = {precapture} \cup (IF q.late = "FULFIL_LATER" THEN {capture(h)} ELSE {})
  <2>1. a = capture(g) /\ p.late = "FULFIL_LATER"
    BY <1>1, <1>2, <1>5, <1>6, <1>8
  <2>2. CapturedGates(g, c) = {}
    BY <1>3, <1>4, <2>1
  <2>3. CapturedGates(h, c) = {}
    BY <2>2, LessGates
  <2>4. capture(h) \in LateAssertions(h, q, c) /\ capture(h).judged.state = "INDETERMINATE"
    BY <1>3, <1>4, <1>8, <2>1, <2>3
  <2> QED
    BY <1>3, <2>4
<1> QED
  BY <1>5, <1>7, <1>8

(* A gate that is open with less coverage is open, if nothing was asked.    *)
LEMMA OpenBefore ==
  ASSUME NEW g, NEW h, Less(g, h), NEW p, NEW q, q.fulfilment = p.fulfilment, q.late = p.late,
         GateOpen(CatalogScenarios(h, q, NormalControls(h))),
         Unasked(CatalogScenarios(g, p, NormalControls(g)))
  PROVE  GateOpen(CatalogScenarios(g, p, NormalControls(g)))
<1> DEFINE X == CatalogScenarios(g, p, NormalControls(g))
           Y == CatalogScenarios(h, q, NormalControls(h))
<1>1. SameGraph(g, h) /\ SameGraph(h, g)
  BY DEF SameGraph, Less
<1>2. ASSUME NEW x \in X, NEW a \in x.assertions, a.role = "CORE" PROVE a.judged.state # "INDETERMINATE"
  <2> SUFFICES ASSUME a.judged.state = "INDETERMINATE" PROVE FALSE
    OBVIOUS
  <2>1. PICK y \in Y : Twin(h, q, x, y)
    BY <1>1, InstanceStays
  <2>2. CASE x.scenario = "SG-08" /\ x.control # None
    <3>1. a \in LateAssertions(g, p, x.control)
      BY <2>2, JudgementsHold DEF LateJudged
    <3>2. y.assertions = LateAssertions(h, q, x.control)
      BY <2>1, <2>2 DEF Twin
    <3> QED
      BY <3>1, <3>2, LateStaysShut DEF GateOpen
  <2>3. CASE ~(x.scenario = "SG-08" /\ x.control # None)
    <3>1. PICK b \in y.assertions : b.key = a.key /\ b.role = a.role
      BY <2>1, <2>3 DEF Twin
    <3>2. Kept(a.judged.state, b.judged.state)
      BY <2>1, <3>1, AssertionIsKept DEF Twin
    <3>3. b.judged.state \in States
      BY StatesHold
    <3>4. b.judged.state \in {"NEEDS_INPUT", "INDETERMINATE"}
      BY <3>2, <3>3 DEF Kept, States
    <3> QED
      BY <1>2, <3>1, <3>4 DEF GateOpen
  <2> QED
    BY <2>2, <2>3
<1>3. \A x \in X : \A a \in x.assertions : a.judged.state \in States \ {"NEEDS_INPUT"}
  BY StatesHold DEF Unasked
<1>4. \E x \in X : \E a \in x.assertions : a.role = "CORE" /\ a.judged.state = "APPLICABLE"
  <2>1. PICK y \in Y : \E b \in y.assertions : b.role = "CORE" /\ b.judged.state = "APPLICABLE"
    BY DEF GateOpen
  <2>2. PICK b \in y.assertions : b.role = "CORE" /\ b.judged.state = "APPLICABLE"
    BY <2>1
  <2>3. PICK x \in X : Twin(g, p, y, x)
    BY <1>1, InstanceStays
  <2>4. CASE y.scenario = "SG-08" /\ y.control # None
    <3>1. x.assertions = LateAssertions(g, p, y.control)
      BY <2>3, <2>4 DEF Twin
    <3>2. PICK a \in x.assertions : a.role = "CORE"
      BY <3>1, LateAssertionsForm, LateStates
    <3>3. a.judged.state \in {"APPLICABLE", "NEEDS_INPUT", "INDETERMINATE"}
      BY <3>1, LateStates
    <3> QED
      BY <1>2, <1>3, <3>2, <3>3
  <2>5. CASE ~(y.scenario = "SG-08" /\ y.control # None)
    <3>1. PICK a \in x.assertions : a.key = b.key /\ a.role = b.role
      BY <2>3, <2>5 DEF Twin
    <3>2. Kept(a.judged.state, b.judged.state)
      BY <2>3, <3>1, AssertionIsKept DEF Twin
    <3> QED
      BY <1>3, <2>2, <3>1, <3>2 DEF Kept, States
  <2> QED
    BY <2>4, <2>5
<1> QED
  BY <1>2, <1>3, <1>4 DEF GateOpen

(* An exact comparison answers as its one match does.                       *)
LEMMA ComparedAs ==
  ASSUME NEW check, NEW checks, \A c \in checks : c.key = check.key => c.result # "NOT_APPLICABLE"
  PROVE  CompareExactCheck(check, checks) # "NOT_APPLICABLE"
<1> DEFINE matches == {c \in checks : c.key = check.key}
           result == (CHOOSE c \in matches : TRUE).result
           answer == CASE result = "VERIFIED_PASS" -> "PROVEN_RESOLVED"
                       [] result = "VERIFIED_FAIL" -> "STILL_VERIFIED_FAIL"
                       [] result = "NOT_APPLICABLE" -> "NOT_APPLICABLE"
                       [] OTHER -> "NOT_PROVEN"
<1>1. CompareExactCheck(check, checks) = IF Cardinality(matches) # 1 THEN "NOT_DIRECTLY_COMPARABLE" ELSE answer
  BY DEF CompareExactCheck
<1>2. CASE Cardinality(matches) # 1
  BY <1>1, <1>2
<1>3. CASE Cardinality(matches) = 1
  <2>1. matches # {}
    BY <1>3, FS_EmptySet
  <2>2. result # "NOT_APPLICABLE"
    BY <2>1
  <2> HIDE DEF result
  <2>3. answer \in {"PROVEN_RESOLVED", "STILL_VERIFIED_FAIL", "NOT_PROVEN"}
    BY <2>2, Zenon
  <2> HIDE DEF answer
  <2> QED
    BY <1>1, <1>3, <2>3
<1> QED
  BY <1>2, <1>3

(* LostCoverageOpensNoGate: lost coverage opens no gate, and calls no       *)
(* failure absent.                                                          *)
THEOREM LostCoverageOpensNone == EngineSpec => []LostCoverageOpensNoGate
<1>1. LostCoverageOpensNoGate
  <2> DEFINE p == PolicyAssessment(graph, NormalControls(graph), config)
             before == PassingChecks(Now)
  <2>1. Now.policy = p /\ Now.instances = CatalogScenarios(graph, p, NormalControls(graph))
    BY DEF Now, EvaluateApplicability
  <2>2. \A x \in Now.instances : \A a \in x.assertions : a.judged.state \in States
    BY <2>1, StatesHold
  <2>3. ASSUME EvaluateCiGate(before) = "PASSED", NEW c \in before, c.role = "CORE"
        PROVE  FindingKind(c) = "none"
    <3>1. c.result # "VERIFIED_FAIL" /\ c.result # "NEEDS_INPUT" /\ c.result # "UNVERIFIED"
      BY <2>3 DEF EvaluateCiGate
    <3> QED
      BY <3>1, Zenon DEF FindingKind
  <2>4. ASSUME NEW route
        PROVE  LET after == PassingChecks(EvaluateApplicability(WithDiagnostic(graph, route), config))
               IN  /\ EvaluateCiGate(after) = "PASSED" =>
                        \/ EvaluateCiGate(before) = "PASSED"
                        \/ \E c \in before : c.result = "NEEDS_INPUT"
                   /\ \A c \in FailingChecks(Now) :
                        c.result = "VERIFIED_FAIL" => CompareExactCheck(c, after) # "NOT_APPLICABLE"
    <3> DEFINE h == WithDiagnostic(graph, route)
               q == PolicyAssessment(h, NormalControls(h), config)
               later == EvaluateApplicability(h, config)
               after == PassingChecks(later)
    <3>1. Less(graph, h)
      BY LessWithDiagnostic
    <3>2. q.fulfilment = p.fulfilment /\ q.late = p.late
      BY DEF PolicyAssessment
    <3>3. later.policy = q /\ later.instances = CatalogScenarios(h, q, NormalControls(h))
      BY DEF EvaluateApplicability
    <3> HIDE DEF h, p, q, later
    <3>4. \A x \in later.instances : \A a \in x.assertions : a.judged.state \in States
      BY <3>3, StatesHold
    <3>5. ASSUME EvaluateCiGate(after) = "PASSED", \A c \in before : c.result # "NEEDS_INPUT"
          PROVE  EvaluateCiGate(before) = "PASSED"
      <4>1. GateOpen(CatalogScenarios(h, q, NormalControls(h)))
        BY <3>3, <3>4, <3>5, GateTells
      <4>2. Unasked(Now.instances)
        <5> SUFFICES ASSUME NEW x \in Now.instances, NEW a \in x.assertions, a.judged.state = "NEEDS_INPUT"
                     PROVE  FALSE
          BY DEF Unasked
        <5>1. ResultOf(a, "VERIFIED_PASS") = "NEEDS_INPUT"
          BY <2>2, ResultsFollow
        <5>2. \E c \in before : c.result = ResultOf(a, "VERIFIED_PASS")
          BY ChecksAre DEF PassingChecks
        <5> QED
          BY <3>5, <5>1, <5>2
      <4>3. GateOpen(Now.instances)
        BY <2>1, <3>1, <3>2, <4>1, <4>2, OpenBefore
      <4> QED
        BY <2>2, <4>3, GateTells
    <3>6. ASSUME NEW c \in FailingChecks(Now), c.result = "VERIFIED_FAIL"
          PROVE  CompareExactCheck(c, after) # "NOT_APPLICABLE"
      <4>1. PICK x \in Now.instances : \E a \in x.assertions :
              c.key = BuildVerificationCheckKey(x, a, p) /\ c.result = ResultOf(a, "VERIFIED_FAIL")
        BY <2>1, ChecksAre DEF FailingChecks
      <4>2. PICK a \in x.assertions : c.key = BuildVerificationCheckKey(x, a, p) /\ c.result = ResultOf(a, "VERIFIED_FAIL")
        BY <4>1
      <4>3. a.judged.state = "APPLICABLE"
        BY <2>2, <3>6, <4>2, ResultsFollow DEF States
      <4>4. ASSUME NEW d \in after, d.key = c.key PROVE d.result # "NOT_APPLICABLE"
        <5>1. PICK y \in later.instances : \E b \in y.assertions :
                d.key = BuildVerificationCheckKey(y, b, q) /\ d.result = ResultOf(b, "VERIFIED_PASS")
          BY <3>3, ChecksAre DEF PassingChecks
        <5>2. PICK b \in y.assertions : d.key = BuildVerificationCheckKey(y, b, q) /\ d.result = ResultOf(b, "VERIFIED_PASS")
          BY <5>1
        <5>3. NormalControls(h) = NormalControls(graph)
          BY <3>1, LessIsSame
        <5>4. x.scenario = y.scenario /\ x.ingress = y.ingress /\ x.control = y.control /\ a.key = b.key
          <6>1. BuildVerificationCheckKey(x, a, p) = BuildVerificationCheckKey(y, b, q)
            BY <4>2, <4>4, <5>2
          <6>2. x \in CatalogScenarios(graph, p, NormalControls(graph)) /\ a \in x.assertions
            BY <2>1, <4>2
          <6>3. y \in CatalogScenarios(h, q, NormalControls(h)) /\ b \in y.assertions
            BY <3>3, <5>2
          <6> QED
            BY <5>3, <6>1, <6>2, <6>3, SameKey
        <5>5. Kept(a.judged.state, b.judged.state)
          BY <2>1, <3>1, <3>2, <3>3, <5>4, AssertionIsKept
        <5>6. b.judged.state \in States \ {"NOT_APPLICABLE"}
          BY <3>4, <4>3, <5>5 DEF Kept
        <5> QED
          BY <5>2, <5>6, ResultsFollow DEF States
      <4> QED
        BY <4>4, ComparedAs
    <3> QED
      BY <3>5, <3>6 DEF h, later
  <2> QED
    BY <2>3, <2>4 DEF LostCoverageOpensNoGate
<1> QED
  BY <1>1, PTL
-----------------------------------------------------------------------------
(* The keys of an instance, by its scenario; an instance that lacks the      *)
(* second assertion of its pair, or that has no policy to choose by, has    *)
(* nothing applicable.                                                      *)
KeysIn(x) == {a.key : a \in x.assertions}
NothingApplies(x) == \A a \in x.assertions : a.judged.state # "APPLICABLE"

Keyed(x) ==
  /\ KeysIn(x) \in AssertionSets(x.scenario)
  /\ x.scenario \in {"SG-04", "SG-05", "SG-06"} => KeysIn(x) = CatalogKeys(x.scenario) \/ NothingApplies(x)
  /\ "SG08_LATE_POLICY" \in KeysIn(x) => NothingApplies(x)

(* The instance of a catalog has one key, and nothing applies.              *)
LEMMA CatalogKeyed ==
  ASSUME NEW s, NEW key, NEW judged, NEW x, x = Catalog(s, key, judged), judged.state # "APPLICABLE"
  PROVE  KeysIn(x) = {key} /\ NothingApplies(x)
<1> DEFINE a == Assertion(key, "CORE", judged, None)
<1>1. x.assertions = {a}
  BY DEF Catalog, Instance
<1>2. a.key = key /\ a.judged = judged
  BY DEF Assertion
<1> HIDE DEF a
<1> QED
  BY <1>1, <1>2 DEF KeysIn, NothingApplies

(* An instance with one assertion has one key.                              *)
LEMMA OneKeyed ==
  ASSUME NEW s, NEW c, NEW key, NEW judged, NEW x, x = OfControl(s, c, {Assertion(key, "CORE", judged, c)})
  PROVE  KeysIn(x) = {key}
<1> DEFINE a == Assertion(key, "CORE", judged, c)
<1>1. x.assertions = {a}
  BY DEF OfControl, Instance
<1>2. a.key = key
  BY DEF Assertion
<1> HIDE DEF a
<1> QED
  BY <1>1, <1>2 DEF KeysIn

(* SG-01, SG-02, SG-03 and SG-07 have one assertion.                        *)
LEMMA Keyed01 ==
  ASSUME NEW g, NEW p, NEW x \in Scenario01(g, p, NormalControls(g))
  PROVE  Keyed(x)
<1>1. \/ x \in {OfControl("SG-01", c, {Assertion("SG01", "CORE", NormalCaptureState(g, p, c), c)}) :
              c \in WebhookControls(NormalControls(g))}
      \/ x = Catalog("SG-01", "SG01", FallbackState(g, Ingresses(g)))
  BY OrCatalogHolds DEF Scenario01
<1>2. KeysIn(x) = {"SG01"}
  <2>1. ASSUME NEW c, x = OfControl("SG-01", c, {Assertion("SG01", "CORE", NormalCaptureState(g, p, c), c)})
        PROVE  KeysIn(x) = {"SG01"}
    BY <2>1, OneKeyed
  <2>2. CASE x = Catalog("SG-01", "SG01", FallbackState(g, Ingresses(g)))
    BY <2>2, CatalogKeyed, FallbackIsNotApplicable
  <2> QED
    BY <1>1, <2>1, <2>2
<1> QED
  BY <1>2, Instances01 DEF Keyed, AssertionSets, CatalogKeys

(* SG-02 has.                                                               *)
LEMMA Keyed02 ==
  ASSUME NEW g, NEW p, NEW x \in Scenario02(g, p, NormalControls(g))
  PROVE  Keyed(x)
<1>1. \/ x \in {OfControl("SG-02", c, {Assertion("SG02", "CORE", DuplicateCaptureState(g, p, c), c)}) :
              c \in WebhookControls(NormalControls(g))}
      \/ x = Catalog("SG-02", "SG02", FallbackState(g, IngressesOf(g, "WEBHOOK")))
  BY OrCatalogHolds DEF Scenario02
<1>2. KeysIn(x) = {"SG02"}
  <2>1. ASSUME NEW c, x = OfControl("SG-02", c, {Assertion("SG02", "CORE", DuplicateCaptureState(g, p, c), c)})
        PROVE  KeysIn(x) = {"SG02"}
    BY <2>1, OneKeyed
  <2>2. CASE x = Catalog("SG-02", "SG02", FallbackState(g, IngressesOf(g, "WEBHOOK")))
    BY <2>2, CatalogKeyed, FallbackIsNotApplicable
  <2> QED
    BY <1>1, <2>1, <2>2
<1> QED
  BY <1>2, Instances02 DEF Keyed, AssertionSets, CatalogKeys

(* SG-03 has.                                                               *)
LEMMA Keyed03 ==
  ASSUME NEW g, NEW p, NEW x \in Scenario03(g, p, NormalControls(g))
  PROVE  Keyed(x)
<1>1. \/ x \in {OfControl("SG-03", c, {Assertion("SG03", "CORE", RetryState(g, p, c), c)}) :
              c \in WebhookControls(NormalControls(g))}
      \/ x = Catalog("SG-03", "SG03", FallbackState(g, IngressesOf(g, "WEBHOOK")))
  BY OrCatalogHolds DEF Scenario03
<1>2. KeysIn(x) = {"SG03"}
  <2>1. ASSUME NEW c, x = OfControl("SG-03", c, {Assertion("SG03", "CORE", RetryState(g, p, c), c)})
        PROVE  KeysIn(x) = {"SG03"}
    BY <2>1, OneKeyed
  <2>2. CASE x = Catalog("SG-03", "SG03", FallbackState(g, IngressesOf(g, "WEBHOOK")))
    BY <2>2, CatalogKeyed, FallbackIsNotApplicable
  <2> QED
    BY <1>1, <2>1, <2>2
<1> QED
  BY <1>2, Instances03 DEF Keyed, AssertionSets, CatalogKeys

(* SG-07 has.                                                               *)
LEMMA Keyed07 ==
  ASSUME NEW g, NEW p, NEW x \in Scenario07(g, p, NormalControls(g))
  PROVE  Keyed(x)
<1> DEFINE cs == NormalControls(g)
           checkout == IngressesOf(g, "CHECKOUT_CALLBACK")
           state == IF checkout # {} THEN FallbackState(g, IngressesOf(g, "WEBHOOK"))
                    ELSE Judged("NOT_APPLICABLE", "CHECKOUT_SURFACE_REQUIRED", {})
           all == {OfControl("SG-07", c, {Assertion("SG07", "CORE", WithoutCallbackState(g, p, cs, c), c)}) :
                     c \in WebhookControls(cs)}
<1>1. state.state # "APPLICABLE"
  BY FallbackIsNotApplicable DEF Judged
<1>2. x \in OrCatalog(IF checkout = {} THEN {} ELSE all, Catalog("SG-07", "SG07", state))
  BY DEF Scenario07
<1>3. x \in all \/ x = Catalog("SG-07", "SG07", state)
  BY <1>2, OrCatalogHolds
<1>4. KeysIn(x) = {"SG07"}
  <2>1. ASSUME NEW c, x = OfControl("SG-07", c, {Assertion("SG07", "CORE", WithoutCallbackState(g, p, cs, c), c)})
        PROVE  KeysIn(x) = {"SG07"}
    BY <2>1, OneKeyed
  <2>2. CASE x = Catalog("SG-07", "SG07", state)
    <3> HIDE DEF state
    <3> QED
      BY <1>1, <2>2, CatalogKeyed
  <2> QED
    BY <1>3, <2>1, <2>2
<1> QED
  BY <1>4, Instances07 DEF Keyed, AssertionSets, CatalogKeys

(* SG-04, SG-05 and SG-06 have two, or the catalog's.                       *)
LEMMA Keyed04 ==
  ASSUME NEW g, NEW p, NEW x \in Scenario04(g, p, NormalControls(g))
  PROVE  Keyed(x)
<1> DEFINE value(c) == Assertion("SG04", "CORE", DuplicateCaptureState(g, p, c), c)
           state(c) == Assertion("SG04_STATE", "OPTIONAL", RegressionState(g, c), c)
<1>1. \/ x \in {OfControl("SG-04", c, {value(c), state(c)}) : c \in WebhookControls(NormalControls(g))}
      \/ x = Catalog("SG-04", "SG04", FallbackState(g, IngressesOf(g, "WEBHOOK")))
  BY OrCatalogHolds DEF Scenario04
<1>2. ASSUME NEW c, x = OfControl("SG-04", c, {value(c), state(c)})
      PROVE  KeysIn(x) = {"SG04", "SG04_STATE"}
  <2>1. x.assertions = {value(c), state(c)}
    BY <1>2 DEF OfControl, Instance
  <2>2. value(c).key = "SG04" /\ state(c).key = "SG04_STATE"
    BY DEF Assertion
  <2> HIDE DEF value, state
  <2> QED
    BY <2>1, <2>2 DEF KeysIn
<1>3. CASE x = Catalog("SG-04", "SG04", FallbackState(g, IngressesOf(g, "WEBHOOK")))
  <2>1. KeysIn(x) = {"SG04"} /\ NothingApplies(x)
    BY <1>3, CatalogKeyed, FallbackIsNotApplicable
  <2> QED
    BY <2>1, Instances04 DEF Keyed, AssertionSets, CatalogKeys
<1>4. CASE \E c : x = OfControl("SG-04", c, {value(c), state(c)})
  <2>1. KeysIn(x) = {"SG04", "SG04_STATE"}
    BY <1>2, <1>4
  <2> QED
    BY <2>1, Instances04 DEF Keyed, AssertionSets, CatalogKeys
<1> QED
  BY <1>1, <1>3, <1>4

(* SG-05 and SG-06 have, by the form of their instances.                    *)
LEMMA TrustKeyed ==
  ASSUME NEW g, NEW cs, NEW s, NEW ingresses, NEW value, NEW mutation,
         NEW x \in TrustScenario(g, cs, s, ingresses, value, mutation)
  PROVE  KeysIn(x) = {value, mutation} \/ (KeysIn(x) = {value} /\ NothingApplies(x))
<1>1. CASE x = Catalog(s, value, FallbackState(g, ingresses))
  BY <1>1, CatalogKeyed, FallbackIsNotApplicable
<1>2. ASSUME NEW i, NEW c, x = TrustInstance(g, s, i, c, value, mutation)
      PROVE  KeysIn(x) = {value, mutation}
  <2> DEFINE m == Assertion(mutation, "CORE", TrustMutationState(g, s, i, c), None)
             v == Assertion(value, "CORE", TrustValueState(g, s, i, c), c)
  <2>1. x.assertions = {m, v}
    BY <1>2 DEF TrustInstance, Instance
  <2>2. m.key = mutation /\ v.key = value
    BY DEF Assertion
  <2> HIDE DEF m, v
  <2> QED
    BY <2>1, <2>2 DEF KeysIn
<1> QED
  BY <1>1, <1>2, TrustForm

(* SG-05 has two.                                                           *)
LEMMA Keyed05 ==
  ASSUME NEW g, NEW p, NEW x \in Scenario05(g, p, NormalControls(g))
  PROVE  Keyed(x)
<1>1. KeysIn(x) = {"SG05", "SG05_MUTATION"} \/ (KeysIn(x) = {"SG05"} /\ NothingApplies(x))
  BY TrustKeyed DEF Scenario05
<1> QED
  BY <1>1, Instances05 DEF Keyed, AssertionSets, CatalogKeys

(* SG-06 has two.                                                           *)
LEMMA Keyed06 ==
  ASSUME NEW g, NEW p, NEW x \in Scenario06(g, p, NormalControls(g))
  PROVE  Keyed(x)
<1>1. KeysIn(x) = {"SG06", "SG06_MUTATION"} \/ (KeysIn(x) = {"SG06"} /\ NothingApplies(x))
  BY TrustKeyed DEF Scenario06
<1> QED
  BY <1>1, Instances06 DEF Keyed, AssertionSets, CatalogKeys

(* SG-08 has what the policies choose.                                      *)
LEMMA LateKeyed ==
  ASSUME NEW g, NEW p, NEW c
  PROVE  LET ks == {a.key : a \in LateAssertions(g, p, c)}
         IN  \/ ks = {"SG08_LATE_POLICY"}
             \/ ks = {"SG08_PRECAPTURE"}
             \/ ks = {"SG08_PRECAPTURE", "SG08_CAPTURE"}
<1> DEFINE open(state, reason) == Assertion("SG08_LATE_POLICY", "CORE", Judged(state, reason, {}), c)
           precapture == Assertion("SG08_PRECAPTURE", "CORE", Judged("APPLICABLE", "POLICY_MATRIX_SELECTED", {}), c)
           capture == Assertion("SG08_CAPTURE", "CORE", LateCapture(g, c), c)
<1>1. /\ precapture.key = "SG08_PRECAPTURE" /\ capture.key = "SG08_CAPTURE"
      /\ \A state, reason : open(state, reason).key = "SG08_LATE_POLICY"
  BY DEF Assertion
<1>2. \/ \E state, reason : LateAssertions(g, p, c) = {open(state, reason)}
      \/ LateAssertions(g, p, c) = {precapture}
      \/ LateAssertions(g, p, c) = {precapture, capture}
  BY DEF LateAssertions
<1> HIDE DEF open, precapture, capture
<1> QED
  BY <1>1, <1>2

(* SG-08 has these, or the catalog's.                                       *)
LEMMA Keyed08 ==
  ASSUME NEW g, NEW p, NEW x \in Scenario08(g, p, NormalControls(g))
  PROVE  Keyed(x)
<1> DEFINE cs == NormalControls(g)
           state == IF WebhookControls(cs) # {} THEN Judged("NOT_APPLICABLE", "LATE_SEQUENCE_NOT_SUPPORTED", {})
                    ELSE FallbackState(g, IngressesOf(g, "WEBHOOK"))
<1>1. \/ \E c \in WebhookControls(cs) : x = OfControl("SG-08", c, LateAssertions(g, p, c))
      \/ x = Catalog("SG-08", "SG08_LATE_POLICY", state)
  BY OrCatalogHolds DEF Scenario08
<1>2. state.state # "APPLICABLE"
  BY FallbackIsNotApplicable DEF Judged
<1>3. ASSUME NEW c, x = OfControl("SG-08", c, LateAssertions(g, p, c))
      PROVE  /\ \/ KeysIn(x) = {"SG08_LATE_POLICY"} \/ KeysIn(x) = {"SG08_PRECAPTURE"}
                \/ KeysIn(x) = {"SG08_PRECAPTURE", "SG08_CAPTURE"}
             /\ "SG08_LATE_POLICY" \in KeysIn(x) => NothingApplies(x)
  <2>1. x.assertions = LateAssertions(g, p, c)
    BY <1>3 DEF OfControl, Instance
  <2>2. \/ KeysIn(x) = {"SG08_LATE_POLICY"} \/ KeysIn(x) = {"SG08_PRECAPTURE"}
        \/ KeysIn(x) = {"SG08_PRECAPTURE", "SG08_CAPTURE"}
    BY <2>1, LateKeyed DEF KeysIn
  <2>3. ASSUME "SG08_LATE_POLICY" \in KeysIn(x), NEW a \in x.assertions
        PROVE  a.judged.state # "APPLICABLE"
    <3>1. a.key \in KeysIn(x)
      BY DEF KeysIn
    <3>2. a.key = "SG08_LATE_POLICY"
      BY <2>2, <2>3, <3>1
    <3> QED
      BY <2>1, <3>2, LateAssertionsHold
  <2> QED
    BY <2>2, <2>3 DEF NothingApplies
<1>4. CASE x = Catalog("SG-08", "SG08_LATE_POLICY", state)
  <2> HIDE DEF state
  <2>1. KeysIn(x) = {"SG08_LATE_POLICY"} /\ NothingApplies(x)
    BY <1>2, <1>4, CatalogKeyed
  <2> QED
    BY <2>1, Instances08 DEF Keyed, AssertionSets, CatalogKeys
<1>5. CASE \E c \in WebhookControls(cs) : x = OfControl("SG-08", c, LateAssertions(g, p, c))
  BY <1>3, <1>5, Instances08 DEF Keyed, AssertionSets, CatalogKeys
<1> QED
  BY <1>1, <1>4, <1>5

(* Every instance has the keys of its scenario.                             *)
LEMMA InstancesKeyed ==
  ASSUME NEW g, NEW p, NEW x \in CatalogScenarios(g, p, NormalControls(g))
  PROVE  Keyed(x)
BY Keyed01, Keyed02, Keyed03, Keyed04, Keyed05, Keyed06, Keyed07, Keyed08 DEF CatalogScenarios

(* The states of an instance are those of its assertions.                   *)
LEMMA StatesOfAssertions ==
  ASSUME NEW xs, \A a, b \in xs : a.key = b.key => a = b
  PROVE  /\ DOMAIN StatesOf(xs) = {a.key : a \in xs}
         /\ \A a \in xs : StatesOf(xs)[a.key] = a.judged.state
<1>1. ASSUME NEW a \in xs PROVE (CHOOSE b \in xs : b.key = a.key) = a
  OBVIOUS
<1> QED
  BY <1>1 DEF StatesOf

(* What the executors assume of an instance (InstancesAssumption of         *)
(* ScenarioExecution), the engine gives them on every graph: one assertion  *)
(* for each key of the scenario, in one of four states, and nothing that    *)
(* can be executed where a key is missing or no policy chose.               *)
EngineInstancesValid == \A x \in Now.instances : StatesValid(x.scenario, StatesOf(x.assertions))

THEOREM InstancesAreValid == EngineSpec => []EngineInstancesValid
<1>1. EngineInstancesValid
  <2> DEFINE p == Now.policy
  <2>1. Now.instances = CatalogScenarios(graph, p, NormalControls(graph))
    BY DEF Now, EvaluateApplicability
  <2> HIDE DEF p
  <2>2. ASSUME NEW x \in Now.instances
        PROVE  StatesValid(x.scenario, StatesOf(x.assertions))
    <3>1. Keyed(x)
      BY <2>1, InstancesKeyed
    <3>2. x.scenario \in Scenarios /\ Formed(graph, x)
      BY <2>1, InstancesHold DEF Scenarios
    <3>3. \A a \in x.assertions : a.judged.state \in States
      BY <2>1, StatesHold
    <3>4. /\ DOMAIN StatesOf(x.assertions) = KeysIn(x)
          /\ \A a \in x.assertions : StatesOf(x.assertions)[a.key] = a.judged.state
      BY <3>2, StatesOfAssertions DEF Formed, KeysIn
    <3>5. ASSUME NEW k \in KeysIn(x)
          PROVE  /\ StatesOf(x.assertions)[k] \in States
                 /\ StatesOf(x.assertions)[k] = "APPLICABLE" => ~NothingApplies(x)
      <4>1. PICK a \in x.assertions : a.key = k
        BY DEF KeysIn
      <4> QED
        BY <3>3, <3>4, <4>1 DEF NothingApplies
    <3> QED
      BY <3>1, <3>2, <3>4, <3>5 DEF Keyed, StatesValid, States
  <2> QED
    BY <2>2 DEF EngineInstancesValid
<1> QED
  BY <1>1, PTL
=============================================================================
