-------------------------- MODULE MCVerificationRun --------------------------
(* The instances are those of the applicability engine, for a number of     *)
(* merchants and every pair of policies, confirmed on the source as it is;  *)
(* the routes are those of modules that are written below.                  *)
EXTENDS VerificationRun, RouteTables

E == INSTANCE MCApplicability WITH Sources <- {}, MaxEdits <- 0, graph <- 0, config <- 0, basis <- 0, edits <- 0

Policies(g) ==
  LET cs == E!NormalControls(g)
      Of(value, evidence) == [value |-> value, evidence |-> evidence]
  IN  {[fulfilment |-> Of(f, E!FulfilmentEvidence(g, cs)), late |-> Of(l, E!LateEvidence(g, cs))] :
         f \in {"none", "CAPTURE_REQUIRED", "AUTHORIZED_ALLOWED"},
         l \in {"none", "DO_NOT_FULFIL", "FULFIL_LATER"}}

Assigned(i, state) ==
  {n \in UNION {a.judged.nodes : a \in i.assertions} : n.kind = "mutation" /\ n.assigned = state}

Summary(i, p) ==
  [kind |-> "instance", scenario |-> i.scenario, control |-> i.control # E!None,
   states |-> StatesOf(i.assertions),
   ingresses |-> IF i.ingress = E!None THEN 0 ELSE 1,
   binding |-> i.ingress # E!None /\ i.ingress.binding,
   pair |-> Cardinality(Assigned(i, "captured")) = 1 /\ Cardinality(Assigned(i, "authorized")) = 1,
   policy |-> IF i.scenario = "SG-08"
              THEN [fulfilment |-> p.fulfilment, late |-> p.late,
                    current |-> p.current, late_current |-> p.late_current]
              ELSE None]

Analysed(g, cf) ==
  LET art == E!EvaluateApplicability(g, cf)
  IN  {Summary(i, art.policy) : i \in art.instances}

MCInstances == UNION {UNION {Analysed(g, cf) : cf \in Policies(g)} : g \in E!MCSources}

(* A run: SG-01 and SG-04 of a webhook with everything, or SG-01 and an     *)
(* SG-08 that is not applicable.                                            *)
Whole(s) ==
  CHOOSE x \in MCInstances :
    /\ x.scenario = s /\ x.control /\ x.pair = (s = "SG-04")
    /\ \A k \in DOMAIN x.states : x.states[k] = "APPLICABLE"
Absent(s) ==
  CHOOSE x \in MCInstances : x.scenario = s /\ \A k \in DOMAIN x.states : x.states[k] = "NOT_APPLICABLE"
MCCatalogs == {<<Whole("SG-01"), Whole("SG-04")>>, <<Whole("SG-01"), Absent("SG-08")>>}
ASSUME Cardinality(MCInstances) > 0
-----------------------------------------------------------------------------
(* Modules of merchants: an application and a router, with any three        *)
(* registrations; a router in a router; odd paths and methods; names that   *)
(* are bound twice; and a customer value that is, or is not, what runs.     *)
New(name, kind, prefix) == [st |-> "new", name |-> name, kind |-> kind, prefix |-> prefix]
Alias(name, of) == [st |-> "alias", name |-> name, of |-> of]
Other(name, live) == [st |-> "other", name |-> name, live |-> live]
Route(on, methods, path, owner) ==
  [st |-> "route", on |-> on, methods |-> methods, path |-> path, owner |-> owner, executed |-> TRUE, wrapped |-> FALSE]
Include(into, of, prefix) == [st |-> "include", into |-> into, of |-> of, prefix |-> prefix, executed |-> TRUE]
Branch(s) == [s EXCEPT !.executed = FALSE]

Made(prefix) == <<New("app", "FASTAPI_APP", <<>>), New("router", "API_ROUTER", prefix)>>
Post == <<"POST">>
Steps ==
  {Route("app", Post, <<"hook">>, "f"), Route("app", Post, <<"hook">>, "g"), Route("app", <<"GET", "POST">>, <<"{id}">>, "f"),
   Route("router", Post, <<"hook">>, "f"), Route("router", Post, <<"{id}">>, "g"),
   [Route("router", Post, <<"hook">>, "f") EXCEPT !.wrapped = TRUE],
   Branch(Route("app", Post, <<"hook">>, "f")),
   Include("app", "router", <<>>), Include("app", "router", <<"v1">>), Branch(Include("app", "router", <<>>)),
   Other("router", "instance"), Other("app", "keeps"), New("router", "API_ROUTER", <<>>),
   New("router", "API_ROUTER", <<"v2">>), Alias("api", "app"),
   Route("api", Post, <<"hook">>, "f")}
Texts == {Made(<<>>) \o s : s \in [1..3 -> Steps]}
Program(text, target) ==
  [text |-> text, target |-> target, customer |-> "function", replaced |-> FALSE, instruction |-> TRUE]

Nested ==
  {<<New("app", "FASTAPI_APP", <<>>), New("router", "API_ROUTER", <<"v1">>), New("inner", "API_ROUTER", q)>> \o s \o
   <<Include(x, y, u)>> \o t :
     q \in {<<>>, <<"in">>, NoPath}, u \in {<<>>, <<"x">>, NoPath}, x \in {"app", "router", "inner"}, y \in {"router", "inner"},
     s \in {<<Route("inner", Post, <<"hook">>, "f"), Include("router", "inner", <<>>)>>,
            <<Route("inner", Post, <<"hook">>, "f"), Include("router", "inner", <<>>), Include("inner", "router", <<>>)>>,
            <<Include("app", "inner", <<>>), Route("inner", Post, <<"hook">>, "f")>>,
            <<Route("inner", Post, <<"">>, "f"), Route("app", Post, <<"v1", "hook">>, "g")>>},
     t \in {<<>>, <<Include("app", "router", <<>>)>>, <<Include("app", "inner", <<>>)>>}}
Odd ==
  {Made(<<"v1">>) \o <<Route(x, m, path, "f"), Include("app", "router", <<>>), Route("app", Post, <<"v1", "hook">>, y)>> :
     x \in {"app", "router", "absent"}, m \in {<<"POST", "POST">>, <<"POST", "FETCH">>, NoPath},
     path \in {<<>>, <<"">>, <<"hook">>, <<"v1", "hook">>, NoPath}, y \in {"f", "g"}}
Apps ==
  {<<New("app", "FASTAPI_APP", <<>>), Route("app", Post, <<"hook">>, "f"), s, Route("app", Post, <<"hook">>, "g")>> :
     s \in {New("app", "FASTAPI_APP", <<>>), New("other", "FASTAPI_APP", <<>>), Alias("app", "other"), Alias("other", "app"),
            Alias("app", "app"), Other("app", "nothing"), Other("app", "instance"), New("app", "API_ROUTER", <<>>)}}
Loops(t) == \E i \in DOMAIN t : t[i].st = "include" /\ t[i].into = t[i].of
MCPrograms == {Program(t, "none") : t \in {x \in Texts \cup Nested \cup Odd : ~Loops(x)}}
  \cup {Program(t, n) : t \in Apps, n \in {"none", "app", "other"}}
  \cup {[Program(Made(<<>>) \o <<Route("app", Post, <<"hook">>, "f")>>, "app") EXCEPT !.customer = c, !.replaced = r, !.instruction = i] :
        c \in {"function", "generator", "unresolved"}, r, i \in BOOLEAN}

(* A run is executed, or the routes of a module are reconciled.             *)
RunsInit == Init /\ program = <<>>
ProgramsInit ==
  /\ source = Expected /\ runtime = "managed" /\ edits = 0 /\ Idle
  /\ rpc = "none" /\ queue = <<>> /\ catalog = <<>>
  /\ runConfig = "none" /\ finalRuntime = "none" /\ collected = {} /\ spans = Expected
  /\ ArtifactInit /\ RoutesInit
MCSpec == (RunsInit \/ ProgramsInit) /\ [][Next /\ UNCHANGED program]_<<allVars, program>>
=============================================================================
