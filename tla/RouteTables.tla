----------------------------- MODULE RouteTables -----------------------------
(***************************************************************************)
(* From the text of a merchant's module to the routes that its application *)
(* serves.  The text says which routes there are (discovery/fastapi.py)    *)
(* and how routers compose (graph/reachability.py); a worker imports it    *)
(* and looks for each of them in the live table (runtime/routes.py); the   *)
(* parent makes a capability of what was found (runtime/capability.py).    *)
(* A scenario sends its requests to the path of a route, and takes what    *)
(* answers for that route.                                                 *)
(*                                                                         *)
(* A program is a sequence of statements of its module.  A name is bound   *)
(* by "new" (FastAPI or APIRouter), by "alias" (another name), or by       *)
(* "other", whose value cannot be read: a conditional assignment, a call.  *)
(* "route" is a decorator, "include" a call of include_router; both may be *)
(* in a branch that is not executed.  Paths and prefixes are sequences of  *)
(* segments: "/" is <<"">>, and "" is <<>>.                                *)
(***************************************************************************)
EXTENDS Naturals, Sequences, FiniteSets, SequencesExt

CONSTANTS Programs
VARIABLE program

NoPath == <<"unreadable">>
HttpMethods == {"GET", "PUT", "POST", "DELETE", "OPTIONS", "HEAD", "PATCH", "TRACE"}
Parameters == {"{id}", "{ref}"}

(* An application has no prefix.                                            *)
StatementValid(s) ==
  CASE s.st = "new" -> /\ s.kind \in {"FASTAPI_APP", "API_ROUTER"} /\ s.prefix \in Seq(STRING)
                       /\ s.kind = "FASTAPI_APP" => s.prefix = <<>>
    [] s.st = "route" -> s.methods \in Seq(STRING) /\ s.path \in Seq(STRING)
    [] s.st = "include" -> s.prefix \in Seq(STRING)
    [] OTHER -> s.st \in {"alias", "other"}
ProgramValid(p) ==
  /\ Len(p.text) \in Nat /\ DOMAIN p.text = 1 .. Len(p.text)
  /\ \A i \in DOMAIN p.text : StatementValid(p.text[i])
  /\ p.customer \in {"function", "generator", "unresolved"}
ASSUME ProgramsAssumption == \A p \in Programs : ProgramValid(p)

Statements(p, st) == {i \in DOMAIN p.text : p.text[i].st = st}
End(p) == Len(p.text) + 1
-----------------------------------------------------------------------------
(* What the text says (discovery/fastapi.py).  An instance is named by the  *)
(* place of the statement that makes it; 0 is none.                         *)
Binding(p) == Statements(p, "new") \cup Statements(p, "alias") \cup Statements(p, "other")
Names(p) == {p.text[i].name : i \in Binding(p)}
LatestBinding(p, name, before) ==
  LET at == {i \in Binding(p) : i < before /\ p.text[i].name = name}
  IN  IF at = {} THEN 0 ELSE Max(at)

(* What the name that a statement binds stands for there, after the names   *)
(* that were seen.                                                          *)
Bindings(p) ==
  LET instance[i \in DOMAIN p.text] ==
        [seen \in SUBSET Names(p) |->
          LET s == p.text[i]
              of == LatestBinding(p, s.of, i)
          IN  IF s.st = "new" THEN i
              ELSE IF s.st = "alias" /\ of # 0 /\ s.of \notin seen THEN instance[of][seen \cup {s.of}] ELSE 0]
  IN  instance
Instance(p, name, before) ==
  LET i == LatestBinding(p, name, before)
  IN  IF i = 0 THEN 0 ELSE Bindings(p)[i][{name}]

(* framework_instance_id: the binding, the kind, and how often the name was *)
(* bound to an instance before.                                             *)
InstanceId(p, i) ==
  <<p.text[i].name, p.text[i].kind,
    Cardinality({j \in Statements(p, "new") : j < i /\ p.text[j].name = p.text[i].name})>>

RouteRefused(p, i) ==
  LET s == p.text[i]
  IN  Instance(p, s.on, i) = 0 \/ s.path \in {NoPath, <<>>} \/ s.methods = NoPath
RouteRecords(p) ==
  UNION {{[at |-> <<i, k>>, registrar |-> Instance(p, p.text[i].on, i), owner |-> p.text[i].owner,
           method |-> p.text[i].methods[k], path |-> p.text[i].path] :
            k \in {x \in DOMAIN p.text[i].methods : p.text[i].methods[x] \in HttpMethods}} :
         i \in {x \in Statements(p, "route") : ~RouteRefused(p, x)}}

IncludeRefused(p, i) ==
  LET router == Instance(p, p.text[i].of, i)
  IN  Instance(p, p.text[i].into, i) = 0 \/ router = 0 \/ p.text[router].kind # "API_ROUTER"
IncludeRecords(p) ==
  {[at |-> i, parent |-> Instance(p, p.text[i].into, i), router |-> Instance(p, p.text[i].of, i),
    prefix |-> p.text[i].prefix] : i \in {x \in Statements(p, "include") : ~IncludeRefused(p, x)}}

ActiveApps(p) ==
  {i \in Statements(p, "new") : p.text[i].kind = "FASTAPI_APP" /\ Instance(p, p.text[i].name, End(p)) = i}
SelectedApps(p) ==
  IF p.target # "none" THEN {i \in ActiveApps(p) : p.text[i].name = p.target}
  ELSE IF Cardinality(ActiveApps(p)) = 1 THEN ActiveApps(p) ELSE {}

AmbiguousNames(p) ==
  {n \in {p.text[i].name : i \in Statements(p, "new")} : Instance(p, n, End(p)) = 0}

(* Every diagnostic of the analysis reduces its coverage.                   *)
IndexPartial(p) ==
  \/ AmbiguousNames(p) # {} \/ SelectedApps(p) = {}
  \/ \E i \in Statements(p, "new") : p.text[i].kind = "API_ROUTER" /\ p.text[i].prefix = NoPath
  \/ \E i \in Statements(p, "include") : IncludeRefused(p, i) \/ p.text[i].prefix = NoPath
  \/ \E i \in Statements(p, "route") :
       RouteRefused(p, i) \/ \E k \in DOMAIN p.text[i].methods : p.text[i].methods[k] \notin HttpMethods
-----------------------------------------------------------------------------
(* How routers compose (graph/reachability.py).  A chain is the sequence of *)
(* the includes that lead from the application to a router.                 *)
Unresolved(p, c) == c.prefix = NoPath \/ p.text[c.router].prefix = NoPath

Walked(p, w) ==
  {c \in IncludeRecords(p) : c.parent = Last(w.stack) /\ ~Unresolved(p, c) /\ c.router \notin ToSet(w.stack)}
Walk(includes, stack) == [includes |-> includes, stack |-> stack]
WalksOfLength(p) ==
  LET walks[n \in 0 .. Len(p.text)] ==
        IF n = 0 THEN {Walk(<<>>, <<app>>) : app \in SelectedApps(p)}
        ELSE UNION {{Walk(Append(w.includes, c), Append(w.stack, c.router)) : c \in Walked(p, w)} : w \in walks[n - 1]}
  IN  walks
Walks(p) == UNION {WalksOfLength(p)[n] : n \in 0 .. Len(p.text)}

CompositionPartial(p) ==
  \E w \in Walks(p) : \E c \in IncludeRecords(p) :
    c.parent = Last(w.stack) /\ (Unresolved(p, c) \/ c.router \in ToSet(w.stack))

(* include_occurrence_anchor: the first of two alike is 0, the other 1.     *)
Anchor(p, c) ==
  LET alike == {d \in IncludeRecords(p) : d.at < c.at /\ [d EXCEPT !.at = 0] = [c EXCEPT !.at = 0]}
  IN  <<InstanceId(p, c.parent), InstanceId(p, c.router), c.prefix, Cardinality(alike)>>

Before(x, y) == x[1] < y[1] \/ (x[1] = y[1] /\ x[2] < y[2])
RouteId(p, w, r) ==
  LET alike == {q \in RouteRecords(p) : Before(q.at, r.at) /\ [q EXCEPT !.at = r.at] = r}
  IN  <<InstanceId(p, w.stack[1]), [i \in DOMAIN w.includes |-> Anchor(p, w.includes[i])],
        InstanceId(p, r.registrar), r.owner, r.method, r.path, Cardinality(alike)>>

Composed(p, includes) ==
  LET prefix[n \in 0 .. Len(includes)] ==
        IF n = 0 THEN <<>> ELSE prefix[n - 1] \o includes[n].prefix \o p.text[includes[n].router].prefix
  IN  prefix
ComposePath(p, w, path) == Composed(p, w.includes)[Len(w.includes)] \o path

EffectiveRoutes(p) ==
  UNION {{[from |-> <<w.includes, r.at>>, id |-> RouteId(p, w, r), owner |-> r.owner, method |-> r.method,
           path |-> ComposePath(p, w, r.path)] : r \in {x \in RouteRecords(p) : x.registrar = Last(w.stack)}} :
         w \in Walks(p)}

GraphPartial(p) == IndexPartial(p) \/ CompositionPartial(p)
-----------------------------------------------------------------------------
(* What the import makes of it: names are bound to objects, objects have    *)
(* tables, and include_router copies the table of that moment.              *)
LiveRoute(s, prefix) ==
  [path |-> prefix \o s.path, methods |-> IF s.methods = NoPath THEN {"POST"} ELSE ToSet(s.methods),
   code |-> IF s.wrapped THEN "wrapper" ELSE s.owner]

Prefix(p, object) == IF object \in Statements(p, "new") THEN p.text[object].prefix ELSE <<>>
Object(live, name) == IF name \in DOMAIN live.names THEN live.names[name] ELSE 0
Copies(table, prefix) == [n \in DOMAIN table |-> [table[n] EXCEPT !.path = prefix \o @]]
Bound(live, name, object) == [live EXCEPT !.names[name] = object]

Executed(p, live, i) ==
  LET s == p.text[i]
  IN  CASE s.st = "new" -> Bound(live, s.name, i)
        [] s.st = "alias" -> Bound(live, s.name, Object(live, s.of))
        [] s.st = "other" -> IF s.live = "keeps" THEN live ELSE Bound(live, s.name, IF s.live = "instance" THEN i ELSE 0)
        [] s.st = "route" ->
             LET on == Object(live, s.on)
             IN  IF ~s.executed \/ on = 0 THEN live
                 ELSE [live EXCEPT !.tables[on] = Append(@, LiveRoute(s, Prefix(p, on)))]
        [] s.st = "include" ->
             LET into == Object(live, s.into)
                 of == Object(live, s.of)
             IN  IF ~s.executed \/ into = 0 \/ of = 0 THEN live
                 ELSE [live EXCEPT !.tables[into] = @ \o Copies(live.tables[of], Prefix(p, into) \o s.prefix)]
Live(p) ==
  LET live[n \in 0 .. Len(p.text)] ==
        IF n = 0 THEN [names |-> [name \in Names(p) |-> 0], tables |-> [i \in DOMAIN p.text |-> <<>>]]
        ELSE Executed(p, live[n - 1], n)
  IN  live
Import(p) == Live(p)[Len(p.text)]

(* The table of the application that the worker imports by its name.        *)
LiveTable(p) ==
  LET live == Import(p)
      apps == {live.names[p.text[i].name] : i \in SelectedApps(p)} \ {0}
  IN  IF apps = {} THEN <<>> ELSE live.tables[CHOOSE object \in apps : TRUE]

(* A request is answered by the first route that has its method and whose   *)
(* path matches: a parameter matches any segment that is not empty.         *)
Matches(pattern, path) ==
  /\ Len(pattern) = Len(path)
  /\ \A i \in DOMAIN path : pattern[i] = path[i] \/ (pattern[i] \in Parameters /\ path[i] # "")
Answers(table, b) ==
  LET matching == {n \in DOMAIN table : b.method \in table[n].methods /\ Matches(table[n].path, b.path)}
  IN  IF matching = {} THEN 0 ELSE Min(matching)
-----------------------------------------------------------------------------
(* What the worker finds of a plan (runtime/routes.py).                     *)
Same(route, b) == route.path = b.path /\ b.method \in route.methods
RouteCandidates(table, b) == {n \in DOMAIN table : Same(table[n], b) /\ table[n].code = b.owner}

(* Mutant of RouteIsShadowed: the order of the table is not looked at.      *)
RouteIsNeverShadowed(table, n, b) == FALSE
RouteIsShadowed(table, n, b) == \E m \in 1 .. n - 1 : Same(table[m], b)

(* For each ingress of the plan the route it is attached to, or 0.          *)
Attached(table, before, b) ==
  LET found == RouteCandidates(table, b)
      n == CHOOSE x \in found : TRUE
  IN  IF Cardinality(found) # 1 \/ n \in ToSet(before) \/ RouteIsShadowed(table, n, b) THEN 0 ELSE n
Attaching(table, plan) ==
  LET attached[i \in 0 .. Len(plan)] ==
        IF i = 0 THEN <<>> ELSE LET before == attached[i - 1] IN Append(before, Attached(table, before, plan[i]))
  IN  attached
AttachExactRoutes(table, plan) == Attaching(table, plan)[Len(plan)]
-----------------------------------------------------------------------------
(* What the parent makes of it (runtime/capability.py).                     *)
PreparedCustomer(p) == p.customer # "unresolved"
LiveCustomer(p) == PreparedCustomer(p) /\ ~p.replaced
PreparedMutation(p) == p.instruction
LiveMutation(p) == PreparedMutation(p) /\ ~p.replaced

RouteAssessment(plan, mode, attached, i) ==
  LET alike == {j \in DOMAIN plan : plan[j].method = plan[i].method /\ plan[j].path = plan[i].path}
  IN  CASE mode = "STATIC" -> "UNAVAILABLE"
        [] mode = "BYO" -> IF Cardinality(alike) = 1 THEN "PARTIAL" ELSE "UNAVAILABLE"
        [] mode = "MANAGED" -> IF attached[i] # 0 THEN "COMPLETE" ELSE "UNAVAILABLE"

BuildCapability(p, plan, mode, attached, i) ==
  LET route == RouteAssessment(plan, mode, attached, i)
      traced == mode = "MANAGED" /\ route # "UNAVAILABLE"
      client == IF mode = "BYO" /\ route # "UNAVAILABLE" THEN "PARTIAL" ELSE "UNAVAILABLE"
  IN  [addressability |-> route,
       correlation |-> IF mode = "MANAGED" THEN route ELSE client,
       acknowledgement |-> IF mode = "MANAGED" THEN route ELSE client,
       customer |-> IF ~traced \/ ~LiveCustomer(p) THEN "UNAVAILABLE"
                    ELSE IF p.customer = "generator" THEN "PARTIAL" ELSE "COMPLETE",
       mutation |-> IF traced /\ LiveMutation(p) THEN "COMPLETE" ELSE "UNAVAILABLE"]
-----------------------------------------------------------------------------
RoutesInit == \E p \in Programs : program = <<p>>

(* Where nothing reduced the graph's coverage, the graph has every route    *)
(* and method that the application serves, as often as it serves it.        *)
CoverageIsWhole(p) ==
  LET table == LiveTable(p)
      routes == EffectiveRoutes(p)
      served == {x \in (DOMAIN table) \X HttpMethods : x[2] \in table[x[1]].methods}
  IN  GraphPartial(p) \/
        \A x \in served :
          LET Alike(r) == r.path = table[x[1]].path /\ r.method = x[2]
              Twin(y) == table[y[1]].path = table[x[1]].path /\ y[2] = x[2]
          IN  /\ Cardinality({r \in routes : Alike(r)}) >= Cardinality({y \in served : Twin(y)})
              /\ table[x[1]].code = "wrapper" \/ \E r \in routes : Alike(r) /\ r.owner = table[x[1]].code

(* A route that a session claims is the one that answers its requests,      *)
(* with the indexed code, and answers for no other; only a route with a     *)
(* parameter can take its requests.  What is found alone and answers is     *)
(* claimed.                                                                 *)
ClaimsAreTrue(p, plan) ==
  LET table == LiveTable(p)
      attached == AttachExactRoutes(table, plan)
      Capability(i) == BuildCapability(p, plan, "MANAGED", attached, i)
  IN  \A i \in DOMAIN plan :
        LET answer == Answers(table, plan[i])
            own == {n \in DOMAIN table : Same(table[n], plan[i]) /\ table[n].code = plan[i].owner}
        IN  /\ Capability(i).addressability = "COMPLETE" =>
                 /\ answer # 0 /\ Cardinality(own) = 1
                 /\ Same(table[answer], plan[i]) => answer \in own
                 /\ \A j \in DOMAIN plan \ {i} : attached[j] # attached[i]
            /\ own = {answer} => answer \in ToSet(attached)
            /\ Capability(i).customer = "COMPLETE" =>
                 Capability(i).correlation = "COMPLETE" /\ ~p.replaced /\ p.customer = "function"

(* No other mode claims an observation, and no two routes that it can       *)
(* address are one for a client.                                            *)
ClientsAreNotMistaken(p, plan) ==
  \A mode \in {"STATIC", "BYO"}, i \in DOMAIN plan :
    LET c == BuildCapability(p, plan, mode, <<>>, i)
    IN  /\ "COMPLETE" \notin {c.addressability, c.correlation, c.acknowledgement, c.customer, c.mutation}
        /\ c.addressability = "PARTIAL" =>
             \A j \in DOMAIN plan \ {i} : plan[j].method # plan[i].method \/ plan[j].path # plan[i].path

(* The routes of a capability are those of the application: every effective *)
(* route has an identity of its own, none is missing from a whole graph,    *)
(* and whichever of them are the ingresses of a plan, in whatever order     *)
(* their identities put them, an observation is of the route it names.      *)
RoutesAreReconciled ==
  program # <<>> =>
    LET p == program[1]
        routes == EffectiveRoutes(p)
    IN  /\ Cardinality({r.id : r \in routes}) = Cardinality(routes)
        /\ CoverageIsWhole(p)
        /\ \A plan \in SetToAllKPermutations(routes) : ClaimsAreTrue(p, plan) /\ ClientsAreNotMistaken(p, plan)
=============================================================================
