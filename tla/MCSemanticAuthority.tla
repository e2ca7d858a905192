------------------------- MODULE MCSemanticAuthority -------------------------
(* A merchant with a webhook (1) that calls two callables (2 and 3), and a  *)
(* callable that payment does not reach (4), which calls another (5).       *)
EXTENDS SemanticAuthority, SafetyGraph, SequencesExt

Calls(x, y) == [caller |-> x, callee |-> y]

Base ==
  [symbols |-> 1..5, callable |-> 1..5, owners |-> {1}, ingress |-> {1},
   body |-> [x \in 1..5 |-> "a"], size |-> [x \in 1..5 |-> 1],
   file |-> [x \in 1..5 |-> IF x < 4 THEN 1 ELSE 2], label |-> [x \in 1..5 |-> "webhook"],
   calls |-> {Calls(1, 2), Calls(1, 3), Calls(4, 5)}, unresolved |-> {},
   diagnostics |-> {[kind |-> "source", at |-> 2], [kind |-> "graph", at |-> 4]}]

MCCode ==
  [plain |-> Base,
   helper |-> [Base EXCEPT !.body[3] = "b"],
   elsewhere |-> [Base EXCEPT !.body[5] = "b"],
   rerouted |-> [Base EXCEPT !.calls = {Calls(1, 3), Calls(3, 2), Calls(4, 5)}],
   route |-> [Base EXCEPT !.owners = {1, 2}],
   crowded |-> [Base EXCEPT !.calls = @ \cup {Calls(3, 4)}],
   large |-> [Base EXCEPT !.size[2] = 4],
   unresolved |-> [Base EXCEPT !.unresolved = {3}]]

Raw(x, cites) == [symbol |-> x, cites |-> cites]
MCAnswers == {<<>>, <<Raw(2, {2})>>, <<Raw(2, {2}), Raw(3, {3})>>, <<Raw(2, {2}), Raw(3, {2}), Raw(3, {3})>>}

(* Bodies of functions are written as trees, whose blocks are sequences of  *)
(* statements, and laid out as texts.                                       *)
Nothing == [role |-> "nothing"]
Compound(kind, parts) == [kind |-> kind, parts |-> parts, does |-> Nothing, default |-> FALSE]
Plain(kind) == Compound(kind, <<>>)
If(then, orelse) == Compound("if", <<then, orelse>>)
Match(cases, default) == [Compound("match", cases) EXCEPT !.default = default]
Loop(repeated, orelse) == Compound("loop", <<repeated, orelse>>)
With(managed) == Compound("with", <<managed>>)
Try(tried, handlers, orelse, final) == Compound("try", <<tried>> \o handlers \o <<orelse, final>>)

RECURSIVE Laid(_, _)
Laid(tree, at) ==
  LET Statement(s, here) ==
        LET inner == FoldLeft(LAMBDA acc, part :
                                LET laid == Laid(part, here + 1 + Len(acc.text))
                                    first == here + 1 + Len(acc.text)
                                IN  [text |-> acc.text \o laid,
                                     parts |-> Append(acc.parts, Block(first, first + Len(laid) - 1))],
                              [text |-> <<>>, parts |-> <<>>], s.parts)
        IN  <<[s EXCEPT !.parts = inner.parts]>> \o inner.text
  IN  FoldLeft(LAMBDA text, s : text \o Statement(s, at + Len(text)), <<>>, tree)
Text(tree) == Laid(tree, 1)

(* A compound statement, or one in another, with a call after it.           *)
C == Plain("call")
R == Plain("return")
X == Plain("raise")
Jumps == {Plain("break"), Plain("continue")}
Leaves == {<<C>>, <<R>>, <<X>>}
Simple ==
  {If(a, b) : a \in Leaves, b \in Leaves \cup {<<>>}}
  \cup {Match(<<a, b>>, d) : a, b \in Leaves, d \in BOOLEAN}
  \cup {Loop(a, b) : a \in Leaves \cup {<<Plain("continue")>>}, b \in {<<>>, <<C>>}}
  \cup {Loop(<<If(<<k>>, <<>>), C>>, e) : k \in Jumps, e \in {<<>>, <<C>>}}
  \cup UNION {{Loop(<<Try(<<C>>, hs, <<>>, f), C>>, <<>>) :
                  hs \in {<<>>, << <<If(<<k>>, <<>>), X>> >>}, f \in {<<>>, <<If(<<k>>, <<>>)>>}} : k \in Jumps}
  \cup {With(a) : a \in Leaves}
  \cup {Try(a, hs, e, f) :
           a \in {<<C>>, <<C, R>>, <<X>>},
           hs \in {<<>>, << <<C>> >>, << <<R>> >>, << <<X>> >>, << <<R>>, <<C>> >>, << <<X>>, <<R>> >>},
           e \in {<<>>, <<C>>, <<R>>}, f \in {<<>>, <<C>>, <<R>>}}
Nested(k) ==
  {If(<<k>>, <<C>>), If(<<R>>, <<k, C>>), Loop(<<k>>, <<>>), With(<<k>>), Match(<< <<C>>, <<k>> >>, TRUE),
   Try(<<k>>, << <<C>> >>, <<>>, <<>>), Try(<<k, C>>, << <<X>> >>, <<C>>, <<>>),
   Try(<<C>>, << <<k>> >>, <<>>, <<C>>), Try(<<C>>, << <<X>> >>, <<k>>, <<>>),
   Try(<<C>>, << <<R>> >>, <<>>, <<k>>)}
Trees == {<<C, k, C>> : k \in Simple} \cup {<<k, C>> : k \in UNION {Nested(x) : x \in Simple}}
MCBodies == {Text(t) : t \in Trees}

(* Routes of a webhook: a verification, by the route or by a helper; what   *)
(* is known of the event; a gate with what it controls; an answer.  The     *)
(* customer value is function 1, the helper function 2.                     *)
Do(s, role) == [s EXCEPT !.does = role]
Verify(origin) == Do(C, [role |-> "verify", of |-> "webhook", body |-> origin, client |-> TRUE])
Compare(negated, block) ==
  Do(IF negated THEN If(block, <<>>) ELSE If(<<C>>, block),
     [role |-> "compare", of |-> "webhook", body |-> "raw", negated |-> negated])
Passing(f, how, origin) == Do(C, [role |-> "invoke", callee |-> f, how |-> how, passes |-> origin])
Invoke(f, how) == Passing(f, how, "raw")
Lookup(fresh, block) == Do(If(block, <<>>), [role |-> "lookup", negated |-> fresh])
Claim == Do(C, [role |-> "claim"])
Assign(value) == Do(C, [role |-> "write", carrier |-> TRUE, value |-> value, field |-> TRUE])
Write == Assign("event")
SetPaid == Assign("constant")
Gate(operator, then, orelse) ==
  Do(If(then, orelse), [role |-> "state", operator |-> operator, states |-> {"captured"}])
Cases(first, second) ==
  Do(Match(<<first, second>>, TRUE),
     [role |-> "state", operator |-> "MATCH_CASE", states |-> {"captured"}, cases |-> << {"captured"} >>])
Respond(status) == Do(R, [role |-> "respond", status |-> status])

Helpers ==
  {<<Verify("raw")>>, <<Verify("parameter"), C>>, <<If(<<Verify("raw")>>, <<>>)>>, <<R, Verify("raw")>>,
   <<Try(<<Verify("raw")>>, << <<X>> >>, <<>>, <<>>)>>, <<Try(<<Verify("raw")>>, << <<R>> >>, <<>>, <<>>)>>,
   <<Compare(TRUE, <<X>>)>>, <<Compare(TRUE, <<R>>)>>,
   <<Loop(<<If(<<Plain("break")>>, <<>>)>>, <<Verify("raw")>>)>>}
Verifications(how) ==
  {<<>>, <<Verify("raw")>>, <<Verify("parsed")>>, <<Compare(TRUE, <<Respond(400)>>)>>, <<Compare(FALSE, <<X>>)>>,
   <<Compare(TRUE, <<Write, X>>)>>,
   <<Loop(<<Verify("raw")>>, <<>>)>>, <<Match(<< <<Verify("raw")>>, <<Write>> >>, FALSE)>>,
   <<Try(<<Verify("raw")>>, << <<C>> >>, <<>>, <<>>)>>, <<Try(<<Verify("raw")>>, << <<Respond(400)>> >>, <<>>, <<>>)>>,
   <<Try(<<Invoke(2, how)>>, << <<C>> >>, <<>>, <<>>)>>, <<Invoke(2, how)>>}
Identities == {<<>>, <<Lookup(FALSE, <<Respond(200)>>), Claim>>, <<Lookup(TRUE, <<X>>), Claim>>}
Gates(deliver) ==
  {<<Gate("EQUALS", <<deliver>>, <<>>), Invoke(1, "direct")>>,
   <<Gate("EQUALS", <<SetPaid, deliver>>, <<C>>)>>, <<Gate("NOT_EQUALS", <<Respond(200)>>, <<>>), Write, deliver>>,
   <<Gate("COMPOUND", <<SetPaid>>, <<deliver>>)>>, <<Cases(<<deliver, SetPaid>>, <<Respond(500)>>)>>,
   <<Try(<<Gate("EQUALS", <<deliver>>, <<>>)>>, << <<C>> >>, <<>>, <<Write>>)>>,
   <<Loop(<<Gate("EQUALS", <<deliver, Write>>, <<>>)>>, <<>>)>>}
Closings == {<<>>, <<Respond(200)>>}
Project(helpers, route) ==
  LET functions == << <<C>> >> \o helpers \o <<route>>
      before[f \in 1 .. Len(functions) + 1] == IF f = 1 THEN 0 ELSE before[f - 1] + Len(Text(functions[f - 1]))
  IN  [text |-> Text(FlattenSeq(functions)),
       functions |-> [f \in DOMAIN functions |-> Block(before[f] + 1, before[f + 1])], method |-> "POST", customer |-> 1,
       strings |-> [f \in DOMAIN functions |->
                      IF f = Len(functions) THEN {"x-razorpay-signature", "x-razorpay-event-id"} ELSE {}]]
Between == {<<Invoke(2, "direct")>>, <<If(<<Invoke(2, "direct")>>, <<>>)>>, <<Invoke(2, "detached"), Invoke(1, "direct")>>,
            <<Try(<<Invoke(2, "direct")>>, << <<R>> >>, <<>>, <<>>), Invoke(1, "direct")>>}
Forwarding ==
  {Project(<< <<Verify("parameter")>>, <<Passing(2, "direct", "parameter"), Gate(o, <<Write>>, <<Invoke(1, "direct")>>)>> >>,
           <<Passing(3, "direct", b)>> \o other \o <<Write>>) :
     o \in {"IN", "NOT_IN"}, b \in {"raw", "parsed", "parameter"},
     other \in {<<>>} \cup {<<Passing(f, "direct", "parsed")>> : f \in {2, 3}}}
MCProjects ==
  {Project(<< <<Verify("raw")>> >>, v \o i \o g \o e) :
     v \in Verifications("direct"), i \in Identities,
     g \in UNION {Gates(Invoke(1, h)) : h \in {"direct", "detached"}}, e \in Closings}
  \cup {Project(<<h>>, g \o v \o <<Write>> \o e) :
           h \in Helpers, v \in UNION {Verifications(w) : w \in {"direct", "detached"}},
           g \in {<<>>, <<Gate("EQUALS", <<Write>>, <<>>)>>}, e \in Closings}
  \cup {Project(<<h, b>>, g \o <<Invoke(3, "direct"), Write>> \o e) :
           h \in Helpers, b \in Between, g \in {<<>>, <<Gate("EQUALS", <<Invoke(3, "direct")>>, <<>>)>>}, e \in Closings}
  \cup Forwarding

Processes == Permutations(Writers)

(* Commands run, or a function is analysed, or a project is.                *)
Idle ==
  /\ ConfigInit([s \in Sections |-> Unset])
  /\ source = "plain" /\ artifact = None /\ edits = MaxEdits /\ command = [p \in Writers |-> Done]
Init == \/ SemanticInit /\ source = "plain" /\ body = <<>> /\ project = <<>>
        \/ Idle /\ ControlInit /\ project = <<>>
        \/ Idle /\ GraphInit /\ body = <<>>
Spec == Init /\ [][SemanticNext /\ UNCHANGED <<body, project>>]_<<vars, body, project>>
=============================================================================
