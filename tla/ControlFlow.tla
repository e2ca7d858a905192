----------------------------- MODULE ControlFlow -----------------------------
(***************************************************************************)
(* The control facts behind the edges of the payment safety graph          *)
(* (graph/control_flow.py): the context of every statement of a function,  *)
(* and what two contexts say about the executions of the function.  The    *)
(* verdicts of the analysis ("the signature is verified before the state   *)
(* is written", "the customer value is delivered before the provider is    *)
(* acknowledged") rest on them.                                            *)
(*                                                                         *)
(* A text is the sequence of the statements of a function, in their order,  *)
(* and a statement is named by its place.  A block is an interval of        *)
(* places; a compound statement is followed by its parts, which are blocks: *)
(* those of a try are its body, its handlers, its else and its finally      *)
(* clause.  A statement may have a role in the handling of a payment        *)
(* (SafetyGraph).                                                           *)
(***************************************************************************)
EXTENDS Naturals, Sequences, FiniteSets, FiniteSetsExt, TLC

CONSTANT Bodies       \* the texts that a function may have

VARIABLE body         \* the text of the function that is analysed

Places(block) == block.first .. block.last
Block(first, last) == [first |-> first, last |-> last]
Whole(text) == Block(1, Len(text))

End(text, k) ==
  LET parts == text[k].parts
  IN  IF parts = <<>> THEN k ELSE parts[Len(parts)].last

StatementKinds == {"call", "return", "raise", "break", "continue", "if", "match", "loop", "with", "try"}
Arity(kind, n) ==
  CASE kind \in {"if", "loop"} -> n = 2
    [] kind = "with" -> n = 1
    [] kind = "match" -> n > 0
    [] kind = "try" -> n > 2
    [] OTHER -> n = 0

(* The parts of a statement follow it, one after the other; a statement of  *)
(* a part ends in it.                                                       *)
TextValid(text) ==
  /\ Len(text) \in Nat /\ DOMAIN text = 1 .. Len(text)
  /\ \A k \in DOMAIN text :
       LET parts == text[k].parts
       IN  /\ text[k].kind \in StatementKinds /\ parts \in Seq([first : Nat, last : Nat]) /\ text[k].default \in BOOLEAN
           /\ Arity(text[k].kind, Len(parts))
           /\ End(text, k) <= Len(text)
           /\ \A j \in DOMAIN parts :
                /\ parts[j].first = IF j = 1 THEN k + 1 ELSE parts[j - 1].last + 1
                /\ parts[j].first <= parts[j].last + 1
                /\ \A m \in Places(parts[j]) : End(text, m) <= parts[j].last

ASSUME BodiesAssumption == \A text \in Bodies : TextValid(text)

Handlers(s) == 2 .. Len(s.parts) - 2
Else(s) == s.parts[Len(s.parts) - 1]
Final(s) == s.parts[Len(s.parts)]
IsDefault(s, j) == s.default /\ j = Len(s.parts)

(* block_terminates looks at the last statement of a block.                 *)
IsEmpty(block) == block.last < block.first
LastOf(text, block) == Min({k \in Places(block) : End(text, k) = block.last})
StatementTerminates(text) ==
  LET terminates[k \in DOMAIN text] ==
        LET s == text[k]
            Closes(block) == ~IsEmpty(block) /\ terminates[LastOf(text, block)]
        IN  CASE s.kind \in {"return", "raise"} -> TRUE
              [] s.kind = "if" -> Closes(s.parts[1]) /\ Closes(s.parts[2])
              [] s.kind = "match" -> s.default /\ \A j \in DOMAIN s.parts : Closes(s.parts[j])
              [] s.kind = "try" ->
                   \/ Closes(Final(s))
                   \/ /\ Closes(IF IsEmpty(Else(s)) THEN s.parts[1] ELSE Else(s))
                      /\ \A j \in Handlers(s) : Closes(s.parts[j])
              [] OTHER -> FALSE
  IN  terminates
Terminates(text, block) == ~IsEmpty(block) /\ StatementTerminates(text)[LastOf(text, block)]

MayReturn(text, block) == \E k \in Places(block) : text[k].kind = "return"
-----------------------------------------------------------------------------
(* _collect_statements: for each statement, in the order of the text, the   *)
(* branches that it is under, the clauses of try statements, and whether a  *)
(* loop repeats it.                                                         *)
Enclosing(text, k) == {s \in 1 .. k - 1 : k <= End(text, s)}
PartOf(text, s, k) == CHOOSE j \in DOMAIN text[s].parts : k \in Places(text[s].parts[j])

Branch(gate, disposition) == [gate |-> gate, disposition |-> disposition]
Disposition(s, j) ==
  CASE s.kind = "if" -> IF j = 1 THEN "MATCHED" ELSE "NOT_MATCHED"
    [] s.kind = "match" -> IF IsDefault(s, j) THEN "DEFAULT" ELSE "MATCHED"

Region(text, at, j) ==
  LET s == text[at]
      last == Len(s.parts)
  IN  [try |-> at,
       kind |-> CASE j = 1 -> "TRY_BODY" [] j = last - 1 -> "TRY_ELSE" [] j = last -> "FINALLY"
                  [] OTHER -> "EXCEPT_HANDLER",
       handler |-> IF j \in Handlers(s) THEN j - 2 ELSE 0,
       handlers_allow_continuation |-> \E h \in Handlers(s) : ~Terminates(text, s.parts[h]),
       handlers_may_return |-> \E h \in Handlers(s) : MayReturn(text, s.parts[h]),
       finally_terminates |-> Terminates(text, Final(s)),
       finally_may_return |-> MayReturn(text, Final(s))]

Context(symbol, text, k, ancestors, regions, in_loop) ==
  [symbol |-> symbol, at |-> k, node |-> text[k], ancestors |-> ancestors, regions |-> regions, in_loop |-> in_loop]

(* The context of a statement of part j of a compound statement.            *)
Under(outer, text, j, k) ==
  LET s == outer.node
  IN  Context(outer.symbol, text, k,
        IF s.kind \in {"if", "match"} THEN Append(outer.ancestors, Branch(outer.at, Disposition(s, j)))
        ELSE outer.ancestors,
        IF s.kind = "try" THEN Append(outer.regions, Region(text, outer.at, j)) ELSE outer.regions,
        outer.in_loop \/ (s.kind = "loop" /\ j = 1))

CollectStatements(symbol, text) ==
  LET context[k \in DOMAIN text] ==
        IF Enclosing(text, k) = {} THEN Context(symbol, text, k, <<>>, <<>>, FALSE)
        ELSE LET s == Max(Enclosing(text, k))
             IN  Under(context[s], text, PartOf(text, s, k), k)
  IN  context

(* Mutant of ContextDominates: what becomes of an exception is not asked.   *)
DominatesByBranches(source, target) ==
  /\ source.symbol = target.symbol /\ source.at < target.at
  /\ Len(source.ancestors) <= Len(target.ancestors)
  /\ source.ancestors = SubSeq(target.ancestors, 1, Len(source.ancestors))

(* context_dominates: whenever the target is executed, the source has been. *)
ContextDominates(source, target) ==
  LET Of(region) == {i \in DOMAIN target.regions : target.regions[i].try = region.try}
      Passes(region) ==
        IF Of(region) # {}
        THEN LET other == target.regions[CHOOSE i \in Of(region) : TRUE]
             IN  \/ region.kind = other.kind /\ region.handler = other.handler
                 \/ region.kind = "TRY_BODY" /\ other.kind = "TRY_ELSE"
        ELSE CASE region.kind \in {"TRY_BODY", "TRY_ELSE"} ->
                    ~region.handlers_allow_continuation /\ ~region.finally_terminates
               [] region.kind = "EXCEPT_HANDLER" -> FALSE
               [] region.kind = "FINALLY" -> ~region.finally_terminates
  IN  /\ source.symbol = target.symbol /\ source.at < target.at
      /\ Len(source.ancestors) <= Len(target.ancestors)
      /\ source.ancestors = SubSeq(target.ancestors, 1, Len(source.ancestors))
      /\ \A i \in DOMAIN source.regions : Passes(source.regions[i])

(* exception_propagates_from_function: a failure at the statement leaves    *)
(* the function.                                                            *)
ExceptionPropagates(context) ==
  \A i \in DOMAIN context.regions :
    LET r == context.regions[i]
    IN  r.kind = "TRY_BODY" =>
          ~r.handlers_allow_continuation /\ ~r.handlers_may_return /\ ~r.finally_may_return

(* _work_precedes_ack where the acknowledgement is the end of the function. *)
PrecedesEnd(context) == context.ancestors = <<>>

(* branch_controls: the branches of the source that the target is under.    *)
BranchControls(source, target) ==
  {target.ancestors[i].disposition : i \in {j \in DOMAIN target.ancestors : target.ancestors[j].gate = source.at}}

ControlInit == body \in Bodies
-----------------------------------------------------------------------------
(* The executions of a block, by the rules of the language: what has been   *)
(* executed to its end, which statements were begun before which, which     *)
(* failed, and how the block is left.  Any statement but a break may fail;  *)
(* a test may have any outcome; a handler may match an exception or not; a  *)
(* with statement lets an exception through.  One turn of a loop shows all  *)
(* that several do, as nothing is forgotten.  A block is executed after a   *)
(* set of statements: it is a function of that set.                         *)
(* A world says what the calls of functions of the project do, which        *)
(* statements are bound to fail, and what is decided of the tests; in       *)
(* Anything, a body is alone and nothing is decided.                        *)
Anything == [calls |-> <<>>, fails |-> {}, takes |-> <<>>]
Outcome(done, early, failed, exit) == [done |-> done, early |-> early, failed |-> failed, exit |-> exit]
Joined(o, n, exit) == Outcome(n.done, o.early \cup n.early, o.failed \cup n.failed, exit)

Continue(outcomes, exits, next) ==
  {o \in outcomes : o.exit \notin exits}
  \cup UNION {{Joined(o, n, n.exit) : n \in next[o.done]} : o \in {x \in outcomes : x.exit \in exits}}

Begun(here, done) == {<<before, here>> : before \in (1 .. here - 1) \ done}
Ends(here, done, exit) == Outcome(done \cup {here}, Begun(here, done), {}, exit)
Fails(here, done) == Outcome(done, Begun(here, done), {here}, "raise")
Entered(world, here, done) ==
  IF here \in world.fails THEN {Fails(here, done)} ELSE {Ends(here, done, "next"), Fails(here, done)}

Called(world, here, done) ==
  LET inner == world.calls[here][done]
  IN  {Fails(here, done)}
      \cup {o \in inner : o.exit \notin {"next", "return"}}
      \cup {Outcome(o.done \cup {here}, o.early \cup Begun(here, done), o.failed, "next") :
            o \in {x \in inner : x.exit \in {"next", "return"}}}

(* What follows when a compound statement is entered.  Runs are those of    *)
(* its parts.                                                               *)
Taken(world, s, here) ==
  IF here \in DOMAIN world.takes THEN world.takes[here]
  ELSE DOMAIN s.parts \cup (IF s.kind = "match" /\ ~s.default THEN {0} ELSE {})
Branches(world, s, here, run, done) ==
  UNION {IF j = 0 THEN {Outcome(done, {}, {}, "next")} ELSE run[s.parts[j]][done] : j \in Taken(world, s, here)}

Looped(s, run, done) ==
  LET turn == run[s.parts[1]][done]
      broken == {o \in turn : o.exit = "break"}
  IN  run[s.parts[2]][done] \cup {[o EXCEPT !.exit = "next"] : o \in broken}
      \cup Continue(turn \ broken, {"next", "continue"}, run[s.parts[2]])

Tried(s, run, done) ==
  LET tried == run[s.parts[1]][done]
      raised == {o \in tried : o.exit = "raise"}
      left == Continue(tried \ raised, {"next"}, run[Else(s)])
                \cup raised
                \cup UNION {Continue(raised, {"raise"}, run[s.parts[j]]) : j \in Handlers(s)}
  IN  UNION {{Joined(o, f, IF f.exit = "next" THEN o.exit ELSE f.exit) : f \in run[Final(s)][o.done]} : o \in left}

Inner(world, s, here, run, done) ==
  CASE s.kind \in {"if", "match"} -> Branches(world, s, here, run, done)
    [] s.kind = "with" -> run[s.parts[1]][done]
    [] s.kind = "loop" -> Looped(s, run, done)
    [] s.kind = "try" -> Tried(s, run, done)

One(world, text, here, run, done) ==
  LET s == text[here]
      inside == [d \in SUBSET DOMAIN text |-> Inner(world, s, here, run, d)]
  IN  CASE s.kind = "call" ->
             IF here \in DOMAIN world.calls THEN Called(world, here, done) ELSE Entered(world, here, done)
        [] s.kind = "return" -> {Ends(here, done, "return"), Fails(here, done)}
        [] s.kind = "raise" -> {Fails(here, done)}
        [] s.kind \in {"break", "continue"} -> {Ends(here, done, s.kind)}
        [] s.kind \in {"if", "match", "with", "loop"} -> Continue(Entered(world, here, done), {"next"}, inside)
        [] s.kind = "try" -> Continue({Ends(here, done, "next")}, {"next"}, inside)

Blocks(text) == [first : 1 .. Len(text) + 1, last : 0 .. Len(text)]
Execute(world, text) ==
  LET run[block \in Blocks(text)] ==
        [done \in SUBSET DOMAIN text |->
          IF IsEmpty(block) THEN {Outcome(done, {}, {}, "next")}
          ELSE Continue(One(world, text, block.first, run, done), {"next"},
                        run[Block(End(text, block.first) + 1, block.last)])]
  IN  run

Executions(text) == Execute(Anything, text)[Whole(text)][{}]
-----------------------------------------------------------------------------
(* What the facts leave out: the cases of a match are told apart only from  *)
(* the default, a statement of a loop is taken to be executed, and the else *)
(* of a loop to follow it, also if a break leaves the loop; the graph says  *)
(* that its coverage is reduced when it meets a statement that is repeated. *)
JumpsOut(text, block, kinds) ==
  \E k \in Places(block) :
    /\ text[k].kind \in kinds
    /\ \A s \in Places(block) : text[s].kind = "loop" => k \notin Places(text[s].parts[1])
Told(text, c) ==
  /\ ~c.in_loop
  /\ \A i \in DOMAIN c.ancestors :
       text[c.ancestors[i].gate].kind = "match" => c.ancestors[i].disposition = "DEFAULT"
  /\ \A s \in Enclosing(text, c.at) : text[s].kind = "loop" => ~JumpsOut(text, text[s].parts[1], {"break"})

(* A return in the finally clause of a try that the statement is in, but    *)
(* not in its body, is not looked at; nor is a break or a continue by which *)
(* a handler or a finally clause leaves.                                    *)
Overlooked(text, c) ==
  \E i \in DOMAIN c.regions :
    LET r == c.regions[i]
        s == text[r.try]
        Jumps(block) == JumpsOut(text, block, {"break", "continue"})
    IN  \/ r.kind # "TRY_BODY" /\ r.finally_may_return
        \/ Jumps(Final(s))
        \/ r.kind = "TRY_BODY" /\ \E j \in Handlers(s) : Jumps(s.parts[j])

(* The facts are true of every execution.  A statement that dominates       *)
(* another has been executed to its end when the other begins; a failure    *)
(* that is said to leave the function does; what is said to precede the end *)
(* of the function was executed when the end is reached; no execution takes *)
(* two branches of a gate.  For the cases of a match, for loops, for jumps  *)
(* out of the clauses of a try, and, at the end of a function, for try      *)
(* statements, the facts promise too much, and nothing is claimed here.     *)
ControlFactsAreTrue ==
  LET cs == CollectStatements(1, body)
      all == Executions(body)
  IN  /\ \A i, j \in DOMAIN body :
           ContextDominates(cs[i], cs[j]) /\ Told(body, cs[i]) => \A o \in all : <<i, j>> \notin o.early
      /\ \A i \in DOMAIN body :
           ExceptionPropagates(cs[i]) /\ ~Overlooked(body, cs[i]) =>
             \A o \in all : i \in o.failed => o.exit = "raise"
      /\ \A i \in DOMAIN body :
           PrecedesEnd(cs[i]) /\ Told(body, cs[i]) /\ cs[i].regions = <<>> =>
             \A o \in all : o.exit = "next" => i \in o.done
      /\ \A i, j, k \in DOMAIN body :
           LET one == BranchControls(cs[i], cs[j])
               other == BranchControls(cs[i], cs[k])
           IN  one # {} /\ other # {} /\ one # other /\ ~cs[i].in_loop =>
                 \A o \in all : ~({j, k} \subseteq o.done \cup o.failed)
=============================================================================
