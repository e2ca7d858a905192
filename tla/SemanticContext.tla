--------------------------- MODULE SemanticContext ---------------------------
(***************************************************************************)
(* What the customer value is decided on (semantics/context_builder.py,    *)
(* context.py and candidate_validation.py): the callables that payment     *)
(* ingress reaches, what is known to be missing, the part of it that fits  *)
(* in a request to a model, and what the model's answer amounts to.        *)
(*                                                                         *)
(* A source is a record: its symbols, numbered in the order of their       *)
(* identifiers, with their bodies, sizes and files; the callable ones; the *)
(* owners of routes; the owners of payment routes and the labels of their  *)
(* graph nodes; the resolved calls; the callers of a call that is not      *)
(* resolved though a callable has its name; and the diagnostics.           *)
(***************************************************************************)
EXTENDS Naturals, FiniteSets, SequencesExt

CONSTANTS
  MaxPresented,     \* SemanticBundlePolicy.max_presented_candidates
  MaxExcerptSize    \* SemanticBundlePolicy.max_excerpt_bytes

(* What the contract of an index has of symbols, calls and routes, and what *)
(* a graph adds to an ingress: the owner of a route, which is a function.   *)
SourceValid(src) ==
  /\ IsFiniteSet(src.symbols) /\ src.symbols \subseteq Nat \ {0}
  /\ src.callable \subseteq src.symbols
  /\ src.ingress \subseteq src.owners \cap src.callable
  /\ \A d \in src.diagnostics : d.kind \in {"source", "graph", "route", "composition"}

None == [kind |-> "none"]
Eligible(src, x) == x \in src.callable \ src.owners

(* What arcs lead to from a set, and breadth first, in at most n steps.     *)
Successors(arcs, xs) == {a[2] : a \in {b \in arcs : b[1] \in xs}}
Within(start, arcs, bound) ==
  LET within[n \in 0 .. bound] ==
        IF n = 0 THEN start ELSE within[n - 1] \cup Successors(arcs, within[n - 1])
  IN  within

Callees(src) == {<<c.caller, c.callee>> : c \in {k \in src.calls : k.callee \in src.callable}}
Peers(src) ==
  Callees(src) \cup {<<c.callee, c.caller>> : c \in {k \in src.calls : k.caller \in src.callable}}

WithinCalls(src) == Within(src.ingress \cap src.callable, Callees(src), Cardinality(src.symbols))
Relevant(src) == WithinCalls(src)[Cardinality(src.symbols)]

(* Candidates are taken by their distance from an ingress, then by their    *)
(* identifiers; the owners of routes come first, as supporting excerpts.    *)
Nearer(src, x, y) ==
  LET within == WithinCalls(src)
  IN  \/ \E n \in DOMAIN within : x \in within[n] /\ y \notin within[n]
      \/ x < y /\ \A n \in DOMAIN within : x \in within[n] <=> y \in within[n]
Before(src, x, y) ==
  \/ x \in src.owners /\ y \notin src.owners
  \/ (x \in src.owners <=> y \in src.owners) /\ Nearer(src, x, y)
InOrder(src, xs) ==
  LET Rank(x) == Cardinality({y \in xs : Before(src, y, x)})
  IN  [i \in 1 .. Cardinality(xs) |-> CHOOSE x \in xs : Rank(x) = i - 1]
-----------------------------------------------------------------------------
Diagnostic(code, kind, at) == [code |-> code, kind |-> kind, at |-> at]
PresentationDiagnostics == {"CANDIDATE_LIMIT_REACHED", "EXCERPT_BYTE_LIMIT_REACHED"}

(* Mutant of RelevantDiagnostics: a call that is not resolved is no loss.    *)
RelevantDiagnosticsOfRecord(src) ==
  {Diagnostic("RELEVANT_DIAGNOSTIC", d.kind, d.at) :
     d \in {x \in src.diagnostics : x.kind = "graph" /\ x.at \in Relevant(src)}}

(* A diagnostic of the source names a file; one of the graph a symbol, or   *)
(* the owner of a route; without an ingress, one on how routes are composed *)
(* is relevant as well.                                                     *)
RelevantDiagnostics(src) ==
  LET relevant == Relevant(src)
      Bears(d) == CASE d.kind = "source" -> d.at \in {src.file[x] : x \in relevant}
                    [] d.kind = "graph" -> d.at \in relevant
                    [] d.kind = "route" -> d.at \in src.ingress
                    [] d.kind = "composition" -> src.ingress = {}
  IN  {Diagnostic("RELEVANT_DIAGNOSTIC", d.kind, d.at) : d \in {x \in src.diagnostics : Bears(x)}}
      \cup {Diagnostic("RELEVANT_CALL_UNRESOLVED", "call", x) : x \in src.unresolved \cap relevant}

(* The bounded view of the relevant callables, one after the other.         *)
NothingShown == [size |-> 0, presented |-> <<>>, excerpts |-> {}, omitted |-> {}]
Omit(view, code, x) == [view EXCEPT !.omitted = @ \cup {Diagnostic(code, "excerpt", x)}]
Show(src, view, x) ==
  CASE x \notin src.owners /\ Len(view.presented) >= MaxPresented ->
         Omit(view, "CANDIDATE_LIMIT_REACHED", x)
    [] view.size + src.size[x] > MaxExcerptSize -> Omit(view, "EXCERPT_BYTE_LIMIT_REACHED", x)
    [] OTHER -> [view EXCEPT !.size = @ + src.size[x], !.excerpts = @ \cup {<<x, src.body[x]>>},
                             !.presented = IF x \in src.owners THEN @ ELSE Append(@, x)]

View(src, xs) ==
  LET views[i \in 0 .. Len(xs)] ==
        IF i = 0 THEN NothingShown ELSE Show(src, views[i - 1], xs[i])
  IN  views[Len(xs)]
Bounded(src) == View(src, InOrder(src, Relevant(src)))

(* The evidence of a set of symbols.  The two kinds of context refer to     *)
(* calls and to graph nodes in different words.                             *)
Evidence(src, xs, form) ==
  [ingress |-> src.ingress \cap xs, relevant |-> xs,
   excerpts |-> {<<x, src.body[x]>> : x \in xs},
   calls |-> {<<form, c>> : c \in {k \in src.calls : {k.caller, k.callee} \subseteq xs}},
   facts |-> {<<form, x, src.label[x]>> : x \in src.ingress \cap xs}]

Descriptor(evidence, presented, diagnostics) ==
  [evidence |-> evidence, presented |-> presented, diagnostics |-> diagnostics]

MainContext(src) ==
  LET b == Bounded(src)
  IN  Descriptor(Evidence(src, Relevant(src), "main"), ToSet(b.presented),
                 RelevantDiagnostics(src) \cup b.omitted)

(* build_manual_semantic_context: everything that calls lead to, in either  *)
(* direction, with no account of what is missing.                           *)
Around(src, x) == Within({x}, Peers(src), Cardinality(src.symbols))[Cardinality(src.symbols)]
ManualContext(src, selected) == Descriptor(Evidence(src, Around(src, selected), "manual"), {}, {})

BundleComplete(d) == d.diagnostics = {}

(* SemanticContextDescriptor.validate_context.                              *)
ContextValid(d) ==
  /\ d.evidence.ingress \subseteq d.evidence.relevant
  /\ d.presented \subseteq d.evidence.relevant \ d.evidence.ingress
HasMapping(src) == src.ingress # {}

(* Mutant of Fingerprint: the bodies of the callables are left out.         *)
FingerprintOfCalls(d) == [d.evidence EXCEPT !.excerpts = {}]

Fingerprint(d) ==
  [evidence |-> d.evidence,
   diagnostics |-> {x \in d.diagnostics : x.code \notin PresentationDiagnostics}]

(* provider_bundle_fingerprint, what a request shows to a model.            *)
ProviderBundle(src, d) ==
  LET b == Bounded(src)
  IN  [presented |-> b.presented, excerpts |-> b.excerpts, omissions |-> d.diagnostics,
       calls |-> d.evidence.calls, facts |-> d.evidence.facts]
-----------------------------------------------------------------------------
(* An answer is a sequence of references to callables, each with the        *)
(* excerpts it cites; a catalog entry has the one excerpt of its symbol.    *)
ClassifyCandidates(answer, catalog) ==
  LET Reasons(i) ==
        (IF \E j \in 1 .. i - 1 : answer[j].symbol = answer[i].symbol THEN {"DUPLICATE_CANDIDATE"} ELSE {})
        \cup (IF answer[i].symbol \notin catalog THEN {"UNKNOWN_SYMBOL_REFERENCE"}
              ELSE IF answer[i].cites \subseteq {answer[i].symbol} THEN {}
              ELSE {"UNKNOWN_EXCERPT_REFERENCE"})
      accepted == {i \in DOMAIN answer : Reasons(i) = {}}
  IN  [valid |-> {answer[i].symbol : i \in accepted},
       rejected |-> {<<answer[i], Reasons(i)>> : i \in DOMAIN answer \ accepted}]

Resolved(state, basis, symbol) == [state |-> state, basis |-> basis, symbol |-> symbol]
HumanBases == {"HUMAN_CONFIRMED", "MANUAL_SELECTION"}

ResolveModelCandidates(valid, complete) ==
  CASE ~complete -> None
    [] complete /\ valid = {} -> Resolved("UNMAPPED", "UNRESOLVED", 0)
    [] complete /\ Cardinality(valid) = 1 ->
         Resolved("UNIQUE", "MODEL_UNIQUE", CHOOSE x \in valid : TRUE)
    [] OTHER -> Resolved("AMBIGUOUS", "UNRESOLVED", 0)

(* CustomerValueSemanticArtifact.validate_artifact, of a resolution on a    *)
(* context: a partial bundle decides nothing by itself.                     *)
ResolutionValid(resolution, d) ==
  resolution # None =>
    /\ BundleComplete(d) \/ resolution.basis \in HumanBases
    /\ (resolution.state = "UNIQUE") = (resolution.basis # "UNRESOLVED")
=============================================================================
