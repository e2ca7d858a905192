-------------------------- MODULE SemanticAuthority --------------------------
(***************************************************************************)
(* Who decides what the customer value is (application/semantics.py): a    *)
(* model's answer, kept in .stateguard/semantics.json, or the merchant's   *)
(* confirmation, kept in stateguard.yaml; every command rebuilds the       *)
(* evidence from the source as it is and asks whether what was decided is  *)
(* still about it.                                                         *)
(*                                                                         *)
(* Each process runs one command: semantics resolve, which waits for a     *)
(* model, semantics confirm, a confirmation of policies, or a setup of     *)
(* the model.  A process that takes no further step has been killed.       *)
(***************************************************************************)
EXTENDS SemanticContext, ConfigEdit

CONSTANTS
  Code,         \* the sources that there may be, by name
  Answers,      \* the answers of a model
  Values,       \* values of a policy, and of the model's section
  MaxEdits      \* bound: edits of the source and of the file by hand

ASSUME CodeAssumption == \A n \in DOMAIN Code : SourceValid(Code[n])

VARIABLES
  source,       \* the name of the source as it is
  artifact,     \* .stateguard/semantics.json
  command,      \* for each process, where its command is
  edits
semanticVars == <<source, artifact, command, edits>>
vars == <<config, edit, source, artifact, command, edits>>

Ready == [pc |-> "ready"]
Done == [pc |-> "done"]

(* _fresh_pipeline, for every source.  A context is named by the source and *)
(* the callable that it was built for, 0 if for none; a fingerprint, by one *)
(* of the contexts that have it.                                            *)
ContextsOf(n) == {0} \cup Code[n].callable
Keys == UNION {{<<n, x>> : x \in ContextsOf(n)} : n \in DOMAIN Code}
Main(n) == <<n, 0>>
Contexts ==
  [n \in DOMAIN Code |-> [x \in ContextsOf(n) |->
    IF x = 0 THEN MainContext(Code[n]) ELSE ManualContext(Code[n], x)]]
Contents == [n \in DOMAIN Code |-> [x \in ContextsOf(n) |-> Fingerprint(Contexts[n][x])]]
FirstAlike(f) ==
  [n \in DOMAIN f |-> [x \in DOMAIN f[n] |-> CHOOSE k \in Keys : f[k[1]][k[2]] = f[n][x]]]
Fingerprints == FirstAlike(Contents)
FingerprintOf(k) == Fingerprints[k[1]][k[2]]
BundleOf == [n \in DOMAIN Code |-> ProviderBundle(Code[n], Contexts[n][0])]
Bundles == [n \in DOMAIN Code |-> CHOOSE m \in DOMAIN Code : BundleOf[m] = BundleOf[n]]
RelevantTo == [n \in DOMAIN Code |-> Relevant(Code[n])]

ContextFor(n, x) == IF x \in RelevantTo[n] THEN Main(n) ELSE <<n, x>>
Request(n, model) == [model |-> model, bundle |-> Bundles[n]]
Presented(n) == Contexts[n][0].presented
Complete(n) == BundleComplete(Contexts[n][0])

SemanticInit ==
  /\ source \in DOMAIN Code /\ edits = 0
  /\ \E model \in Values \cup {Unset} :
       ConfigInit([s \in Sections |-> IF s = "ai" THEN model ELSE Unset])
  /\ artifact = None
  /\ command = [p \in Writers |-> Ready]
-----------------------------------------------------------------------------
(* _current_human_resolution.                                               *)
HumanResolution(n, cf) ==
  LET cv == cf["customer_value"]
  IN  IF /\ cv # Unset
         /\ Eligible(Code[n], cv.symbol)
         /\ FingerprintOf(ContextFor(n, cv.symbol)) = cv.fingerprint
      THEN Resolved("UNIQUE", cv.basis, cv.symbol)
      ELSE None

Artifact(n, context, bundle, candidates, resolution) ==
  [source |-> n, context |-> context, bundle |-> bundle,
   candidates |-> candidates, resolution |-> resolution]

(* rebuild_current_semantic_snapshot.                                       *)
SnapshotOfArtifact(n, cf, art) ==          \* mutant: the artifact is asked first
  IF art # None /\ art.source = n /\ FingerprintOf(art.context) = FingerprintOf(Main(n))
  THEN art.resolution
  ELSE HumanResolution(n, cf)

Snapshot(n, cf, art) ==
  IF HumanResolution(n, cf) # None THEN HumanResolution(n, cf)
  ELSE IF art # None /\ art.source = n /\ FingerprintOf(art.context) = FingerprintOf(Main(n))
  THEN art.resolution
  ELSE None

(* _reusable_ai_evidence: the candidates of the same request.               *)
ReusableCandidates(n, cf, context, art) ==
  IF /\ art # None /\ art.bundle # None
     /\ FingerprintOf(art.context) = FingerprintOf(context) /\ context = Main(n)
     /\ cf["ai"] # Unset /\ HasMapping(Code[n])
     /\ art.bundle = Request(n, cf["ai"])
  THEN art.candidates
  ELSE {}
-----------------------------------------------------------------------------
(* An artifact that its contract refuses is not made: the command raises.   *)
Store(p, art) ==
  LET context == Contexts[art.context[1]][art.context[2]]
  IN  command' = [command EXCEPT ![p] =
        IF ContextValid(context) /\ ResolutionValid(art.resolution, context)
        THEN [pc |-> "store", artifact |-> art] ELSE Done]

(* resolve_customer_value, until it waits for the model.                    *)
Resolve(p) ==
  /\ command[p] = Ready
  /\ LET human == HumanResolution(source, config)
     IN  \/ /\ human # None
            /\ Store(p, Artifact(source, ContextFor(source, human.symbol), None, {}, human))
         \/ /\ human = None
            /\ config["ai"] = Unset \/ ~HasMapping(Code[source])
            /\ Store(p, Artifact(source, Main(source), None, {}, None))
         \/ /\ human = None
            /\ config["ai"] # Unset /\ HasMapping(Code[source])
            /\ command' = [command EXCEPT ![p] =
                 [pc |-> "asked", source |-> source, model |-> config["ai"]]]
  /\ UNCHANGED <<configVars, source, artifact, edits>>

(* The model answers, or the provider fails.  In the artifact the           *)
(* candidates of a partial bundle are suggestions.                          *)
Answer(p) ==
  /\ command[p].pc = "asked"
  /\ LET n == command[p].source
         bundle == Request(n, command[p].model)
     IN  \/ \E answer \in Answers :
              LET valid == ClassifyCandidates(answer, Presented(n)).valid
              IN  Store(p, Artifact(n, Main(n), bundle, valid,
                                    ResolveModelCandidates(valid, Complete(n))))
         \/ Store(p, Artifact(n, Main(n), bundle, {}, None))
  /\ UNCHANGED <<configVars, source, artifact, edits>>

WriteArtifact(p) ==
  /\ command[p].pc = "store"
  /\ artifact' = command[p].artifact
  /\ command' = [command EXCEPT ![p] = Done]
  /\ UNCHANGED <<configVars, source, edits>>

(* confirm_customer_value: the configuration is written, then the artifact. *)
(* The candidates of a model are kept if the choice is one of them.         *)
Confirmation(n, x, candidates) ==
  LET own == x \in candidates
  IN  Artifact(n, ContextFor(n, x), IF candidates = {} THEN None ELSE artifact.bundle,
               IF own THEN candidates ELSE {},
               Resolved("UNIQUE", IF own THEN "HUMAN_CONFIRMED" ELSE "MANUAL_SELECTION", x))

Confirm(p) ==
  /\ command[p] = Ready
  /\ \E x \in {y \in Code[source].symbols : Eligible(Code[source], y)} :
     \E art \in {Confirmation(source, x, ReusableCandidates(source, config, ContextFor(source, x), artifact))} :
       /\ StartEdit(p, [s \in {"customer_value"} |->
            [symbol |-> x, fingerprint |-> FingerprintOf(art.context), basis |-> art.resolution.basis, seen |-> source]])
       /\ command' = [command EXCEPT ![p] = [pc |-> "edit", artifact |-> art]]
  /\ UNCHANGED <<source, artifact, edits>>

(* confirm_merchant_policy, of one policy or of both; the setup commands.   *)
ConfirmPolicy(p) ==
  /\ command[p] = Ready
  /\ \E own \in (SUBSET {"fulfilment", "late_authorisation"}) \ {{}}, v \in Values :
       StartEdit(p, [s \in own |-> v])
  /\ command' = [command EXCEPT ![p] = [pc |-> "edit", artifact |-> None]]
  /\ UNCHANGED <<source, artifact, edits>>

SetUp(p) ==
  /\ command[p] = Ready
  /\ \E v \in Values : StartEdit(p, [s \in {"ai"} |-> v])
  /\ command' = [command EXCEPT ![p] = [pc |-> "edit", artifact |-> None]]
  /\ UNCHANGED <<source, artifact, edits>>

Edit(p) ==
  /\ command[p].pc = "edit"
  /\ EditStep(p)
  /\ UNCHANGED semanticVars

EditEnds(p) ==
  /\ command[p].pc = "edit" /\ edit[p].pc \in {"written", "refused"}
  /\ IF edit[p].pc = "written" /\ command[p].artifact # None
     THEN Store(p, command[p].artifact)
     ELSE command' = [command EXCEPT ![p] = Done]
  /\ UNCHANGED <<configVars, source, artifact, edits>>

EditSource ==
  /\ edits < MaxEdits
  /\ \E n \in DOMAIN Code \ {source} : source' = n
  /\ edits' = edits + 1
  /\ UNCHANGED <<configVars, artifact, command>>

(* The merchant withdraws a confirmation, a policy or the model by hand.    *)
Withdraw ==
  /\ edits < MaxEdits
  /\ \E s \in Sections : EditByHand(s, Unset)
  /\ edits' = edits + 1
  /\ UNCHANGED <<source, artifact, command>>

SemanticNext ==
  \/ \E p \in Writers : \/ Resolve(p) \/ Answer(p) \/ WriteArtifact(p)
                        \/ Confirm(p) \/ ConfirmPolicy(p) \/ SetUp(p)
                        \/ Edit(p) \/ EditEnds(p)
  \/ EditSource
  \/ Withdraw

SemanticSpec == SemanticInit /\ [][SemanticNext]_vars
-----------------------------------------------------------------------------
Now == Snapshot(source, config, artifact)
DecidedOn ==
  IF HumanResolution(source, config) # None THEN config["customer_value"].seen ELSE artifact.source

(* What payment reaches, and what calls connect with a callable: the least  *)
(* sets of callables that have these and are closed under calls.            *)
Least(start, arcs, all) ==
  {x \in all : \A xs \in SUBSET all :
                 start \subseteq xs /\ (\A a \in arcs : a[1] \in xs => a[2] \in xs) => x \in xs}
CallsBetween(src) == {c \in src.calls : {c.caller, c.callee} \subseteq src.callable}
Leads(src) == {<<c.caller, c.callee>> : c \in CallsBetween(src)}
Links(src) == Leads(src) \cup {<<c.callee, c.caller>> : c \in CallsBetween(src)}
Reached(src) == Least(src.ingress \cap src.callable, Leads(src), src.callable)
Connected(src, x) == Least({x}, Links(src), src.callable)
ReachedIn == [n \in DOMAIN Code |-> Reached(Code[n])]
Concern ==
  [n \in DOMAIN Code |->
    [x \in Code[n].callable |-> IF x \in ReachedIn[n] THEN ReachedIn[n] ELSE Connected(Code[n], x)]]
CalledIn ==
  [n \in DOMAIN Code |->
    [x \in Code[n].callable |-> {c \in CallsBetween(Code[n]) : c.caller = x}]]

SameCode(n, m, xs) ==
  \A x \in xs :
    /\ x \in Code[n].callable \cap Code[m].callable
    /\ Code[n].body[x] = Code[m].body[x] /\ CalledIn[n][x] = CalledIn[m][x]

(* What is taken for the customer value now is a callable of the source as  *)
(* it is, and everything that the decision was about is as it was: the      *)
(* callables that payment reaches, or those that calls connect with the     *)
(* chosen one, their bodies and their calls.  No edit of the source, answer *)
(* that comes late or command that was killed makes an old decision count.  *)
AuthorityIsOfCurrentCode ==
  \A now \in {Now} \ {None} :
    now.state = "UNIQUE" =>
      /\ Eligible(Code[source], now.symbol)
      /\ \E on \in {DecidedOn}, concern \in {Concern[source][now.symbol]} :
           concern = Concern[on][now.symbol] /\ SameCode(source, on, concern)

(* What the merchant confirmed stays decided for as long as nothing that it *)
(* concerns is edited: an edit elsewhere, another choice of a model, an     *)
(* answer of a model asked before and an artifact that is not there do not  *)
(* undo it.                                                                 *)
Untouched(n, m, x) ==
  LET concern == Concern[n][x]
  IN  /\ x \in Code[n].callable \cap Code[m].callable
      /\ SameCode(n, m, concern) /\ concern = Concern[m][x]
      /\ (x \in ReachedIn[n]) = (x \in ReachedIn[m])
      /\ \A f \in {"ingress", "owners", "callable", "unresolved"} :
           Code[n][f] \cap concern = Code[m][f] \cap concern
      /\ \A y \in concern : Code[n].label[y] = Code[m].label[y] /\ Code[n].file[y] = Code[m].file[y]
      /\ Code[n].diagnostics = Code[m].diagnostics

HumanDecisionStands ==
  LET cv == config["customer_value"]
  IN  (cv # Unset /\ Untouched(source, cv.seen, cv.symbol)) =>
        \E now \in {Now} \ {None} : now.symbol = cv.symbol /\ now.basis = cv.basis

(* A model decides alone only when it was shown every callable that payment *)
(* reaches, and nothing was known to be missing.                            *)
ModelSawEveryCandidate ==
  \A now \in {Now} \ {None} :
    now.basis = "MODEL_UNIQUE" =>
      /\ ReachedIn[source] \ Code[source].owners
           \subseteq Presented(artifact.source)
      /\ Code[source].unresolved \cap ReachedIn[source] = {}
      /\ now.symbol \in Presented(artifact.source)

(* A guarded edit leaves the sections of others in the file as they are,    *)
(* unless the file was written between its comparison and its rename.       *)
OnlyRacingEditIsLost ==
  [][\A w \in Writers :
       (edit[w].pc = "replace" /\ edit'[w].pc = "written" /\ ~edit[w].raced) =>
         \A s \in Sections \ Owned(edit[w]) : Written(config')[s] = Written(config)[s]]_vars
=============================================================================
