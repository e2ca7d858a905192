--------------------------- MODULE VerificationRun ---------------------------
(***************************************************************************)
(* create_verification_run (application/verification.py): one analysis,    *)
(* the execution of every instance it found (module ScenarioExecution),    *)
(* another analysis that must agree with the first, and the publication of *)
(* the results (module RunArtifacts).                                      *)
(*                                                                         *)
(* The first analysis reads source 0; the other source, and each runtime   *)
(* section, is what somebody else's edit leaves in the files.              *)
(***************************************************************************)
EXTENDS ScenarioExecution, RunArtifacts

CONSTANTS
  Catalogs,     \* sequences of the instances that a first analysis may find
  RunFlaws      \* bound: the flaws that the transcripts of a run may have

VARIABLES
  rpc,          \* where create_verification_run is; "alone": there is none
  queue,        \* the instances that are still to be executed
  catalog,
  runConfig,    \* the configuration as it was read first
  finalRuntime, \* and last
  collected,    \* the results, each with the authority it names
  spans         \* the source that the fingerprints of spans were read from
runVars == <<rpc, queue, catalog, runConfig, finalRuntime, collected, spans>>
allVars == <<execVars, artifactVars, runVars>>

ASSUME CatalogsAssumption == Catalogs \subseteq Seq(Instances)

Idle ==
  /\ pc = "idle" /\ scenario = "SG-01" /\ subject = None /\ moved = None
  /\ fresh = Expected /\ loaded = "none" /\ openRuntime = "none" /\ openSource = Expected
  /\ session = "none" /\ offer = NoOffer /\ trial = NoTrial
  /\ keys = {} /\ results = [k \in {} |-> Undecided]

RunInit ==
  /\ source = Expected /\ runtime \in {"managed", "static"} /\ edits = 0
  /\ Idle
  /\ rpc = "load" /\ \E c \in Catalogs : catalog = c /\ queue = c
  /\ runConfig = "none" /\ finalRuntime = "none" /\ collected = {} /\ spans = Expected

AloneInit ==
  /\ ExecutionInit
  /\ rpc = "alone" /\ queue = <<>> /\ catalog = <<>>
  /\ runConfig = "none" /\ finalRuntime = "none" /\ collected = {} /\ spans = Expected

Init == (RunInit \/ AloneInit) /\ ArtifactInit
-----------------------------------------------------------------------------
LoadInitial ==
  /\ rpc = "load"
  /\ runConfig' = runtime
  /\ rpc' = "analyse"
  /\ UNCHANGED <<execVars, artifactVars, queue, catalog, finalRuntime, collected, spans>>

AnalyseInitial ==
  /\ rpc = "analyse"
  /\ rpc' = "next"
  /\ UNCHANGED <<execVars, artifactVars, queue, catalog, runConfig, finalRuntime, collected, spans>>

(* _execute_instance, by scenario; m is what the other source makes of it.  *)
StartExecution(x, m) ==
  /\ pc' = "preflight" /\ scenario' = x.scenario /\ subject' = x /\ moved' = m
  /\ fresh' = Expected /\ loaded' = "none" /\ openRuntime' = "none" /\ openSource' = Expected
  /\ session' = "none" /\ offer' = NoOffer /\ trial' = NoTrial
  /\ keys' = {} /\ results' = [k \in {} |-> Undecided]

NextInstance ==
  /\ rpc = "next" /\ queue # <<>>
  /\ \E m \in {Head(queue), None} : StartExecution(Head(queue), m)
  /\ queue' = Tail(queue)
  /\ rpc' = "execute"
  /\ UNCHANGED <<files, artifactVars, catalog, runConfig, finalRuntime, collected, spans>>

(* Bound: in a run sessions can observe everything, and transcripts have    *)
(* few flaws; module ScenarioExecution has all of them.                     *)
WithinRun ==
  /\ offer' # NoOffer => offer'.common /\ offer'.mutation /\ offer'.ack /\ offer'.customer = "entry_and_terminal"
  /\ trial' # NoTrial => trial'.flaws \subseteq RunFlaws

Execute ==
  /\ rpc = "execute"
  /\ ExecutionStep /\ WithinRun
  /\ UNCHANGED <<artifactVars, runVars>>

(* A result names its instance and the analysis of its execution; the       *)
(* source and the runtime section of its session are kept as history.       *)
Collect ==
  /\ rpc = "execute" /\ pc = "returned"
  /\ collected' = collected \cup
       {[instance |-> Len(catalog) - Len(queue), key |-> k, result |-> results[k].result, authority |-> fresh,
         source |-> openSource, runtime |-> openRuntime] : k \in keys}
  /\ pc' = "idle" /\ trial' = NoTrial /\ offer' = NoOffer /\ session' = "none"
  /\ rpc' = IF queue = <<>> THEN "final" ELSE "next"
  /\ UNCHANGED <<files, scenario, subject, moved, fresh, loaded, openRuntime, openSource, keys, results,
                 artifactVars, queue, catalog, runConfig, finalRuntime, spans>>

FinalLoad ==
  /\ rpc = "final"
  /\ finalRuntime' = runtime
  /\ rpc' = "validate"
  /\ UNCHANGED <<execVars, artifactVars, queue, catalog, runConfig, collected, spans>>

(* Mutant of ValidateUnchangedAuthority: the configuration is not compared. *)
ValidateUnchangedSource ==
  /\ rpc = "validate"
  /\ rpc' = IF source = Expected THEN "build" ELSE "aborted"
  /\ UNCHANGED <<execVars, artifactVars, queue, catalog, runConfig, finalRuntime, collected, spans>>

ValidateUnchangedAuthority ==
  /\ rpc = "validate"
  /\ rpc' = IF source = Expected /\ finalRuntime = runConfig THEN "build" ELSE "aborted"
  /\ UNCHANGED <<execVars, artifactVars, queue, catalog, runConfig, finalRuntime, collected, spans>>

(* What ends a run: an execution that raises, an analysis or a              *)
(* configuration that cannot be read.                                       *)
RunRaises ==
  /\ \/ rpc = "execute" /\ pc \in {"raised", "lost"}
     \/ rpc \in {"load", "analyse", "final", "validate"}
  /\ rpc' = "aborted"
  /\ UNCHANGED <<execVars, artifactVars, queue, catalog, runConfig, finalRuntime, collected, spans>>

AssertionsOf(c) == UNION {{<<i, k>> : k \in DOMAIN c[i].states} : i \in DOMAIN c}

(* Mutant of BuildVerificationRun: results are taken whatever authority     *)
(* they name.                                                               *)
BuildOfAnyAuthority ==
  /\ rpc = "build"
  /\ spans' = source
  /\ rpc' = IF {<<r.instance, r.key>> : r \in collected} # AssertionsOf(catalog) THEN "aborted" ELSE "publish"
  /\ UNCHANGED <<execVars, artifactVars, queue, catalog, runConfig, finalRuntime, collected>>

(* build_verification_run: the results must be one for each assertion of    *)
(* the first analysis, and name it.  The spans of the checks are read from  *)
(* the files as they are now; they may not be there.                        *)
BuildVerificationRun ==
  /\ rpc = "build"
  /\ spans' = source
  /\ LET refused == \/ {<<r.instance, r.key>> : r \in collected} # AssertionsOf(catalog)
                    \/ \E r \in collected : r.authority # Expected
     IN  \/ rpc' = IF refused THEN "aborted" ELSE "publish"
         \/ source # Expected /\ rpc' = "aborted"
  /\ UNCHANGED <<execVars, artifactVars, queue, catalog, runConfig, finalRuntime, collected>>

Publish ==
  /\ rpc = "publish"
  /\ WriteStep
  /\ UNCHANGED <<execVars, runVars>>

RunStep ==
  \/ LoadInitial \/ AnalyseInitial \/ NextInstance \/ Execute \/ Collect
  \/ FinalLoad \/ ValidateUnchangedAuthority \/ RunRaises \/ BuildVerificationRun \/ Publish

(* The files are edited at any time but before the first analysis, where    *)
(* only the runtime section is (what it reads is source 0).                 *)
EditBetween ==
  /\ edits < MaxEdits
  /\ rpc \in {"load", "analyse", "final", "validate", "build"}
  /\ edits' = edits + 1
  /\ \/ source' = 1 - source /\ runtime' = runtime /\ rpc \notin {"load", "analyse"}
     \/ source' = source /\ runtime' \in {"managed", "managed_other", "static"} \ {runtime}
  /\ UNCHANGED <<pc, scenario, subject, moved, fresh, loaded, openRuntime, openSource, session,
                 offer, trial, keys, results>>
  /\ UNCHANGED <<artifactVars, runVars>>

EditDuring == rpc = "execute" /\ Edit /\ UNCHANGED <<artifactVars, runVars>>
Alone == rpc = "alone" /\ ExecutionNext /\ UNCHANGED <<artifactVars, runVars>>

Next == RunStep \/ EditBetween \/ EditDuring \/ Alone
Spec == Init /\ [][Next]_allVars
-----------------------------------------------------------------------------
Published == final # "none"
VerdictsOf(rs) == {r \in rs : r.result \in Verdicts}

(* A run that anybody can read is of one source: it has a result for every  *)
(* assertion that the first analysis found, each of them decided under that *)
(* analysis, and a verdict only from a session that ran its source; so it   *)
(* is also where the source was edited and the edit undone.                 *)
PublishedRunIsOfOneSource ==
  Published =>
    /\ {<<r.instance, r.key>> : r \in collected} = AssertionsOf(catalog)
    /\ \A r \in collected : r.authority = Expected
    /\ \A r \in VerdictsOf(collected) : r.source = Expected
    /\ \A r, s \in collected : r.instance = s.instance /\ r.key = s.key => r = s

(* An edit that is still there at the end publishes nothing: a verdict that *)
(* was reached under another configuration than the run names is published  *)
(* only where two edits, the second of which undoes the first, hide it.     *)
DriftAborts ==
  Published =>
    /\ finalRuntime = runConfig
    /\ edits < 2 => \A r \in VerdictsOf(collected) : r.runtime = runConfig

(* docs/CURRENT_STATE.md, 329: create_verification_run aborts without a     *)
(* completed artifact on authority drift.  Every verdict of a published run *)
(* was reached under the configuration that the run names.                  *)
RunConfigIsExecuted ==
  Published => \A r \in VerdictsOf(collected) : r.runtime = runConfig
=============================================================================
