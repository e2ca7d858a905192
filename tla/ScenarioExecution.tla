------------------------- MODULE ScenarioExecution -------------------------
(***************************************************************************)
(* execute_sg01 to execute_sg08 (application/failure_lab.py): one instance *)
(* of a scenario, from the fingerprint its caller expects to a result for  *)
(* each of its assertions.                                                 *)
(*                                                                         *)
(* The source and the configuration are files.  An execution reads each of *)
(* them three times, and another process edits them in between: the first  *)
(* analysis, the configuration, the configuration and the analysis of the  *)
(* session that is opened, and the worker of that session.  What a session *)
(* does is in module ManagedSession, the verdicts in ScenarioVerdicts.     *)
(***************************************************************************)
EXTENDS Naturals, Sequences, FiniteSets, ScenarioAssertions

CONSTANTS
  Instances,    \* what analyses make of an instance of a scenario
  MaxEdits      \* bound: how often the files are edited

VARIABLES
  source, runtime, edits,     \* the files: the source, and the runtime section
  pc,
  scenario, subject, moved,   \* the instance, as an analysis of each source finds it
  fresh, loaded,              \* what the execution has read itself
  openRuntime, openSource,    \* and what its session was opened with
  session, offer, trial,      \* the session, its capabilities, what came of the requests
  keys, results

files == <<source, runtime, edits>>
execVars == <<files, pc, scenario, subject, moved, fresh, loaded, openRuntime, openSource,
              session, offer, trial, keys, results>>

None == [kind |-> "none"]

(* The caller expects the fingerprint of source 0.                          *)
Expected == 0
InstanceAt(s) == IF s = Expected THEN subject ELSE moved

(* An analysis finds it with the states of its assertions: those that the   *)
(* engine gives are valid (theorem InstancesAreValid, ApplicabilityProofs). *)
InstanceValid(x) == x # None /\ StatesValid(x.scenario, x.states)

ASSUME InstancesAssumption == \A x \in Instances : InstanceValid(x)

(* A result; an assertion that has none yet is undecided.                   *)
Undecided == [result |-> "none", reason |-> "none"]
Unverified(reason) == [result |-> "UNVERIFIED", reason |-> reason]
Mismatch == Unverified("AUTHORITY_MISMATCH")
All(ks, r) == [k \in ks |-> r]

Open == {k \in keys : results[k] = Undecided}

EarlyApplicabilityResult(state) ==
  CASE state = "NOT_APPLICABLE" -> [result |-> "NOT_APPLICABLE", reason |-> "APPLICABILITY_NOT_APPLICABLE"]
    [] state = "NEEDS_INPUT" -> [result |-> "NEEDS_INPUT", reason |-> "APPLICABILITY_NEEDS_INPUT"]
    [] state = "INDETERMINATE" -> Unverified("APPLICABILITY_INDETERMINATE")
    [] OTHER -> Undecided

EarlyOr(x, k, otherwise) ==
  LET early == EarlyApplicabilityResult(x.states[k])
  IN  IF early # Undecided THEN early ELSE otherwise
-----------------------------------------------------------------------------
(* What each execution decides from its first analysis, by assertion.       *)

(* An instance without a control is not executed; it has a state all the    *)
(* same, and that is reported first.                                        *)
StateThenControl(x, k) == EarlyOr(x, k, IF x.control THEN Undecided ELSE Mismatch)

Preflight01(x) == [k \in {"SG01"} |-> IF x = None THEN Mismatch ELSE StateThenControl(x, k)]
Preflight02(x) == [k \in {"SG02"} |-> IF x = None THEN Mismatch ELSE StateThenControl(x, k)]

(* SG-03 and SG-07 look for the control first.                              *)
Preflight03(x) ==
  [k \in {"SG03"} |-> IF x = None \/ ~x.control THEN Mismatch ELSE EarlyOr(x, k, Undecided)]
Preflight07(x) ==
  [k \in {"SG07"} |-> IF x = None \/ ~x.control THEN Mismatch ELSE EarlyOr(x, k, Undecided)]

KeysOf(s, x) == IF x = None THEN CatalogKeys(s) ELSE DOMAIN x.states

Preflight04(x) ==
  [k \in KeysOf("SG-04", x) |-> IF x = None THEN Mismatch ELSE StateThenControl(x, k)]
Preflight05(x) ==
  [k \in KeysOf("SG-05", x) |-> IF x = None THEN Mismatch ELSE EarlyOr(x, k, Undecided)]
Preflight06(x) ==
  [k \in KeysOf("SG-06", x) |-> IF x = None THEN Mismatch ELSE EarlyOr(x, k, Undecided)]

(* SG-08: without a control, the states if all say that there is nothing to *)
(* execute; then both policies must be there, on current evidence.          *)
Preflight08(x) ==
  LET ks == KeysOf("SG-08", x)
      p == x.policy
      unusable == \A k \in ks : EarlyApplicabilityResult(x.states[k]) # Undecided
  IN  IF x = None THEN All(ks, Mismatch)
      ELSE IF ~x.control
      THEN [k \in ks |-> IF unusable THEN EarlyApplicabilityResult(x.states[k]) ELSE Mismatch]
      ELSE IF p.fulfilment = "none" \/ p.late = "none" THEN [k \in ks |-> EarlyOr(x, k, Mismatch)]
      ELSE IF ~p.current \/ ~p.late_current
      THEN [k \in ks |-> EarlyOr(x, k, Unverified("STALE_APPLICABILITY_AUTHORITY"))]
      ELSE IF p.fulfilment = "AUTHORIZED_ALLOWED"
      THEN All(ks, Unverified("MERCHANT_LATE_CONTEXT_UNPROVEN"))
      ELSE [k \in ks |-> EarlyOr(x, k, Undecided)]

Preflight(s, x) ==
  CASE s = "SG-01" -> Preflight01(x) [] s = "SG-02" -> Preflight02(x) [] s = "SG-03" -> Preflight03(x)
    [] s = "SG-04" -> Preflight04(x) [] s = "SG-05" -> Preflight05(x) [] s = "SG-06" -> Preflight06(x)
    [] s = "SG-07" -> Preflight07(x) [] s = "SG-08" -> Preflight08(x)
-----------------------------------------------------------------------------
(* A list of refusals, in the order of the code: the first that holds gives *)
(* the reason.                                                              *)
Refusal(holds, reason) == [holds |-> holds, reason |-> reason]
FirstReason(refusals) ==
  LET hit == {i \in DOMAIN refusals : refusals[i].holds}
  IN  IF hit = {} THEN "none" ELSE refusals[CHOOSE i \in hit : \A j \in hit : i <= j].reason

(* What the configuration and the environment must have: r is the runtime   *)
(* section, unset the environment variables that are missing.               *)
Admit(r, unset) ==
  FirstReason(<<Refusal(r \notin {"managed", "managed_other"}, "RUNTIME_MODE_UNSUPPORTED"),
                Refusal("webhook_secret" \in unset, "WEBHOOK_SECRET_UNAVAILABLE")>>)
Admit06(r, unset) ==
  FirstReason(<<Refusal(r \notin {"managed", "managed_other"}, "RUNTIME_MODE_UNSUPPORTED"),
                Refusal("checkout_secret" \in unset, "CHECKOUT_SECRET_UNAVAILABLE"),
                Refusal("server_order" \in unset, "SERVER_ORDER_CONTROL_UNAVAILABLE")>>)

(* Mutant of Stale: only the two fingerprints of the source are compared.   *)
StaleSourceOnly == Refusal(openSource # fresh, "STALE_APPLICABILITY_AUTHORITY")

(* What a session that was opened is compared with: the analysis and the    *)
(* runtime section of before, and the instance.                             *)
Stale == Refusal(openSource # fresh \/ openRuntime # loaded, "STALE_APPLICABILITY_AUTHORITY")
Replaced(reason) == Refusal(InstanceAt(openSource) # InstanceAt(fresh), reason)
NoSession == Refusal(session # "managed", "RUNTIME_SESSION_UNAVAILABLE")
ManyIngresses == Refusal(InstanceAt(fresh).ingresses # 1, "AUTHORITY_MISMATCH")
NoBinding == Refusal(~InstanceAt(fresh).binding, "RUNTIME_CAPABILITY_INSUFFICIENT")

Reopen01 == <<Stale, Replaced("AUTHORITY_MISMATCH"), NoSession>>
Reopen02 == <<Stale, Replaced("AUTHORITY_MISMATCH"), NoSession>>
Reopen03 == <<Stale, Replaced("STALE_APPLICABILITY_AUTHORITY"), NoSession>>
Reopen04 == <<Stale, Replaced("STALE_APPLICABILITY_AUTHORITY"), NoSession, ManyIngresses>>
Reopen05 == <<Stale, Replaced("AUTHORITY_MISMATCH"), NoSession, ManyIngresses>>
Reopen06 ==
  <<Stale, Replaced("STALE_APPLICABILITY_AUTHORITY"), NoSession, ManyIngresses, NoBinding>>
Reopen07 == <<Stale, Replaced("STALE_APPLICABILITY_AUTHORITY"), NoSession>>
Reopen08 == <<Stale, Replaced("STALE_APPLICABILITY_AUTHORITY"), NoSession>>

Reopen ==
  CASE scenario = "SG-01" -> Reopen01 [] scenario = "SG-02" -> Reopen02
    [] scenario = "SG-03" -> Reopen03 [] scenario = "SG-04" -> Reopen04
    [] scenario = "SG-05" -> Reopen05 [] scenario = "SG-06" -> Reopen06
    [] scenario = "SG-07" -> Reopen07 [] scenario = "SG-08" -> Reopen08
-----------------------------------------------------------------------------
(* What the session can observe: common of its ingress and its process,     *)
(* customer of the control's target, mutation of every mutation node of the *)
(* assertion, ack whether there is one success to fail.                     *)
CustomerObservable(o) == o.common /\ o.customer # "unavailable"
CustomerPassCapability(o) == o.common /\ o.customer = "entry_and_terminal"
MutationCapability(o) == o.common /\ o.mutation
CapabilityIsSufficient(o) == o.common /\ o.customer = "entry_and_terminal"

Capable01(o) == CapabilityIsSufficient(o)
Capable03(o) == CapabilityIsSufficient(o) /\ o.ack
Capable04(o, ks) ==
  ("SG04" \in ks /\ CustomerObservable(o)) \/ ("SG04_STATE" \in ks /\ MutationCapability(o))
Capable05(o, ks) ==
  ("SG05_MUTATION" \in ks /\ MutationCapability(o)) \/ ("SG05" \in ks /\ CustomerObservable(o))
Capable06(o, ks) ==
  ("SG06_MUTATION" \in ks /\ MutationCapability(o)) \/ ("SG06" \in ks /\ CustomerObservable(o))

Capable(o) ==
  CASE scenario \in {"SG-01", "SG-02", "SG-07", "SG-08"} -> Capable01(o)
    [] scenario = "SG-03" -> Capable03(o)
    [] scenario = "SG-04" -> Capable04(o, Open)
    [] scenario = "SG-05" -> Capable05(o, Open)
    [] scenario = "SG-06" -> Capable06(o, Open)

(* The requests of each scenario.                                           *)
RequestCount ==
  CASE scenario \in {"SG-01", "SG-07"} -> 1
    [] scenario = "SG-08" -> IF "SG08_CAPTURE" \in Open THEN 2 ELSE 1
    [] OTHER -> 2

(* Mutant of LooksUp: SG-08 takes both of its assertions for granted.       *)
LooksUpBoth == IF scenario = "SG-08" THEN {"SG08_PRECAPTURE", "SG08_CAPTURE"} ELSE {}

(* The assertions of a pair are looked up by name.                          *)
LooksUp ==
  CASE scenario = "SG-04" -> {"SG04_STATE"}
    [] scenario = "SG-05" -> {"SG05", "SG05_MUTATION"}
    [] scenario = "SG-06" -> {"SG06", "SG06_MUTATION"}
    [] OTHER -> {}
-----------------------------------------------------------------------------
(* What an execution makes of its requests and of the transcript that the   *)
(* session was closed with.  A flaw of the transcript: it could not be had, *)
(* it does not match the capabilities, it has diagnostics, it names other   *)
(* requests, or a foreign control or mutation.                              *)
Flaws == {"close_failed", "mismatch", "diagnostics", "authority", "foreign_customer", "foreign_mutation"}

CloseFailed(t) == Refusal("close_failed" \in t.flaws, "TRANSCRIPT_UNTRUSTWORTHY")
Incapable(o) == Refusal(~Capable(o), "RUNTIME_CAPABILITY_INSUFFICIENT")
Unanswered(t, n) == Refusal(t.answered # n, "REQUEST_EXECUTION_FAILED")
TranscriptMismatch(t) == Refusal("mismatch" \in t.flaws, "TRANSCRIPT_UNTRUSTWORTHY")
Diagnosed(t) == Refusal("diagnostics" \in t.flaws, "TRANSCRIPT_UNTRUSTWORTHY")
Foreign(t, flaws) == Refusal(t.flaws \cap flaws # {}, "AUTHORITY_MISMATCH")

Trust01(o, t) ==
  <<CloseFailed(t), Incapable(o), Unanswered(t, 1), TranscriptMismatch(t), Diagnosed(t),
    Foreign(t, {"authority", "foreign_customer"})>>
Trust02(o, t) ==
  <<CloseFailed(t), Incapable(o), TranscriptMismatch(t), Diagnosed(t), Unanswered(t, 2),
    Foreign(t, {"authority", "foreign_customer"})>>
Trust03(o, t) ==
  <<CloseFailed(t), Incapable(o), Unanswered(t, 2), TranscriptMismatch(t),
    Foreign(t, {"diagnostics", "authority", "foreign_customer"})>>
Trust04(o, t) ==
  <<CloseFailed(t), Incapable(o), Unanswered(t, 2), TranscriptMismatch(t),
    Foreign(t, {"diagnostics", "authority", "foreign_customer"})>>
Trust05(o, t, ks) ==
  <<CloseFailed(t), Incapable(o), Unanswered(t, 2), TranscriptMismatch(t), Diagnosed(t),
    Foreign(t, {"authority"} \cup (IF "SG05" \in ks THEN {"foreign_customer"} ELSE {})
                             \cup (IF "SG05_MUTATION" \in ks THEN {"foreign_mutation"} ELSE {}))>>
Trust06(o, t, ks) ==
  <<CloseFailed(t), Incapable(o), Unanswered(t, 2), TranscriptMismatch(t),
    Foreign(t, {"diagnostics", "authority"}
                 \cup (IF InstanceAt(fresh).control THEN {"foreign_customer"} ELSE {})
                 \cup (IF "SG06_MUTATION" \in ks THEN {"foreign_mutation"} ELSE {}))>>
Trust07(o, t) ==
  <<CloseFailed(t), Incapable(o), Unanswered(t, 1), TranscriptMismatch(t),
    Foreign(t, {"diagnostics", "authority", "foreign_customer"})>>
Trust08(o, t) ==
  <<CloseFailed(t), Incapable(o), Unanswered(t, RequestCount), TranscriptMismatch(t),
    Foreign(t, {"diagnostics", "authority", "foreign_customer"})>>

Trust(o, t) ==
  CASE scenario = "SG-01" -> Trust01(o, t) [] scenario = "SG-02" -> Trust02(o, t)
    [] scenario = "SG-03" -> Trust03(o, t) [] scenario = "SG-04" -> Trust04(o, t)
    [] scenario = "SG-05" -> Trust05(o, t, Open) [] scenario = "SG-06" -> Trust06(o, t, Open)
    [] scenario = "SG-07" -> Trust07(o, t) [] scenario = "SG-08" -> Trust08(o, t)

(* The verdict of an assertion, from that of its reducer.  In a pair, the   *)
(* customer's needs an observable target, and a pass the whole lifecycle.   *)
Insufficient == Unverified("RUNTIME_CAPABILITY_INSUFFICIENT")
Passes(verdict) == verdict.result = "VERIFIED_PASS"

(* Mutant of CustomerVerdict: every verdict needs the whole lifecycle.      *)
CustomerVerdictWhole(o, verdict) == IF ~CustomerPassCapability(o) THEN Insufficient ELSE verdict

CustomerVerdict(o, verdict) ==
  IF ~CustomerObservable(o) \/ (Passes(verdict) /\ ~CustomerPassCapability(o))
  THEN Insufficient ELSE verdict

Judge04(k, o, verdict) ==
  IF k = "SG04" THEN CustomerVerdict(o, verdict)
  ELSE IF ~MutationCapability(o) THEN Insufficient
  ELSE IF ~InstanceAt(fresh).pair THEN Mismatch
  ELSE verdict
Judge05(k, o, verdict) ==
  IF k = "SG05_MUTATION" THEN (IF MutationCapability(o) THEN verdict ELSE Insufficient)
  ELSE IF ~InstanceAt(fresh).control THEN Insufficient
  ELSE CustomerVerdict(o, verdict)
Judge06(k, o, verdict) ==
  IF k = "SG06_MUTATION" THEN (IF MutationCapability(o) THEN verdict ELSE Insufficient)
  ELSE IF ~InstanceAt(fresh).control THEN Insufficient
  ELSE CustomerVerdict(o, verdict)

(* SG-08 evaluates two assertions, and has none to return for another.      *)
Judge08(k, t, verdict) ==
  CASE k = "SG08_PRECAPTURE" -> verdict
    [] k = "SG08_CAPTURE" -> IF t.answered = 2 THEN verdict ELSE Unverified("REQUEST_EXECUTION_FAILED")
    [] OTHER -> Undecided

Judge(k, o, t) ==
  LET verdict == t.outcome[k]
  IN  CASE scenario = "SG-04" -> Judge04(k, o, verdict)
        [] scenario = "SG-05" -> Judge05(k, o, verdict)
        [] scenario = "SG-06" -> Judge06(k, o, verdict)
        [] scenario = "SG-08" -> Judge08(k, t, verdict)
        [] OTHER -> verdict
-----------------------------------------------------------------------------
(* The steps.  pc is where the execution is: "lost" is a lookup that fails  *)
(* in its own code, "raised" an error of an analysis, of the configuration  *)
(* or of a session that is closed, which the execution does not catch.      *)
Offers ==
  LET whole == [common |-> TRUE, customer |-> "entry_and_terminal", mutation |-> TRUE, ack |-> TRUE]
  IN  {[whole EXCEPT !.customer = c, !.mutation = m] :
         c \in {"unavailable", "entry", "entry_and_terminal"}, m \in BOOLEAN}
      \cup {[whole EXCEPT !.ack = FALSE], [whole EXCEPT !.common = FALSE]}

Outcomes == {[result |-> r, reason |-> "EVALUATED"] : r \in {"VERIFIED_PASS", "VERIFIED_FAIL", "UNVERIFIED"}}

(* At most one flaw at a time; requests stop at the first that fails.  The  *)
(* reducer of SG-08 needs a second request to say that nothing was entered  *)
(* before it (module ScenarioVerdicts).                                     *)
Trials(n, ks) ==
  {t \in [answered : 0..n, flaws : {{}} \cup {{x} : x \in Flaws}, outcome : [ks -> Outcomes]] :
     "SG08_PRECAPTURE" \in ks /\ n = 1 => ~Passes(t.outcome["SG08_PRECAPTURE"])}

NoOffer == None
NoTrial == None

Begin(s, x, m) ==
  /\ pc = "preflight"
  /\ scenario = s /\ subject = x /\ moved = m
  /\ fresh = Expected /\ loaded = "none" /\ openRuntime = "none" /\ openSource = Expected
  /\ session = "none" /\ offer = NoOffer /\ trial = NoTrial
  /\ keys = {} /\ results = [k \in {} |-> Undecided]

ExecutionInit ==
  /\ source = Expected /\ runtime \in {"managed", "byo", "static"} /\ edits = 0
  /\ \E x \in Instances : \E y, m \in {x, None} : Begin(x.scenario, y, m)

(* Results are decided together, and the execution returns when none is     *)
(* open.                                                                    *)
Decide(decided, next) ==
  /\ keys' = DOMAIN decided
  /\ results' = decided
  /\ pc' = IF \A k \in DOMAIN decided : decided[k] # Undecided THEN "returned" ELSE next

Withhold(reason) ==
  Decide([k \in keys |-> IF k \in Open THEN Unverified(reason) ELSE results[k]], "returned")

AnalyseFirst ==
  /\ pc = "preflight"
  /\ fresh' = source
  /\ LET x == InstanceAt(source)
     IN  Decide(IF source # Expected
                THEN All(KeysOf(scenario, x), Unverified("STALE_APPLICABILITY_AUTHORITY"))
                ELSE Preflight(scenario, x),
                "admit")
  /\ UNCHANGED <<files, scenario, subject, moved, loaded, openRuntime, openSource, session, offer, trial>>

LoadConfig ==
  /\ pc = "admit"
  /\ loaded' = runtime
  /\ \E unset \in SUBSET {"webhook_secret", "checkout_secret", "server_order"} :
       LET reason == IF scenario = "SG-06" THEN Admit06(runtime, unset) ELSE Admit(runtime, unset)
       IN  IF reason # "none" THEN Withhold(reason)
           ELSE pc' = "open" /\ UNCHANGED <<keys, results>>
  /\ UNCHANGED <<files, scenario, subject, moved, fresh, openRuntime, openSource, session, offer, trial>>

(* open_runtime_session loads the configuration, and then analyses again.   *)
OpenLoad ==
  /\ pc = "open"
  /\ openRuntime' = runtime
  /\ pc' = "analyse"
  /\ UNCHANGED <<files, scenario, subject, moved, fresh, loaded, openSource, session, offer, trial, keys, results>>

OpenAnalyse ==
  /\ pc = "analyse"
  /\ openSource' = source
  /\ pc' = "start"
  /\ UNCHANGED <<files, scenario, subject, moved, fresh, loaded, openRuntime, session, offer, trial, keys, results>>

(* A session starts or, without an error, does not.  A managed one starts   *)
(* only on the source that was analysed: its worker compares the two.       *)
OpenSession ==
  /\ pc = "start"
  /\ session' \in CASE openRuntime = "static" -> {"none"}
                    [] openRuntime = "byo" -> {"none", "byo"}
                    [] OTHER -> IF source = openSource THEN {"none", "managed"} ELSE {"none"}
  /\ pc' = "reopened"
  /\ UNCHANGED <<files, scenario, subject, moved, fresh, loaded, openRuntime, openSource, offer, trial, keys, results>>

(* The steps before that can fail with an OSError or a ValueError, which is *)
(* caught; a session that was started is closed on the way.                 *)
OpenFails ==
  /\ pc \in {"open", "analyse", "start"}
  /\ Withhold("RUNTIME_SESSION_UNAVAILABLE")
  /\ UNCHANGED <<files, scenario, subject, moved, fresh, loaded, openRuntime, openSource, session, offer, trial>>

(* Mutant of CompareReopened: a session that is turned down is left open.   *)
CompareReopenedLeft ==
  /\ pc = "reopened"
  /\ LET reason == FirstReason(Reopen)
     IN  IF reason # "none" THEN Withhold(reason)
         ELSE pc' = "assess" /\ UNCHANGED <<keys, results>>
  /\ UNCHANGED <<files, scenario, subject, moved, fresh, loaded, openRuntime, openSource, session, offer, trial>>

CompareReopened ==
  /\ pc = "reopened"
  /\ LET reason == FirstReason(Reopen)
     IN  /\ session' = IF reason # "none" /\ session # "none" THEN "closed" ELSE session
         /\ IF reason # "none" THEN Withhold(reason)
            ELSE /\ pc' = IF LooksUp \subseteq DOMAIN InstanceAt(fresh).states THEN "assess" ELSE "lost"
                 /\ UNCHANGED <<keys, results>>
  /\ UNCHANGED <<files, scenario, subject, moved, fresh, loaded, openRuntime, openSource, offer, trial>>

(* The close of a session that is turned down is not guarded.               *)
CloseRaises ==
  /\ pc = "reopened"
  /\ FirstReason(Reopen) # "none" /\ session # "none"
  /\ session' = "closed"
  /\ pc' = "raised"
  /\ UNCHANGED <<files, scenario, subject, moved, fresh, loaded, openRuntime, openSource, offer, trial, keys, results>>

AssessCapability ==
  /\ pc = "assess"
  /\ offer' \in Offers
  /\ pc' = "dispatch"
  /\ UNCHANGED <<files, scenario, subject, moved, fresh, loaded, openRuntime, openSource, session, trial, keys, results>>

(* _dispatch_managed_sequence: nothing is sent without the capability, and  *)
(* the session is closed whatever happens.                                  *)
DispatchManagedSequence ==
  /\ pc = "dispatch"
  /\ trial' \in Trials(IF Capable(offer) THEN RequestCount ELSE 0, Open)
  /\ session' = "closed"
  /\ pc' = "judge"
  /\ UNCHANGED <<files, scenario, subject, moved, fresh, loaded, openRuntime, openSource, offer, keys, results>>

JudgeTranscript ==
  /\ pc = "judge"
  /\ LET reason == FirstReason(Trust(offer, trial))
     IN  IF reason # "none" THEN Withhold(reason)
         ELSE Decide([k \in keys |-> IF k \in Open THEN Judge(k, offer, trial) ELSE results[k]], "lost")
  /\ UNCHANGED <<files, scenario, subject, moved, fresh, loaded, openRuntime, openSource, session, offer, trial>>

(* An analysis or a configuration that cannot be read ends the execution.   *)
ReadRaises ==
  /\ pc \in {"preflight", "admit"}
  /\ pc' = "raised"
  /\ UNCHANGED <<files, scenario, subject, moved, fresh, loaded, openRuntime, openSource, session,
                 offer, trial, keys, results>>

ExecutionStep ==
  \/ AnalyseFirst \/ LoadConfig
  \/ OpenLoad \/ OpenAnalyse \/ OpenSession \/ OpenFails
  \/ CompareReopened \/ CloseRaises
  \/ AssessCapability \/ DispatchManagedSequence \/ JudgeTranscript
  \/ ReadRaises

(* Nothing reads the files once the session is there.                       *)
Edit ==
  /\ edits < MaxEdits
  /\ pc \in {"preflight", "admit", "open", "analyse", "start"}
  /\ edits' = edits + 1
  /\ \/ source' = 1 - source /\ runtime' = runtime
     \/ source' = source /\ runtime' \in {"managed", "managed_other", "byo", "static"} \ {runtime}
  /\ UNCHANGED <<pc, scenario, subject, moved, fresh, loaded, openRuntime, openSource, session,
                 offer, trial, keys, results>>

ExecutionNext == ExecutionStep \/ Edit
ExecutionSpec == ExecutionInit /\ [][ExecutionNext]_execVars
-----------------------------------------------------------------------------
Verdicts == {"VERIFIED_PASS", "VERIFIED_FAIL"}
OwnMutation == {"SG04_STATE", "SG05_MUTATION", "SG06_MUTATION"}

Earned(k) ==
  /\ fresh = Expected /\ openSource = Expected
  /\ openRuntime = loaded /\ loaded \in {"managed", "managed_other"}
  /\ subject.states[k] = "APPLICABLE"
  /\ k \notin OwnMutation => subject.control
  /\ trial.answered = 2 \/ (trial.answered = 1 /\ k \in {"SG01", "SG07"})
                         \/ (trial.answered = 1 /\ k = "SG08_PRECAPTURE" /\ ~Passes(results[k]))
  /\ trial.flaws \subseteq {"foreign_customer", "foreign_mutation"}
  /\ "foreign_mutation" \in trial.flaws => k \notin OwnMutation \ {"SG04_STATE"}
  /\ "foreign_customer" \in trial.flaws => k \in OwnMutation
  /\ offer.common
  /\ k \in OwnMutation => offer.mutation
  /\ k \notin OwnMutation => offer.customer # "unavailable"
  /\ k \notin OwnMutation /\ Passes(results[k]) => offer.customer = "entry_and_terminal"

(* A verdict is earned: the assertion was applicable where the caller       *)
(* expects it to be, the session that was asked ran that source under the   *)
(* managed configuration the execution had read, it could observe what the  *)
(* verdict is about and, for a pass, all of it, every request was answered, *)
(* and nothing in the transcript speaks against it.                         *)
VerdictIsEarned ==
  pc = "returned" => \A k \in keys : results[k].result \in Verdicts => Earned(k)

(* A session that was opened is closed when the execution ends, on every    *)
(* path: nothing of the merchant's process outlives it.                     *)
EverySessionIsClosed ==
  pc \in {"returned", "raised", "lost"} => session \in {"none", "closed"}

(* Every assertion of the instance has exactly its result when the          *)
(* execution returns, and no lookup of its own fails: whatever the engine   *)
(* makes of an instance, the execution has a case for it.                   *)
EveryAssertionIsAnswered ==
  /\ pc # "lost"
  /\ pc = "returned" =>
       /\ keys = KeysOf(scenario, InstanceAt(fresh))
       /\ \A k \in keys : results[k] # Undecided

(* The assertions of a pair do not withhold each other: one that can be     *)
(* observed has the verdict of its own reducer, whatever the session cannot *)
(* observe of the other, and a failure is never withheld for the            *)
(* capability that only a pass needs.                                       *)
OwnCapability(k) ==
  /\ offer.common
  /\ IF k \in OwnMutation THEN offer.mutation ELSE offer.customer # "unavailable"

AssertionsAreIndependent ==
  /\ pc = "returned" /\ scenario \in {"SG-04", "SG-05", "SG-06"}
  /\ trial # NoTrial /\ trial.answered = 2 /\ trial.flaws = {}
  => \A k \in DOMAIN trial.outcome :
       /\ /\ OwnCapability(k)
          /\ k = "SG04_STATE" => subject.pair
          /\ k \notin OwnMutation => subject.control
          /\ ~Passes(trial.outcome[k]) \/ k \in OwnMutation \/ offer.customer = "entry_and_terminal"
          => results[k] = trial.outcome[k]
       /\ results[k].result \in Verdicts => results[k] = trial.outcome[k]
=============================================================================
