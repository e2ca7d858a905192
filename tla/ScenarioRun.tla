---------------------------- MODULE ScenarioRun ----------------------------
(***************************************************************************)
(* The end of execute_sg01 to execute_sg08 (application/failure_lab.py):   *)
(* the driver's answers and the transcript the session was closed with     *)
(* become summaries, and these become verdicts, or UNVERIFIED when the     *)
(* transcript is not to be trusted.  The verdicts are compared with what   *)
(* the merchant of module ManagedSession did.                              *)
(***************************************************************************)
EXTENDS ManagedSession, ScenarioVerdicts

(* One captured webhook, two deliveries, or an acknowledgement failure and   *)
(* its retry.                                                               *)
ScenarioPlans == {<<FALSE>>, <<FALSE, FALSE>>, <<TRUE, FALSE>>}

ASSUME PlansAssumption == Plans \subseteq ScenarioPlans

(* summarize_observations, summarize_mutation_observations and              *)
(* summarize_acknowledgement_failure.  Of a status code, "ok" or "error".   *)
At(r, kind) == {i \in DOMAIN published : published[i].request = r /\ published[i].kind = kind}

Summary(r) ==
  [received |-> At(r, "REQUEST_RECEIVED"), entered |-> At(r, "ENTERED"),
   returned |-> At(r, "RETURNED"), escaped |-> At(r, "ESCAPED"),
   injected |-> At(r, "ACK_FAILURE_INJECTED"), completed |-> At(r, "RESPONSE_COMPLETED"),
   aborted |-> At(r, "REQUEST_ABORTED"), status |-> answer[r]]

SequenceAuthorityIsExact ==
  /\ {published[i].request : i \in DOMAIN published} = 1..sent
  /\ LET received == SelectSeq(published, LAMBDA e : e.kind = "REQUEST_RECEIVED")
     IN  [i \in DOMAIN received |-> received[i].request] = [r \in 1..sent |-> r]

TrustedWhenClosed ==                     \* mutant: the transcript's completeness is not read
  parent = "closed" /\ sent = Len(plan) /\ \A r \in 1..sent : answer[r] # "failed"

(* Every request of the scenario has a result, and the transcript is        *)
(* complete and names these requests and no other.                          *)
Trusted ==
  /\ parent = "closed"
  /\ sent = Len(plan) /\ \A r \in 1..sent : answer[r] # "failed"
  /\ seal = "complete"
  /\ SequenceAuthorityIsExact

(* The assertions that a sequence of requests is sent for: one captured     *)
(* webhook, an acknowledgement failure and its retry, or two deliveries.    *)
Assertions ==
  IF plan[1] THEN {"SG03"}
  ELSE IF Len(plan) = 1 THEN {"SG01", "SG07", "SG08_PRECAPTURE"}
  ELSE {"SG02", "SG04", "SG04_STATE", "SG05", "SG06", "SG05_MUTATION", "SG06_MUTATION",
        "SG08_PRECAPTURE", "SG08_CAPTURE"}

LatePolicy == IF Len(plan) = 1 THEN "DO_NOT_FULFIL" ELSE "FULFIL_LATER"

Evaluate(a) ==
  LET s == [r \in DOMAIN plan |-> Summary(r)]
      AtNode(r) == [node \in {"node"} |-> s[r]]
  IN  CASE a \in {"SG01", "SG07"} -> EvaluateObservations(s[1])
        [] a \in {"SG02", "SG04"} -> EvaluateDuplicate(s[1], s[2])
        [] a = "SG03" -> EvaluateRetry(s[1], s[2])
        [] a = "SG04_STATE" -> EvaluateStateSequence(s[1], s[2])
        [] a \in {"SG05", "SG06"} -> EvaluateRejected(s[1], s[2])
        [] a \in {"SG05_MUTATION", "SG06_MUTATION"} -> EvaluateMutations(AtNode(1), AtNode(2))
        [] a = "SG08_PRECAPTURE" -> EvaluatePrecapture(s[1], Tail(s), LatePolicy)
        [] a = "SG08_CAPTURE" -> EvaluateCapture(s[1], s[2])

Result(a) == IF Trusted THEN Evaluate(a) ELSE "UNVERIFIED"

(* A session in which nothing is killed, times out or drifts, and no        *)
(* request fails: those leave no complete transcript, or none at all        *)
(* (module ManagedSession).  The target may still run anywhere and end in   *)
(* any way, calls may abort, and the trace function or the channel fail.    *)
CalmNext ==
  \/ Prepare \/ Spawn \/ PollReady \/ PollNoStatus \/ PollRunning
  \/ SendRequest \/ AllSent \/ \E status \in {"ok", "error"} : ReceiveAnswer(status)
  \/ RequestStop \/ Stopped \/ ReadBack
  \/ ValidateAndImport \/ Import \/ ValidateAndAttach \/ ValidateAndServe
  \/ SeeStop \/ Drained \/ Seal \/ WorkerExit
  \/ RequestNext \/ TracerRaises

ScenarioSpec == SessionInit /\ [][CalmNext]_sessionVars
-----------------------------------------------------------------------------
(* What each assertion says of the merchant, and the request that shows     *)
(* that it was exercised at all.                                            *)
Holds(a) ==
  CASE a \in {"SG01", "SG07"} -> executed[1] = 1
    [] a \in {"SG02", "SG03", "SG04"} -> executed[1] + executed[2] <= 1
    [] a = "SG04_STATE" -> executed[2] = 0
    [] a \in {"SG05", "SG06", "SG05_MUTATION", "SG06_MUTATION", "SG08_PRECAPTURE"}
         -> executed[1] = 0
    [] a = "SG08_CAPTURE" -> executed[1] = 0 /\ executed[2] <= 1

Control(a) ==
  IF a \in {"SG01", "SG02", "SG03", "SG04", "SG04_STATE", "SG07"} THEN 1 ELSE 2

(* VERIFIED_PASS is only given to a merchant that kept the assertion's      *)
(* invariant, and whose target ran in the control request: of executions    *)
(* wherever they began before the seal, returned or raised.                 *)
(* (evaluate_* of sg01 to sg08, over what the trace engine recorded)        *)
PassIsTrue ==
  \A a \in Assertions : Result(a) = "VERIFIED_PASS" => Holds(a) /\ executed[Control(a)] > 0

(* VERIFIED_FAIL is only given to a merchant that broke it.                 *)
FailIsTrue == \A a \in Assertions : Result(a) = "VERIFIED_FAIL" => ~Holds(a)

(* A proven second, forged or early execution is never excused, whatever    *)
(* became of its call: docs/CURRENT_STATE.md's SG-02 and SG-05 truth        *)
(* mappings and RUNTIME_CAPABILITY.md's "any exact authorization-time       *)
(* customer-target entry is a verified pre-capture failure".                *)
ExecutionIsNotExcused ==
  Trusted =>
    \A a \in Assertions :
      \/ a \in {"SG05", "SG06", "SG08_PRECAPTURE"} /\ executed[1] > 0
      \/ a \in {"SG02", "SG04"} /\ NormalControlPasses(Summary(1)) /\ executed[2] > 0
      => Result(a) = "VERIFIED_FAIL"

(* The merchant answered with a 2xx, and its target returned before that.   *)
WellBehaved(r) ==
  /\ Cardinality(At(r, "RETURNED")) = executed[r] /\ At(r, "ESCAPED") = {}
  /\ \A x \in At(r, "RETURNED"), c \in At(r, "RESPONSE_STARTED") \cup At(r, "ACK_FAILURE_INJECTED") :
       x < c
  /\ IF plan[r] THEN Completed(Summary(r)) /\ At(r, "ACK_FAILURE_INJECTED") # {}
                ELSE answer[r] = "ok"

(* An assertion is decided when the merchant behaved well and its target    *)
(* ran in the control request: UNVERIFIED is not the answer to everything.  *)
WellBehavedIsDecided ==
  Trusted /\ (\A r \in DOMAIN plan : WellBehaved(r)) =>
    \A a \in Assertions :
      Control(a) \in DOMAIN plan /\ executed[Control(a)] > 0
        /\ (a \in {"SG05", "SG06", "SG08_PRECAPTURE"} => executed[Control(a)] = 1)
      => Result(a) # "UNVERIFIED"
=============================================================================
