--------------------------- MODULE ManagedSession ---------------------------
(***************************************************************************)
(* One managed runtime session, from ManagedRuntimeSession.start to close: *)
(* the parent that spawns, polls, drives and stops a worker process        *)
(* (runtime/session.py and _dispatch_managed_sequence), the worker that    *)
(* imports, traces and serves the merchant (runtime/worker.py), the ASGI   *)
(* wrapper and the trace engine (runtime/asgi.py, instrumentation.py), and *)
(* the merchant, whose code may run the exact target when it likes, in a   *)
(* handler, a background task, a detached task or a thread of its own.     *)
(*                                                                         *)
(* The channel between them is the sealed transcript that module           *)
(* ObservationChannel is shown to implement.                               *)
(***************************************************************************)
EXTENDS Integers, Sequences, FiniteSets, SequencesExt

CONSTANTS
  Plans,           \* the sequences of requests a driver may send: each request
                   \* TRUE when it carries an acknowledgement failure
  MaxExecutions,   \* bound of the model: executions of the exact target
  MaxEdits,        \* bound of the model: edits of the indexed source
  UntracedThreads, \* the merchant starts threads before install or after uninstall
  Unkillable       \* the worker may survive SIGKILL

ASSUME SessionAssumption ==
  /\ Plans \subseteq Seq(BOOLEAN) \ {<<>>} /\ IsFiniteSet(Plans)
  /\ MaxExecutions \in Nat /\ MaxEdits \in Nat
  /\ UntracedThreads \in BOOLEAN /\ Unkillable \in BOOLEAN

VARIABLES
  parent,          \* where start, the driver or close is
  reason,          \* why start raised, or "none"
  scratch,         \* the private temporary directory exists
  plan,            \* the requests of the scenario, fixed before start
  sent,            \* ManagedRuntimeSession._request_ordinal
  answer,          \* what the driver got for each request
  sessionComplete, \* ManagedRuntimeSession._complete
  stopFile,        \* the stop file exists
  worker,          \* where _serve is, or how the process ended
  failure,         \* the exception _serve caught, as _failure_reason names it
  statusFile,      \* status.json
  collectorOk,     \* ObservationCollector._complete, and the channel's health
  tracer,          \* the ExactTraceEngine of the worker
  source,          \* the indexed source files: "indexed" or "edited"
  edits,           \* edits so far
  imported,        \* the source the worker imported
  call,            \* the ASGI call of each request
  running,         \* observed frames of the exact target, by request
  executed,        \* history: executions begun before the seal, by request
  uncorrelated,    \* history: an execution in no request's context
  recorded, seal, published    \* the channel

startVars == <<reason, scratch>>
driverVars == <<sent, answer, sessionComplete, stopFile>>
workerVars == <<worker, failure, statusFile, imported>>
traceVars == <<collectorOk, tracer>>
merchantVars == <<call, running, executed, uncorrelated>>
sourceVars == <<plan, source, edits>>
channelVars == <<recorded, seal, published>>
sessionVars == <<parent, startVars, driverVars, workerVars, traceVars, merchantVars,
                 sourceVars, channelVars>>

Ids == UNION {DOMAIN p : p \in Plans}
Kinds == {"REQUEST_RECEIVED", "ENTERED", "RETURNED", "ESCAPED", "ACK_FAILURE_INJECTED",
          "RESPONSE_STARTED", "RESPONSE_COMPLETED", "REQUEST_ABORTED"}
Statuses == {"none", "ok", "error"}      \* no status, 2xx, any other
Observations == [request : Ids, kind : Kinds, status : Statuses]
Event(r, kind, status) == [request |-> r, kind |-> kind, status |-> status]

Channel == INSTANCE SealedTranscript

WorkerStates == {"absent", "booting", "validated", "imported", "attached", "serving",
                 "draining", "closing", "sealed", "exited", "dead"}
WorkerRunning == worker \notin {"absent", "exited", "dead"}
Serving == worker \in {"serving", "draining"}
InCall(r) == call[r] \in {"handling", "injected", "started", "completed"}
NoStatus == [state |-> "none", reason |-> "none", complete |-> FALSE]

SessionInit ==
  /\ plan \in Plans
  /\ parent = "new" /\ reason = "none" /\ scratch = FALSE
  /\ sent = 0 /\ answer = [r \in Ids |-> "none"]
  /\ sessionComplete = TRUE /\ stopFile = FALSE
  /\ worker = "absent" /\ failure = "none" /\ statusFile = NoStatus
  /\ collectorOk = TRUE /\ tracer = "absent"
  /\ source = "indexed" /\ edits = 0 /\ imported = "none"
  /\ call = [r \in Ids |-> "none"] /\ running = [r \in Ids |-> 0]
  /\ executed = [r \in Ids |-> 0] /\ uncorrelated = FALSE
  /\ Channel!SealInit
-----------------------------------------------------------------------------
(* The parent: ManagedRuntimeSession.start.                                *)

ParentStep(from, to) ==
  /\ parent = from /\ parent' = to
  /\ UNCHANGED <<workerVars, traceVars, sourceVars>>

(* mkdtemp and plan.json.                                                   *)
Prepare ==
  /\ ParentStep("new", "prepared")
  /\ scratch' = TRUE
  /\ UNCHANGED <<reason, driverVars, merchantVars, channelVars>>

(* _sanitized_environment or the working directory raises, outside any try. *)
EnvironmentRefused ==
  /\ ParentStep("prepared", "refused")
  /\ reason' = "RUNTIME_DEPENDENCY_MISSING"
  /\ UNCHANGED <<scratch, driverVars, merchantVars, channelVars>>

SpawnRefused ==
  /\ ParentStep("prepared", "refused")
  /\ reason' = "STARTUP_FAILED"
  /\ scratch' = FALSE
  /\ UNCHANGED <<driverVars, merchantVars, channelVars>>

Spawn ==
  /\ parent = "prepared" /\ parent' = "polling"
  /\ worker' = "booting"
  /\ UNCHANGED <<startVars, driverVars, failure, statusFile, imported, traceVars,
                 merchantVars, sourceVars, channelVars>>

(* One turn of the polling loop reads the status file, then polls the       *)
(* process: the worker moves in between.                                    *)
PollReady ==
  /\ ParentStep("polling", "driving")
  /\ statusFile.state = "READY"
  /\ UNCHANGED <<startVars, driverVars, merchantVars, channelVars>>

PollFailed ==
  /\ ParentStep("polling", "terminating")
  /\ statusFile.state \notin {"none", "READY"}
  /\ reason' = statusFile.reason
  /\ UNCHANGED <<scratch, driverVars, merchantVars, channelVars>>

PollNoStatus ==
  /\ ParentStep("polling", "looked")
  /\ statusFile.state = "none"
  /\ UNCHANGED <<startVars, driverVars, merchantVars, channelVars>>

PollRunning ==
  /\ ParentStep("looked", "polling")
  /\ WorkerRunning
  /\ UNCHANGED <<startVars, driverVars, merchantVars, channelVars>>

PollExited ==
  /\ ParentStep("looked", "terminating")
  /\ ~WorkerRunning
  /\ reason' = "STARTUP_FAILED"
  /\ UNCHANGED <<scratch, driverVars, merchantVars, channelVars>>

PollTimeout ==
  /\ ParentStep("polling", "terminating")
  /\ reason' = IF WorkerRunning THEN "STARTUP_TIMEOUT" ELSE "STARTUP_FAILED"
  /\ UNCHANGED <<scratch, driverVars, merchantVars, channelVars>>

(* A signal or an unreadable status record interrupts the loop.             *)
PollInterrupted ==
  /\ ParentStep("polling", "terminating")
  /\ reason' = "INTERRUPTED"
  /\ UNCHANGED <<scratch, driverVars, merchantVars, channelVars>>

RefuseUnterminated ==                    \* mutant: the worker is not waited for
  /\ ParentStep("terminating", "refused")
  /\ scratch' = FALSE
  /\ UNCHANGED <<reason, driverVars, merchantVars, channelVars>>

(* The except clause: _terminate_process, whatever it returns, then rmtree. *)
Refuse ==
  /\ ParentStep("terminating", "refused")
  /\ WorkerRunning => Unkillable
  /\ scratch' = FALSE
  /\ UNCHANGED <<reason, driverVars, merchantVars, channelVars>>
-----------------------------------------------------------------------------
(* The driver: _dispatch_managed_sequence and ManagedRuntimeSession.request *)

SendRequest ==
  /\ ParentStep("driving", "awaiting")
  /\ sent < Len(plan)
  /\ WorkerRunning
  /\ sent' = sent + 1
  /\ answer' = [answer EXCEPT ![sent + 1] = "pending"]
  /\ call' = [call EXCEPT ![sent + 1] = "arriving"]
  /\ UNCHANGED <<startVars, sessionComplete, stopFile, running, executed, uncorrelated,
                 channelVars>>

RequestRefused ==
  /\ ParentStep("driving", "closing")
  /\ sent < Len(plan)
  /\ ~WorkerRunning
  /\ sessionComplete' = FALSE
  /\ UNCHANGED <<startVars, sent, answer, stopFile, merchantVars, channelVars>>

(* A response is read: the route's, or the server's own 500 for a call that *)
(* was aborted before its response started.                                 *)
Started(r) ==
  \E status \in {"ok", "error"} : Event(r, "RESPONSE_STARTED", status) \in ToSet(recorded)

ReceiveAnswer(status) ==
  /\ ParentStep("awaiting", "driving")
  /\ \/ /\ call[sent] \in {"completed", "finished"}
        /\ Event(sent, "RESPONSE_STARTED", status) \in ToSet(recorded)
     \/ call[sent] = "aborted" /\ ~Started(sent) /\ status = "error"
  /\ answer' = [answer EXCEPT ![sent] = status]
  /\ UNCHANGED <<startVars, sent, sessionComplete, stopFile, merchantVars, channelVars>>

RequestFailsQuietly ==                   \* mutant: the session stays complete
  /\ ParentStep("awaiting", "closing")
  /\ answer' = [answer EXCEPT ![sent] = "failed"]
  /\ UNCHANGED <<startVars, sent, sessionComplete, stopFile, merchantVars, channelVars>>

(* httpx.HTTPError: a timeout, a reset or a refused connection.  The driver *)
(* stops; the worker may still receive, run or answer the request.          *)
RequestFails ==
  /\ ParentStep("awaiting", "closing")
  /\ answer' = [answer EXCEPT ![sent] = "failed"]
  /\ sessionComplete' = FALSE
  /\ UNCHANGED <<startVars, sent, stopFile, merchantVars, channelVars>>

AllSent ==
  /\ ParentStep("driving", "closing")
  /\ sent = Len(plan)
  /\ UNCHANGED <<startVars, driverVars, merchantVars, channelVars>>
-----------------------------------------------------------------------------
(* ManagedRuntimeSession.close.                                            *)

RequestStop ==
  /\ ParentStep("closing", IF WorkerRunning THEN "stopping" ELSE "reading")
  /\ stopFile' = WorkerRunning
  /\ UNCHANGED <<startVars, sent, answer, sessionComplete, merchantVars, channelVars>>

Stopped ==
  /\ \/ ParentStep("stopping", "reading")
     \/ ParentStep("killing", "reading")
  /\ ~WorkerRunning
  /\ UNCHANGED <<startVars, driverVars, merchantVars, channelVars>>

StopForever == FALSE                     \* mutant: wait() without a timeout

StopTimeout ==
  /\ ParentStep("stopping", "killing")
  /\ WorkerRunning
  /\ UNCHANGED <<startVars, driverVars, merchantVars, channelVars>>

(* _terminate_process returns False: CLEANUP_FAILED.                        *)
CleanupFails ==
  /\ ParentStep("killing", "reading")
  /\ WorkerRunning /\ Unkillable
  /\ sessionComplete' = FALSE
  /\ UNCHANGED <<startVars, sent, answer, stopFile, merchantVars, channelVars>>

SessionSealed ==
  sessionComplete /\ statusFile.state = "CLOSED" /\ statusFile.complete

ReadBack ==
  /\ ParentStep("reading", "closed")
  /\ \/ SessionSealed /\ Channel!PublishComplete
     \/ /\ ~SessionSealed
        /\ seal' = "incomplete"
        /\ \E n \in {0, Len(recorded)} : published' = SubSeq(recorded, 1, n)
        /\ UNCHANGED recorded
  /\ scratch' = FALSE
  /\ UNCHANGED <<reason, driverVars, merchantVars>>
-----------------------------------------------------------------------------
(* The worker: _serve.                                                     *)

WorkerStep == UNCHANGED <<parent, startVars, driverVars, sourceVars>>

(* _validate_inputs, at each of its four calls: the step it guards, or the  *)
(* exception that ends _serve.  Leaving the engine's block uninstalls it    *)
(* and drops the frames it was following.                                   *)
InputsAssumedValid == TRUE               \* mutant: the index is not compared
InputsValid == source = "indexed"

LeaveServing(exception) ==
  /\ worker' = "closing"
  /\ failure' = exception
  /\ tracer' = IF tracer = "installed" THEN "removed" ELSE tracer
  /\ running' = [r \in Ids |-> 0]
  /\ UNCHANGED <<statusFile, imported, collectorOk, call, executed, uncorrelated,
                 channelVars>>

ValidateAndImport ==
  /\ WorkerStep
  /\ worker = "booting"
  /\ \/ /\ InputsValid
        /\ worker' = "validated"
        /\ UNCHANGED <<failure, statusFile, imported, traceVars, merchantVars, channelVars>>
     \/ ~InputsValid /\ LeaveServing("SOURCE_STALE")

(* importlib.import_module runs the merchant's module, from what is on disk *)
Import ==
  /\ WorkerStep
  /\ worker = "validated"
  /\ worker' = "imported"
  /\ imported' = source
  /\ UNCHANGED <<failure, statusFile, traceVars, merchantVars, channelVars>>

(* reconcile_live_instrumentation, the trace engine, attach_exact_routes.   *)
ValidateAndAttach ==
  /\ WorkerStep
  /\ worker = "imported"
  /\ \/ /\ InputsValid
        /\ worker' = "attached"
        /\ tracer' = "installed"
        /\ UNCHANGED <<failure, statusFile, imported, collectorOk, merchantVars, channelVars>>
     \/ ~InputsValid /\ LeaveServing("SOURCE_STALE")

ValidateAndServe ==
  /\ WorkerStep
  /\ worker = "attached"
  /\ \/ /\ InputsValid
        /\ worker' = "serving"
        /\ statusFile' = [state |-> "READY", reason |-> "none", complete |-> FALSE]
        /\ UNCHANGED <<failure, imported, traceVars, merchantVars, channelVars>>
     \/ ~InputsValid /\ LeaveServing("SOURCE_STALE")

(* The preparation, the import, the reconciliation, the bind or uvicorn's   *)
(* startup raises.                                                          *)
StartupRaises ==
  /\ WorkerStep
  /\ worker \in {"booting", "validated", "imported", "attached"}
  /\ LeaveServing("STARTUP_FAILED")

SeeStop ==
  /\ WorkerStep
  /\ worker = "serving"
  /\ stopFile
  /\ worker' = "draining"
  /\ UNCHANGED <<failure, statusFile, imported, traceVars, merchantVars, channelVars>>

ServerEnds ==
  /\ WorkerStep
  /\ worker = "serving"
  /\ LeaveServing("PROCESS_CRASHED")

(* uvicorn has finished every call it accepted; the inputs are validated a  *)
(* last time.                                                               *)
Drained ==
  /\ WorkerStep
  /\ worker = "draining"
  /\ \A r \in Ids : ~InCall(r)
  /\ LeaveServing(IF InputsValid THEN "none" ELSE "SOURCE_STALE")

(* The finally block, with the steps of module ObservationChannel in one:   *)
(* the channel may fail, or have failed, for reasons of its own.            *)
Seal ==
  /\ WorkerStep
  /\ worker = "closing"
  /\ worker' = "sealed"
  /\ \E channelOk \in BOOLEAN :
       statusFile' = [state |-> IF failure = "none" THEN "CLOSED" ELSE "FAILED",
                      reason |-> failure,
                      complete |-> collectorOk /\ channelOk /\ failure = "none"]
  /\ IF seal = "open" THEN Channel!Freeze ELSE UNCHANGED channelVars
  /\ UNCHANGED <<failure, imported, traceVars, merchantVars>>

WorkerExit ==
  /\ WorkerStep
  /\ worker = "sealed"
  /\ worker' = "exited"
  /\ UNCHANGED <<failure, statusFile, imported, traceVars, merchantVars, channelVars>>

(* A crash, or the parent's SIGTERM or SIGKILL.                             *)
WorkerDies ==
  /\ WorkerStep
  /\ WorkerRunning
  /\ worker' = "dead"
  /\ UNCHANGED <<failure, statusFile, imported, traceVars, merchantVars, channelVars>>
-----------------------------------------------------------------------------
(* The merchant under the ASGI wrapper and the trace engine.  Its steps are *)
(* followed until the channel is sealed or read: later ones reach no        *)
(* transcript (module ObservationChannel).                                  *)

MerchantStep ==
  /\ WorkerRunning /\ seal = "open"
  /\ UNCHANGED <<parent, startVars, driverVars, workerVars, sourceVars>>

Observe(r, kind, status) == Channel!Record(Event(r, kind, status))

CallStep(r, from, to) ==
  /\ MerchantStep
  /\ call[r] = from
  /\ call' = [call EXCEPT ![r] = to]
  /\ UNCHANGED <<traceVars, running, executed, uncorrelated>>

(* CorrelationASGIWrapper and ExactRouteASGIWrapper bind the request.       *)
ReceiveCall(r) ==
  /\ Serving
  /\ CallStep(r, "arriving", "handling")
  /\ Observe(r, "REQUEST_RECEIVED", "none")

(* observed_send of the response start, with the 2xx turned into a 503 for  *)
(* a request that carries an acknowledgement failure.                       *)
InjectFailure(r) ==
  /\ Serving
  /\ CallStep(r, "handling", "injected")
  /\ plan[r]
  /\ Observe(r, "ACK_FAILURE_INJECTED", "ok")

StartResponseUninjected(r, status) ==    \* mutant: the 2xx is sent as it was
  /\ Serving
  /\ \/ CallStep(r, "injected", "started") /\ status = "ok"
     \/ CallStep(r, "handling", "started") /\ status \in {"ok", "error"}
  /\ Observe(r, "RESPONSE_STARTED", status)

StartResponse(r, status) ==
  /\ Serving
  /\ \/ CallStep(r, "injected", "started") /\ status = "error"
     \/ /\ CallStep(r, "handling", "started")
        /\ status \in {"ok", "error"}
        /\ plan[r] => status = "error"
  /\ Observe(r, "RESPONSE_STARTED", status)

CompleteResponse(r) ==
  /\ Serving
  /\ CallStep(r, "started", "completed")
  /\ \E status \in {"ok", "error"} :
       /\ Event(r, "RESPONSE_STARTED", status) \in ToSet(recorded)
       /\ Observe(r, "RESPONSE_COMPLETED", status)

(* The call returns once its background tasks have run.                     *)
FinishCall(r) ==
  /\ Serving
  /\ CallStep(r, "completed", "finished")
  /\ UNCHANGED channelVars

AbortCall(r) ==
  /\ Serving
  /\ \/ CallStep(r, "handling", "aborted")
     \/ CallStep(r, "injected", "aborted")
     \/ CallStep(r, "started", "aborted")
  /\ Observe(r, "REQUEST_ABORTED", "none")

Executions == FoldFunction(+, 0, executed)

(* A thread the merchant started while no trace function was installed is   *)
(* never traced; one that was traced stays so when the engine is removed.   *)
Traced == tracer \in {"installed", "removed"}
Untraced == ~Traced \/ UntracedThreads

(* The exact target is called in the context of a request: in its handler,  *)
(* after its response, or in a task or thread that inherited its context.   *)
Enter(r) ==
  /\ MerchantStep
  /\ Executions < MaxExecutions
  /\ call[r] \notin {"none", "arriving"}
  /\ executed' = [executed EXCEPT ![r] = @ + 1]
  /\ \/ /\ Traced
        /\ running' = [running EXCEPT ![r] = @ + 1]
        /\ Observe(r, "ENTERED", "none")
     \/ /\ Untraced
        /\ UNCHANGED <<running, channelVars>>
  /\ UNCHANGED <<traceVars, call, uncorrelated>>

LeaveUnmatched(r, kind) ==               \* mutant: no frame state is needed
  /\ MerchantStep
  /\ running' = [running EXCEPT ![r] = @ - 1]
  /\ Observe(r, kind, "none")
  /\ UNCHANGED <<traceVars, call, executed, uncorrelated>>

(* The frame returns, or an exception escapes from it.                      *)
Leave(r, kind) ==
  /\ MerchantStep
  /\ running[r] > 0
  /\ running' = [running EXCEPT ![r] = @ - 1]
  /\ Observe(r, kind, "none")
  /\ UNCHANGED <<traceVars, call, executed, uncorrelated>>

(* The target is called in no request's context: by a lifespan handler, or  *)
(* by a thread.  _global_trace fails the collector, if it is called.        *)
EnterUncorrelated ==
  /\ MerchantStep
  /\ ~uncorrelated
  /\ tracer # "absent"
  /\ \/ Traced /\ collectorOk' = FALSE
     \/ Untraced /\ UNCHANGED collectorOk
  /\ uncorrelated' = TRUE
  /\ UNCHANGED <<tracer, call, running, executed, channelVars>>

TracerFailsOpen ==                       \* mutant: the collector is not failed
  /\ MerchantStep
  /\ Traced
  /\ tracer' = "disabled"
  /\ running' = [r \in Ids |-> 0]
  /\ UNCHANGED <<collectorOk, call, executed, uncorrelated, channelVars>>

(* The trace function raises: _fail_closed.                                 *)
TracerRaises ==
  /\ MerchantStep
  /\ Traced
  /\ tracer' = "disabled"
  /\ collectorOk' = FALSE
  /\ running' = [r \in Ids |-> 0]
  /\ UNCHANGED <<call, executed, uncorrelated, channelVars>>

(* Somebody edits the indexed source, or undoes the edit.                   *)
EditSource ==
  /\ edits < MaxEdits
  /\ edits' = edits + 1
  /\ source' = IF source = "indexed" THEN "edited" ELSE "indexed"
  /\ UNCHANGED <<plan, parent, startVars, driverVars, workerVars, traceVars, merchantVars,
                 channelVars>>
-----------------------------------------------------------------------------
ParentNext ==
  \/ Prepare \/ EnvironmentRefused \/ SpawnRefused \/ Spawn
  \/ PollReady \/ PollFailed \/ PollNoStatus \/ PollRunning \/ PollExited \/ PollTimeout
  \/ PollInterrupted \/ Refuse
  \/ SendRequest \/ RequestRefused \/ RequestFails \/ AllSent
  \/ \E status \in {"ok", "error"} : ReceiveAnswer(status)
  \/ RequestStop \/ Stopped \/ StopTimeout \/ CleanupFails \/ ReadBack

WorkerNext ==
  \/ ValidateAndImport \/ Import \/ ValidateAndAttach \/ ValidateAndServe
  \/ StartupRaises \/ SeeStop \/ ServerEnds \/ Drained \/ Seal \/ WorkerExit

RequestNext ==
  \E r \in Ids :
    \/ ReceiveCall(r) \/ InjectFailure(r) \/ CompleteResponse(r) \/ FinishCall(r)
    \/ AbortCall(r) \/ Enter(r)
    \/ \E kind \in {"RETURNED", "ESCAPED"} : Leave(r, kind)
    \/ \E status \in {"ok", "error"} : StartResponse(r, status)

MerchantNext == RequestNext \/ EnterUncorrelated \/ TracerRaises

SessionNext == ParentNext \/ WorkerNext \/ MerchantNext \/ WorkerDies \/ EditSource

SessionSpec == SessionInit /\ [][SessionNext]_sessionVars

(* The parent is a program that runs; its deadlines pass and its SIGKILL    *)
(* ends a worker that can be killed.  Nothing is assumed of the worker or   *)
(* of the merchant, who may hang anywhere.                                  *)
Killed == parent \in {"terminating", "killing"} /\ WorkerDies
SessionFairSpec ==
  /\ SessionSpec
  /\ WF_sessionVars(ParentNext) /\ SF_sessionVars(PollTimeout) /\ WF_sessionVars(Killed)
-----------------------------------------------------------------------------
Failures == {"none", "SOURCE_STALE", "STARTUP_FAILED", "PROCESS_CRASHED"}
StatusFiles ==
  [state : {"none", "READY", "CLOSED", "FAILED"}, reason : Failures, complete : BOOLEAN]

TypeOK ==
  /\ parent \in {"new", "prepared", "polling", "looked", "terminating", "refused", "driving",
                 "awaiting", "closing", "stopping", "killing", "reading", "closed"}
  /\ reason \in {"none", "RUNTIME_DEPENDENCY_MISSING", "STARTUP_FAILED", "STARTUP_TIMEOUT",
                 "INTERRUPTED", "SOURCE_STALE", "PROCESS_CRASHED"}
  /\ scratch \in BOOLEAN
  /\ plan \in Plans /\ sent \in 0..Len(plan)
  /\ answer \in [Ids -> {"none", "pending", "ok", "error", "failed"}]
  /\ sessionComplete \in BOOLEAN /\ stopFile \in BOOLEAN
  /\ worker \in WorkerStates
  /\ failure \in Failures
  /\ statusFile \in StatusFiles
  /\ collectorOk \in BOOLEAN
  /\ tracer \in {"absent", "installed", "disabled", "removed"}
  /\ source \in {"indexed", "edited"} /\ edits \in 0..MaxEdits
  /\ imported \in {"none", "indexed", "edited"}
  /\ call \in [Ids -> {"none", "arriving", "handling", "injected", "started", "completed",
                        "finished", "aborted"}]
  /\ running \in [Ids -> Nat] /\ executed \in [Ids -> Nat]
  /\ uncorrelated \in BOOLEAN
  /\ recorded \in Seq(Observations) /\ published \in Seq(Observations)
  /\ seal \in {"open", "frozen", "complete", "incomplete"}

Occurrences(events, r, kind) ==
  Cardinality({i \in 1..Len(events) : events[i].request = r /\ events[i].kind = kind})

ReceivedInOrder(events) ==
  \A i, j \in 1..Len(events) :
    i < j /\ events[i].kind = "REQUEST_RECEIVED" /\ events[j].kind = "REQUEST_RECEIVED"
      => events[i].request < events[j].request

(* A complete transcript tells the exact target's executions: as many       *)
(* ENTERED events of each request as its context began executions before    *)
(* the seal, and no execution outside every request's context.              *)
(* (ExactTraceEngine._global_trace, _fail_closed, fail, close)              *)
CompleteTellsExecutions ==
  seal = "complete" =>
    /\ ~uncorrelated
    /\ \A r \in Ids : Occurrences(published, r, "ENTERED") = executed[r]

(* Every request of a complete session was answered, was received once and  *)
(* in the order sent, and no other request is in the transcript: a complete *)
(* transcript cannot fail _sequence_authority_is_exact.                     *)
CompleteCoversRequests ==
  seal = "complete" =>
    /\ sent = Len(plan)
    /\ \A r \in 1..sent :
         answer[r] \in {"ok", "error"} /\ Occurrences(published, r, "REQUEST_RECEIVED") = 1
    /\ \A i \in 1..Len(published) : published[i].request \in 1..sent
    /\ ReceivedInOrder(published)

(* The status the driver got is the one the application's wrapper recorded, *)
(* and an injected acknowledgement failure reached the caller as a failure. *)
AnswersMatchTranscript ==
  seal = "complete" => \A r \in Ids :
    /\ answer[r] = "ok" =>
         /\ Occurrences(published, r, "RESPONSE_COMPLETED") = 1
         /\ Occurrences(published, r, "ACK_FAILURE_INJECTED") = 0
    /\ Occurrences(published, r, "ACK_FAILURE_INJECTED") > 0 => answer[r] = "error"

(* A complete session served the source that was indexed, if an edit is not *)
(* undone: source drift is seen by the validation at close at the latest.   *)
CompleteServedIndexed ==
  seal = "complete" /\ edits <= 1 => imported = "indexed"

(* Once start has a process to own, start and close leave no temporary      *)
(* directory behind, and no worker, unless it survived SIGKILL.  (Before    *)
(* that they may: ScratchRemoved.)                                          *)
OwnedResourcesReleased ==
  parent \in {"refused", "closed"} /\ reason # "RUNTIME_DEPENDENCY_MISSING" =>
    /\ ~scratch
    /\ WorkerRunning => Unkillable

(* Whatever the worker and the merchant do, start refuses or the session is *)
(* closed with a transcript.                                                *)
SessionEnds == (parent = "prepared") ~> (parent \in {"refused", "closed"})
-----------------------------------------------------------------------------
(* The promises of docs and tests that the code does not keep.              *)

(* start removes its temporary directory whenever it raises.                *)
ScratchRemoved == parent \in {"refused", "closed"} => ~scratch

(* When start sees that a worker ended by itself, having written why in its *)
(* status record, it raises the reason the record gives.                    *)
StaleReasonRaised ==
  [][(parent = "looked" /\ parent' = "terminating" /\ worker = "exited")
       => reason' = statusFile.reason]_sessionVars

(* An execution of the exact target in no request's context makes the       *)
(* transcript incomplete.                                                   *)
UncorrelatedIncomplete == uncorrelated => seal # "complete"
=============================================================================
