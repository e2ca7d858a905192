-------------------------- MODULE ScenarioRunProofs --------------------------
(***************************************************************************)
(* Proofs about a managed session, for any plans of requests, and about the *)
(* verdicts of the scenarios, for any number of executions and edits.       *)
(* SessionInv is inductive, and what a complete transcript says of the      *)
(* requests, the answers, the executions and the served source follows from *)
(* it; what the reducers conclude from a trusted transcript is then true of *)
(* the merchant.  The theorems are about SessionSpec, in which workers are  *)
(* killed, requests fail and sources drift; ScenarioSpec is a part.         *)
(***************************************************************************)
EXTENDS ScenarioRun, TLAPS, SequenceTheorems, FiniteSetTheorems

Done == {"completed", "finished", "aborted"}
NotReceived == {"none", "arriving"}
Starting == {"new", "prepared", "polling", "looked", "terminating", "refused"}
Ending == {"closing", "stopping", "killing", "reading", "closed"}
Ended == {"sealed", "exited", "dead"}

(* No worker runs before it is spawned, nor when the transcript is read     *)
(* back, unless SIGKILL did not end it.                                     *)
ReleaseInv ==
  /\ parent \in {"new", "prepared"} => worker = "absent"
  /\ parent = "reading" /\ WorkerRunning => Unkillable
  /\ OwnedResourcesReleased

(* The requests are sent one by one, and the next one only when the call of *)
(* the last one is over; a session that stays complete has sent them all    *)
(* when it is closed.                                                       *)
DriverInv ==
  /\ parent \in Starting => sent = 0
  /\ parent \notin Ending => sessionComplete
  /\ parent = "awaiting" => sent >= 1
  /\ parent \in Ending /\ sessionComplete => sent = Len(plan)
  /\ \A r \in Ids : r > sent => call[r] = "none" /\ answer[r] = "none"
  /\ \A r \in Ids : call[r] = "arriving" => r = sent
  /\ sessionComplete =>
       \A r \in Ids : r <= sent /\ (parent = "awaiting" => r < sent) =>
         answer[r] \in {"ok", "error"} /\ call[r] \in Done

(* What the channel holds of a request follows from where its call is.      *)
CallInv ==
  /\ \A r \in Ids :
       /\ Occurrences(recorded, r, "REQUEST_RECEIVED") = (IF call[r] \in NotReceived THEN 0 ELSE 1)
       /\ Occurrences(recorded, r, "RESPONSE_COMPLETED")
            = (IF call[r] \in {"completed", "finished"} THEN 1 ELSE 0)
       /\ running[r] > 0 => call[r] \notin NotReceived
  /\ \A e \in ToSet(recorded) : call[e.request] \notin NotReceived
  /\ ReceivedInOrder(recorded)

(* A 2xx answer was started by the wrapper, and then nothing was injected.  *)
AnswerInv ==
  \A r \in Ids :
    /\ call[r] \in NotReceived \cup {"handling"}
         => Occurrences(recorded, r, "ACK_FAILURE_INJECTED") = 0
    /\ call[r] \in NotReceived \cup {"handling", "injected"} => ~Started(r)
    /\ Event(r, "RESPONSE_STARTED", "ok") \in ToSet(recorded)
         => Occurrences(recorded, r, "ACK_FAILURE_INJECTED") = 0
    /\ answer[r] = "ok" =>
         /\ call[r] \in {"completed", "finished"}
         /\ Event(r, "RESPONSE_STARTED", "ok") \in ToSet(recorded)

(* While the collector is complete the engine saw every execution, if the   *)
(* merchant starts no untraced thread.                                      *)
TraceInv ==
  ~UntracedThreads =>
    /\ worker \in {"attached", "serving", "draining"} => tracer \in {"installed", "disabled"}
    /\ \A r \in Ids : call[r] \notin NotReceived => tracer # "absent"
    /\ tracer = "disabled" => ~collectorOk
    /\ collectorOk =>
         ~uncorrelated /\ \A r \in Ids : Occurrences(recorded, r, "ENTERED") = executed[r]

(* A closing record that says complete was written when nothing had failed, *)
(* and a transcript is marked complete only on the strength of one.         *)
SealInv ==
  /\ statusFile.complete =>
       collectorOk /\ seal # "open" /\ failure = "none" /\ worker \in Ended
  /\ statusFile.state = "CLOSED" => worker \in Ended
  /\ seal \in {"complete", "incomplete"} => parent = "closed"
  /\ seal = "complete" => statusFile.complete /\ sessionComplete /\ published = recorded

(* A worker that imported an edited source either still sees the edit or    *)
(* lives after a second one.                                                *)
SourceInv ==
  /\ source = "edited" => edits >= 1
  /\ imported = "edited" /\ source = "indexed" => edits >= 2
  /\ worker \in {"imported", "attached", "serving", "draining"} => imported # "none"
  /\ failure = "none" /\ worker \in {"closing", "sealed"} => imported = "indexed" \/ edits >= 2
  /\ statusFile.complete => imported = "indexed" \/ edits >= 2

SessionInv ==
  /\ TypeOK
  /\ ReleaseInv
  /\ DriverInv
  /\ CallInv
  /\ AnswerInv
  /\ TraceInv
  /\ SealInv
  /\ SourceInv
-----------------------------------------------------------------------------
(* Requests are numbered from 1.                                            *)
LEMMA IdsAreNumbers ==
  /\ Ids \subseteq Nat \ {0}
  /\ \A p \in Plans : DOMAIN p \subseteq Ids /\ p \in Seq(BOOLEAN) /\ DOMAIN p = 1..Len(p)
       /\ Len(p) \in Nat
BY SessionAssumption DEF SessionAssumption, Ids

(* Recording one more observation adds it to the set of observations.       *)
LEMMA ToSetAppend ==
  ASSUME NEW S, NEW s \in Seq(S), NEW e \in S
  PROVE  ToSet(Append(s, e)) = ToSet(s) \cup {e}
<1>1. DOMAIN s = 1..Len(s) /\ Len(s) \in Nat /\ DOMAIN Append(s, e) = 1..(Len(s) + 1)
  OBVIOUS
<1>2. \A i \in 1..(Len(s) + 1) : Append(s, e)[i] = IF i = Len(s) + 1 THEN e ELSE s[i]
  OBVIOUS
<1>3. 1..(Len(s) + 1) = 1..Len(s) \cup {Len(s) + 1}
  BY <1>1
<1> QED
  BY <1>1, <1>2, <1>3 DEF ToSet

(* The number of observations of a kind is a natural number, ...            *)
LEMMA OccurrencesType ==
  ASSUME NEW s \in Seq(Observations), NEW r, NEW kind
  PROVE  /\ IsFiniteSet({i \in 1..Len(s) : s[i].request = r /\ s[i].kind = kind})
         /\ Occurrences(s, r, kind) \in Nat
<1> DEFINE Upto(k) == {i \in 1..k : s[i].request = r /\ s[i].kind = kind}
<1>1. Len(s) \in Nat
  OBVIOUS
<1>2. IsFiniteSet(1..Len(s))
  BY <1>1, FS_Interval
<1>3. IsFiniteSet(Upto(Len(s)))
  BY <1>2, FS_Subset
<1> QED
  BY <1>3, FS_CardinalityType DEF Occurrences

(* ... is 0 of an empty transcript, ...                                     *)
LEMMA OccurrencesEmpty == \A r, kind : Occurrences(<<>>, r, kind) = 0
<1> SUFFICES ASSUME NEW r, NEW kind PROVE Occurrences(<<>>, r, kind) = 0
  OBVIOUS
<1>1. {i \in 1..Len(<<>>) : <<>>[i].request = r /\ <<>>[i].kind = kind} = {}
  OBVIOUS
<1> QED
  BY <1>1, FS_EmptySet DEF Occurrences

(* ... and grows by one with each of them.                                  *)
LEMMA OccurrencesAppend ==
  ASSUME NEW s \in Seq(Observations), NEW e \in Observations, NEW r, NEW kind
  PROVE  Occurrences(Append(s, e), r, kind)
           = Occurrences(s, r, kind) + (IF e.request = r /\ e.kind = kind THEN 1 ELSE 0)
<1> DEFINE Old == {i \in 1..Len(s) : s[i].request = r /\ s[i].kind = kind}
           New == {i \in 1..Len(Append(s, e)) :
                     Append(s, e)[i].request = r /\ Append(s, e)[i].kind = kind}
<1>1. Len(s) \in Nat /\ Len(Append(s, e)) = Len(s) + 1
  OBVIOUS
<1>2. \A i \in 1..Len(Append(s, e)) : Append(s, e)[i] = IF i = Len(s) + 1 THEN e ELSE s[i]
  OBVIOUS
<1>3. 1..Len(Append(s, e)) = 1..Len(s) \cup {Len(s) + 1} /\ Len(s) + 1 \notin 1..Len(s)
  BY <1>1
<1>4. IsFiniteSet(Old) /\ Cardinality(Old) \in Nat
  <2>1. IsFiniteSet(1..Len(s)) /\ Old \in SUBSET (1..Len(s))
    BY <1>1, FS_Interval
  <2> QED
    BY <2>1, FS_Subset, FS_CardinalityType
<1>7. Occurrences(s, r, kind) = Cardinality(Old)
      /\ Occurrences(Append(s, e), r, kind) = Cardinality(New)
  BY DEF Occurrences
<1>5. CASE e.request = r /\ e.kind = kind
  <2>1. New = Old \cup {Len(s) + 1} /\ Len(s) + 1 \notin Old
    BY <1>2, <1>3, <1>5
  <2>2. Cardinality(New) = Cardinality(Old) + 1
    BY <1>4, <2>1, FS_AddElement
  <2> QED
    BY <1>5, <1>7, <2>2
<1>6. CASE ~(e.request = r /\ e.kind = kind)
  <2>1. Cardinality(New) = Cardinality(Old)
    <3>1. New = Old
      BY <1>2, <1>3, <1>6
    <3> QED
      BY <3>1
  <2> HIDE DEF Old, New
  <2> QED
    BY <1>4, <1>6, <1>7, <2>1
<1> QED
  BY <1>5, <1>6
-----------------------------------------------------------------------------
(* What the parent's steps leave alone.                                     *)
LEMMA ParentFrame ==
  ASSUME ParentNext
  PROVE  /\ UNCHANGED <<failure, statusFile, imported, collectorOk, tracer, plan, source, edits,
                        recorded, running, executed, uncorrelated>>
         /\ Spawn \/ worker' = worker
         /\ ReadBack \/ UNCHANGED <<seal, published>>
         /\ SendRequest \/ call' = call
<1> USE DEF ParentStep, startVars, driverVars, workerVars, traceVars, merchantVars, sourceVars,
      channelVars
<1>1. CASE Prepare \/ EnvironmentRefused \/ SpawnRefused \/ Spawn \/ Refuse
  BY <1>1 DEF Prepare, EnvironmentRefused, SpawnRefused, Spawn, Refuse
<1>2. CASE PollReady \/ PollFailed \/ PollNoStatus \/ PollRunning \/ PollExited \/ PollTimeout
             \/ PollInterrupted
  BY <1>2 DEF PollReady, PollFailed, PollNoStatus, PollRunning, PollExited, PollTimeout,
       PollInterrupted
<1>3. CASE SendRequest \/ RequestRefused \/ RequestFails \/ AllSent
  BY <1>3 DEF SendRequest, RequestRefused, RequestFails, AllSent
<1>4. ASSUME NEW status \in {"ok", "error"}, ReceiveAnswer(status)
      PROVE  UNCHANGED <<workerVars, traceVars, sourceVars, merchantVars, channelVars>>
  BY <1>4 DEF ReceiveAnswer
<1>5. CASE RequestStop \/ Stopped \/ StopTimeout \/ CleanupFails
  BY <1>5 DEF RequestStop, Stopped, StopTimeout, CleanupFails
<1>6. CASE ReadBack
  <2>1. recorded' = recorded
    BY <1>6 DEF ReadBack, Channel!PublishComplete
  <2> QED
    BY <1>6, <2>1 DEF ReadBack
<1> QED
  BY <1>1, <1>2, <1>3, <1>4, <1>5, <1>6 DEF ParentNext

(* What the worker's steps, and its death, leave alone.                     *)
LEMMA WorkerFrame ==
  ASSUME WorkerNext \/ WorkerDies
  PROVE  /\ UNCHANGED <<parent, startVars, driverVars, sourceVars, collectorOk, call, executed,
                        uncorrelated, recorded, published>>
         /\ Seal \/ (seal' = seal /\ (ValidateAndServe \/ statusFile' = statusFile))
         /\ running' = running \/ running' = [r \in Ids |-> 0]
         /\ Import \/ imported' = imported
         /\ WorkerRunning
<1> USE DEF WorkerStep, LeaveServing, WorkerRunning, startVars, driverVars, workerVars, traceVars,
      merchantVars, sourceVars, channelVars
<1>1. CASE ValidateAndImport \/ Import
  BY <1>1 DEF ValidateAndImport, Import
<1>2. CASE ValidateAndAttach \/ ValidateAndServe
  BY <1>2 DEF ValidateAndAttach, ValidateAndServe
<1>3. CASE StartupRaises \/ SeeStop \/ ServerEnds \/ Drained
  BY <1>3 DEF StartupRaises, SeeStop, ServerEnds, Drained
<1>4. CASE Seal
  BY <1>4 DEF Seal, Channel!Freeze
<1>5. CASE WorkerExit \/ WorkerDies
  BY <1>5 DEF WorkerExit, WorkerDies
<1> QED
  BY <1>1, <1>2, <1>3, <1>4, <1>5 DEF WorkerNext

(* What the merchant's steps leave alone.                                   *)
LEMMA MerchantFrame ==
  ASSUME MerchantNext
  PROVE  /\ UNCHANGED <<parent, startVars, driverVars, workerVars, sourceVars, seal, published>>
         /\ WorkerRunning /\ seal = "open"
         /\ UNCHANGED traceVars \/ EnterUncorrelated \/ TracerRaises
<1> USE DEF MerchantStep, CallStep, Observe, Channel!Record, channelVars
<1>1. ASSUME NEW r \in Ids,
             ReceiveCall(r) \/ InjectFailure(r) \/ CompleteResponse(r) \/ FinishCall(r)
      PROVE  MerchantStep /\ UNCHANGED <<seal, published, traceVars>>
  BY <1>1 DEF ReceiveCall, InjectFailure, CompleteResponse, FinishCall
<1>2. ASSUME NEW r \in Ids, AbortCall(r) \/ Enter(r)
      PROVE  MerchantStep /\ UNCHANGED <<seal, published, traceVars>>
  BY <1>2 DEF AbortCall, Enter
<1>3. ASSUME NEW r \in Ids, NEW kind, Leave(r, kind)
      PROVE  MerchantStep /\ UNCHANGED <<seal, published, traceVars>>
  BY <1>3 DEF Leave
<1>4. ASSUME NEW r \in Ids, NEW status, StartResponse(r, status)
      PROVE  MerchantStep /\ UNCHANGED <<seal, published, traceVars>>
  BY <1>4 DEF StartResponse
<1>5. ASSUME EnterUncorrelated \/ TracerRaises
      PROVE  MerchantStep /\ UNCHANGED <<seal, published>>
  BY <1>5 DEF EnterUncorrelated, TracerRaises
<1> QED
  BY <1>1, <1>2, <1>3, <1>4, <1>5 DEF MerchantNext, RequestNext

(* A step records nothing, or one observation.                              *)
LEMMA MerchantRecords ==
  ASSUME MerchantNext
  PROVE  recorded' = recorded \/ \E e \in Observations : recorded' = Append(recorded, e)
<1>1. \A r \in Ids, kind \in Kinds, status \in Statuses : Event(r, kind, status) \in Observations
  BY DEF Event, Observations
<1>2. ASSUME NEW r \in Ids, NEW kind \in Kinds, NEW status \in Statuses, Observe(r, kind, status)
      PROVE  \E e \in Observations : recorded' = Append(recorded, e)
  BY <1>1, <1>2 DEF Observe, Channel!Record
<1> USE DEF Kinds, Statuses, channelVars
<1>3. ASSUME NEW r \in Ids,
             ReceiveCall(r) \/ InjectFailure(r) \/ CompleteResponse(r) \/ FinishCall(r)
      PROVE  recorded' = recorded \/ \E e \in Observations : recorded' = Append(recorded, e)
  BY <1>2, <1>3 DEF ReceiveCall, InjectFailure, CompleteResponse, FinishCall
<1>4. ASSUME NEW r \in Ids, AbortCall(r) \/ Enter(r)
      PROVE  recorded' = recorded \/ \E e \in Observations : recorded' = Append(recorded, e)
  BY <1>2, <1>4 DEF AbortCall, Enter
<1>5. ASSUME NEW r \in Ids, NEW kind \in {"RETURNED", "ESCAPED"}, Leave(r, kind)
      PROVE  recorded' = recorded \/ \E e \in Observations : recorded' = Append(recorded, e)
  BY <1>2, <1>5 DEF Leave
<1>6. ASSUME NEW r \in Ids, NEW status \in {"ok", "error"}, StartResponse(r, status)
      PROVE  recorded' = recorded \/ \E e \in Observations : recorded' = Append(recorded, e)
  BY <1>2, <1>6 DEF StartResponse
<1>7. CASE EnterUncorrelated \/ TracerRaises
  BY <1>7 DEF EnterUncorrelated, TracerRaises
<1> QED
  BY <1>3, <1>4, <1>5, <1>6, <1>7 DEF MerchantNext, RequestNext

(* Every step of the parent keeps the types.                                *)
LEMMA ParentTypes == TypeOK /\ ParentNext => TypeOK'
<1> SUFFICES ASSUME TypeOK, ParentNext PROVE TypeOK'
  OBVIOUS
<1> DEFINE Parents == {"new", "prepared", "polling", "looked", "terminating", "refused",
                       "driving", "awaiting", "closing", "stopping", "killing", "reading", "closed"}
           Reasons == {"none", "RUNTIME_DEPENDENCY_MISSING", "STARTUP_FAILED",
                       "STARTUP_TIMEOUT", "INTERRUPTED", "SOURCE_STALE", "PROCESS_CRASHED"}
           Calls == {"none", "arriving", "handling", "injected", "started", "completed",
                     "finished", "aborted"}
           Answers == {"none", "pending", "ok", "error", "failed"}
           ParentOK == /\ parent \in Parents /\ reason \in Reasons /\ scratch \in BOOLEAN
                       /\ sessionComplete \in BOOLEAN /\ stopFile \in BOOLEAN
                       /\ worker \in WorkerStates
           RequestsOK == sent \in 0..Len(plan) /\ answer \in [Ids -> Answers]
                         /\ call \in [Ids -> Calls]
           ChannelOK == /\ published \in Seq(Observations)
                        /\ seal \in {"open", "frozen", "complete", "incomplete"}
<1>8. ParentOK /\ RequestsOK /\ ChannelOK
  BY DEF TypeOK
<1>9. SUFFICES ParentOK' /\ RequestsOK' /\ ChannelOK'
  BY ParentFrame DEF TypeOK
<1>10. ReadBack \/ ChannelOK'
  BY <1>8, ParentFrame
<1>11. plan' = plan
  BY ParentFrame
<1> USE DEF ParentStep, startVars, driverVars, workerVars, traceVars, merchantVars,
      sourceVars, channelVars
<1>1. CASE Prepare \/ EnvironmentRefused \/ SpawnRefused \/ Refuse
  <2>1. ParentOK' /\ UNCHANGED <<sent, answer, call, published, seal>>
    BY <1>1, <1>8 DEF Prepare, EnvironmentRefused, SpawnRefused, Refuse
  <2> QED
    BY <1>8, <1>11, <2>1
<1>2. CASE Spawn
  <2>1. ParentOK' /\ UNCHANGED <<sent, answer, call, published, seal>>
    BY <1>2, <1>8 DEF Spawn, WorkerStates
  <2> QED
    BY <1>8, <1>11, <2>1
<1>3. CASE PollReady \/ PollNoStatus \/ PollRunning \/ PollExited \/ PollTimeout \/ PollInterrupted
             \/ PollFailed
  <2>1. statusFile.reason \in Reasons
    BY DEF TypeOK, StatusFiles, Failures
  <2>2. ParentOK' /\ UNCHANGED <<sent, answer, call, published, seal>>
    BY <1>3, <1>8, <2>1 DEF PollReady, PollNoStatus, PollRunning, PollExited, PollTimeout,
         PollInterrupted, PollFailed
  <2> QED
    BY <1>8, <1>11, <2>2
<1>4. CASE SendRequest
  <2>1. sent \in Nat /\ Len(plan) \in Nat /\ sent + 1 \in 1..Len(plan)
    BY <1>4, IdsAreNumbers DEF SendRequest, TypeOK
  <2>2. sent + 1 \in 0..Len(plan)
    BY <2>1
  <2>3. ParentOK' /\ UNCHANGED <<published, seal>>
    BY <1>4, <1>8 DEF SendRequest
  <2>4. RequestsOK'
    BY <1>4, <1>8, <1>11, <2>2 DEF SendRequest
  <2> QED
    BY <1>8, <2>3, <2>4
<1>5. CASE RequestRefused \/ RequestFails \/ AllSent
             \/ \E status \in {"ok", "error"} : ReceiveAnswer(status)
  <2>1. ParentOK' /\ UNCHANGED <<sent, call, published, seal>>
    BY <1>5, <1>8 DEF RequestRefused, RequestFails, AllSent, ReceiveAnswer
  <2>2. answer' = answer
        \/ \E got \in {"ok", "error", "failed"} : answer' = [answer EXCEPT ![sent] = got]
    BY <1>5 DEF RequestRefused, RequestFails, AllSent, ReceiveAnswer
  <2> QED
    BY <1>8, <1>11, <2>1, <2>2
<1>6. CASE RequestStop \/ Stopped \/ StopTimeout \/ CleanupFails
  <2>1. ParentOK' /\ UNCHANGED <<sent, answer, call, published, seal>>
    BY <1>6, <1>8 DEF RequestStop, Stopped, StopTimeout, CleanupFails, WorkerRunning
  <2> QED
    BY <1>8, <1>11, <2>1
<1>7. CASE ReadBack
  <2>1. ASSUME NEW n \in {0, Len(recorded)} PROVE SubSeq(recorded, 1, n) \in Seq(Observations)
    <3>1. n \in Int /\ \A i \in 1..n : recorded[i] \in Observations
      BY DEF TypeOK
    <3> QED
      BY <3>1, SubSeqProperties
  <2>2. ChannelOK'
    BY <1>7, <2>1 DEF ReadBack, Channel!PublishComplete, TypeOK
  <2>3. ParentOK' /\ UNCHANGED <<sent, answer, call>>
    BY <1>7, <1>8 DEF ReadBack
  <2> QED
    BY <1>8, <1>11, <2>2, <2>3
<1> QED
  BY <1>1, <1>2, <1>3, <1>4, <1>5, <1>6, <1>7 DEF ParentNext

(* Every step of the worker keeps the types.                                *)
LEMMA WorkerTypes == TypeOK /\ (WorkerNext \/ WorkerDies) => TypeOK'
<1> SUFFICES ASSUME TypeOK, WorkerNext \/ WorkerDies PROVE TypeOK'
  OBVIOUS
<1> USE DEF TypeOK, WorkerStep, WorkerStates, startVars, driverVars, workerVars, traceVars,
      merchantVars, sourceVars, channelVars
<1>1. ASSUME WorkerStep, NEW exception \in Failures, LeaveServing(exception) PROVE TypeOK'
  BY <1>1 DEF LeaveServing
<1>2. CASE ValidateAndImport \/ Import \/ ValidateAndAttach
  BY <1>1, <1>2 DEF ValidateAndImport, Import, ValidateAndAttach, Failures
<1>3. CASE ValidateAndServe
  <2>1. [state |-> "READY", reason |-> "none", complete |-> FALSE] \in StatusFiles
    BY DEF StatusFiles, Failures
  <2>2. CASE LeaveServing("SOURCE_STALE")
    BY <1>1, <1>3, <2>2 DEF ValidateAndServe, Failures
  <2>3. CASE ~LeaveServing("SOURCE_STALE")
    <3>1. worker' = "serving" /\ statusFile' \in StatusFiles
          /\ UNCHANGED <<failure, imported, traceVars, merchantVars, channelVars>>
      BY <1>3, <2>1, <2>3 DEF ValidateAndServe
    <3>2. WorkerStep
      BY <1>3 DEF ValidateAndServe
    <3> QED
      BY <3>1, <3>2
  <2> QED
    BY <2>2, <2>3
<1>4. CASE StartupRaises \/ SeeStop \/ ServerEnds \/ Drained
  BY <1>1, <1>4 DEF StartupRaises, SeeStop, ServerEnds, Drained, Failures
<1>5. CASE Seal
  <2>1. statusFile' \in StatusFiles
    BY <1>5 DEF Seal, StatusFiles
  <2>2. seal' \in {"open", "frozen", "complete", "incomplete"}
        /\ UNCHANGED <<recorded, published>>
    BY <1>5 DEF Seal, Channel!Freeze
  <2>3. /\ worker' = "sealed"
        /\ UNCHANGED <<parent, reason, scratch, plan, sent, answer, sessionComplete, stopFile,
                       failure, collectorOk, tracer, source, edits, imported, call, running,
                       executed, uncorrelated>>
    BY <1>5 DEF Seal
  <2> QED
    BY <2>1, <2>2, <2>3
<1>6. CASE WorkerExit \/ WorkerDies
  BY <1>6 DEF WorkerExit, WorkerDies
<1> QED
  BY <1>2, <1>3, <1>4, <1>5, <1>6 DEF WorkerNext

(* Every step of the merchant keeps the types.                              *)
LEMMA MerchantTypes == TypeOK /\ MerchantNext => TypeOK'
<1> SUFFICES ASSUME TypeOK, MerchantNext PROVE TypeOK'
  OBVIOUS
<1>1. UNCHANGED <<parent, startVars, driverVars, workerVars, sourceVars, seal, published>>
  BY MerchantFrame
<1>2. recorded' \in Seq(Observations)
  <2>1. recorded \in Seq(Observations)
    BY DEF TypeOK
  <2> QED
    BY <2>1, MerchantRecords, AppendProperties
<1> SUFFICES /\ call' \in [Ids -> {"none", "arriving", "handling", "injected", "started",
                                   "completed", "finished", "aborted"}]
             /\ running' \in [Ids -> Nat] /\ executed' \in [Ids -> Nat] /\ uncorrelated' \in BOOLEAN
             /\ collectorOk' \in BOOLEAN /\ tracer' \in {"absent", "installed", "disabled", "removed"}
  BY <1>1, <1>2 DEF TypeOK, startVars, driverVars, workerVars, sourceVars
<1> USE DEF MerchantStep, CallStep, traceVars, channelVars
<1>3. ASSUME NEW r \in Ids,
             ReceiveCall(r) \/ InjectFailure(r) \/ CompleteResponse(r) \/ FinishCall(r)
               \/ AbortCall(r) \/ \E status \in {"ok", "error"} : StartResponse(r, status)
      PROVE  /\ call' \in [Ids -> {"none", "arriving", "handling", "injected", "started",
                                   "completed", "finished", "aborted"}]
             /\ UNCHANGED <<traceVars, running, executed, uncorrelated>>
  BY <1>3 DEF ReceiveCall, InjectFailure, CompleteResponse, FinishCall, AbortCall, StartResponse,
       TypeOK
<1>4. ASSUME NEW r \in Ids, Enter(r)
      PROVE  /\ running' \in [Ids -> Nat] /\ executed' \in [Ids -> Nat]
             /\ UNCHANGED <<traceVars, call, uncorrelated>>
  <2>1. running[r] + 1 \in Nat /\ executed[r] + 1 \in Nat
    BY DEF TypeOK
  <2> QED
    BY <1>4, <2>1 DEF Enter, TypeOK
<1>5. ASSUME NEW r \in Ids, NEW kind, Leave(r, kind)
      PROVE  /\ running' \in [Ids -> Nat]
             /\ UNCHANGED <<traceVars, call, executed, uncorrelated>>
  <2>1. running[r] - 1 \in Nat
    BY <1>5 DEF Leave, TypeOK
  <2> QED
    BY <1>5, <2>1 DEF Leave, TypeOK
<1>6. CASE EnterUncorrelated
  BY <1>6 DEF EnterUncorrelated, TypeOK
<1>7. CASE TracerRaises
  BY <1>7 DEF TracerRaises, TypeOK
<1> QED
  BY <1>3, <1>4, <1>5, <1>6, <1>7 DEF MerchantNext, RequestNext, TypeOK

(* An edit of the source, or no step at all, leaves the session alone.      *)
LEMMA EditFrame ==
  ASSUME EditSource \/ UNCHANGED sessionVars
  PROVE  /\ UNCHANGED <<parent, startVars, driverVars, workerVars, traceVars, merchantVars, plan,
                        channelVars>>
         /\ EditSource \/ UNCHANGED <<source, edits>>
BY DEF EditSource, sessionVars, sourceVars

(* Type correctness.                                                        *)
LEMMA TypeStep == TypeOK /\ [SessionNext]_sessionVars => TypeOK'
<1> SUFFICES ASSUME TypeOK, [SessionNext]_sessionVars PROVE TypeOK'
  OBVIOUS
<1>1. CASE EditSource
  <2>1. edits + 1 \in 0..MaxEdits
    BY <1>1, SessionAssumption DEF EditSource, TypeOK, SessionAssumption
  <2> QED
    BY <1>1, <2>1 DEF EditSource, TypeOK, startVars, driverVars, workerVars, traceVars, merchantVars,
         channelVars
<1>2. CASE UNCHANGED sessionVars
  BY <1>2 DEF TypeOK, sessionVars, startVars, driverVars, workerVars, traceVars, merchantVars,
       sourceVars, channelVars
<1> QED
  BY <1>1, <1>2, ParentTypes, WorkerTypes, MerchantTypes DEF SessionNext

(* No step of a session ends it with a worker or a workspace it still owns. *)
LEMMA ReleaseStep == ReleaseInv /\ [SessionNext]_sessionVars => ReleaseInv'
<1> SUFFICES ASSUME ReleaseInv, [SessionNext]_sessionVars PROVE ReleaseInv'
  OBVIOUS
<1> USE DEF ReleaseInv, OwnedResourcesReleased, WorkerRunning, startVars, driverVars, workerVars
<1>1. CASE ParentNext
  <2> USE DEF ParentStep
  <2>1. CASE Prepare \/ EnvironmentRefused \/ SpawnRefused \/ Refuse
    BY <2>1 DEF Prepare, EnvironmentRefused, SpawnRefused, Refuse
  <2>2. CASE Spawn
    BY <2>2 DEF Spawn
  <2>3. CASE PollReady \/ PollFailed \/ PollNoStatus \/ PollRunning \/ PollExited \/ PollTimeout
               \/ PollInterrupted
    BY <2>3 DEF PollReady, PollFailed, PollNoStatus, PollRunning, PollExited, PollTimeout,
         PollInterrupted
  <2>4. CASE SendRequest \/ RequestRefused \/ RequestFails \/ AllSent
               \/ \E status \in {"ok", "error"} : ReceiveAnswer(status)
    BY <2>4 DEF SendRequest, RequestRefused, RequestFails, AllSent, ReceiveAnswer
  <2>5. CASE RequestStop \/ Stopped \/ StopTimeout \/ CleanupFails
    BY <2>5 DEF RequestStop, Stopped, StopTimeout, CleanupFails
  <2>6. CASE ReadBack
    BY <2>6 DEF ReadBack
  <2> QED
    BY <1>1, <2>1, <2>2, <2>3, <2>4, <2>5, <2>6 DEF ParentNext
<1>2. CASE WorkerNext \/ WorkerDies
  BY <1>2, WorkerFrame
<1>3. CASE MerchantNext
  BY <1>3, MerchantFrame
<1>4. CASE EditSource \/ UNCHANGED sessionVars
  BY <1>4, EditFrame
<1> QED
  BY <1>1, <1>2, <1>3, <1>4 DEF SessionNext

(* A step of the merchant moves at most one call, forward.                  *)
LEMMA CallMoves ==
  ASSUME TypeOK, MerchantNext
  PROVE  \/ call' = call
         \/ \E r \in Ids :
              /\ call[r] # "none"
              /\ \A q \in Ids \ {r} : call'[q] = call[q]
              /\ call'[r] \notin NotReceived
              /\ call[r] \in Done => call'[r] \in Done
<1> USE DEF CallStep, MerchantStep, NotReceived, Done
<1>1. ASSUME NEW r \in Ids, NEW from, NEW to, CallStep(r, from, to),
             from # "none", to \notin NotReceived, from \in Done => to \in Done
      PROVE  /\ call[r] # "none"
             /\ \A q \in Ids \ {r} : call'[q] = call[q]
             /\ call'[r] \notin NotReceived
             /\ call[r] \in Done => call'[r] \in Done
  BY <1>1 DEF TypeOK
<1> HIDE DEF CallStep
<1>2. ASSUME NEW r \in Ids,
             ReceiveCall(r) \/ InjectFailure(r) \/ CompleteResponse(r) \/ FinishCall(r)
               \/ AbortCall(r) \/ \E status \in {"ok", "error"} : StartResponse(r, status)
      PROVE  /\ call[r] # "none"
             /\ \A q \in Ids \ {r} : call'[q] = call[q]
             /\ call'[r] \notin NotReceived
             /\ call[r] \in Done => call'[r] \in Done
  BY <1>1, <1>2 DEF ReceiveCall, InjectFailure, CompleteResponse, FinishCall, AbortCall,
       StartResponse
<1>3. ASSUME NEW r \in Ids, Enter(r) \/ \E kind \in {"RETURNED", "ESCAPED"} : Leave(r, kind)
      PROVE  call' = call
  BY <1>3 DEF Enter, Leave
<1>4. CASE EnterUncorrelated \/ TracerRaises
  BY <1>4 DEF EnterUncorrelated, TracerRaises
<1> QED
  BY <1>2, <1>3, <1>4 DEF MerchantNext, RequestNext

(* The driver sends the plan request by request. *)
LEMMA DriverStep == TypeOK /\ DriverInv /\ [SessionNext]_sessionVars => DriverInv'
<1> SUFFICES ASSUME TypeOK, DriverInv, [SessionNext]_sessionVars PROVE DriverInv'
  OBVIOUS
<1>0. sent \in Nat /\ Ids \subseteq Nat /\ Len(plan) \in Nat
  BY IdsAreNumbers DEF TypeOK
<1>1. CASE ParentNext
  <2> USE DEF ParentStep, DriverInv, Starting, Ending, startVars, driverVars, merchantVars
  <2>0. plan' = plan
    BY <1>1, ParentFrame
  <2>1. CASE Prepare \/ EnvironmentRefused \/ SpawnRefused \/ Refuse \/ Spawn
    BY <2>0, <2>1 DEF Prepare, EnvironmentRefused, SpawnRefused, Refuse, Spawn
  <2>2. CASE PollReady \/ PollFailed \/ PollNoStatus \/ PollRunning \/ PollExited \/ PollTimeout
               \/ PollInterrupted
    BY <1>0, <2>0, <2>2 DEF PollReady, PollFailed, PollNoStatus, PollRunning, PollExited, PollTimeout,
         PollInterrupted
  <2>3. CASE SendRequest
    <3>1. /\ \A r \in Ids : r # sent + 1 => call'[r] = call[r] /\ answer'[r] = answer[r]
          /\ \A r \in Ids : r = sent + 1 => call'[r] = "arriving" /\ answer'[r] = "pending"
          /\ sent' = sent + 1 /\ parent = "driving" /\ parent' = "awaiting"
          /\ sessionComplete' = sessionComplete
      BY <2>3 DEF SendRequest, TypeOK
    <3>2. \A r \in Ids : r <= sent => answer[r] \in {"ok", "error"} /\ call[r] \in Done
      BY <3>1
    <3>3. \A r \in Ids : r <= sent => call[r] # "arriving"
      BY <3>2 DEF Done
    <3>4. \A r \in Ids : r <= sent \/ r = sent + 1 \/ r > sent + 1
      BY <1>0
    <3> QED
      BY <1>0, <2>0, <3>1, <3>2, <3>3, <3>4
  <2>4. ASSUME NEW status \in {"ok", "error"}, ReceiveAnswer(status) PROVE DriverInv'
    <3>1. /\ \A r \in Ids : r # sent => answer'[r] = answer[r]
          /\ sent \in Ids => answer'[sent] = status
          /\ call' = call /\ sent' = sent /\ parent = "awaiting" /\ parent' = "driving"
          /\ sessionComplete' = sessionComplete
          /\ call[sent] \in Done
      BY <2>4 DEF ReceiveAnswer, TypeOK, Done
    <3> QED
      BY <1>0, <2>0, <2>4, <3>1
  <2>5. CASE RequestFails
    <3>1. /\ \A r \in Ids : r # sent => answer'[r] = answer[r]
          /\ call' = call /\ sent' = sent /\ parent' = "closing" /\ ~sessionComplete'
      BY <2>5 DEF RequestFails, TypeOK
    <3> QED
      BY <1>0, <2>0, <3>1
  <2>6. CASE RequestRefused \/ AllSent
    BY <2>0, <2>6 DEF RequestRefused, AllSent
  <2>7. CASE RequestStop \/ Stopped \/ StopTimeout \/ CleanupFails \/ ReadBack
    BY <2>0, <2>7 DEF RequestStop, Stopped, StopTimeout, CleanupFails, ReadBack
  <2> QED
    BY <1>1, <2>1, <2>2, <2>3, <2>4, <2>5, <2>6, <2>7 DEF ParentNext
<1>2. CASE WorkerNext \/ WorkerDies
  BY <1>2, WorkerFrame DEF DriverInv, startVars, driverVars, sourceVars
<1>3. CASE MerchantNext
  <2>1. UNCHANGED <<parent, sent, answer, sessionComplete, plan>>
    BY <1>3, MerchantFrame DEF driverVars, sourceVars
  <2>2. CASE call' = call
    BY <2>1, <2>2 DEF DriverInv
  <2>3. ASSUME NEW r \in Ids,
               /\ call[r] # "none"
               /\ \A q \in Ids \ {r} : call'[q] = call[q]
               /\ call'[r] \notin NotReceived
               /\ call[r] \in Done => call'[r] \in Done
        PROVE  DriverInv'
    BY <1>0, <2>1, <2>3 DEF DriverInv, NotReceived
  <2> QED
    BY <1>3, <2>2, <2>3, CallMoves
<1>4. CASE EditSource \/ UNCHANGED sessionVars
  BY <1>4, EditFrame DEF DriverInv, startVars, driverVars, merchantVars
<1> QED
  BY <1>1, <1>2, <1>3, <1>4 DEF SessionNext
-----------------------------------------------------------------------------
(* What one observation changes of what the channel holds.                  *)
LEMMA RecordedEvent ==
  ASSUME TypeOK, NEW r \in Ids, NEW kind \in Kinds, NEW status \in Statuses,
         Observe(r, kind, status)
  PROVE  /\ \A q, k : Occurrences(recorded', q, k)
                        = Occurrences(recorded, q, k) + (IF q = r /\ k = kind THEN 1 ELSE 0)
         /\ \A q, k : Occurrences(recorded, q, k) \in Nat
         /\ ToSet(recorded') = ToSet(recorded) \cup {Event(r, kind, status)}
<1>1. recorded \in Seq(Observations) /\ Event(r, kind, status) \in Observations
      /\ recorded' = Append(recorded, Event(r, kind, status))
  BY DEF TypeOK, Observe, Channel!Record, Event, Observations
<1>2. Event(r, kind, status).request = r /\ Event(r, kind, status).kind = kind
  BY DEF Event
<1>3. \A q, k : Occurrences(recorded', q, k)
                  = Occurrences(recorded, q, k) + (IF q = r /\ k = kind THEN 1 ELSE 0)
  <2> SUFFICES ASSUME NEW q, NEW k
               PROVE  Occurrences(recorded', q, k)
                        = Occurrences(recorded, q, k) + (IF q = r /\ k = kind THEN 1 ELSE 0)
    OBVIOUS
  <2> DEFINE e == Event(r, kind, status)
  <2>1. Occurrences(Append(recorded, e), q, k)
          = Occurrences(recorded, q, k) + (IF e.request = q /\ e.kind = k THEN 1 ELSE 0)
    BY <1>1, OccurrencesAppend
  <2> HIDE DEF e
  <2> QED
    BY <1>1, <1>2, <2>1 DEF e
<1>4. \A q, k : Occurrences(recorded, q, k) \in Nat
  BY <1>1, OccurrencesType
<1>5. ToSet(recorded') = ToSet(recorded) \cup {Event(r, kind, status)}
  BY <1>1, ToSetAppend
<1> QED
  BY <1>3, <1>4, <1>5

LEMMA RequestsTyped == TypeOK => \A e \in ToSet(recorded) : e.request \in Ids
<1> SUFFICES ASSUME TypeOK, NEW e \in ToSet(recorded) PROVE e.request \in Ids
  OBVIOUS
<1>1. PICK i \in 1..Len(recorded) : e = recorded[i]
  BY DEF ToSet, TypeOK
<1>2. e \in Observations
  BY <1>1 DEF TypeOK
<1> QED
  BY <1>2 DEF Observations

(* Requests stay in order when a new one is received, or none.              *)
LEMMA OrderKept ==
  ASSUME NEW s \in Seq(Observations), NEW e \in Observations, ReceivedInOrder(s),
         e.kind = "REQUEST_RECEIVED" => \A f \in ToSet(s) : f.request < e.request
  PROVE  ReceivedInOrder(Append(s, e))
<1>1. Len(s) \in Nat /\ Len(Append(s, e)) = Len(s) + 1
      /\ \A i \in 1..Len(s) : Append(s, e)[i] = s[i] /\ s[i] \in ToSet(s)
      /\ Append(s, e)[Len(s) + 1] = e
  BY DEF ToSet
<1> SUFFICES ASSUME NEW i \in 1..(Len(s) + 1), NEW j \in 1..(Len(s) + 1), i < j,
                    Append(s, e)[i].kind = "REQUEST_RECEIVED",
                    Append(s, e)[j].kind = "REQUEST_RECEIVED"
             PROVE  Append(s, e)[i].request < Append(s, e)[j].request
  BY <1>1 DEF ReceivedInOrder
<1>2. i \in 1..Len(s)
  BY <1>1
<1>3. CASE j \in 1..Len(s)
  BY <1>1, <1>2, <1>3 DEF ReceivedInOrder
<1>4. CASE j = Len(s) + 1
  BY <1>1, <1>2, <1>4
<1> QED
  BY <1>1, <1>3, <1>4

(* The observations of a request follow its call. *)
LEMMA CallsStep ==
  TypeOK /\ DriverInv /\ CallInv /\ [SessionNext]_sessionVars => CallInv'
<1> SUFFICES ASSUME TypeOK, DriverInv, CallInv, [SessionNext]_sessionVars PROVE CallInv'
  OBVIOUS
<1>1. CASE ParentNext
  <2>1. UNCHANGED <<recorded, running>>
    BY <1>1, ParentFrame
  <2>2. CASE call' = call
    BY <2>1, <2>2 DEF CallInv
  <2>3. CASE SendRequest
    <3>1. /\ \A q \in Ids : q # sent + 1 => call'[q] = call[q]
          /\ \A q \in Ids : q = sent + 1 => call'[q] = "arriving" /\ call[q] = "none"
      <4>1. sent + 1 > sent
        BY IdsAreNumbers DEF TypeOK
      <4> QED
        BY <2>3, <4>1 DEF SendRequest, TypeOK, DriverInv
    <3>2. \A q \in Ids : (call'[q] \in NotReceived) = (call[q] \in NotReceived)
                         /\ (call'[q] \in {"completed", "finished"})
                              = (call[q] \in {"completed", "finished"})
      BY <3>1 DEF NotReceived
    <3>3. \A e \in ToSet(recorded) : e.request \in Ids
      BY RequestsTyped
    <3> QED
      BY <2>1, <3>2, <3>3 DEF CallInv
  <2> QED
    BY <1>1, <2>2, <2>3, ParentFrame
<1>2. CASE WorkerNext \/ WorkerDies
  <2>1. UNCHANGED <<recorded, call>> /\ (running' = running \/ running' = [r \in Ids |-> 0])
    BY <1>2, WorkerFrame
  <2> QED
    BY <2>1 DEF CallInv
<1>3. CASE MerchantNext
  <2>1. ASSUME NEW r \in Ids, NEW kind \in Kinds, NEW status \in Statuses,
               Observe(r, kind, status), kind # "REQUEST_RECEIVED"
        PROVE  ReceivedInOrder(recorded')
    <3>1. /\ recorded \in Seq(Observations) /\ Event(r, kind, status) \in Observations
          /\ recorded' = Append(recorded, Event(r, kind, status))
          /\ Event(r, kind, status).kind # "REQUEST_RECEIVED"
      BY <2>1 DEF TypeOK, Observe, Channel!Record, Event, Observations
    <3> QED
      BY <3>1, OrderKept DEF CallInv
  <2>2. ASSUME NEW r \in Ids, ReceiveCall(r) PROVE CallInv'
    <3>1. /\ call[r] = "arriving" /\ call' = [call EXCEPT ![r] = "handling"] /\ running' = running
          /\ Observe(r, "REQUEST_RECEIVED", "none")
      BY <2>2 DEF ReceiveCall, CallStep
    <3>2. \A e \in ToSet(recorded) : e.request < r
      <4>1. r = sent
        BY <3>1 DEF DriverInv
      <4>2. ASSUME NEW e \in ToSet(recorded) PROVE e.request \in Ids /\ e.request # r /\ e.request <= sent
        <5>1. e.request \in Ids
          BY RequestsTyped
        <5>2. call[e.request] \notin {"none", "arriving"}
          BY DEF CallInv, NotReceived
        <5>3. ~(e.request > sent)
          BY <5>1, <5>2 DEF DriverInv
        <5> QED
          BY <3>1, <5>1, <5>2, <5>3, IdsAreNumbers DEF TypeOK
      <4>3. r \in Nat /\ \A e \in ToSet(recorded) : e.request \in Nat
        BY <4>2, IdsAreNumbers
      <4> QED
        BY <4>1, <4>2, <4>3
    <3>3. ReceivedInOrder(recorded')
      <4> DEFINE e == Event(r, "REQUEST_RECEIVED", "none")
      <4>1. /\ recorded \in Seq(Observations) /\ e \in Observations
            /\ recorded' = Append(recorded, e)
            /\ e.request = r
        BY <3>1 DEF TypeOK, Observe, Channel!Record, Event, Observations, Kinds, Statuses
      <4> HIDE DEF e
      <4>2. \A f \in ToSet(recorded) : f.request < e.request
        BY <3>2, <4>1
      <4>3. ReceivedInOrder(Append(recorded, e))
        BY <4>1, <4>2, OrderKept DEF CallInv
      <4> QED
        BY <4>1, <4>3
    <3>4. /\ \A q, k : Occurrences(recorded', q, k)
               = Occurrences(recorded, q, k) + (IF q = r /\ k = "REQUEST_RECEIVED" THEN 1 ELSE 0)
          /\ \A q, k : Occurrences(recorded, q, k) \in Nat
          /\ ToSet(recorded') = ToSet(recorded) \cup {Event(r, "REQUEST_RECEIVED", "none")}
      BY <3>1, RecordedEvent DEF Kinds, Statuses
    <3>5. call'[r] = "handling" /\ \A q \in Ids \ {r} : call'[q] = call[q]
      BY <3>1 DEF TypeOK
    <3>6. \A e \in ToSet(recorded) : e.request \in Ids
      BY RequestsTyped
    <3> QED
      BY <3>1, <3>3, <3>4, <3>5, <3>6 DEF CallInv, NotReceived, Event
  <2>3. ASSUME NEW r \in Ids, NEW kind \in Kinds, NEW status \in Statuses, NEW to,
               kind \notin {"REQUEST_RECEIVED", "RESPONSE_COMPLETED"},
               call[r] \notin NotReceived \cup {"completed", "finished"},
               to \notin NotReceived \cup {"completed", "finished"},
               call' = [call EXCEPT ![r] = to], running' = running, Observe(r, kind, status)
        PROVE  CallInv'
    <3>1. call'[r] = to /\ \A q \in Ids \ {r} : call'[q] = call[q]
      BY <2>3 DEF TypeOK
    <3>2. \A q : /\ Occurrences(recorded', q, "REQUEST_RECEIVED")
                      = Occurrences(recorded, q, "REQUEST_RECEIVED")
                 /\ Occurrences(recorded', q, "RESPONSE_COMPLETED")
                      = Occurrences(recorded, q, "RESPONSE_COMPLETED")
      BY <2>3, RecordedEvent
    <3>3. \A e \in ToSet(recorded') : e \in ToSet(recorded) \/ e.request = r
      BY <2>3, RecordedEvent DEF Event
    <3>4. \A e \in ToSet(recorded) : e.request \in Ids
      BY RequestsTyped
    <3> QED
      BY <2>1, <2>3, <3>1, <3>2, <3>3, <3>4 DEF CallInv
  <2>4. ASSUME NEW r \in Ids,
               InjectFailure(r) \/ AbortCall(r)
                 \/ \E status \in {"ok", "error"} : StartResponse(r, status)
        PROVE  CallInv'
    BY <2>3, <2>4 DEF InjectFailure, AbortCall, StartResponse, CallStep, NotReceived, Kinds, Statuses
  <2>5. ASSUME NEW r \in Ids, CompleteResponse(r) PROVE CallInv'
    <3>1. PICK status \in {"ok", "error"} : Observe(r, "RESPONSE_COMPLETED", status)
      BY <2>5 DEF CompleteResponse
    <3>2. call[r] = "started" /\ call' = [call EXCEPT ![r] = "completed"] /\ running' = running
      BY <2>5 DEF CompleteResponse, CallStep
    <3>3. call'[r] = "completed" /\ \A q \in Ids \ {r} : call'[q] = call[q]
      BY <3>2 DEF TypeOK
    <3>4. /\ \A q, k : Occurrences(recorded', q, k)
               = Occurrences(recorded, q, k) + (IF q = r /\ k = "RESPONSE_COMPLETED" THEN 1 ELSE 0)
          /\ \A q, k : Occurrences(recorded, q, k) \in Nat
          /\ ToSet(recorded') = ToSet(recorded) \cup {Event(r, "RESPONSE_COMPLETED", status)}
          /\ ReceivedInOrder(recorded')
      BY <2>1, <3>1, RecordedEvent DEF Kinds, Statuses
    <3>5. \A e \in ToSet(recorded) : e.request \in Ids
      BY RequestsTyped
    <3> QED
      BY <3>2, <3>3, <3>4, <3>5 DEF CallInv, NotReceived, Event
  <2>6. ASSUME NEW r \in Ids, FinishCall(r) PROVE CallInv'
    <3>1. /\ call[r] = "completed" /\ call' = [call EXCEPT ![r] = "finished"]
          /\ running' = running /\ recorded' = recorded
      BY <2>6 DEF FinishCall, CallStep, channelVars
    <3>2. call'[r] = "finished" /\ \A q \in Ids \ {r} : call'[q] = call[q]
      BY <3>1 DEF TypeOK
    <3>3. \A e \in ToSet(recorded) : e.request \in Ids
      BY RequestsTyped
    <3> QED
      BY <3>1, <3>2, <3>3 DEF CallInv, NotReceived
  <2>7. ASSUME NEW r \in Ids, Enter(r) \/ \E kind \in {"RETURNED", "ESCAPED"} : Leave(r, kind)
        PROVE  CallInv'
    <3>1. call' = call /\ call[r] \notin NotReceived
      BY <2>7 DEF Enter, Leave, NotReceived, CallInv
    <3>2. \A q \in Ids : running'[q] > 0 => running[q] > 0 \/ q = r
      <4>1. \A q \in Ids \ {r} : running'[q] = running[q]
        BY <2>7 DEF Enter, Leave, TypeOK
      <4> QED
        BY <4>1
    <3>3. CASE recorded' = recorded
      BY <3>1, <3>2, <3>3 DEF CallInv
    <3>4. ASSUME NEW kind \in {"ENTERED", "RETURNED", "ESCAPED"}, Observe(r, kind, "none")
          PROVE  CallInv'
      <4>1. \A q : /\ Occurrences(recorded', q, "REQUEST_RECEIVED")
                        = Occurrences(recorded, q, "REQUEST_RECEIVED")
                   /\ Occurrences(recorded', q, "RESPONSE_COMPLETED")
                        = Occurrences(recorded, q, "RESPONSE_COMPLETED")
        BY <3>4, RecordedEvent DEF Kinds, Statuses
      <4>2. \A e \in ToSet(recorded') : e \in ToSet(recorded) \/ e.request = r
        BY <3>4, RecordedEvent DEF Event, Kinds, Statuses
      <4>3. ReceivedInOrder(recorded')
        BY <2>1, <3>4 DEF Kinds, Statuses
      <4> QED
        BY <3>1, <3>2, <4>1, <4>2, <4>3 DEF CallInv
    <3> QED
      BY <2>7, <3>3, <3>4 DEF Enter, Leave, channelVars
  <2>8. CASE EnterUncorrelated \/ TracerRaises
    BY <2>8 DEF EnterUncorrelated, TracerRaises, CallInv, channelVars
  <2> QED
    BY <1>3, <2>2, <2>4, <2>5, <2>6, <2>7, <2>8 DEF MerchantNext, RequestNext
<1>4. CASE EditSource \/ UNCHANGED sessionVars
  BY <1>4, EditFrame DEF CallInv, merchantVars, channelVars
<1> QED
  BY <1>1, <1>2, <1>3, <1>4 DEF SessionNext

LEMMA AnswerStep ==
  TypeOK /\ DriverInv /\ CallInv /\ AnswerInv /\ [SessionNext]_sessionVars => AnswerInv'
<1> SUFFICES ASSUME TypeOK, DriverInv, CallInv, AnswerInv, [SessionNext]_sessionVars
             PROVE  AnswerInv'
  OBVIOUS
<1>1. ASSUME UNCHANGED <<call, recorded>>, \A q \in Ids : answer'[q] = answer[q] \/ answer'[q] # "ok"
      PROVE  AnswerInv'
  BY <1>1 DEF AnswerInv, Started
<1>2. CASE ParentNext
  <2>1. recorded' = recorded /\ (SendRequest \/ call' = call)
    BY <1>2, ParentFrame
  <2>2. CASE SendRequest
    <3>1. /\ \A q \in Ids : q # sent + 1 => call'[q] = call[q] /\ answer'[q] = answer[q]
          /\ \A q \in Ids : q = sent + 1 => call'[q] = "arriving" /\ call[q] = "none"
                                             /\ answer'[q] = "pending"
      <4>1. sent + 1 > sent
        BY IdsAreNumbers DEF TypeOK
      <4> QED
        BY <2>2, <4>1 DEF SendRequest, TypeOK, DriverInv
    <3> QED
      BY <2>1, <3>1 DEF AnswerInv, Started, NotReceived
  <2>3. ASSUME NEW status \in {"ok", "error"}, ReceiveAnswer(status) PROVE AnswerInv'
    <3>1. /\ \A q \in Ids : q # sent => answer'[q] = answer[q]
          /\ sent \in Ids => answer'[sent] = status
          /\ status = "ok" => /\ call[sent] \in {"completed", "finished"}
                              /\ Event(sent, "RESPONSE_STARTED", "ok") \in ToSet(recorded)
          /\ call' = call
      BY <2>3 DEF ReceiveAnswer, TypeOK, merchantVars
    <3> QED
      BY <2>1, <3>1 DEF AnswerInv, Started
  <2>4. CASE RequestFails
    <3>1. \A q \in Ids : answer'[q] = answer[q] \/ answer'[q] = "failed"
      BY <2>4 DEF RequestFails, TypeOK
    <3>2. call' = call
      BY <2>4 DEF RequestFails, merchantVars
    <3> QED
      BY <1>1, <2>1, <3>1, <3>2
  <2> USE DEF ParentStep, driverVars, merchantVars
  <2>5. CASE Prepare \/ EnvironmentRefused \/ SpawnRefused \/ Spawn \/ Refuse
    BY <1>1, <2>1, <2>5 DEF Prepare, EnvironmentRefused, SpawnRefused, Spawn, Refuse
  <2>6. CASE PollReady \/ PollFailed \/ PollNoStatus \/ PollRunning \/ PollExited \/ PollTimeout
               \/ PollInterrupted
    BY <1>1, <2>1, <2>6 DEF PollReady, PollFailed, PollNoStatus, PollRunning, PollExited,
         PollTimeout, PollInterrupted
  <2>7. CASE RequestRefused \/ AllSent \/ RequestStop \/ Stopped \/ StopTimeout \/ CleanupFails
               \/ ReadBack
    BY <1>1, <2>1, <2>7 DEF RequestRefused, AllSent, RequestStop, Stopped, StopTimeout,
         CleanupFails, ReadBack
  <2> QED
    BY <1>2, <2>2, <2>3, <2>4, <2>5, <2>6, <2>7 DEF ParentNext
<1>3. CASE WorkerNext \/ WorkerDies
  BY <1>1, <1>3, WorkerFrame DEF driverVars
<1>4. CASE MerchantNext
  <2>1. answer' = answer
    BY <1>4, MerchantFrame DEF driverVars
  (* An observation of r that is neither the start of a response nor an     *)
  (* injected failure, and a call that moves on.                            *)
  <2>2. ASSUME NEW r \in Ids, NEW kind \in Kinds, NEW status \in Statuses,
               kind \notin {"ACK_FAILURE_INJECTED", "RESPONSE_STARTED"},
               \A q \in Ids \ {r} : call'[q] = call[q],
               call'[r] \in NotReceived \cup {"handling"} => call[r] \in NotReceived \cup {"handling"},
               call'[r] = "injected" => call[r] = "injected",
               call[r] \in {"completed", "finished"} => call'[r] \in {"completed", "finished"},
               Observe(r, kind, status)
        PROVE  AnswerInv'
    <3>1. \A q : /\ Occurrences(recorded', q, "ACK_FAILURE_INJECTED")
                      = Occurrences(recorded, q, "ACK_FAILURE_INJECTED")
      BY <2>2, RecordedEvent
    <3>2. \A q, s : Event(q, "RESPONSE_STARTED", s) \in ToSet(recorded')
                      <=> Event(q, "RESPONSE_STARTED", s) \in ToSet(recorded)
      BY <2>2, RecordedEvent DEF Event
    <3> QED
      BY <2>1, <2>2, <3>1, <3>2 DEF AnswerInv, Started
  <2>3. ASSUME NEW r \in Ids, ReceiveCall(r) \/ AbortCall(r) \/ CompleteResponse(r)
        PROVE  AnswerInv'
    BY <2>2, <2>3 DEF ReceiveCall, AbortCall, CompleteResponse, CallStep, TypeOK, NotReceived,
         Kinds, Statuses
  <2>4. ASSUME NEW r \in Ids, Enter(r) \/ \E kind \in {"RETURNED", "ESCAPED"} : Leave(r, kind)
        PROVE  AnswerInv'
    <3>1. call' = call
      BY <2>4 DEF Enter, Leave
    <3>2. CASE recorded' = recorded
      BY <1>1, <2>1, <3>1, <3>2
    <3>3. ASSUME NEW kind \in {"ENTERED", "RETURNED", "ESCAPED"}, Observe(r, kind, "none")
          PROVE  AnswerInv'
      BY <2>2, <3>1, <3>3 DEF Kinds, Statuses
    <3> QED
      BY <2>4, <3>2, <3>3 DEF Enter, Leave, channelVars
  <2>5. ASSUME NEW r \in Ids, FinishCall(r) PROVE AnswerInv'
    <3>1. /\ call[r] = "completed" /\ call'[r] = "finished"
          /\ \A q \in Ids \ {r} : call'[q] = call[q]
          /\ recorded' = recorded
      BY <2>5 DEF FinishCall, CallStep, TypeOK, channelVars
    <3> QED
      BY <2>1, <3>1 DEF AnswerInv, Started, NotReceived
  <2>6. ASSUME NEW r \in Ids, InjectFailure(r) PROVE AnswerInv'
    <3>1. /\ call[r] = "handling" /\ call'[r] = "injected"
          /\ \A q \in Ids \ {r} : call'[q] = call[q]
          /\ Observe(r, "ACK_FAILURE_INJECTED", "ok")
      BY <2>6 DEF InjectFailure, CallStep, TypeOK
    <3>2. \A q \in Ids \ {r} : Occurrences(recorded', q, "ACK_FAILURE_INJECTED")
                                 = Occurrences(recorded, q, "ACK_FAILURE_INJECTED")
      BY <3>1, RecordedEvent DEF Kinds, Statuses
    <3>3. \A q, s : Event(q, "RESPONSE_STARTED", s) \in ToSet(recorded')
                      <=> Event(q, "RESPONSE_STARTED", s) \in ToSet(recorded)
      BY <3>1, RecordedEvent DEF Event, Kinds, Statuses
    <3>4. ~Started(r)
      BY <3>1 DEF AnswerInv
    <3> QED
      BY <2>1, <3>1, <3>2, <3>3, <3>4 DEF AnswerInv, Started, NotReceived
  <2>7. ASSUME NEW r \in Ids, NEW status \in {"ok", "error"}, StartResponse(r, status)
        PROVE  AnswerInv'
    <3>1. /\ call[r] \in {"handling", "injected"} /\ call'[r] = "started"
          /\ \A q \in Ids \ {r} : call'[q] = call[q]
          /\ call[r] = "injected" => status = "error"
          /\ Observe(r, "RESPONSE_STARTED", status)
      BY <2>7 DEF StartResponse, CallStep, TypeOK
    <3>2. \A q : Occurrences(recorded', q, "ACK_FAILURE_INJECTED")
                   = Occurrences(recorded, q, "ACK_FAILURE_INJECTED")
      BY <3>1, RecordedEvent DEF Kinds, Statuses
    <3>3. ToSet(recorded') = ToSet(recorded) \cup {Event(r, "RESPONSE_STARTED", status)}
      BY <3>1, RecordedEvent DEF Kinds, Statuses
    <3>4. \A q \in Ids \ {r} : \A s : Event(q, "RESPONSE_STARTED", s) \in ToSet(recorded')
                      <=> Event(q, "RESPONSE_STARTED", s) \in ToSet(recorded)
      BY <3>3 DEF Event
    <3>5. status = "ok" => Occurrences(recorded, r, "ACK_FAILURE_INJECTED") = 0
      BY <3>1 DEF AnswerInv
    <3>6. Event(r, "RESPONSE_STARTED", "ok") \in ToSet(recorded')
            => status = "ok" \/ Event(r, "RESPONSE_STARTED", "ok") \in ToSet(recorded)
      BY <3>3 DEF Event
    <3> QED
      BY <2>1, <3>1, <3>2, <3>3, <3>4, <3>5, <3>6 DEF AnswerInv, Started, NotReceived
  <2>8. CASE EnterUncorrelated \/ TracerRaises
    BY <1>1, <2>1, <2>8 DEF EnterUncorrelated, TracerRaises, channelVars
  <2> QED
    BY <1>4, <2>3, <2>4, <2>5, <2>6, <2>7, <2>8 DEF MerchantNext, RequestNext
<1>5. CASE EditSource \/ UNCHANGED sessionVars
  BY <1>1, <1>5, EditFrame DEF merchantVars, channelVars, driverVars
<1> QED
  BY <1>2, <1>3, <1>4, <1>5 DEF SessionNext

(* A collector that is still complete has seen every execution. *)
LEMMA TraceStep ==
  TypeOK /\ CallInv /\ TraceInv /\ [SessionNext]_sessionVars => TraceInv'
<1> SUFFICES ASSUME TypeOK, CallInv, TraceInv, ~UntracedThreads, [SessionNext]_sessionVars
             PROVE  TraceInv'
  BY DEF TraceInv
<1>1. CASE ParentNext
  <2>1. /\ UNCHANGED <<collectorOk, tracer, recorded, executed, uncorrelated>>
        /\ worker' = worker \/ worker' = "booting"
        /\ SendRequest \/ call' = call
    BY <1>1, ParentFrame DEF Spawn
  <2>2. CASE call' = call
    BY <2>1, <2>2 DEF TraceInv
  <2>3. CASE SendRequest
    <3>1. \A q \in Ids : call'[q] = call[q] \/ call'[q] = "arriving"
      BY <2>3 DEF SendRequest, TypeOK
    <3> QED
      BY <2>1, <3>1 DEF TraceInv, NotReceived
  <2> QED
    BY <2>1, <2>2, <2>3
<1>2. CASE WorkerNext \/ WorkerDies
  <2>1. UNCHANGED <<collectorOk, call, executed, uncorrelated, recorded>>
    BY <1>2, WorkerFrame
  <2>2. ASSUME tracer' = tracer, worker' \notin {"attached", "serving", "draining"}
        PROVE  TraceInv'
    BY <2>1, <2>2 DEF TraceInv
  <2>3. ASSUME NEW exception, LeaveServing(exception) PROVE TraceInv'
    BY <2>1, <2>3 DEF LeaveServing, TraceInv
  <2>4. CASE ValidateAndImport \/ Import
    BY <2>2, <2>3, <2>4 DEF ValidateAndImport, Import, traceVars
  <2>5. CASE ValidateAndAttach
    BY <2>1, <2>3, <2>5 DEF ValidateAndAttach, TraceInv
  <2>6. CASE ValidateAndServe
    BY <2>1, <2>3, <2>6 DEF ValidateAndServe, TraceInv, traceVars
  <2>7. CASE StartupRaises \/ ServerEnds \/ Drained
    BY <2>3, <2>7 DEF StartupRaises, ServerEnds, Drained
  <2>8. CASE SeeStop
    BY <2>1, <2>8 DEF SeeStop, TraceInv, traceVars
  <2>9. CASE Seal \/ WorkerExit \/ WorkerDies
    BY <2>2, <2>9 DEF Seal, WorkerExit, WorkerDies, traceVars
  <2> QED
    BY <1>2, <2>4, <2>5, <2>6, <2>7, <2>8, <2>9 DEF WorkerNext
<1>3. CASE MerchantNext
  <2>1. worker' = worker
    BY <1>3, MerchantFrame DEF workerVars
  <2>2. ASSUME NEW r \in Ids, NEW kind \in Kinds, NEW status \in Statuses,
               kind # "ENTERED",
               \A q \in Ids : call'[q] \notin NotReceived => call[q] \notin NotReceived \/ Serving,
               UNCHANGED <<traceVars, executed, uncorrelated>>,
               Observe(r, kind, status)
        PROVE  TraceInv'
    <3>1. \A q : Occurrences(recorded', q, "ENTERED") = Occurrences(recorded, q, "ENTERED")
      BY <2>2, RecordedEvent
    <3> QED
      BY <2>1, <2>2, <3>1 DEF TraceInv, Serving, traceVars
  <2>3. ASSUME NEW r \in Ids,
               ReceiveCall(r) \/ InjectFailure(r) \/ AbortCall(r) \/ CompleteResponse(r)
                 \/ \E status \in {"ok", "error"} : StartResponse(r, status)
        PROVE  TraceInv'
    <3>1. Serving /\ UNCHANGED <<traceVars, executed, uncorrelated>>
      BY <2>3 DEF ReceiveCall, InjectFailure, AbortCall, CompleteResponse, StartResponse, CallStep
    <3>2. \E kind \in Kinds \ {"ENTERED"}, status \in Statuses : Observe(r, kind, status)
      BY <2>3 DEF ReceiveCall, InjectFailure, AbortCall, CompleteResponse, StartResponse, CallStep,
           Kinds, Statuses
    <3> QED
      BY <2>2, <3>1, <3>2
  <2>4. ASSUME NEW r \in Ids, FinishCall(r) PROVE TraceInv'
    <3>1. /\ call[r] = "completed" /\ \A q \in Ids \ {r} : call'[q] = call[q]
          /\ UNCHANGED <<traceVars, executed, uncorrelated, recorded>>
      BY <2>4 DEF FinishCall, CallStep, TypeOK, channelVars
    <3> QED
      BY <2>1, <3>1 DEF TraceInv, NotReceived, traceVars
  <2>5. ASSUME NEW r \in Ids, NEW kind \in {"RETURNED", "ESCAPED"}, Leave(r, kind)
        PROVE  TraceInv'
    BY <2>2, <2>5 DEF Leave, Kinds, Statuses
  <2>6. ASSUME NEW r \in Ids, Enter(r) PROVE TraceInv'
    <3>1. /\ call[r] \notin NotReceived /\ UNCHANGED <<traceVars, call, uncorrelated>>
          /\ executed'[r] = executed[r] + 1
          /\ \A q \in Ids \ {r} : executed'[q] = executed[q]
      BY <2>6 DEF Enter, NotReceived, TypeOK
    <3>2. CASE collectorOk
      <4>1. Traced
        BY <3>1, <3>2 DEF TraceInv, Traced, TypeOK
      <4>2. Observe(r, "ENTERED", "none")
        BY <2>6, <4>1 DEF Enter, Untraced
      <4>3. \A q : Occurrences(recorded', q, "ENTERED")
                     = Occurrences(recorded, q, "ENTERED") + (IF q = r THEN 1 ELSE 0)
        BY <4>2, RecordedEvent DEF Kinds, Statuses
      <4>4. \A q \in Ids : executed[q] \in Nat /\ Occurrences(recorded, q, "ENTERED") = executed[q]
        BY <3>2 DEF TraceInv, TypeOK
      <4>5. \A q \in Ids : Occurrences(recorded', q, "ENTERED") = executed'[q]
        BY <3>1, <4>3, <4>4
      <4> QED
        BY <2>1, <3>1, <4>5 DEF TraceInv, traceVars
    <3>3. CASE ~collectorOk
      BY <2>1, <3>1, <3>3 DEF TraceInv, traceVars
    <3> QED
      BY <3>2, <3>3
  <2>7. CASE EnterUncorrelated
    <3>1. /\ tracer' = tracer /\ tracer # "absent"
          /\ UNCHANGED <<call, executed, recorded>>
      BY <2>7 DEF EnterUncorrelated, channelVars
    <3>2. ~collectorOk'
      BY <2>7, <3>1 DEF EnterUncorrelated, Traced, Untraced, TraceInv, TypeOK
    <3> QED
      BY <2>1, <3>1, <3>2 DEF TraceInv
  <2>8. CASE TracerRaises
    BY <2>1, <2>8 DEF TracerRaises, TraceInv, channelVars
  <2> QED
    BY <1>3, <2>3, <2>4, <2>5, <2>6, <2>7, <2>8 DEF MerchantNext, RequestNext
<1>4. CASE EditSource \/ UNCHANGED sessionVars
  BY <1>4, EditFrame DEF TraceInv, merchantVars, channelVars, traceVars, workerVars
<1> QED
  BY <1>1, <1>2, <1>3, <1>4 DEF SessionNext

(* The closing record says complete only when nothing had failed.           *)
LEMMA SealWrites == Seal => (statusFile'.complete => collectorOk /\ failure = "none")
<1> SUFFICES ASSUME Seal, statusFile'.complete PROVE collectorOk /\ failure = "none"
  OBVIOUS
<1>1. PICK channelOk \in BOOLEAN :
        statusFile'.complete = (collectorOk /\ channelOk /\ failure = "none")
  BY DEF Seal
<1> QED
  BY <1>1

LEMMA SealStep == TypeOK /\ ReleaseInv /\ SealInv /\ [SessionNext]_sessionVars => SealInv'
<1> SUFFICES ASSUME TypeOK, ReleaseInv, SealInv, [SessionNext]_sessionVars PROVE SealInv'
  OBVIOUS
<1>1. CASE ParentNext
  <2>1. UNCHANGED <<statusFile, collectorOk, failure, recorded>>
    BY <1>1, ParentFrame
  <2>2. CASE ReadBack
    <3>1. /\ worker' = worker /\ sessionComplete' = sessionComplete
          /\ parent = "reading" /\ parent' = "closed"
          /\ \/ SessionSealed /\ seal' = "complete" /\ published' = recorded
             \/ seal' = "incomplete"
      BY <2>2 DEF ReadBack, ParentStep, Channel!PublishComplete, workerVars, driverVars
    <3> QED
      BY <2>1, <3>1 DEF SealInv, SessionSealed
  <2>3. CASE ~ReadBack
    <3>1. UNCHANGED <<seal, published>>
      BY <1>1, <2>3, ParentFrame
    <3>2. parent # "closed"
      BY <1>1 DEF ParentNext, ParentStep, Prepare, EnvironmentRefused, SpawnRefused, Spawn,
           PollReady, PollFailed, PollNoStatus, PollRunning, PollExited, PollTimeout,
           PollInterrupted, Refuse, SendRequest, RequestRefused, RequestFails, AllSent,
           ReceiveAnswer, RequestStop, Stopped, StopTimeout, CleanupFails, ReadBack
    <3>3. worker' = worker \/ Spawn
      BY <1>1, ParentFrame
    <3>4. Spawn => worker = "absent"
      BY DEF Spawn, ReleaseInv
    <3> QED
      BY <2>1, <3>1, <3>2, <3>3, <3>4 DEF SealInv, Ended, TypeOK
  <2> QED
    BY <2>2, <2>3
<1>2. CASE WorkerNext \/ WorkerDies
  <2>1. UNCHANGED <<parent, sessionComplete, collectorOk, recorded, published>>
    BY <1>2, WorkerFrame DEF driverVars
  <2>2. CASE Seal
    <3>1. /\ statusFile'.complete => collectorOk /\ failure = "none"
          /\ worker' = "sealed" /\ failure' = failure
      BY <2>2, SealWrites DEF Seal
    <3>2. /\ worker \notin Ended /\ seal' # "open"
          /\ seal' \in {"complete", "incomplete"} => seal' = seal
      BY <2>2 DEF Seal, Ended, Channel!Freeze, channelVars
    <3>3. ~statusFile.complete /\ seal # "complete"
      BY <3>2 DEF SealInv
    <3>4. seal' # "complete" /\ (seal' = "incomplete" => parent' = "closed")
      BY <2>1, <3>2, <3>3 DEF SealInv
    <3>5. worker' \in Ended
      BY <3>1 DEF Ended
    <3> QED
      BY <2>1, <3>1, <3>2, <3>4, <3>5 DEF SealInv
  <2>3. CASE WorkerExit \/ WorkerDies
    <3>1. worker' \in Ended /\ UNCHANGED <<failure, statusFile, seal>>
      BY <2>3 DEF WorkerExit, WorkerDies, Ended, channelVars
    <3> QED
      BY <2>1, <3>1 DEF SealInv
  <2>4. CASE ~(Seal \/ WorkerExit \/ WorkerDies)
    <3>1. worker \notin Ended
      BY <1>2, <2>4 DEF WorkerNext, ValidateAndImport, Import, ValidateAndAttach, ValidateAndServe,
           StartupRaises, SeeStop, ServerEnds, Drained, Ended
    <3>2. statusFile' = statusFile \/ ValidateAndServe
      BY <1>2, <2>4, WorkerFrame
    <3>3. seal' = seal
      BY <1>2, <2>4, WorkerFrame
    <3>4. ValidateAndServe => statusFile' = statusFile
                              \/ (~statusFile'.complete /\ statusFile'.state = "READY")
      BY DEF ValidateAndServe, LeaveServing
    <3> QED
      BY <2>1, <3>1, <3>2, <3>3, <3>4 DEF SealInv
  <2> QED
    BY <2>2, <2>3, <2>4
<1>3. CASE MerchantNext
  <2>1. /\ UNCHANGED <<parent, sessionComplete, worker, failure, statusFile, seal, published>>
        /\ seal = "open"
    BY <1>3, MerchantFrame DEF driverVars, workerVars
  <2> QED
    BY <2>1 DEF SealInv
<1>4. CASE EditSource \/ UNCHANGED sessionVars
  BY <1>4, EditFrame DEF SealInv, driverVars, channelVars, traceVars, workerVars
<1> QED
  BY <1>1, <1>2, <1>3, <1>4 DEF SessionNext

(* The imported source is the indexed one, or there were two edits. *)
LEMMA SourceStep ==
  TypeOK /\ SealInv /\ SourceInv /\ [SessionNext]_sessionVars => SourceInv'
<1> SUFFICES ASSUME TypeOK, SealInv, SourceInv, [SessionNext]_sessionVars PROVE SourceInv'
  OBVIOUS
<1>0. edits \in Nat
  BY SessionAssumption DEF SessionAssumption, TypeOK
<1>1. CASE ParentNext
  <2>1. UNCHANGED <<failure, statusFile, imported, source, edits>>
        /\ (worker' = worker \/ worker' = "booting")
    BY <1>1, ParentFrame DEF Spawn
  <2> QED
    BY <2>1 DEF SourceInv
<1>2. CASE WorkerNext \/ WorkerDies
  <2>1. UNCHANGED <<source, edits>>
    BY <1>2, WorkerFrame DEF sourceVars
  <2>2. ASSUME NEW exception, LeaveServing(exception),
               exception = "none" => imported = "indexed" \/ edits >= 2
        PROVE  SourceInv'
    BY <2>1, <2>2 DEF LeaveServing, SourceInv
  <2>3. CASE ValidateAndImport \/ ValidateAndAttach
    BY <2>1, <2>2, <2>3 DEF ValidateAndImport, ValidateAndAttach, SourceInv
  <2>4. CASE Import
    <3>1. ~statusFile.complete
      BY <2>4 DEF Import, SealInv, Ended
    <3> QED
      BY <2>1, <2>4, <3>1 DEF Import, SourceInv, TypeOK
  <2>5. CASE ValidateAndServe
    BY <2>1, <2>2, <2>5 DEF ValidateAndServe, SourceInv
  <2>6. CASE StartupRaises \/ ServerEnds
    BY <2>2, <2>6 DEF StartupRaises, ServerEnds
  <2>7. CASE SeeStop
    BY <2>1, <2>7 DEF SeeStop, SourceInv
  <2>8. CASE Drained
    <3>1. InputsValid => imported = "indexed" \/ edits >= 2
      BY <2>8 DEF Drained, InputsValid, SourceInv, TypeOK
    <3> QED
      BY <2>2, <2>8, <3>1 DEF Drained
  <2>9. CASE Seal
    <3>1. statusFile'.complete => failure = "none"
      BY <2>9, SealWrites
    <3> QED
      BY <2>1, <2>9, <3>1 DEF Seal, SourceInv
  <2>10. CASE WorkerExit \/ WorkerDies
    BY <2>1, <2>10 DEF WorkerExit, WorkerDies, SourceInv
  <2> QED
    BY <1>2, <2>3, <2>4, <2>5, <2>6, <2>7, <2>8, <2>9, <2>10 DEF WorkerNext
<1>3. CASE MerchantNext
  BY <1>3, MerchantFrame DEF SourceInv, workerVars, sourceVars
<1>4. CASE EditSource
  <2>1. /\ edits' = edits + 1
        /\ source' = IF source = "indexed" THEN "edited" ELSE "indexed"
    BY <1>4 DEF EditSource
  <2> QED
    BY <1>0, <1>4, <2>1, EditFrame DEF SourceInv, TypeOK, workerVars
<1>5. CASE UNCHANGED sessionVars
  BY <1>5, EditFrame DEF SourceInv, workerVars, sessionVars, sourceVars
<1> QED
  BY <1>1, <1>2, <1>3, <1>4, <1>5 DEF SessionNext

(* The initial state of a session satisfies its invariant.                  *)
LEMMA SessionInvInit == SessionInit => SessionInv
<1> SUFFICES ASSUME SessionInit PROVE SessionInv
  OBVIOUS
<1>1. recorded = <<>> /\ published = <<>> /\ seal = "open"
  BY DEF SessionInit, Channel!SealInit
<1>2. TypeOK
  <2>1. NoStatus \in StatusFiles
    BY DEF NoStatus, StatusFiles, Failures
  <2>2. 0 \in 0..Len(plan) /\ 0 \in 0..MaxEdits
    BY IdsAreNumbers, SessionAssumption DEF SessionAssumption, SessionInit
  <2>3. <<>> \in Seq(Observations)
    OBVIOUS
  <2> QED
    BY <1>1, <2>1, <2>2, <2>3 DEF SessionInit, TypeOK, WorkerStates, Failures
<1>3. ReleaseInv
  BY DEF SessionInit, ReleaseInv, OwnedResourcesReleased, WorkerRunning
<1>4. DriverInv
  BY IdsAreNumbers DEF SessionInit, DriverInv, Ending
<1>5. ToSet(recorded) = {} /\ ReceivedInOrder(recorded)
  BY <1>1 DEF ToSet, ReceivedInOrder
<1>6. CallInv /\ AnswerInv /\ TraceInv
  BY <1>1, <1>5, OccurrencesEmpty
     DEF SessionInit, CallInv, AnswerInv, TraceInv, NotReceived, Started
<1>7. SealInv /\ SourceInv
  BY <1>1 DEF SessionInit, SealInv, SourceInv, NoStatus
<1> QED
  BY <1>2, <1>3, <1>4, <1>6, <1>7 DEF SessionInv

(* The session's invariant is inductive.                                    *)
LEMMA SessionInvStep == SessionInv /\ [SessionNext]_sessionVars => SessionInv'
BY TypeStep, ReleaseStep, DriverStep, CallsStep, AnswerStep, TraceStep, SealStep, SourceStep
   DEF SessionInv

LEMMA SessionInvariant == SessionSpec => []SessionInv
BY SessionInvInit, SessionInvStep, PTL DEF SessionSpec
-----------------------------------------------------------------------------
(* Type correctness of a session, for any plans and bounds.                 *)
THEOREM SessionTypes == SessionSpec => []TypeOK
<1>1. SessionInv => TypeOK
  BY DEF SessionInv
<1> QED
  BY <1>1, SessionInvariant, PTL

(* start and close leave no temporary directory and no worker behind, unless *)
(* start was refused before it had a process to own or the worker survived   *)
(* SIGKILL (ManagedRuntimeSession.start, close and _terminate_process).      *)
THEOREM ResourcesReleased == SessionSpec => []OwnedResourcesReleased
<1>1. SessionInv => OwnedResourcesReleased
  BY DEF SessionInv, ReleaseInv
<1> QED
  BY <1>1, SessionInvariant, PTL

(* If the merchant starts no untraced thread, a complete transcript tells as *)
(* many executions of the exact target, request by request, as there were,   *)
(* and there was none outside every request (ExactTraceEngine).              *)
THEOREM ExecutionsAreTold ==
  ASSUME ~UntracedThreads PROVE SessionSpec => []CompleteTellsExecutions
<1>1. SessionInv => CompleteTellsExecutions
  BY DEF SessionInv, SealInv, TraceInv, CompleteTellsExecutions
<1> QED
  BY <1>1, SessionInvariant, PTL

(* A complete transcript covers the requests of the plan and no other, each  *)
(* received once, in the order sent, and answered                            *)
(* (_dispatch_managed_sequence, _sequence_authority_is_exact).               *)
THEOREM RequestsAreCovered == SessionSpec => []CompleteCoversRequests
<1>1. SessionInv => CompleteCoversRequests
  <2> SUFFICES ASSUME SessionInv, seal = "complete"
               PROVE  /\ sent = Len(plan)
                      /\ \A r \in 1..sent :
                           /\ answer[r] \in {"ok", "error"}
                           /\ Occurrences(published, r, "REQUEST_RECEIVED") = 1
                      /\ \A i \in 1..Len(published) : published[i].request \in 1..sent
                      /\ ReceivedInOrder(published)
    BY DEF CompleteCoversRequests
  <2> USE DEF SessionInv
  <2>1. sessionComplete /\ parent = "closed" /\ published = recorded
    BY DEF SealInv
  <2>2. sent = Len(plan)
    BY <2>1 DEF DriverInv, Ending
  <2>3. 1..sent \subseteq Ids /\ sent \in Nat
    BY <2>2, IdsAreNumbers DEF TypeOK
  <2>4. \A r \in 1..sent : answer[r] \in {"ok", "error"} /\ call[r] \in Done
    BY <2>1, <2>3 DEF DriverInv
  <2>5. \A r \in 1..sent : Occurrences(recorded, r, "REQUEST_RECEIVED") = 1
    BY <2>3, <2>4 DEF CallInv, Done, NotReceived
  <2>6. ASSUME NEW i \in 1..Len(recorded) PROVE recorded[i].request \in 1..sent
    <3>1. recorded[i] \in ToSet(recorded)
      BY DEF ToSet, TypeOK
    <3>2. recorded[i].request \in Ids /\ call[recorded[i].request] \notin NotReceived
      BY <3>1, RequestsTyped DEF CallInv
    <3>3. ~(recorded[i].request > sent)
      BY <3>2 DEF DriverInv, NotReceived
    <3>4. recorded[i].request \in Nat \ {0}
      BY <3>2, IdsAreNumbers
    <3> QED
      BY <2>3, <3>3, <3>4
  <2> QED
    BY <2>1, <2>2, <2>4, <2>5, <2>6 DEF CallInv
<1> QED
  BY <1>1, SessionInvariant, PTL

(* What the driver got is what the application's wrapper recorded: a 2xx was *)
(* completed and never replaced by an injected failure, and a request with   *)
(* an injected failure was answered with an error (CorrelationASGIWrapper).  *)
THEOREM AnswersAreRecorded == SessionSpec => []AnswersMatchTranscript
<1>1. SessionInv => AnswersMatchTranscript
  <2> SUFFICES ASSUME SessionInv, seal = "complete", NEW r \in Ids
               PROVE  /\ answer[r] = "ok" =>
                           /\ Occurrences(recorded, r, "RESPONSE_COMPLETED") = 1
                           /\ Occurrences(recorded, r, "ACK_FAILURE_INJECTED") = 0
                      /\ Occurrences(recorded, r, "ACK_FAILURE_INJECTED") > 0
                           => answer[r] = "error"
    BY DEF AnswersMatchTranscript, SessionInv, SealInv
  <2> USE DEF SessionInv
  <2>1. answer[r] = "ok" =>
          /\ Occurrences(recorded, r, "RESPONSE_COMPLETED") = 1
          /\ Occurrences(recorded, r, "ACK_FAILURE_INJECTED") = 0
    BY DEF AnswerInv, CallInv
  <2>2. r > sent \/ r <= sent
    BY IdsAreNumbers DEF TypeOK
  <2>3. CASE r > sent
    <3>1. Occurrences(recorded, r, "ACK_FAILURE_INJECTED") = 0
      BY <2>3 DEF DriverInv, AnswerInv, NotReceived
    <3> QED
      BY <2>1, <3>1
  <2>4. CASE r <= sent
    <3>1. answer[r] \in {"ok", "error"}
      BY <2>4 DEF DriverInv, SealInv
    <3> QED
      BY <2>1, <3>1
  <2> QED
    BY <2>2, <2>3, <2>4
<1> QED
  BY <1>1, SessionInvariant, PTL

(* A complete session served the source that was indexed, if it was edited   *)
(* at most once: the inputs are validated before the import and at close     *)
(* (_validate_inputs).                                                       *)
THEOREM IndexedSourceIsServed == SessionSpec => []CompleteServedIndexed
<1>1. SessionInv => CompleteServedIndexed
  <2> SUFFICES ASSUME SessionInv, seal = "complete", edits <= 1 PROVE imported = "indexed"
    BY DEF CompleteServedIndexed
  <2>1. edits \in Nat /\ ~(edits >= 2)
    BY SessionAssumption DEF SessionAssumption, SessionInv, TypeOK
  <2> QED
    BY <2>1 DEF SessionInv, SealInv, SourceInv
<1> QED
  BY <1>1, SessionInvariant, PTL
-----------------------------------------------------------------------------
(* Every step of a session is a step of the sealed transcript, or none.     *)
LEMMA SessionChannelStep ==
  SessionInv /\ [SessionNext]_sessionVars => [Channel!SealNext]_(Channel!svars)
<1> SUFFICES ASSUME SessionInv, [SessionNext]_sessionVars
             PROVE  [Channel!SealNext]_(Channel!svars)
  OBVIOUS
<1> USE DEF Channel!svars
<1>1. CASE ParentNext
  <2>1. recorded' = recorded
    BY <1>1, ParentFrame
  <2>2. CASE ReadBack
    <3>1. CASE Channel!PublishComplete
      BY <3>1 DEF Channel!SealNext
    <3>2. CASE ~Channel!PublishComplete
      <4>1. seal' = "incomplete" /\ parent = "reading"
            /\ \E n \in {0, Len(recorded)} : published' = SubSeq(recorded, 1, n)
        BY <2>2, <3>2 DEF ReadBack, ParentStep
      <4>2. seal \in {"open", "frozen"}
        BY <4>1 DEF SessionInv, SealInv, TypeOK
      <4>3. published' \in Seq(Observations)
        BY <1>1, ParentTypes DEF SessionInv, TypeOK
      <4>4. Channel!PublishIncomplete
        BY <2>1, <4>1, <4>2, <4>3 DEF Channel!PublishIncomplete
      <4> QED
        BY <4>4 DEF Channel!SealNext
    <3> QED
      BY <3>1, <3>2
  <2>3. CASE ~ReadBack
    BY <1>1, <2>1, <2>3, ParentFrame
  <2> QED
    BY <2>2, <2>3
<1>2. CASE WorkerNext \/ WorkerDies
  <2>1. UNCHANGED <<recorded, published>> /\ (Seal \/ seal' = seal)
    BY <1>2, WorkerFrame
  <2>2. CASE Seal
    BY <2>1, <2>2 DEF Seal, channelVars, Channel!SealNext
  <2> QED
    BY <2>1, <2>2
<1>3. CASE MerchantNext
  <2>1. seal = "open" /\ UNCHANGED <<seal, published>>
    BY <1>3, MerchantFrame
  <2>2. ASSUME NEW e \in Observations, recorded' = Append(recorded, e)
        PROVE  Channel!SealNext
    <3>1. Channel!Record(e)
      BY <2>1, <2>2 DEF Channel!Record
    <3> QED
      BY <3>1 DEF Channel!SealNext
  <2> QED
    BY <1>3, <2>1, <2>2, MerchantRecords
<1>4. CASE EditSource \/ UNCHANGED sessionVars
  BY <1>4, EditFrame DEF channelVars
<1> QED
  BY <1>1, <1>2, <1>3, <1>4 DEF SessionNext

(* The session uses its channel as the sealed transcript that module        *)
(* ObservationChannel implements: nothing is recorded once it is frozen,    *)
(* and it is published once, whole when it is marked complete.              *)
THEOREM SessionUsesSealedTranscript == SessionSpec => Channel!SealSpec
<1>1. SessionInit => Channel!SealInit
  BY DEF SessionInit
<1>2. SessionInv /\ [SessionNext]_sessionVars => [Channel!SealNext]_(Channel!svars)
  BY SessionChannelStep
<1> QED
  BY <1>1, <1>2, SessionInvariant, PTL DEF SessionSpec, Channel!SealSpec

-----------------------------------------------------------------------------
(* An execution is entered once at most, and ends once at most and after    *)
(* that; a request's failure is injected once at most, before its response  *)
(* is completed, and only a call that is aborted says so.                   *)
InjectedBeforeCompleted(events) ==
  \A i, j \in 1..Len(events) :
    /\ events[i].kind = "ACK_FAILURE_INJECTED" /\ events[j].kind = "RESPONSE_COMPLETED"
    /\ events[i].request = events[j].request
    => i < j

EndsInv ==
  /\ \A r \in Ids :
       /\ Occurrences(recorded, r, "RETURNED") + Occurrences(recorded, r, "ESCAPED") + running[r]
            <= Occurrences(recorded, r, "ENTERED")
       /\ Occurrences(recorded, r, "ENTERED") <= executed[r]
       /\ Occurrences(recorded, r, "REQUEST_ABORTED") = (IF call[r] = "aborted" THEN 1 ELSE 0)
       /\ Occurrences(recorded, r, "ACK_FAILURE_INJECTED") <= 1
  /\ InjectedBeforeCompleted(recorded)
-----------------------------------------------------------------------------
(* The order of injections and completions is kept by a new observation     *)
(* that injects no failure into a completed response.                       *)
LEMMA InjectionOrderKept ==
  ASSUME NEW s \in Seq(Observations), NEW e \in Observations, InjectedBeforeCompleted(s),
         e.kind = "ACK_FAILURE_INJECTED" => Occurrences(s, e.request, "RESPONSE_COMPLETED") = 0
  PROVE  InjectedBeforeCompleted(Append(s, e))
<1>1. /\ Len(s) \in Nat /\ Len(Append(s, e)) = Len(s) + 1
      /\ \A i \in 1..Len(s) : Append(s, e)[i] = s[i]
      /\ Append(s, e)[Len(s) + 1] = e
  OBVIOUS
<1> SUFFICES ASSUME NEW i \in 1..(Len(s) + 1), NEW j \in 1..(Len(s) + 1),
                    Append(s, e)[i].kind = "ACK_FAILURE_INJECTED",
                    Append(s, e)[j].kind = "RESPONSE_COMPLETED",
                    Append(s, e)[i].request = Append(s, e)[j].request
             PROVE  i < j
  BY <1>1 DEF InjectedBeforeCompleted
<1>2. CASE i \in 1..Len(s) /\ j \in 1..Len(s)
  BY <1>1, <1>2 DEF InjectedBeforeCompleted
<1>3. CASE i \in 1..Len(s) /\ j = Len(s) + 1
  BY <1>1, <1>3
<1>4. CASE i = Len(s) + 1
  <2> DEFINE Completions == {k \in 1..Len(s) :
                               s[k].request = e.request /\ s[k].kind = "RESPONSE_COMPLETED"}
  <2>1. Append(s, e)[i] = e /\ e.kind = "ACK_FAILURE_INJECTED"
    BY <1>1, <1>4
  <2>2. IsFiniteSet(Completions) /\ Cardinality(Completions) = 0
    <3>0. 1 \in Int /\ Len(s) \in Int
      BY <1>1
    <3>1. IsFiniteSet(1..Len(s))
      BY <3>0, FS_Interval
    <3>2. Completions \in SUBSET (1..Len(s))
      OBVIOUS
    <3>3. IsFiniteSet(Completions)
      BY <3>1, <3>2, FS_Subset
    <3>4. Occurrences(s, e.request, "RESPONSE_COMPLETED") = Cardinality(Completions)
      BY DEF Occurrences
    <3> QED
      BY <2>1, <3>3, <3>4
  <2>3. Completions = {}
    BY <2>2, FS_EmptySet
  <2>4. j \in 1..Len(s)
    BY <1>1, <1>4, <2>1
  <2>5. j \in Completions
    BY <1>1, <2>1, <2>4
  <2> QED
    BY <2>3, <2>5
<1> QED
  BY <1>1, <1>2, <1>3, <1>4

(* Before anything is recorded nothing has ended. *)
LEMMA EndsInit == SessionInit => EndsInv
<1> SUFFICES ASSUME SessionInit PROVE EndsInv
  OBVIOUS
<1>1. recorded = <<>>
  BY DEF SessionInit, Channel!SealInit
<1>2. InjectedBeforeCompleted(recorded)
  BY <1>1 DEF InjectedBeforeCompleted
<1> QED
  BY <1>1, <1>2, OccurrencesEmpty DEF SessionInit, EndsInv

(* No step records more ends of executions than beginnings. *)
LEMMA EndsStep == SessionInv /\ EndsInv /\ [SessionNext]_sessionVars => EndsInv'
<1> SUFFICES ASSUME SessionInv, EndsInv, [SessionNext]_sessionVars PROVE EndsInv'
  OBVIOUS
<1>0. TypeOK
  BY DEF SessionInv
<1>1. CASE ParentNext
  <2>1. UNCHANGED <<recorded, running, executed>> /\ (SendRequest \/ call' = call)
    BY <1>1, ParentFrame
  <2>2. CASE SendRequest
    <3>1. sent + 1 \in Ids => call[sent + 1] = "none"
      <4>1. sent + 1 > sent
        BY <1>0, IdsAreNumbers DEF TypeOK
      <4> QED
        BY <4>1 DEF SessionInv, DriverInv
    <3>2. \A q \in Ids : call'[q] = call[q] \/ (call[q] = "none" /\ call'[q] = "arriving")
      BY <1>0, <2>2, <3>1 DEF SendRequest, TypeOK
    <3> QED
      BY <2>1, <3>2 DEF EndsInv
  <2> QED
    BY <2>1, <2>2 DEF EndsInv
<1>2. CASE WorkerNext \/ WorkerDies
  <2>1. UNCHANGED <<recorded, call, executed>> /\ (running' = running \/ running' = [r \in Ids |-> 0])
    BY <1>2, WorkerFrame
  <2>2. \A q \in Ids : running[q] \in Nat /\ running'[q] \in Nat /\ running'[q] <= running[q]
    BY <1>0, <2>1 DEF TypeOK
  <2>3. \A q, k : Occurrences(recorded, q, k) \in Nat
    BY <1>0, OccurrencesType DEF TypeOK
  <2> QED
    BY <2>1, <2>2, <2>3 DEF EndsInv
<1>3. CASE MerchantNext
  <2>0. \A q, k : Occurrences(recorded, q, k) \in Nat
    BY <1>0, OccurrencesType DEF TypeOK
  <2>1. ASSUME NEW r \in Ids, NEW kind \in Kinds, NEW status \in Statuses,
               Observe(r, kind, status),
               kind = "ACK_FAILURE_INJECTED"
                 => Occurrences(recorded, r, "RESPONSE_COMPLETED") = 0
        PROVE  InjectedBeforeCompleted(recorded')
    <3> DEFINE e == Event(r, kind, status)
    <3>1. /\ recorded \in Seq(Observations) /\ e \in Observations
          /\ recorded' = Append(recorded, e) /\ e.request = r /\ e.kind = kind
      BY <1>0, <2>1 DEF TypeOK, Observe, Channel!Record, Event, Observations
    <3> HIDE DEF e
    <3>2. InjectedBeforeCompleted(Append(recorded, e))
      BY <2>1, <3>1, InjectionOrderKept DEF EndsInv
    <3> QED
      BY <3>1, <3>2
  <2>2. ASSUME NEW r \in Ids,
               NEW kind \in {"REQUEST_RECEIVED", "RESPONSE_STARTED", "RESPONSE_COMPLETED"},
               NEW status \in Statuses,
               Observe(r, kind, status), UNCHANGED <<running, executed>>,
               call[r] # "aborted", call'[r] # "aborted",
               \A q \in Ids \ {r} : call'[q] = call[q]
        PROVE  EndsInv'
    <3>1. \A q, k : k \notin {"REQUEST_RECEIVED", "RESPONSE_STARTED", "RESPONSE_COMPLETED"}
            => Occurrences(recorded', q, k) = Occurrences(recorded, q, k)
      BY <1>0, <2>0, <2>2, RecordedEvent DEF Kinds
    <3>2. InjectedBeforeCompleted(recorded')
      BY <2>1, <2>2 DEF Kinds
    <3> QED
      BY <2>2, <3>1, <3>2 DEF EndsInv
  <2>3. ASSUME NEW r \in Ids,
               ReceiveCall(r) \/ CompleteResponse(r)
                 \/ \E status \in {"ok", "error"} : StartResponse(r, status)
        PROVE  EndsInv'
    BY <1>0, <2>2, <2>3 DEF ReceiveCall, CompleteResponse, StartResponse, CallStep, TypeOK, Statuses
  <2>4. ASSUME NEW r \in Ids, FinishCall(r) PROVE EndsInv'
    <3>1. /\ call[r] = "completed" /\ call'[r] = "finished"
          /\ \A q \in Ids \ {r} : call'[q] = call[q]
          /\ UNCHANGED <<recorded, running, executed>>
      BY <1>0, <2>4 DEF FinishCall, CallStep, TypeOK, channelVars
    <3> QED
      BY <3>1 DEF EndsInv
  <2>5. ASSUME NEW r \in Ids, AbortCall(r) PROVE EndsInv'
    <3>1. /\ call[r] # "aborted" /\ call'[r] = "aborted"
          /\ \A q \in Ids \ {r} : call'[q] = call[q]
          /\ Observe(r, "REQUEST_ABORTED", "none") /\ UNCHANGED <<running, executed>>
      BY <1>0, <2>5 DEF AbortCall, CallStep, TypeOK
    <3>2. /\ \A q, k : Occurrences(recorded', q, k) = Occurrences(recorded, q, k)
                         + (IF q = r /\ k = "REQUEST_ABORTED" THEN 1 ELSE 0)
          /\ InjectedBeforeCompleted(recorded')
      BY <1>0, <2>1, <3>1, RecordedEvent DEF Kinds, Statuses
    <3> QED
      BY <2>0, <3>1, <3>2 DEF EndsInv
  <2>6. ASSUME NEW r \in Ids, InjectFailure(r) PROVE EndsInv'
    <3>1. /\ call[r] = "handling" /\ call'[r] = "injected"
          /\ \A q \in Ids \ {r} : call'[q] = call[q]
          /\ Observe(r, "ACK_FAILURE_INJECTED", "ok") /\ UNCHANGED <<running, executed>>
      BY <1>0, <2>6 DEF InjectFailure, CallStep, TypeOK
    <3>2. /\ Occurrences(recorded, r, "ACK_FAILURE_INJECTED") = 0
          /\ Occurrences(recorded, r, "RESPONSE_COMPLETED") = 0
      BY <3>1 DEF SessionInv, AnswerInv, CallInv
    <3>3. /\ \A q, k : Occurrences(recorded', q, k) = Occurrences(recorded, q, k)
                         + (IF q = r /\ k = "ACK_FAILURE_INJECTED" THEN 1 ELSE 0)
          /\ InjectedBeforeCompleted(recorded')
      BY <1>0, <2>1, <3>1, <3>2, RecordedEvent DEF Kinds, Statuses
    <3> QED
      BY <2>0, <3>1, <3>2, <3>3 DEF EndsInv
  <2>7. ASSUME NEW r \in Ids, Enter(r) PROVE EndsInv'
    <3>1. /\ call' = call
          /\ \A q \in Ids : /\ executed[q] \in Nat
                             /\ executed'[q] = IF q = r THEN executed[q] + 1 ELSE executed[q]
      BY <1>0, <2>7 DEF Enter, TypeOK
    <3>2. CASE UNCHANGED <<running, recorded>>
      BY <2>0, <3>1, <3>2 DEF EndsInv
    <3>3. CASE Observe(r, "ENTERED", "none") /\ running' = [running EXCEPT ![r] = @ + 1]
      <4>1. /\ \A q, k : Occurrences(recorded', q, k) = Occurrences(recorded, q, k)
                           + (IF q = r /\ k = "ENTERED" THEN 1 ELSE 0)
            /\ InjectedBeforeCompleted(recorded')
        BY <1>0, <2>1, <3>3, RecordedEvent DEF Kinds, Statuses
      <4>2. \A q \in Ids : running[q] \in Nat
                           /\ running'[q] = IF q = r THEN running[q] + 1 ELSE running[q]
        BY <1>0, <3>3 DEF TypeOK
      <4> QED
        BY <2>0, <3>1, <4>1, <4>2 DEF EndsInv
    <3> QED
      BY <2>7, <3>2, <3>3 DEF Enter, channelVars
  <2>8. ASSUME NEW r \in Ids, NEW kind \in {"RETURNED", "ESCAPED"}, Leave(r, kind)
        PROVE  EndsInv'
    <3>1. UNCHANGED <<call, executed>> /\ Observe(r, kind, "none")
          /\ running[r] > 0 /\ running' = [running EXCEPT ![r] = @ - 1]
      BY <2>8 DEF Leave
    <3>2. /\ \A q, k : Occurrences(recorded', q, k) = Occurrences(recorded, q, k)
                         + (IF q = r /\ k = kind THEN 1 ELSE 0)
          /\ InjectedBeforeCompleted(recorded')
      BY <1>0, <2>1, <3>1, RecordedEvent DEF Kinds, Statuses
    <3>3. \A q \in Ids : running[q] \in Nat
                         /\ running'[q] = IF q = r THEN running[q] - 1 ELSE running[q]
      BY <1>0, <3>1 DEF TypeOK
    <3> QED
      BY <2>0, <3>1, <3>2, <3>3 DEF EndsInv
  <2>9. CASE EnterUncorrelated
    BY <2>9 DEF EnterUncorrelated, EndsInv, channelVars
  <2>10. CASE TracerRaises
    <3>1. UNCHANGED <<call, recorded, executed>> /\ running' = [r \in Ids |-> 0]
      BY <2>10 DEF TracerRaises, channelVars
    <3>2. \A q \in Ids : running[q] \in Nat /\ running'[q] = 0
      BY <1>0, <3>1 DEF TypeOK
    <3> QED
      BY <2>0, <3>1, <3>2 DEF EndsInv
  <2> QED
    BY <1>3, <2>3, <2>4, <2>5, <2>6, <2>7, <2>8, <2>9, <2>10 DEF MerchantNext, RequestNext
<1>4. CASE EditSource \/ UNCHANGED sessionVars
  BY <1>4, EditFrame DEF EndsInv, merchantVars, channelVars
<1> QED
  BY <1>1, <1>2, <1>3, <1>4 DEF SessionNext

LEMMA EndsInvariant == SessionSpec => []EndsInv
BY EndsInit, EndsStep, SessionInvariant, PTL DEF SessionSpec
-----------------------------------------------------------------------------
(* A summary that tells how many executions a request had.                  *)
Tells(s, n) ==
  /\ Received(s) /\ n \in Nat
  /\ Cardinality(s.entered) = n /\ (s.entered = {} <=> n = 0)
  /\ s.returned # {} => n > 0

(* The observations of a request and kind are counted by their positions.   *)
LEMMA PositionsCounted ==
  ASSUME TypeOK, NEW r, NEW kind
  PROVE  /\ IsFiniteSet(At(r, kind)) /\ Cardinality(At(r, kind)) = Occurrences(published, r, kind)
         /\ Cardinality(At(r, kind)) \in Nat
         /\ At(r, kind) = {} <=> Occurrences(published, r, kind) = 0
<1>1. published \in Seq(Observations) /\ DOMAIN published = 1..Len(published)
      /\ Len(published) \in Nat
  BY DEF TypeOK
<1>2. At(r, kind) = {i \in 1..Len(published) : published[i].request = r /\ published[i].kind = kind}
  BY <1>1 DEF At
<1>3. Cardinality(At(r, kind)) = Occurrences(published, r, kind)
  BY <1>2 DEF Occurrences
<1>4. IsFiniteSet(1..Len(published))
  BY <1>1, FS_Interval
<1>5. At(r, kind) \in SUBSET (1..Len(published))
  BY <1>2
<1>6. IsFiniteSet(At(r, kind))
  BY <1>4, <1>5, FS_Subset
<1>7. Cardinality(At(r, kind)) \in Nat
  BY <1>6, FS_CardinalityType
<1>8. At(r, kind) = {} <=> Cardinality(At(r, kind)) = 0
  BY <1>6, FS_EmptySet
<1> QED
  BY <1>3, <1>6, <1>7, <1>8

(* A trusted transcript tells how many executions each request had.         *)
LEMMA TrustedTells ==
  ASSUME SessionInv, EndsInv, ~UntracedThreads, Trusted
  PROVE  \A r \in DOMAIN plan : r \in Ids /\ Tells(Summary(r), executed[r])
<1>1. TypeOK /\ published = recorded /\ collectorOk /\ sent = Len(plan)
  BY DEF SessionInv, SealInv, Trusted
<1>2. ASSUME NEW r \in DOMAIN plan PROVE r \in Ids /\ r > 0 /\ r <= sent
  BY <1>1, <1>2, IdsAreNumbers DEF TypeOK
<1>3. ASSUME NEW r \in DOMAIN plan PROVE Tells(Summary(r), executed[r])
  <2>1. r \in Ids /\ r <= sent /\ call[r] \in Done
    BY <1>2 DEF SessionInv, SealInv, DriverInv, Trusted
  <2>2. Occurrences(published, r, "REQUEST_RECEIVED") = 1
    BY <1>1, <2>1 DEF SessionInv, CallInv, Done, NotReceived
  <2>3. Occurrences(published, r, "ENTERED") = executed[r] /\ executed[r] \in Nat
    BY <1>1, <2>1 DEF SessionInv, TraceInv, TypeOK
  <2>4. Occurrences(published, r, "RETURNED") <= executed[r]
    <3>1. /\ Occurrences(published, r, "RETURNED") \in Nat
          /\ Occurrences(published, r, "ESCAPED") \in Nat
          /\ running[r] \in Nat
      BY <1>1, <2>1, OccurrencesType DEF TypeOK
    <3>2. Occurrences(published, r, "RETURNED") + Occurrences(published, r, "ESCAPED") + running[r]
            <= Occurrences(published, r, "ENTERED")
      BY <1>1, <2>1 DEF EndsInv
    <3> QED
      BY <2>3, <3>1, <3>2
  <2>5. At(r, "RETURNED") # {} => executed[r] > 0
    <3>1. Occurrences(published, r, "RETURNED") \in Nat
      BY <1>1, OccurrencesType DEF TypeOK
    <3> QED
      BY <1>1, <2>3, <2>4, <3>1, PositionsCounted
  <2>6. Cardinality(At(r, "REQUEST_RECEIVED")) = 1 /\ Cardinality(At(r, "ENTERED")) = executed[r]
        /\ (At(r, "ENTERED") = {} <=> executed[r] = 0)
    BY <1>1, <2>2, <2>3, PositionsCounted
  <2> QED
    BY <2>3, <2>5, <2>6 DEF Tells, Summary, Received, Once
<1> QED
  BY <1>2, <1>3

(* The plans of the scenarios, and what each assertion evaluates.           *)
LEMMA PlanShapes ==
  ASSUME TypeOK
  PROVE  \/ plan = <<FALSE>> /\ Len(plan) = 1 /\ DOMAIN plan = {1}
            /\ Assertions = {"SG01", "SG07", "SG08_PRECAPTURE"}
         \/ plan = <<FALSE, FALSE>> /\ Len(plan) = 2 /\ DOMAIN plan = {1, 2}
            /\ Assertions = {"SG02", "SG04", "SG04_STATE", "SG05", "SG06", "SG05_MUTATION",
                             "SG06_MUTATION", "SG08_PRECAPTURE", "SG08_CAPTURE"}
         \/ plan = <<TRUE, FALSE>> /\ Len(plan) = 2 /\ DOMAIN plan = {1, 2}
            /\ Assertions = {"SG03"}
<1>1. plan \in ScenarioPlans
  BY PlansAssumption DEF PlansAssumption, TypeOK
<1>2. CASE plan = <<FALSE>>
  BY <1>2 DEF Assertions
<1>3. CASE plan = <<FALSE, FALSE>>
  BY <1>3 DEF Assertions
<1>4. CASE plan = <<TRUE, FALSE>>
  BY <1>4 DEF Assertions
<1> QED
  BY <1>1, <1>2, <1>3, <1>4 DEF ScenarioPlans

LEMMA Evaluations ==
  ASSUME 1 \in DOMAIN plan
  PROVE  /\ \A a \in {"SG01", "SG07"} : Evaluate(a) = EvaluateObservations(Summary(1))
         /\ 2 \in DOMAIN plan =>
              /\ \A a \in {"SG02", "SG04"} :
                   Evaluate(a) = EvaluateDuplicate(Summary(1), Summary(2))
              /\ Evaluate("SG03") = EvaluateRetry(Summary(1), Summary(2))
              /\ Evaluate("SG04_STATE") = EvaluateStateSequence(Summary(1), Summary(2))
              /\ \A a \in {"SG05", "SG06"} :
                   Evaluate(a) = EvaluateRejected(Summary(1), Summary(2))
              /\ \A a \in {"SG05_MUTATION", "SG06_MUTATION"} :
                   Evaluate(a) = EvaluateMutations([node \in {"node"} |-> Summary(1)],
                                                   [node \in {"node"} |-> Summary(2)])
              /\ Evaluate("SG08_CAPTURE") = EvaluateCapture(Summary(1), Summary(2))
<1> DEFINE s == [r \in DOMAIN plan |-> Summary(r)]
<1>1. s[1] = Summary(1) /\ (2 \in DOMAIN plan => s[2] = Summary(2))
  OBVIOUS
<1> QED
  BY <1>1 DEF Evaluate

LEMMA PrecaptureEvaluation ==
  ASSUME TypeOK
  PROVE  /\ DOMAIN plan = {1, 2} =>
              Evaluate("SG08_PRECAPTURE")
                = EvaluatePrecapture(Summary(1), <<Summary(2)>>, "FULFIL_LATER")
         /\ DOMAIN plan = {1} =>
              Evaluate("SG08_PRECAPTURE") = EvaluatePrecapture(Summary(1), <<>>, "DO_NOT_FULFIL")
<1> DEFINE s == [r \in DOMAIN plan |-> Summary(r)]
<1>1. Evaluate("SG08_PRECAPTURE") = EvaluatePrecapture(s[1], Tail(s), LatePolicy)
  BY DEF Evaluate
<1>2. CASE DOMAIN plan = {1, 2}
  <2>1. DOMAIN plan = 1..2 /\ LatePolicy = "FULFIL_LATER"
    BY <1>2, PlanShapes DEF LatePolicy
  <2>2. s \in Seq({Summary(1), Summary(2)}) /\ Len(s) = 2 /\ s[1] = Summary(1) /\ s[2] = Summary(2)
    BY <2>1
  <2> DEFINE t == Tail(s)
  <2>3. s # <<>>
    BY <2>2
  <2>4. t \in Seq({Summary(1), Summary(2)}) /\ Len(t) = 1 /\ t[1] = Summary(2)
    BY <2>2, <2>3, HeadTailProperties
  <2>5. <<Summary(2)>> \in Seq({Summary(1), Summary(2)}) /\ Len(<<Summary(2)>>) = 1
        /\ <<Summary(2)>>[1] = Summary(2)
    OBVIOUS
  <2> HIDE DEF t
  <2>6. t = <<Summary(2)>>
    BY <2>4, <2>5, SeqEqual
  <2>7. Tail(s) = <<Summary(2)>>
    BY <2>6 DEF t
  <2>8. DOMAIN plan # {1}
    BY <1>2
  <2> HIDE DEF s
  <2> QED
    BY <1>1, <2>1, <2>2, <2>7, <2>8
<1>3. CASE DOMAIN plan = {1}
  <2>1. DOMAIN plan = 1..1 /\ LatePolicy = "DO_NOT_FULFIL"
    BY <1>3, PlanShapes DEF LatePolicy
  <2>2. s \in Seq({Summary(1)}) /\ Len(s) = 1 /\ s[1] = Summary(1)
    BY <2>1
  <2> DEFINE t == Tail(s)
  <2>3. s # <<>>
    BY <2>2
  <2>4. t \in Seq({Summary(1)}) /\ Len(t) = 0
    BY <2>2, <2>3, HeadTailProperties
  <2> HIDE DEF t
  <2>5. t = <<>>
    BY <2>4, EmptySeq
  <2>6. Tail(s) = <<>>
    BY <2>5 DEF t
  <2>7. DOMAIN plan # {1, 2}
    BY <1>3
  <2> HIDE DEF s
  <2> QED
    BY <1>1, <2>1, <2>2, <2>6, <2>7
<1> QED
  BY <1>2, <1>3
-----------------------------------------------------------------------------
(* What a verdict of each reducer says of two summaries that tell m and n   *)
(* executions.                                                              *)
Mutations(s, t) == EvaluateMutations([node \in {"node"} |-> s], [node \in {"node"} |-> t])
Precapture(s, t) == EvaluatePrecapture(s, <<t>>, "FULFIL_LATER")

PassMeans(s, t, m, n) ==
  /\ EvaluateObservations(s) = "VERIFIED_PASS" => m = 1
  /\ EvaluateDuplicate(s, t) = "VERIFIED_PASS" => m = 1 /\ n = 0
  /\ EvaluateRetry(s, t) = "VERIFIED_PASS" => m = 1 /\ n = 0
  /\ EvaluateStateSequence(s, t) = "VERIFIED_PASS" => m > 0 /\ n = 0
  /\ EvaluateRejected(s, t) = "VERIFIED_PASS" => m = 0 /\ n = 1
  /\ Mutations(s, t) = "VERIFIED_PASS" => m = 0 /\ n > 0
  /\ Precapture(s, t) = "VERIFIED_PASS" => m = 0 /\ n = 1
  /\ EvaluateCapture(s, t) = "VERIFIED_PASS" => m = 0 /\ n = 1

FailMeans(s, t, m, n) ==
  /\ EvaluateObservations(s) = "VERIFIED_FAIL" => m > 1
  /\ EvaluateDuplicate(s, t) = "VERIFIED_FAIL" => m + n > 1
  /\ EvaluateRetry(s, t) = "VERIFIED_FAIL" => m + n > 1
  /\ EvaluateStateSequence(s, t) = "VERIFIED_FAIL" => n > 0
  /\ EvaluateRejected(s, t) = "VERIFIED_FAIL" => m > 0
  /\ Mutations(s, t) = "VERIFIED_FAIL" => m > 0
  /\ Precapture(s, t) = "VERIFIED_FAIL" => m > 0
  /\ EvaluateCapture(s, t) = "VERIFIED_FAIL" => m > 0 \/ n > 1

LEMMA PassTells ==
  ASSUME NEW s, NEW t, NEW m, NEW n, Tells(s, m), Tells(t, n) PROVE PassMeans(s, t, m, n)
<1> USE DEF Tells, Verdict, NormalControlFails, NormalControlPasses, Once, Exercised, AddsNone,
      Untouched
<1>1. EvaluateObservations(s) = "VERIFIED_PASS" => m = 1
  BY DEF EvaluateObservations
<1>2. EvaluateDuplicate(s, t) = "VERIFIED_PASS" => m = 1 /\ n = 0
  BY DEF EvaluateDuplicate
<1>3. EvaluateRetry(s, t) = "VERIFIED_PASS" => m = 1 /\ n = 0
  BY DEF EvaluateRetry, ReturnedBeforeInjection
<1>4. EvaluateStateSequence(s, t) = "VERIFIED_PASS" => m > 0 /\ n = 0
  BY DEF EvaluateStateSequence
<1>5. EvaluateRejected(s, t) = "VERIFIED_PASS" => m = 0 /\ n = 1
  BY DEF EvaluateRejected
<1>6. Mutations(s, t) = "VERIFIED_PASS" => m = 0 /\ n > 0
  BY DEF Mutations, EvaluateMutations
<1>7. Precapture(s, t) = "VERIFIED_PASS" => m = 0 /\ n = 1
  BY DEF Precapture, EvaluatePrecapture
<1>8. EvaluateCapture(s, t) = "VERIFIED_PASS" => m = 0 /\ n = 1
  BY DEF EvaluateCapture
<1> QED
  BY <1>1, <1>2, <1>3, <1>4, <1>5, <1>6, <1>7, <1>8 DEF PassMeans

LEMMA FailTells ==
  ASSUME NEW s, NEW t, NEW m, NEW n, Tells(s, m), Tells(t, n) PROVE FailMeans(s, t, m, n)
<1> USE DEF Tells, Verdict, NormalControlFails, NormalControlPasses, Once, Exercised, Adds
<1>1. EvaluateObservations(s) = "VERIFIED_FAIL" => m > 1
  BY DEF EvaluateObservations
<1>2. EvaluateDuplicate(s, t) = "VERIFIED_FAIL" => m + n > 1
  BY DEF EvaluateDuplicate
<1>3. EvaluateRetry(s, t) = "VERIFIED_FAIL" => m + n > 1
  BY DEF EvaluateRetry, ReturnedBeforeInjection
<1>4. EvaluateStateSequence(s, t) = "VERIFIED_FAIL" => n > 0
  BY DEF EvaluateStateSequence
<1>5. EvaluateRejected(s, t) = "VERIFIED_FAIL" => m > 0
  BY DEF EvaluateRejected
<1>6. Mutations(s, t) = "VERIFIED_FAIL" => m > 0
  BY DEF Mutations, EvaluateMutations
<1>7. Precapture(s, t) = "VERIFIED_FAIL" => m > 0
  BY DEF Precapture, EvaluatePrecapture
<1>8. EvaluateCapture(s, t) = "VERIFIED_FAIL" => m > 0 \/ n > 1
  BY DEF EvaluateCapture
<1> QED
  BY <1>1, <1>2, <1>3, <1>4, <1>5, <1>6, <1>7, <1>8 DEF FailMeans

(* What a verdict on the requests of a plan says of the merchant.           *)
LEMMA VerdictsTell ==
  ASSUME TypeOK, \A r \in DOMAIN plan : Tells(Summary(r), executed[r]), NEW a \in Assertions
  PROVE  /\ Evaluate(a) = "VERIFIED_PASS" => Holds(a) /\ executed[Control(a)] > 0
         /\ Evaluate(a) = "VERIFIED_FAIL" => ~Holds(a)
<1>1. 1 \in DOMAIN plan /\ Tells(Summary(1), executed[1])
  BY PlanShapes
<1>2. executed[1] \in Nat
  BY <1>1 DEF Tells
<1>3. CASE DOMAIN plan = {1}
  <2>1. PassMeans(Summary(1), Summary(1), executed[1], executed[1])
        /\ FailMeans(Summary(1), Summary(1), executed[1], executed[1])
    BY <1>1, PassTells, FailTells
  <2>2. a \in {"SG01", "SG07", "SG08_PRECAPTURE"}
    <3>1. 2 \notin DOMAIN plan
      BY <1>3
    <3> QED
      BY <3>1, PlanShapes
  <2>3. CASE a \in {"SG01", "SG07"}
    <3>1. Evaluate(a) = EvaluateObservations(Summary(1))
      BY <1>1, <2>3, Evaluations
    <3>2. Control(a) = 1 /\ (Holds(a) <=> executed[1] = 1)
      BY <2>3 DEF Holds, Control
    <3> QED
      BY <1>2, <2>1, <3>1, <3>2 DEF PassMeans, FailMeans
  <2>4. CASE a = "SG08_PRECAPTURE"
    <3>1. Evaluate(a) = EvaluatePrecapture(Summary(1), <<>>, "DO_NOT_FULFIL")
      BY <1>3, <2>4, PrecaptureEvaluation
    <3>2. Holds(a) <=> executed[1] = 0
      BY <2>4 DEF Holds
    <3>3. Evaluate(a) # "VERIFIED_PASS" /\ (Evaluate(a) = "VERIFIED_FAIL" => Adds(Summary(1)))
      BY <3>1 DEF EvaluatePrecapture, Verdict
    <3> QED
      BY <1>1, <3>2, <3>3 DEF Adds, Tells
  <2> QED
    BY <2>2, <2>3, <2>4
<1>4. CASE DOMAIN plan = {1, 2}
  <2>1. 2 \in DOMAIN plan /\ Tells(Summary(2), executed[2])
    BY <1>4
  <2>2. executed[2] \in Nat
    BY <2>1 DEF Tells
  <2>3. PassMeans(Summary(1), Summary(2), executed[1], executed[2])
        /\ FailMeans(Summary(1), Summary(2), executed[1], executed[2])
    BY <1>1, <2>1, PassTells, FailTells
  <2>4. a \in {"SG02", "SG03", "SG04", "SG04_STATE", "SG05", "SG06", "SG05_MUTATION",
               "SG06_MUTATION", "SG08_PRECAPTURE", "SG08_CAPTURE"}
    <3>1. \/ Assertions = {"SG02", "SG04", "SG04_STATE", "SG05", "SG06", "SG05_MUTATION",
                           "SG06_MUTATION", "SG08_PRECAPTURE", "SG08_CAPTURE"}
          \/ Assertions = {"SG03"}
      <4>1. DOMAIN plan # {1}
        BY <2>1
      <4> QED
        BY <4>1, PlanShapes
    <3> QED
      BY <3>1
  <2>5. CASE a \in {"SG02", "SG04"}
    <3>1. Evaluate(a) = EvaluateDuplicate(Summary(1), Summary(2))
      BY <1>1, <2>1, <2>5, Evaluations
    <3>2. Control(a) = 1 /\ (Holds(a) <=> executed[1] + executed[2] <= 1)
      BY <2>5 DEF Holds, Control
    <3> QED
      BY <1>2, <2>2, <2>3, <3>1, <3>2 DEF PassMeans, FailMeans
  <2>6. CASE a = "SG03"
    <3>1. Evaluate(a) = EvaluateRetry(Summary(1), Summary(2))
      BY <1>1, <2>1, <2>6, Evaluations
    <3>2. Control(a) = 1 /\ (Holds(a) <=> executed[1] + executed[2] <= 1)
      BY <2>6 DEF Holds, Control
    <3> QED
      BY <1>2, <2>2, <2>3, <3>1, <3>2 DEF PassMeans, FailMeans
  <2>7. CASE a = "SG04_STATE"
    <3>1. Evaluate(a) = EvaluateStateSequence(Summary(1), Summary(2))
      BY <1>1, <2>1, <2>7, Evaluations
    <3>2. Control(a) = 1 /\ (Holds(a) <=> executed[2] = 0)
      BY <2>7 DEF Holds, Control
    <3> QED
      BY <1>2, <2>2, <2>3, <3>1, <3>2 DEF PassMeans, FailMeans
  <2>8. CASE a \in {"SG05", "SG06"}
    <3>1. Evaluate(a) = EvaluateRejected(Summary(1), Summary(2))
      BY <1>1, <2>1, <2>8, Evaluations
    <3>2. Control(a) = 2 /\ (Holds(a) <=> executed[1] = 0)
      BY <2>8 DEF Holds, Control
    <3> QED
      BY <1>2, <2>2, <2>3, <3>1, <3>2 DEF PassMeans, FailMeans
  <2>9. CASE a \in {"SG05_MUTATION", "SG06_MUTATION"}
    <3>1. Evaluate(a) = Mutations(Summary(1), Summary(2))
      BY <1>1, <2>1, <2>9, Evaluations DEF Mutations
    <3>2. Control(a) = 2 /\ (Holds(a) <=> executed[1] = 0)
      BY <2>9 DEF Holds, Control
    <3> QED
      BY <1>2, <2>2, <2>3, <3>1, <3>2 DEF PassMeans, FailMeans
  <2>10. CASE a = "SG08_PRECAPTURE"
    <3>1. Evaluate(a) = Precapture(Summary(1), Summary(2))
      BY <1>4, <2>10, PrecaptureEvaluation DEF Precapture
    <3>2. Control(a) = 2 /\ (Holds(a) <=> executed[1] = 0)
      BY <2>10 DEF Holds, Control
    <3> QED
      BY <1>2, <2>2, <2>3, <3>1, <3>2 DEF PassMeans, FailMeans
  <2>11. CASE a = "SG08_CAPTURE"
    <3>1. Evaluate(a) = EvaluateCapture(Summary(1), Summary(2))
      BY <1>1, <2>1, <2>11, Evaluations
    <3>2. Control(a) = 2 /\ (Holds(a) <=> executed[1] = 0 /\ executed[2] <= 1)
      BY <2>11 DEF Holds, Control
    <3> QED
      BY <1>2, <2>2, <2>3, <3>1, <3>2 DEF PassMeans, FailMeans
  <2> QED
    BY <2>4, <2>5, <2>6, <2>7, <2>8, <2>9, <2>10, <2>11
<1> QED
  BY <1>3, <1>4, PlanShapes
-----------------------------------------------------------------------------
(* A summary of a request in which every execution returned.                *)
Behaves(s, n) ==
  /\ Tells(s, n)
  /\ Cardinality(s.returned) = n /\ (s.returned = {} <=> n = 0) /\ s.escaped = {}

(* The failure was injected after the executions had returned.              *)
FailedAsPlanned(s) ==
  InjectionProven(s) /\ \A x \in s.returned, i \in s.injected : x < i

(* A trusted transcript of a merchant that behaved well: every execution is *)
(* in it, as each of them returned, and every response is proven.           *)
LEMMA TrustedBehaves ==
  ASSUME SessionInv, EndsInv, Trusted, NEW r \in DOMAIN plan, WellBehaved(r)
  PROVE  /\ Behaves(Summary(r), executed[r])
         /\ IF plan[r] THEN FailedAsPlanned(Summary(r)) ELSE Succeeded(Summary(r))
<1>1. TypeOK /\ published = recorded /\ sent = Len(plan)
  BY DEF SessionInv, SealInv, Trusted
<1>2. r \in Ids /\ r <= sent
  BY <1>1, IdsAreNumbers DEF TypeOK
<1>3. call[r] \in Done /\ answer[r] \in {"ok", "error"}
  BY <1>2 DEF SessionInv, SealInv, DriverInv, Trusted
<1>4. executed[r] \in Nat /\ running[r] \in Nat
  BY <1>1, <1>2 DEF TypeOK
<1>5. \A k : /\ Cardinality(At(r, k)) = Occurrences(recorded, r, k)
             /\ Occurrences(recorded, r, k) \in Nat
             /\ At(r, k) = {} <=> Occurrences(recorded, r, k) = 0
  BY <1>1, PositionsCounted
<1>6. /\ Occurrences(recorded, r, "RETURNED") = executed[r]
      /\ Occurrences(recorded, r, "ENTERED") = executed[r]
      /\ At(r, "ESCAPED") = {}
  <2>1. Occurrences(recorded, r, "RETURNED") = executed[r] /\ At(r, "ESCAPED") = {}
    BY <1>5 DEF WellBehaved
  <2>2. /\ Occurrences(recorded, r, "RETURNED") + Occurrences(recorded, r, "ESCAPED") + running[r]
             <= Occurrences(recorded, r, "ENTERED")
        /\ Occurrences(recorded, r, "ENTERED") <= executed[r]
    BY <1>2 DEF EndsInv
  <2> QED
    BY <1>4, <1>5, <2>1, <2>2
<1>7. Cardinality(At(r, "REQUEST_RECEIVED")) = 1
  BY <1>2, <1>3, <1>5 DEF SessionInv, CallInv, Done, NotReceived
<1>8. Behaves(Summary(r), executed[r])
  BY <1>4, <1>5, <1>6, <1>7 DEF Behaves, Tells, Summary, Received, Once
<1>9. ASSUME ~plan[r] PROVE Succeeded(Summary(r))
  <2>1. answer[r] = "ok"
    BY <1>9 DEF WellBehaved
  <2>2. call[r] \in {"completed", "finished"}
    BY <1>2, <2>1 DEF SessionInv, AnswerInv
  <2>3. /\ Occurrences(recorded, r, "RESPONSE_COMPLETED") = 1
        /\ Occurrences(recorded, r, "REQUEST_ABORTED") = 0
    BY <1>2, <2>2 DEF SessionInv, CallInv, EndsInv
  <2> QED
    BY <1>5, <2>1, <2>3 DEF Succeeded, Completed, Once, Summary
<1>10. ASSUME plan[r] PROVE FailedAsPlanned(Summary(r))
  <2>1. Completed(Summary(r)) /\ At(r, "ACK_FAILURE_INJECTED") # {}
    BY <1>10 DEF WellBehaved
  <2>2. Cardinality(At(r, "ACK_FAILURE_INJECTED")) = 1
    BY <1>2, <1>5, <2>1 DEF EndsInv
  <2>3. answer[r] = "error"
    BY <1>2, <1>3, <1>5, <2>2 DEF SessionInv, AnswerInv
  <2>4. At(r, "RESPONSE_COMPLETED") # {}
    BY <1>5, <2>1 DEF Completed, Once, Summary
  <2>5. \A i \in At(r, "ACK_FAILURE_INJECTED"), c \in At(r, "RESPONSE_COMPLETED") : i < c
    <3>1. DOMAIN published = 1..Len(recorded)
      BY <1>1 DEF TypeOK
    <3> QED
      BY <1>1, <3>1 DEF EndsInv, InjectedBeforeCompleted, At
  <2>6. \A x \in At(r, "RETURNED"), i \in At(r, "ACK_FAILURE_INJECTED") : x < i
    BY DEF WellBehaved
  <2> QED
    BY <1>8, <2>1, <2>2, <2>3, <2>4, <2>5, <2>6
    DEF FailedAsPlanned, InjectionProven, Behaves, Tells, Completed, Once, Summary
<1> QED
  BY <1>8, <1>9, <1>10

(* What each reducer decides of two requests that behaved well: of those of *)
(* a duplicate or a rejection, and of a failed acknowledgement's.           *)
LEMMA ReducersDecide ==
  ASSUME NEW s, NEW t, NEW m, NEW n, Behaves(s, m), Behaves(t, n), Succeeded(t)
  PROVE  /\ Succeeded(s) =>
              /\ m > 0 => /\ EvaluateObservations(s) # "UNVERIFIED"
                          /\ EvaluateDuplicate(s, t) # "UNVERIFIED"
                          /\ EvaluateStateSequence(s, t) # "UNVERIFIED"
              /\ n = 1 => /\ EvaluateRejected(s, t) # "UNVERIFIED"
                          /\ Precapture(s, t) # "UNVERIFIED"
              /\ n > 0 => /\ Mutations(s, t) # "UNVERIFIED"
                          /\ EvaluateCapture(s, t) # "UNVERIFIED"
         /\ FailedAsPlanned(s) /\ m > 0 => EvaluateRetry(s, t) # "UNVERIFIED"
<1> USE DEF Behaves, Tells, Verdict, NormalControlFails, NormalControlPasses, Once, Exercised,
      Adds, AddsNone, Untouched, Succeeded
<1>1. m \in Nat /\ n \in Nat
  OBVIOUS
<1>2. Succeeded(s) /\ m > 0 => EvaluateObservations(s) # "UNVERIFIED"
  BY <1>1 DEF EvaluateObservations
<1>3. Succeeded(s) /\ m > 0 => EvaluateDuplicate(s, t) # "UNVERIFIED"
  BY <1>1 DEF EvaluateDuplicate
<1>4. Succeeded(s) /\ m > 0 => EvaluateStateSequence(s, t) # "UNVERIFIED"
  BY <1>1 DEF EvaluateStateSequence
<1>5. Succeeded(s) /\ n = 1 => EvaluateRejected(s, t) # "UNVERIFIED"
  BY <1>1 DEF EvaluateRejected
<1>6. Succeeded(s) /\ n = 1 => Precapture(s, t) # "UNVERIFIED"
  BY <1>1 DEF Precapture, EvaluatePrecapture
<1>7. Succeeded(s) /\ n > 0 => Mutations(s, t) # "UNVERIFIED"
  BY <1>1 DEF Mutations, EvaluateMutations
<1>8. Succeeded(s) /\ n > 0 => EvaluateCapture(s, t) # "UNVERIFIED"
  BY <1>1 DEF EvaluateCapture
<1>9. FailedAsPlanned(s) /\ m > 0 => EvaluateRetry(s, t) # "UNVERIFIED"
  BY <1>1 DEF EvaluateRetry, FailedAsPlanned, ReturnedBeforeInjection
<1> QED
  BY <1>2, <1>3, <1>4, <1>5, <1>6, <1>7, <1>8, <1>9
-----------------------------------------------------------------------------
(* A VERIFIED_PASS is only given to a merchant that kept the assertion's    *)
(* invariant and whose target ran in the control request, in every session, *)
(* whatever is killed, fails or drifts (evaluate_* of sg01 to sg08).        *)
THEOREM PassesAreTrue == ASSUME ~UntracedThreads PROVE SessionSpec => []PassIsTrue
<1>1. SessionInv /\ EndsInv => PassIsTrue
  BY TrustedTells, VerdictsTell DEF PassIsTrue, Result, SessionInv
<1> QED
  BY <1>1, SessionInvariant, EndsInvariant, PTL

(* A VERIFIED_FAIL is only given to a merchant that broke the assertion's   *)
(* invariant (evaluate_* of sg01 to sg08).                                  *)
THEOREM FailsAreTrue == ASSUME ~UntracedThreads PROVE SessionSpec => []FailIsTrue
<1>1. SessionInv /\ EndsInv => FailIsTrue
  BY TrustedTells, VerdictsTell DEF FailIsTrue, Result, SessionInv
<1> QED
  BY <1>1, SessionInvariant, EndsInvariant, PTL

(* An execution that a trusted transcript proves is never excused by what   *)
(* became of its call (docs/CURRENT_STATE.md's truth mappings).             *)
THEOREM ExecutionsAreNotExcused ==
  ASSUME ~UntracedThreads PROVE SessionSpec => []ExecutionIsNotExcused
<1>1. SessionInv /\ EndsInv => ExecutionIsNotExcused
  <2> SUFFICES ASSUME SessionInv, EndsInv, Trusted, NEW a \in Assertions,
                      \/ a \in {"SG05", "SG06", "SG08_PRECAPTURE"} /\ executed[1] > 0
                      \/ a \in {"SG02", "SG04"} /\ NormalControlPasses(Summary(1))
                           /\ executed[2] > 0
               PROVE  Evaluate(a) = "VERIFIED_FAIL"
    BY DEF ExecutionIsNotExcused, Result
  <2>1. TypeOK
    BY DEF SessionInv
  <2>2. \A r \in DOMAIN plan : Tells(Summary(r), executed[r])
    BY TrustedTells
  <2>3. ASSUME NEW r \in DOMAIN plan, executed[r] > 0 PROVE Adds(Summary(r))
    BY <2>2, <2>3 DEF Tells, Adds
  <2>4. 1 \in DOMAIN plan /\ DOMAIN plan \in {{1}, {1, 2}}
    BY <2>1, PlanShapes
  <2>5. CASE a = "SG08_PRECAPTURE"
    BY <2>1, <2>3, <2>4, <2>5, PrecaptureEvaluation DEF EvaluatePrecapture, Verdict
  <2>6. CASE a # "SG08_PRECAPTURE"
    <3>1. 2 \in DOMAIN plan
      BY <2>1, <2>6, PlanShapes
    <3>2. CASE a \in {"SG05", "SG06"}
      BY <2>3, <2>4, <3>1, <3>2, Evaluations DEF EvaluateRejected, Verdict
    <3>3. CASE a \in {"SG02", "SG04"}
      BY <2>3, <2>4, <3>1, <3>3, Evaluations DEF EvaluateDuplicate, Verdict
    <3> QED
      BY <2>6, <3>2, <3>3
  <2> QED
    BY <2>5, <2>6
<1> QED
  BY <1>1, SessionInvariant, EndsInvariant, PTL

(* Every assertion gets a verdict of a merchant that behaved well and whose *)
(* target ran in the control request, also of one that starts untraced      *)
(* threads: UNVERIFIED is not the answer to everything (evaluate_* of sg01  *)
(* to sg08).                                                                *)
THEOREM WellBehavedAreDecided == SessionSpec => []WellBehavedIsDecided
<1>1. SessionInv /\ EndsInv => WellBehavedIsDecided
  <2> SUFFICES ASSUME SessionInv, EndsInv, Trusted, \A r \in DOMAIN plan : WellBehaved(r),
                      NEW a \in Assertions, Control(a) \in DOMAIN plan, executed[Control(a)] > 0,
                      a \in {"SG05", "SG06", "SG08_PRECAPTURE"} => executed[Control(a)] = 1
               PROVE  Evaluate(a) # "UNVERIFIED"
    BY DEF WellBehavedIsDecided, Result
  <2>1. TypeOK
    BY DEF SessionInv
  <2>2. \A r \in DOMAIN plan :
          /\ Behaves(Summary(r), executed[r])
          /\ IF plan[r] THEN FailedAsPlanned(Summary(r)) ELSE Succeeded(Summary(r))
    BY TrustedBehaves
  <2>3. CASE plan = <<FALSE>>
    <3>1. 1 \in DOMAIN plan /\ ~plan[1] /\ Control(a) # 2
      BY <2>3
    <3>2. a \in {"SG01", "SG07", "SG08_PRECAPTURE"}
      BY <2>3 DEF Assertions
    <3>3. a \in {"SG01", "SG07"} /\ Control(a) = 1
      BY <3>1, <3>2 DEF Control
    <3>4. EvaluateObservations(Summary(1)) # "UNVERIFIED"
      BY <2>2, <3>1, <3>3, ReducersDecide
    <3> QED
      BY <3>1, <3>3, <3>4, Evaluations
  <2>4. CASE plan = <<FALSE, FALSE>>
    <3>1. 1 \in DOMAIN plan /\ 2 \in DOMAIN plan /\ DOMAIN plan = {1, 2} /\ ~plan[1] /\ ~plan[2]
      BY <2>4
    <3>2. /\ Behaves(Summary(1), executed[1]) /\ Behaves(Summary(2), executed[2])
          /\ Succeeded(Summary(1)) /\ Succeeded(Summary(2))
      BY <2>2, <3>1
    <3>3. a \in {"SG02", "SG04", "SG04_STATE", "SG05", "SG06", "SG05_MUTATION", "SG06_MUTATION",
                 "SG08_PRECAPTURE", "SG08_CAPTURE"}
      BY <2>4 DEF Assertions
    <3>4. CASE a \in {"SG02", "SG04", "SG04_STATE"}
      <4>1. executed[1] > 0
        BY <3>4 DEF Control
      <4> QED
        BY <3>1, <3>2, <3>4, <4>1, ReducersDecide, Evaluations
    <3>5. CASE a \in {"SG05", "SG06"}
      <4>1. executed[2] = 1
        BY <3>5 DEF Control
      <4> QED
        BY <3>1, <3>2, <3>5, <4>1, ReducersDecide, Evaluations
    <3>6. CASE a = "SG08_PRECAPTURE"
      <4>1. executed[2] = 1
        BY <3>6 DEF Control
      <4> QED
        BY <2>1, <3>1, <3>2, <3>6, <4>1, ReducersDecide, PrecaptureEvaluation DEF Precapture
    <3>7. CASE a \in {"SG05_MUTATION", "SG06_MUTATION"}
      <4>1. executed[2] > 0
        BY <3>7 DEF Control
      <4> QED
        BY <3>1, <3>2, <3>7, <4>1, ReducersDecide, Evaluations DEF Mutations
    <3>8. CASE a = "SG08_CAPTURE"
      <4>1. executed[2] > 0
        BY <3>8 DEF Control
      <4> QED
        BY <3>1, <3>2, <3>8, <4>1, ReducersDecide, Evaluations
    <3> QED
      BY <3>3, <3>4, <3>5, <3>6, <3>7, <3>8
  <2>5. CASE plan = <<TRUE, FALSE>>
    <3>1. 1 \in DOMAIN plan /\ 2 \in DOMAIN plan /\ plan[1] /\ ~plan[2]
      BY <2>5
    <3>2. a = "SG03" /\ Control(a) = 1
      BY <2>5 DEF Assertions, Control
    <3>3. /\ Behaves(Summary(1), executed[1]) /\ Behaves(Summary(2), executed[2])
          /\ FailedAsPlanned(Summary(1)) /\ Succeeded(Summary(2))
      BY <2>2, <3>1
    <3> QED
      BY <3>1, <3>2, <3>3, ReducersDecide, Evaluations
  <2> QED
    BY <2>1, <2>3, <2>4, <2>5, PlanShapes
<1> QED
  BY <1>1, SessionInvariant, EndsInvariant, PTL
=============================================================================
