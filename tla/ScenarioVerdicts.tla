-------------------------- MODULE ScenarioVerdicts --------------------------
(***************************************************************************)
(* The reducers of failure_lab/sg01.py to sg08.py: from what a transcript  *)
(* holds of each request of a scenario to a verdict.                       *)
(*                                                                         *)
(* A summary is a record of the sequence numbers at which a request was    *)
(* received, its exact target entered, returned and escaped, its failure   *)
(* injected, its response completed and its call aborted, and the status   *)
(* the driver got.  The exact target is a customer-value callable, or a    *)
(* mutation instruction that is reached, completes or raises.  Of a        *)
(* verdict, the reason codes are left out.                                 *)
(***************************************************************************)
EXTENDS Naturals, Sequences, FiniteSets

Verdicts == {"VERIFIED_PASS", "VERIFIED_FAIL", "UNVERIFIED"}

Verdict(fails, passes) ==
  IF fails THEN "VERIFIED_FAIL" ELSE IF passes THEN "VERIFIED_PASS" ELSE "UNVERIFIED"

Once(sequences) == Cardinality(sequences) = 1

Received(s) == Once(s.received)
Completed(s) == Once(s.completed) /\ s.aborted = {}
Succeeded(s) == Completed(s) /\ s.status = "ok"

Untouched(s) == s.entered = {} /\ s.returned = {} /\ s.escaped = {}

(* As many normal ends as entries, and no other end.                        *)
Exercised(s) ==
  s.entered # {} /\ Cardinality(s.returned) = Cardinality(s.entered) /\ s.escaped = {}

AddsIfCompleted(s) ==                              \* mutant: an aborted call is excused
  Received(s) /\ Completed(s) /\ s.entered # {}

(* A request that must not reach the target reached it, or is known not to. *)
Adds(s) == Received(s) /\ s.entered # {}
AddsNone(s) == Received(s) /\ Untouched(s) /\ Completed(s)
-----------------------------------------------------------------------------
(* SG-01, and SG-07 for a webhook without a callback: the target is entered *)
(* exactly once.                                                            *)

NormalControlFailsAtOne(s) ==                      \* mutant: off by one
  Received(s) /\ Cardinality(s.entered) >= 1

NormalControlFails(s) == Received(s) /\ Cardinality(s.entered) > 1
NormalControlPasses(s) ==
  Received(s) /\ Once(s.entered) /\ Exercised(s) /\ Succeeded(s)

EvaluateObservations(s) == Verdict(NormalControlFails(s), NormalControlPasses(s))

(* SG-02, and SG-04 for a stale event: after a normal control, the second   *)
(* delivery adds no entry.                                                  *)
EvaluateDuplicate(first, second) ==
  Verdict(NormalControlFails(first) \/ (NormalControlPasses(first) /\ Adds(second)),
          NormalControlPasses(first) /\ AddsNone(second))

(* SG-04, the merchant's state: the captured assignment completed, and the  *)
(* authorized one must not complete after it.                               *)
EvaluateStateSequence(captured, authorized) ==
  LET control == Received(captured) /\ Received(authorized) /\ Exercised(captured)
  IN  Verdict(control /\ authorized.returned # {}, control /\ AddsNone(authorized))

(* SG-03: the first delivery's success was turned into a failure, after its *)
(* target had returned; the retry adds no entry.                            *)
InjectionProvenBySuccess(first) ==                 \* mutant: the merchant's status is read
  Once(first.injected) /\ Received(first) /\ Succeeded(first)

InjectionProven(first) ==
  /\ Once(first.injected) /\ Received(first)
  /\ first.completed # {} /\ \A i \in first.injected, c \in first.completed : i < c
  /\ first.status = "error" /\ first.aborted = {}

ReturnedBeforeInjection(first) ==
  Exercised(first) /\ \A x \in first.returned, i \in first.injected : x < i

EvaluateRetry(first, retry) ==
  LET proven == InjectionProven(first) /\ Received(retry) /\ ReturnedBeforeInjection(first)
  IN  Verdict(proven /\ (Cardinality(first.entered) > 1 \/ retry.entered # {}),
              proven /\ Untouched(retry) /\ Succeeded(retry))

(* SG-05 and SG-06: a forged or tampered request does not reach the target; *)
(* a valid one, sent after it, does.                                        *)
EvaluateRejected(rejected, control) ==
  Verdict(Adds(rejected), AddsNone(rejected) /\ NormalControlPasses(control))

(* The same for mutation instructions: both arguments map each of the       *)
(* assertion's nodes to a summary.                                          *)
EvaluateMutations(rejected, control) ==
  Verdict(\E n \in DOMAIN rejected : Received(rejected[n]) /\ rejected[n].returned # {},
          \A n \in DOMAIN rejected :
            AddsNone(rejected[n]) /\ Received(control[n]) /\ Exercised(control[n])
              /\ Succeeded(control[n]))

(* SG-08: no entry at authorization; the capture, if one was sent, is the   *)
(* control, and must enter the target once.                                 *)
EvaluatePrecapture(authorized, captured, late) ==
  Verdict(Adds(authorized),
          /\ AddsNone(authorized)
          /\ late = "FULFIL_LATER"
          /\ captured # <<>> /\ NormalControlPasses(captured[1]))

EvaluateCapture(authorized, captured) ==
  LET answered == Received(authorized) /\ Succeeded(authorized)
  IN  Verdict(answered /\ (authorized.entered # {} \/ NormalControlFails(captured)),
              answered /\ NormalControlPasses(captured))
=============================================================================
