-------------------------- MODULE MCManagedSession --------------------------
(* A managed session whose driver sends one request, or two with the first *)
(* of them answered with an injected failure.                               *)
EXTENDS ManagedSession

OnePlan == {<<FALSE>>}
RetryPlan == {<<TRUE, FALSE>>}
=============================================================================
