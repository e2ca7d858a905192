------------------------ MODULE VerificationRunProofs ------------------------
(***************************************************************************)
(* First what the executions of SG-01 to SG-08 promise, for every          *)
(* instance, any number of edits, every session, transcript and verdict of *)
(* a reducer.  Then what a published run promises, for every catalog of    *)
(* instances, any number of edits of the files and a crash at any step of  *)
(* the writer.                                                             *)
(***************************************************************************)
EXTENDS Integers, VerificationRun, TLAPS

Runtimes == {"managed", "managed_other", "byo", "static"}
Places == {"idle", "preflight", "admit", "open", "analyse", "start", "reopened", "assess",
           "dispatch", "judge", "returned", "raised"}

(* Where there is something to execute, where a session was compared with   *)
(* what was read before, and where there is none yet.                       *)
Executing == {"admit", "open", "analyse", "start", "reopened", "assess", "dispatch", "judge"}
Compared == {"assess", "dispatch", "judge"}
Unopened == {"preflight", "admit", "open", "analyse", "start"}
-----------------------------------------------------------------------------
(* What a state of the engine decides at once.                              *)
LEMMA EarlyResults ==
  ASSUME NEW state \in {"APPLICABLE", "NOT_APPLICABLE", "NEEDS_INPUT", "INDETERMINATE"}
  PROVE  /\ EarlyApplicabilityResult(state).result \notin Verdicts
         /\ EarlyApplicabilityResult(state) = Undecided <=> state = "APPLICABLE"
<1>1. CASE state = "APPLICABLE"
  BY <1>1 DEF EarlyApplicabilityResult, Undecided, Verdicts
<1>2. CASE state = "NOT_APPLICABLE"
  BY <1>2 DEF EarlyApplicabilityResult, Undecided, Verdicts
<1>3. CASE state = "NEEDS_INPUT"
  BY <1>3 DEF EarlyApplicabilityResult, Undecided, Verdicts
<1>4. CASE state = "INDETERMINATE"
  BY <1>4 DEF EarlyApplicabilityResult, Unverified, Undecided, Verdicts
<1> QED
  BY <1>1, <1>2, <1>3, <1>4

LEMMA UnverifiedResults ==
  \A reason :
    /\ Unverified(reason).result = "UNVERIFIED"
    /\ Unverified(reason).result \notin Verdicts /\ Unverified(reason) # Undecided
BY DEF Unverified, Undecided, Verdicts

LEMMA MismatchResult ==
  Mismatch.result \notin Verdicts /\ Mismatch # Undecided
BY UnverifiedResults DEF Mismatch

LEMMA UndecidedResult == Undecided.result \notin Verdicts
BY DEF Undecided, Verdicts

(* A result that is no verdict, and open only where the assertion can be    *)
(* executed.                                                                *)
Preliminary(x, k, r) ==
  /\ r.result \notin Verdicts
  /\ r = Undecided => x.states[k] = "APPLICABLE" /\ (k \notin {"SG05", "SG06"} \cup OwnMutation => x.control)

LEMMA PreliminaryResults ==
  ASSUME NEW x \in Instances, NEW k \in DOMAIN x.states
  PROVE  /\ \A reason : Preliminary(x, k, Unverified(reason))
         /\ Preliminary(x, k, Mismatch)
         /\ Preliminary(x, k, StateThenControl(x, k))
         /\ x.control => Preliminary(x, k, EarlyOr(x, k, Undecided))
         /\ k \in {"SG05", "SG06"} \cup OwnMutation => Preliminary(x, k, EarlyOr(x, k, Undecided))
         /\ \A r : Preliminary(x, k, r) /\ r # Undecided => Preliminary(x, k, EarlyOr(x, k, r))
         /\ EarlyApplicabilityResult(x.states[k]) # Undecided
              => Preliminary(x, k, EarlyApplicabilityResult(x.states[k]))
<1>1. x.states[k] \in {"APPLICABLE", "NOT_APPLICABLE", "NEEDS_INPUT", "INDETERMINATE"}
  BY InstancesAssumption DEF InstanceValid, StatesValid
<1> DEFINE early == EarlyApplicabilityResult(x.states[k])
<1>2. early.result \notin Verdicts
      /\ (early = Undecided <=> x.states[k] = "APPLICABLE")
  BY <1>1, EarlyResults
<1>3. \A r : EarlyOr(x, k, r) = IF early # Undecided THEN early ELSE r
  BY DEF EarlyOr
<1> HIDE DEF early
<1> QED
  BY <1>2, <1>3, UnverifiedResults, MismatchResult, UndecidedResult
  DEF Preliminary, StateThenControl, early

(* What an execution decides from its first analysis: of the assertions of  *)
(* an instance, or of the catalog where there is no instance.               *)
LEMMA KeysOfInstance ==
  ASSUME NEW x \in Instances
  PROVE  KeysOf(x.scenario, x) = DOMAIN x.states /\ x # None /\ x.scenario \in Scenarios
BY InstancesAssumption DEF InstanceValid, StatesValid, KeysOf

LEMMA Preflights ==
  ASSUME NEW x \in Instances
  PROVE  /\ Preflight(x.scenario, x) = [k \in DOMAIN x.states |-> Preflight(x.scenario, x)[k]]
         /\ \A k \in DOMAIN x.states : Preliminary(x, k, Preflight(x.scenario, x)[k])
<1> DEFINE s == x.scenario
           ks == DOMAIN x.states
<1>1. InstanceValid(x) /\ KeysOf(s, x) = ks /\ x # None /\ s \in Scenarios
  BY InstancesAssumption, KeysOfInstance
<1>2. CASE s \in {"SG-01", "SG-02", "SG-03", "SG-07"}
  <2>1. ks = CatalogKeys(s)
    BY <1>1, <1>2 DEF InstanceValid, StatesValid, AssertionSets
  <2> QED
    BY <1>1, <1>2, <2>1, PreliminaryResults
    DEF CatalogKeys, Preflight, Preflight01, Preflight02, Preflight03, Preflight07
<1>3. CASE s = "SG-04"
  BY <1>1, <1>3, PreliminaryResults DEF Preflight, Preflight04
<1>4. CASE s \in {"SG-05", "SG-06"}
  <2>1. ks \subseteq {"SG05", "SG06"} \cup OwnMutation
    BY <1>1, <1>4 DEF InstanceValid, StatesValid, AssertionSets, CatalogKeys, OwnMutation
  <2>2. \A k \in ks : Preliminary(x, k, EarlyOr(x, k, Undecided))
    BY <2>1, PreliminaryResults
  <2> QED
    BY <1>1, <1>4, <2>2 DEF Preflight, Preflight05, Preflight06
<1>5. CASE s = "SG-08"
  <2>1. \A k \in ks : /\ Preliminary(x, k, Mismatch)
                      /\ Preliminary(x, k, EarlyOr(x, k, Mismatch))
                      /\ \A reason : Preliminary(x, k, Unverified(reason))
                      /\ \A reason : Preliminary(x, k, EarlyOr(x, k, Unverified(reason)))
                      /\ x.control => Preliminary(x, k, EarlyOr(x, k, Undecided))
                      /\ EarlyApplicabilityResult(x.states[k]) # Undecided
                           => Preliminary(x, k, EarlyApplicabilityResult(x.states[k]))
    BY PreliminaryResults, UnverifiedResults, MismatchResult
  <2>2. Preflight(s, x) = Preflight08(x)
    BY <1>5 DEF Preflight
  <2> QED
    BY <1>1, <1>5, <2>1, <2>2 DEF Preflight08, All
<1> QED
  BY <1>1, <1>2, <1>3, <1>4, <1>5 DEF Scenarios

LEMMA NoInstanceNoResult ==
  ASSUME NEW s \in Scenarios
  PROVE  /\ DOMAIN Preflight(s, None) = KeysOf(s, None)
         /\ \A k \in KeysOf(s, None) : Preflight(s, None)[k] = Mismatch
<1>1. CASE s \in {"SG-01", "SG-02", "SG-03", "SG-07"}
  BY <1>1 DEF Preflight, Preflight01, Preflight02, Preflight03, Preflight07, KeysOf, CatalogKeys
<1>2. CASE s \in {"SG-04", "SG-05", "SG-06"}
  BY <1>2 DEF Preflight, Preflight04, Preflight05, Preflight06, KeysOf, CatalogKeys
<1>3. CASE s = "SG-08"
  BY <1>3 DEF Preflight, Preflight08, KeysOf, All
<1> QED
  BY <1>1, <1>2, <1>3 DEF Scenarios
-----------------------------------------------------------------------------
(* A list of refusals gives no reason when, and only when, none of them     *)
(* holds.                                                                   *)
LEMMA SmallestOfSix ==
  ASSUME NEW hit, hit \subseteq 1..6, hit # {}
  PROVE  \E i \in hit : \A j \in hit : i <= j
<1>1. CASE 1 \in hit
  BY <1>1
<1>2. CASE 1 \notin hit /\ 2 \in hit
  BY <1>2
<1>3. CASE 1 \notin hit /\ 2 \notin hit /\ 3 \in hit
  BY <1>3
<1>4. CASE 1 \notin hit /\ 2 \notin hit /\ 3 \notin hit /\ 4 \in hit
  BY <1>4
<1>5. CASE 1 \notin hit /\ 2 \notin hit /\ 3 \notin hit /\ 4 \notin hit /\ 5 \in hit
  BY <1>5
<1>6. CASE hit \subseteq {6}
  <2>1. 6 \in hit /\ \A j \in hit : j = 6
    BY <1>6
  <2> QED
    BY <2>1
<1>7. \/ 1 \in hit \/ 2 \in hit \/ 3 \in hit \/ 4 \in hit \/ 5 \in hit
      \/ hit \subseteq {6}
  OBVIOUS
<1> QED
  BY <1>1, <1>2, <1>3, <1>4, <1>5, <1>6, <1>7

(* No reason is given exactly when no refusal of the list holds. *)
LEMMA FirstReasonNone ==
  ASSUME NEW refusals, DOMAIN refusals \subseteq 1..6,
         \A i \in DOMAIN refusals : refusals[i].reason # "none"
  PROVE  FirstReason(refusals) = "none" <=> \A i \in DOMAIN refusals : ~refusals[i].holds
<1> DEFINE hit == {i \in DOMAIN refusals : refusals[i].holds}
           first == CHOOSE i \in hit : \A j \in hit : i <= j
<1>1. CASE hit = {}
  BY <1>1 DEF FirstReason
<1>2. CASE hit # {}
  <2>1. first \in hit
    BY <1>2, SmallestOfSix
  <2>2. FirstReason(refusals) = refusals[first].reason
    BY <1>2 DEF FirstReason
  <2> QED
    BY <2>1, <2>2
<1> QED
  BY <1>1, <1>2

LEMMA TwoRefusals ==
  ASSUME NEW a, NEW b, a.reason # "none", b.reason # "none"
  PROVE  FirstReason(<<a, b>>) = "none" <=> ~a.holds /\ ~b.holds
<1> DEFINE list == <<a, b>>
<1>1. DOMAIN list = 1..2
  OBVIOUS
<1>2. list[1] = a /\ list[2] = b
  OBVIOUS
<1> HIDE DEF list
<1>3. FirstReason(list) = "none" <=> \A i \in DOMAIN list : ~list[i].holds
  BY <1>1, <1>2, FirstReasonNone
<1>4. FirstReason(list) = "none" <=> ~a.holds /\ ~b.holds
  BY <1>1, <1>2, <1>3
<1> QED
  BY <1>4 DEF list

LEMMA ThreeRefusals ==
  ASSUME NEW a, NEW b, NEW c,
         a.reason # "none", b.reason # "none", c.reason # "none"
  PROVE  FirstReason(<<a, b, c>>) = "none" <=> ~a.holds /\ ~b.holds /\ ~c.holds
<1> DEFINE list == <<a, b, c>>
<1>1. DOMAIN list = 1..3
  OBVIOUS
<1>2. list[1] = a /\ list[2] = b /\ list[3] = c
  OBVIOUS
<1> HIDE DEF list
<1>3. FirstReason(list) = "none" <=> \A i \in DOMAIN list : ~list[i].holds
  BY <1>1, <1>2, FirstReasonNone
<1>4. FirstReason(list) = "none" <=> ~a.holds /\ ~b.holds /\ ~c.holds
  BY <1>1, <1>2, <1>3
<1> QED
  BY <1>4 DEF list

LEMMA FourRefusals ==
  ASSUME NEW a, NEW b, NEW c, NEW d,
         a.reason # "none", b.reason # "none", c.reason # "none", d.reason # "none"
  PROVE  FirstReason(<<a, b, c, d>>) = "none" <=> ~a.holds /\ ~b.holds /\ ~c.holds /\ ~d.holds
<1> DEFINE list == <<a, b, c, d>>
<1>1. DOMAIN list = 1..4
  OBVIOUS
<1>2. list[1] = a /\ list[2] = b /\ list[3] = c /\ list[4] = d
  OBVIOUS
<1> HIDE DEF list
<1>3. FirstReason(list) = "none" <=> \A i \in DOMAIN list : ~list[i].holds
  BY <1>1, <1>2, FirstReasonNone
<1>4. FirstReason(list) = "none" <=> ~a.holds /\ ~b.holds /\ ~c.holds /\ ~d.holds
  BY <1>1, <1>2, <1>3
<1> QED
  BY <1>4 DEF list

LEMMA FiveRefusals ==
  ASSUME NEW a, NEW b, NEW c, NEW d, NEW e,
         a.reason # "none", b.reason # "none", c.reason # "none", d.reason # "none", e.reason # "none"
  PROVE  FirstReason(<<a, b, c, d, e>>) = "none" <=> ~a.holds /\ ~b.holds /\ ~c.holds /\ ~d.holds /\ ~e.holds
<1> DEFINE list == <<a, b, c, d, e>>
<1>1. DOMAIN list = 1..5
  OBVIOUS
<1>2. list[1] = a /\ list[2] = b /\ list[3] = c /\ list[4] = d /\ list[5] = e
  OBVIOUS
<1> HIDE DEF list
<1>3. FirstReason(list) = "none" <=> \A i \in DOMAIN list : ~list[i].holds
  BY <1>1, <1>2, FirstReasonNone
<1>4. FirstReason(list) = "none" <=> ~a.holds /\ ~b.holds /\ ~c.holds /\ ~d.holds /\ ~e.holds
  BY <1>1, <1>2, <1>3
<1> QED
  BY <1>4 DEF list

LEMMA SixRefusals ==
  ASSUME NEW a, NEW b, NEW c, NEW d, NEW e, NEW f,
         a.reason # "none", b.reason # "none", c.reason # "none", d.reason # "none", e.reason # "none", f.reason # "none"
  PROVE  FirstReason(<<a, b, c, d, e, f>>) = "none" <=> ~a.holds /\ ~b.holds /\ ~c.holds /\ ~d.holds /\ ~e.holds /\ ~f.holds
<1> DEFINE list == <<a, b, c, d, e, f>>
<1>1. DOMAIN list = 1..6
  OBVIOUS
<1>2. list[1] = a /\ list[2] = b /\ list[3] = c /\ list[4] = d /\ list[5] = e /\ list[6] = f
  OBVIOUS
<1> HIDE DEF list
<1>3. FirstReason(list) = "none" <=> \A i \in DOMAIN list : ~list[i].holds
  BY <1>1, <1>2, FirstReasonNone
<1>4. FirstReason(list) = "none" <=> ~a.holds /\ ~b.holds /\ ~c.holds /\ ~d.holds /\ ~e.holds /\ ~f.holds
  BY <1>1, <1>2, <1>3
<1> QED
  BY <1>4 DEF list

(* A configuration that is admitted is a managed one.                       *)
LEMMA Admitted ==
  ASSUME NEW r, NEW unset, Admit(r, unset) = "none" \/ Admit06(r, unset) = "none"
  PROVE  r \in {"managed", "managed_other"}
<1> DEFINE a == Refusal(r \notin {"managed", "managed_other"}, "RUNTIME_MODE_UNSUPPORTED")
           b == Refusal("webhook_secret" \in unset, "WEBHOOK_SECRET_UNAVAILABLE")
           c == Refusal("checkout_secret" \in unset, "CHECKOUT_SECRET_UNAVAILABLE")
           d == Refusal("server_order" \in unset, "SERVER_ORDER_CONTROL_UNAVAILABLE")
<1>1. a.reason # "none" /\ b.reason # "none" /\ c.reason # "none" /\ d.reason # "none"
  BY DEF Refusal
<1>2. a.holds <=> r \notin {"managed", "managed_other"}
  BY DEF Refusal
<1>3. Admit(r, unset) = FirstReason(<<a, b>>) /\ Admit06(r, unset) = FirstReason(<<a, c, d>>)
  BY DEF Admit, Admit06
<1> HIDE DEF a, b, c, d
<1> QED
  BY <1>1, <1>2, <1>3, TwoRefusals, ThreeRefusals

(* A session that is not turned down is a managed one, of the source and    *)
(* the configuration that the execution has read.                           *)
LEMMA NotTurnedDown ==
  ASSUME scenario \in Scenarios, FirstReason(Reopen) = "none"
  PROVE  openSource = fresh /\ openRuntime = loaded /\ session = "managed"
<1>0. /\ Stale.reason # "none" /\ NoSession.reason # "none" /\ ManyIngresses.reason # "none"
      /\ NoBinding.reason # "none"
      /\ Replaced("AUTHORITY_MISMATCH").reason # "none"
      /\ Replaced("STALE_APPLICABILITY_AUTHORITY").reason # "none"
  BY DEF Stale, Replaced, NoSession, ManyIngresses, NoBinding, Refusal
<1> SUFFICES ~Stale.holds /\ ~NoSession.holds
  BY DEF Stale, NoSession, Refusal
<1>1. CASE scenario \in {"SG-01", "SG-02"}
  BY <1>0, <1>1, ThreeRefusals DEF Reopen, Reopen01, Reopen02
<1>2. CASE scenario \in {"SG-03", "SG-07", "SG-08"}
  BY <1>0, <1>2, ThreeRefusals DEF Reopen, Reopen03, Reopen07, Reopen08
<1>3. CASE scenario = "SG-04"
  BY <1>0, <1>3, FourRefusals DEF Reopen, Reopen04
<1>4. CASE scenario = "SG-05"
  BY <1>0, <1>4, FourRefusals DEF Reopen, Reopen05
<1>5. CASE scenario = "SG-06"
  BY <1>0, <1>5, FiveRefusals DEF Reopen, Reopen06
<1> QED
  BY <1>1, <1>2, <1>3, <1>4, <1>5 DEF Scenarios
-----------------------------------------------------------------------------
(* The invariant.  The instance is one that an analysis made; what is read  *)
(* is read in order; while there is something to execute, the results are   *)
(* those of the first analysis; a session is held from its start to its     *)
(* close; and requests are sent once.                                       *)
InstanceInv ==
  /\ scenario \in Scenarios
  /\ \A x \in {subject, moved} : x = None \/ (x \in Instances /\ x.scenario = scenario)

ReadInv ==
  /\ pc \in Places
  /\ source \in {0, 1} /\ runtime \in Runtimes
  /\ pc \in Executing => fresh = Expected /\ subject # None
  /\ pc \in Executing \ {"admit"} => loaded \in {"managed", "managed_other"}
  /\ pc \in Compared => openSource = Expected /\ openRuntime = loaded

DecisionInv ==
  pc \in Executing =>
    /\ results = Preflight(scenario, subject) /\ keys = DOMAIN results
    /\ Open # {}

HoldInv ==
  /\ session \in {"none", "byo", "managed", "closed"}
  /\ pc \in Unopened \cup {"idle"} => session = "none"
  /\ pc \in {"assess", "dispatch"} => session = "managed"
  /\ pc = "reopened" => session # "closed"
  /\ pc \in {"judge", "returned", "raised"} => session \in {"none", "closed"}

TrialInv ==
  /\ pc \in Unopened \cup {"idle", "reopened", "assess", "dispatch"} => trial = NoTrial
  /\ pc \in {"dispatch", "judge"} => offer \in Offers
  /\ pc = "judge" => trial \in Trials(IF Capable(offer) THEN RequestCount ELSE 0, Open)

Promises ==
  VerdictIsEarned /\ EverySessionIsClosed /\ EveryAssertionIsAnswered /\ AssertionsAreIndependent

ExecutionInv ==
  InstanceInv /\ ReadInv /\ DecisionInv /\ HoldInv /\ TrialInv /\ Promises
-----------------------------------------------------------------------------
(* While there is something to execute, the results are those of a valid    *)
(* instance.                                                                *)
LEMMA Executed ==
  ASSUME ExecutionInv, pc \in Executing
  PROVE  /\ subject \in Instances /\ subject.scenario = scenario /\ InstanceAt(fresh) = subject
         /\ keys = DOMAIN subject.states /\ keys = KeysOf(scenario, InstanceAt(fresh))
         /\ DOMAIN results = keys
         /\ \A k \in keys : Preliminary(subject, k, results[k])
<1>1. subject \in Instances /\ subject.scenario = scenario /\ fresh = Expected
  BY DEF ExecutionInv, InstanceInv, ReadInv
<1>2. results = Preflight(scenario, subject) /\ keys = DOMAIN results
  BY DEF ExecutionInv, DecisionInv
<1>3. keys = DOMAIN subject.states /\ \A k \in keys : Preliminary(subject, k, results[k])
  BY <1>1, <1>2, Preflights
<1> QED
  BY <1>1, <1>2, <1>3, KeysOfInstance DEF InstanceAt

(* A step that does not end the execution promises nothing yet.             *)
LEMMA NotEnded ==
  ASSUME pc' \in Places \ {"returned", "raised"}
  PROVE  Promises'
BY DEF Promises, VerdictIsEarned, EverySessionIsClosed, EveryAssertionIsAnswered,
       AssertionsAreIndependent, Places

LEMMA Raised ==
  ASSUME pc' = "raised", session' \in {"none", "closed"}
  PROVE  Promises'
BY DEF Promises, VerdictIsEarned, EverySessionIsClosed, EveryAssertionIsAnswered,
       AssertionsAreIndependent

(* Nothing is promised of an instance but what the results say.             *)
LEMMA WithoutVerdict ==
  ASSUME pc' = "returned", session' \in {"none", "closed"},
         keys' = KeysOf(scenario, InstanceAt(fresh))',
         \A k \in keys' : results'[k].result \notin Verdicts /\ results'[k] # Undecided,
         AssertionsAreIndependent'
  PROVE  Promises'
BY DEF Promises, VerdictIsEarned, EverySessionIsClosed, EveryAssertionIsAnswered

LEMMA Withheld ==
  ASSUME ExecutionInv, pc \in Executing, NEW reason, Withhold(reason)
  PROVE  /\ pc' = "returned" /\ keys' = keys /\ DOMAIN results' = keys
         /\ \A k \in keys : /\ results'[k].result \notin Verdicts
                            /\ results'[k] # Undecided
                            /\ k \in Open => results'[k] = Unverified(reason)
                            /\ k \notin Open => results'[k] = results[k]
<1> DEFINE decided == [k \in keys |-> IF k \in Open THEN Unverified(reason) ELSE results[k]]
<1>1. /\ DOMAIN decided = keys
      /\ \A k \in keys : /\ k \in Open => decided[k] = Unverified(reason)
                         /\ k \notin Open => decided[k] = results[k]
  OBVIOUS
<1>2. keys' = DOMAIN decided /\ results' = decided /\ pc' = "returned"
  BY DEF Withhold, Decide
<1> HIDE DEF decided
<1>3. \A k \in keys : decided[k].result \notin Verdicts /\ decided[k] # Undecided
  BY <1>1, Executed, UnverifiedResults DEF Preliminary, Open
<1> QED
  BY <1>1, <1>2, <1>3

(* An execution that gives a reason before its requests are sent.           *)
LEMMA WithheldEarly ==
  ASSUME ExecutionInv, pc \in Executing, NEW reason, Withhold(reason),
         trial = NoTrial, session' \in {"none", "closed"},
         UNCHANGED <<source, runtime, scenario, subject, moved, fresh, trial>>
  PROVE  ExecutionInv'
<1>1. pc' = "returned" /\ keys' = keys
      /\ \A k \in keys' : results'[k].result \notin Verdicts /\ results'[k] # Undecided
  BY Withheld
<1>2. keys' = KeysOf(scenario, InstanceAt(fresh))'
  BY <1>1, Executed DEF KeysOf, InstanceAt
<1>3. AssertionsAreIndependent'
  BY DEF AssertionsAreIndependent
<1>4. Promises'
  BY <1>1, <1>2, <1>3, WithoutVerdict
<1> QED
  BY <1>1, <1>4
  DEF ExecutionInv, InstanceInv, ReadInv, DecisionInv, HoldInv, TrialInv, Executing, Compared,
      Unopened, Places
-----------------------------------------------------------------------------
LEMMA AnalyseFirstStep == ASSUME ExecutionInv, AnalyseFirst PROVE ExecutionInv'
<1> DEFINE x == InstanceAt(source)
           decided == IF source # Expected
                      THEN All(KeysOf(scenario, x), Unverified("STALE_APPLICABILITY_AUTHORITY"))
                      ELSE Preflight(scenario, x)
<1>1. x = None \/ (x \in Instances /\ x.scenario = scenario)
  BY DEF ExecutionInv, InstanceInv, InstanceAt
<1>2. DOMAIN decided = KeysOf(scenario, x)
      /\ \A k \in DOMAIN decided : decided[k].result \notin Verdicts
  <2>1. CASE source # Expected
    BY <2>1, UnverifiedResults DEF All
  <2>2. CASE source = Expected /\ x = None
    <3>1. scenario \in Scenarios
      BY DEF ExecutionInv, InstanceInv
    <3> QED
      BY <2>2, <3>1, NoInstanceNoResult, MismatchResult
  <2>3. CASE source = Expected /\ x # None
    <3>1. x \in Instances /\ x.scenario = scenario
      BY <1>1, <2>3
    <3> HIDE DEF x
    <3> QED
      BY <2>3, <3>1, Preflights, KeysOfInstance DEF Preliminary
  <2> QED
    BY <2>1, <2>2, <2>3
<1>3. /\ keys' = DOMAIN decided /\ results' = decided
      /\ pc' = IF \A k \in DOMAIN decided : decided[k] # Undecided THEN "returned" ELSE "admit"
  BY DEF AnalyseFirst, Decide
<1>4. source # Expected \/ x = None => \A k \in DOMAIN decided : decided[k] # Undecided
  <2>1. CASE source # Expected
    BY <2>1, UnverifiedResults DEF All
  <2>2. CASE source = Expected /\ x = None
    <3>1. scenario \in Scenarios
      BY DEF ExecutionInv, InstanceInv
    <3> QED
      BY <2>2, <3>1, NoInstanceNoResult, MismatchResult
  <2> QED
    BY <2>1, <2>2
<1>5. /\ pc = "preflight" /\ fresh' = source /\ x' = x /\ InstanceAt(fresh)' = x
      /\ UNCHANGED <<source, runtime, scenario, subject, moved, loaded, session, trial>>
  BY DEF AnalyseFirst, files, InstanceAt
<1>6. decided = Preflight(scenario, x) \/ source # Expected
  OBVIOUS
<1>7. source = Expected => x = subject
  BY DEF InstanceAt
<1> HIDE DEF x, decided
<1>8. CASE pc' = "returned"
  <2>1. keys' = KeysOf(scenario, InstanceAt(fresh))'
    BY <1>2, <1>3, <1>5 DEF KeysOf
  <2>2. \A k \in keys' : results'[k].result \notin Verdicts /\ results'[k] # Undecided
    BY <1>2, <1>3, <1>8
  <2>3. trial' = NoTrial /\ session' \in {"none", "closed"}
    BY <1>5 DEF ExecutionInv, TrialInv, HoldInv, Unopened
  <2>4. AssertionsAreIndependent'
    BY <2>3 DEF AssertionsAreIndependent
  <2>5. Promises'
    BY <1>8, <2>1, <2>2, <2>3, <2>4, WithoutVerdict
  <2> QED
    BY <1>5, <1>8, <2>3, <2>5
    DEF ExecutionInv, InstanceInv, ReadInv, DecisionInv, HoldInv, TrialInv, Executing, Compared,
        Unopened, Places
<1>9. CASE pc' = "admit"
  <2>1. source = Expected /\ x # None /\ \E k \in DOMAIN decided : decided[k] = Undecided
    BY <1>3, <1>4, <1>9
  <2>2. results' = Preflight(scenario, subject)' /\ keys' = DOMAIN results' /\ Open' # {}
    BY <1>3, <1>5, <1>6, <1>7, <2>1 DEF Open
  <2>3. Promises'
    BY <1>9, NotEnded DEF Places
  <2> QED
    BY <1>5, <1>7, <1>9, <2>1, <2>2, <2>3
    DEF ExecutionInv, InstanceInv, ReadInv, DecisionInv, HoldInv, TrialInv, Executing, Compared,
        Unopened, Places
<1> QED
  BY <1>3, <1>8, <1>9

(* A step that decides nothing and sends nothing.                           *)
LEMMA MovesOn ==
  ASSUME ExecutionInv, pc \in Executing, pc' \in Executing \ {"judge"},
         UNCHANGED <<scenario, subject, moved, fresh, keys, results, trial>>,
         pc \in Unopened \cup {"reopened", "assess"},
         ReadInv', HoldInv', pc' = "dispatch" => offer' \in Offers
  PROVE  ExecutionInv'
<1>1. Promises'
  BY NotEnded DEF Executing, Places
<1> QED
  BY <1>1
  DEF ExecutionInv, InstanceInv, DecisionInv, TrialInv, Executing, Unopened, Open

LEMMA LoadConfigStep == ASSUME ExecutionInv, LoadConfig PROVE ExecutionInv'
<1>1. pc = "admit" /\ pc \in Executing /\ trial = NoTrial /\ session = "none"
  BY DEF LoadConfig, Executing, ExecutionInv, TrialInv, HoldInv, Unopened
<1>2. UNCHANGED <<files, scenario, subject, moved, fresh, openRuntime, openSource, session, trial>>
      /\ loaded' = runtime
  BY DEF LoadConfig
<1>3. CASE /\ runtime \in {"managed", "managed_other"}
           /\ pc' = "open" /\ UNCHANGED <<keys, results>>
  <2>1. ReadInv' /\ HoldInv'
    BY <1>1, <1>2, <1>3
    DEF ExecutionInv, ReadInv, HoldInv, Executing, Compared, Unopened, Places, files
  <2> QED
    BY <1>1, <1>2, <1>3, <2>1, MovesOn DEF Executing, Unopened
<1>4. ASSUME NEW reason, Withhold(reason) PROVE ExecutionInv'
  BY <1>1, <1>2, <1>4, WithheldEarly DEF files
<1>5. PICK unset : LET reason == IF scenario = "SG-06" THEN Admit06(runtime, unset)
                                 ELSE Admit(runtime, unset)
                   IN  IF reason # "none" THEN Withhold(reason)
                       ELSE pc' = "open" /\ UNCHANGED <<keys, results>>
  BY DEF LoadConfig
<1> DEFINE reason == IF scenario = "SG-06" THEN Admit06(runtime, unset) ELSE Admit(runtime, unset)
<1>6. reason = "none" => runtime \in {"managed", "managed_other"}
  BY Admitted
<1> QED
  BY <1>3, <1>4, <1>5, <1>6

(* The parts of opening a session keep what was decided. *)
LEMMA OpenStep ==
  ASSUME ExecutionInv, OpenLoad \/ OpenAnalyse \/ OpenSession
  PROVE  ExecutionInv'
<1>0. session = "none"
      /\ UNCHANGED <<files, scenario, subject, moved, fresh, loaded, trial, keys, results>>
  BY DEF OpenLoad, OpenAnalyse, OpenSession, ExecutionInv, HoldInv, Unopened
<1>1. CASE OpenLoad \/ OpenAnalyse
  <2>1. pc \in {"open", "analyse"} /\ pc' \in {"analyse", "start"} /\ session' = session
    BY <1>1 DEF OpenLoad, OpenAnalyse
  <2>2. ReadInv' /\ HoldInv'
    BY <1>0, <2>1 DEF ExecutionInv, ReadInv, HoldInv, Executing, Compared, Unopened, Places, files
  <2> QED
    BY <1>0, <2>1, <2>2, MovesOn DEF Executing, Unopened
<1>2. CASE OpenSession
  <2>1. pc = "start" /\ pc' = "reopened"
    BY <1>2 DEF OpenSession
  <2>2. session' \in {"none", "byo", "managed"}
    <3>1. CASE openRuntime = "static"
      BY <1>2, <3>1 DEF OpenSession
    <3>2. CASE openRuntime = "byo"
      BY <1>2, <3>2 DEF OpenSession
    <3>3. CASE openRuntime \notin {"static", "byo"}
      BY <1>2, <3>3 DEF OpenSession
    <3> QED
      BY <3>1, <3>2, <3>3
  <2>3. ReadInv' /\ HoldInv'
    BY <1>0, <2>1, <2>2
    DEF ExecutionInv, ReadInv, HoldInv, Executing, Compared, Unopened, Places, files
  <2> QED
    BY <1>0, <2>1, <2>3, MovesOn DEF Executing, Unopened
<1> QED
  BY <1>1, <1>2

LEMMA OpenFailsStep == ASSUME ExecutionInv, OpenFails PROVE ExecutionInv'
<1>1. /\ pc \in {"open", "analyse", "start"} /\ pc \in Executing /\ trial = NoTrial /\ session = "none"
      /\ Withhold("RUNTIME_SESSION_UNAVAILABLE")
      /\ UNCHANGED <<files, scenario, subject, moved, fresh, session, trial>>
  BY DEF OpenFails, Executing, ExecutionInv, TrialInv, HoldInv, Unopened
<1> QED
  BY <1>1, WithheldEarly DEF files

(* The lookups of a pair do not fail: where something of a pair can be      *)
(* executed, the instance has both of its assertions.                       *)
LEMMA PairsAreWhole ==
  ASSUME ExecutionInv, pc \in Executing
  PROVE  LooksUp \subseteq DOMAIN subject.states
<1>1. PICK k \in keys : results[k] = Undecided
  BY DEF ExecutionInv, DecisionInv, Open
<1>2. subject \in Instances /\ subject.scenario = scenario /\ k \in DOMAIN subject.states
      /\ subject.states[k] = "APPLICABLE"
  BY <1>1, Executed DEF Preliminary
<1>3. scenario \in {"SG-04", "SG-05", "SG-06"} => DOMAIN subject.states = CatalogKeys(scenario)
  BY <1>2, InstancesAssumption DEF InstanceValid, StatesValid
<1>4. CASE scenario \in {"SG-04", "SG-05", "SG-06"}
  BY <1>3, <1>4 DEF LooksUp, CatalogKeys
<1>5. CASE scenario \notin {"SG-04", "SG-05", "SG-06"}
  BY <1>5 DEF LooksUp
<1> QED
  BY <1>4, <1>5

LEMMA CompareReopenedStep == ASSUME ExecutionInv, CompareReopened PROVE ExecutionInv'
<1> DEFINE reason == FirstReason(Reopen)
<1>1. /\ pc = "reopened" /\ pc \in Executing /\ trial = NoTrial /\ scenario \in Scenarios
      /\ UNCHANGED <<files, scenario, subject, moved, fresh, loaded, openRuntime, openSource, trial>>
      /\ session' = IF reason # "none" /\ session # "none" THEN "closed" ELSE session
      /\ IF reason # "none" THEN Withhold(reason)
         ELSE /\ pc' = IF LooksUp \subseteq DOMAIN InstanceAt(fresh).states THEN "assess" ELSE "lost"
              /\ UNCHANGED <<keys, results>>
  BY DEF CompareReopened, Executing, ExecutionInv, TrialInv, InstanceInv
<1>2. reason = "none" => openSource = fresh /\ openRuntime = loaded /\ session = "managed"
  BY <1>1, NotTurnedDown
<1> HIDE DEF reason
<1>3. CASE reason # "none"
  <2>1. session' \in {"none", "closed"}
    BY <1>1, <1>3 DEF ExecutionInv, HoldInv
  <2> QED
    BY <1>1, <1>3, <2>1, WithheldEarly DEF files
<1>4. CASE reason = "none"
  <2>1. pc' = "assess" /\ UNCHANGED <<keys, results>>
    BY <1>1, <1>4, PairsAreWhole, Executed
  <2>2. ReadInv' /\ HoldInv'
    BY <1>1, <1>2, <1>4, <2>1
    DEF ExecutionInv, ReadInv, HoldInv, Executing, Compared, Unopened, Places, files
  <2> QED
    BY <1>1, <2>1, <2>2, MovesOn DEF Executing
<1> QED
  BY <1>3, <1>4

(* The close of a session that is turned down may raise. *)
LEMMA CloseRaisesStep == ASSUME ExecutionInv, CloseRaises PROVE ExecutionInv'
<1>1. /\ pc' = "raised" /\ session' = "closed"
      /\ UNCHANGED <<files, scenario, subject, moved>>
  BY DEF CloseRaises
<1>2. Promises'
  BY <1>1, Raised
<1> QED
  BY <1>1, <1>2
  DEF ExecutionInv, InstanceInv, ReadInv, DecisionInv, HoldInv, TrialInv, Executing, Compared,
      Unopened, Places, files

LEMMA ReadRaisesStep == ASSUME ExecutionInv, ReadRaises PROVE ExecutionInv'
<1>1. /\ pc \in {"preflight", "admit"} /\ pc' = "raised"
      /\ UNCHANGED <<files, scenario, subject, moved, session>>
  BY DEF ReadRaises
<1>2. session' = "none"
  BY <1>1 DEF ExecutionInv, HoldInv, Unopened
<1>3. Promises'
  BY <1>1, <1>2, Raised
<1> QED
  BY <1>1, <1>2, <1>3
  DEF ExecutionInv, InstanceInv, ReadInv, DecisionInv, HoldInv, TrialInv, Executing, Compared,
      Unopened, Places, files

LEMMA AssessCapabilityStep == ASSUME ExecutionInv, AssessCapability PROVE ExecutionInv'
<1>1. /\ pc = "assess" /\ pc' = "dispatch" /\ offer' \in Offers
      /\ UNCHANGED <<files, scenario, subject, moved, fresh, loaded, openRuntime, openSource,
                     session, trial, keys, results>>
  BY DEF AssessCapability
<1>2. ReadInv' /\ HoldInv'
  BY <1>1 DEF ExecutionInv, ReadInv, HoldInv, Executing, Compared, Unopened, Places, files
<1> QED
  BY <1>1, <1>2, MovesOn DEF Executing

LEMMA DispatchStep == ASSUME ExecutionInv, DispatchManagedSequence PROVE ExecutionInv'
<1>1. /\ pc = "dispatch" /\ pc' = "judge" /\ session' = "closed"
      /\ trial' \in Trials(IF Capable(offer) THEN RequestCount ELSE 0, Open)
      /\ UNCHANGED <<files, scenario, subject, moved, fresh, loaded, openRuntime, openSource, offer,
                     keys, results>>
  BY DEF DispatchManagedSequence
<1>2. Open' = Open
  BY <1>1 DEF Open
<1>3. RequestCount' = RequestCount
  BY <1>1, <1>2 DEF RequestCount
<1>4. Capable(offer)' <=> Capable(offer)
  BY <1>1, <1>2 DEF Capable
<1>5. trial' \in Trials(IF Capable(offer) THEN RequestCount ELSE 0, Open)'
  BY <1>1, <1>2, <1>3, <1>4 DEF Trials
<1>6. Promises'
  BY <1>1, NotEnded DEF Places
<1> QED
  BY <1>1, <1>2, <1>5, <1>6
  DEF ExecutionInv, InstanceInv, ReadInv, DecisionInv, HoldInv, TrialInv, Executing, Compared,
      Unopened, Places, files

LEMMA EditStep == ASSUME ExecutionInv, Edit PROVE ExecutionInv'
<1>1. /\ pc \in Unopened
      /\ UNCHANGED <<pc, scenario, subject, moved, fresh, loaded, openRuntime, openSource, session,
                     offer, trial, keys, results>>
      /\ source' \in {0, 1} /\ runtime' \in Runtimes
  BY DEF Edit, ExecutionInv, ReadInv, Runtimes, Unopened
<1>2. Promises'
  BY <1>1, NotEnded DEF Unopened, Places
<1> QED
  BY <1>1, <1>2
  DEF ExecutionInv, InstanceInv, ReadInv, DecisionInv, HoldInv, TrialInv, Executing, Compared,
      Unopened, Places, Open
-----------------------------------------------------------------------------
(* What an execution knows of a transcript that it does not refuse, and     *)
(* that it refuses none that is complete and without a flaw.                *)
Trusted ==
  /\ Capable(offer) /\ trial.answered = RequestCount
  /\ {"close_failed", "mismatch", "diagnostics", "authority"} \cap trial.flaws = {}
  /\ "foreign_customer" \in trial.flaws =>
       (scenario = "SG-05" /\ "SG05" \notin Open) \/ (scenario = "SG-06" /\ ~subject.control)
  /\ "foreign_mutation" \in trial.flaws =>
       /\ scenario = "SG-05" => "SG05_MUTATION" \notin Open
       /\ scenario = "SG-06" => "SG06_MUTATION" \notin Open

LEMMA TrialFacts ==
  ASSUME ExecutionInv, pc = "judge"
  PROVE  /\ trial.flaws \subseteq Flaws
         /\ DOMAIN trial.outcome = Open /\ \A k \in Open : trial.outcome[k] \in Outcomes
         /\ trial.answered = 2 => Capable(offer)
         /\ Capable(offer) /\ "SG08_PRECAPTURE" \in Open /\ RequestCount = 1
              => ~Passes(trial.outcome["SG08_PRECAPTURE"])
<1> DEFINE n == IF Capable(offer) THEN RequestCount ELSE 0
<1>1. trial \in Trials(n, Open)
  BY DEF ExecutionInv, TrialInv
<1>2. n = IF Capable(offer) THEN RequestCount ELSE 0
  OBVIOUS
<1> HIDE DEF n
<1>3. trial \in [answered : 0..n, flaws : {{}} \cup {{x} : x \in Flaws}, outcome : [Open -> Outcomes]]
      /\ ("SG08_PRECAPTURE" \in Open /\ n = 1 => ~Passes(trial.outcome["SG08_PRECAPTURE"]))
  BY <1>1 DEF Trials
<1>4. trial.answered \in 0..n /\ trial.flaws \in {{}} \cup {{x} : x \in Flaws}
      /\ trial.outcome \in [Open -> Outcomes]
  BY <1>3
<1>5. trial.answered = 2 => n # 0
  BY <1>4
<1> QED
  BY <1>2, <1>3, <1>4, <1>5

(* The refusals of a transcript, in the three orders that the executions    *)
(* ask in.                                                                  *)
Clean(o, t, n, flaws) ==
  /\ "close_failed" \notin t.flaws /\ "mismatch" \notin t.flaws /\ t.flaws \cap flaws = {}
  /\ Capable(o) /\ t.answered = n

(* Requests, mismatch, diagnostics and then foreign executions: no refusal *)
(* holds of a clean trial without diagnostics only.                        *)
LEMMA DiagnosedLast ==
  ASSUME NEW o, NEW t, NEW n, NEW flaws
  PROVE  FirstReason(<<CloseFailed(t), Incapable(o), Unanswered(t, n), TranscriptMismatch(t), Diagnosed(t), Foreign(t, flaws)>>)
           = "none" <=> Clean(o, t, n, flaws) /\ "diagnostics" \notin t.flaws
<1> DEFINE a == CloseFailed(t)
           b == Incapable(o)
           c == Unanswered(t, n)
           d == TranscriptMismatch(t)
           e == Diagnosed(t)
           f == Foreign(t, flaws)
<1>1. a.reason # "none" /\ b.reason # "none" /\ c.reason # "none"
      /\ d.reason # "none" /\ e.reason # "none" /\ f.reason # "none"
  BY DEF CloseFailed, Incapable, Unanswered, TranscriptMismatch, Diagnosed, Foreign, Refusal
<1>2. a.holds <=> "close_failed" \in t.flaws
  BY DEF CloseFailed, Refusal
<1>3. b.holds <=> ~Capable(o)
  BY DEF Incapable, Refusal
<1>4. c.holds <=> t.answered # n
  BY DEF Unanswered, Refusal
<1>5. d.holds <=> "mismatch" \in t.flaws
  BY DEF TranscriptMismatch, Refusal
<1>6. e.holds <=> "diagnostics" \in t.flaws
  BY DEF Diagnosed, Refusal
<1>7. f.holds <=> t.flaws \cap flaws # {}
  BY DEF Foreign, Refusal
<1> HIDE DEF a, b, c, d, e, f
<1>8. FirstReason(<<a, b, c, d, e, f>>) = "none" <=> ~a.holds /\ ~b.holds /\ ~c.holds /\ ~d.holds /\ ~e.holds /\ ~f.holds
  BY <1>1, SixRefusals
<1>9. FirstReason(<<a, b, c, d, e, f>>) = "none" <=> Clean(o, t, n, flaws) /\ "diagnostics" \notin t.flaws
  BY <1>2, <1>3, <1>4, <1>5, <1>6, <1>7, <1>8 DEF Clean
<1> QED
  BY <1>9 DEF a, b, c, d, e, f

(* The same with the requests after the diagnostics. *)
LEMMA RequestsLast ==
  ASSUME NEW o, NEW t, NEW n, NEW flaws
  PROVE  FirstReason(<<CloseFailed(t), Incapable(o), TranscriptMismatch(t), Diagnosed(t), Unanswered(t, n), Foreign(t, flaws)>>)
           = "none" <=> Clean(o, t, n, flaws) /\ "diagnostics" \notin t.flaws
<1> DEFINE a == CloseFailed(t)
           b == Incapable(o)
           c == TranscriptMismatch(t)
           d == Diagnosed(t)
           e == Unanswered(t, n)
           f == Foreign(t, flaws)
<1>1. a.reason # "none" /\ b.reason # "none" /\ c.reason # "none"
      /\ d.reason # "none" /\ e.reason # "none" /\ f.reason # "none"
  BY DEF CloseFailed, Incapable, TranscriptMismatch, Diagnosed, Unanswered, Foreign, Refusal
<1>2. a.holds <=> "close_failed" \in t.flaws
  BY DEF CloseFailed, Refusal
<1>3. b.holds <=> ~Capable(o)
  BY DEF Incapable, Refusal
<1>4. c.holds <=> "mismatch" \in t.flaws
  BY DEF TranscriptMismatch, Refusal
<1>5. d.holds <=> "diagnostics" \in t.flaws
  BY DEF Diagnosed, Refusal
<1>6. e.holds <=> t.answered # n
  BY DEF Unanswered, Refusal
<1>7. f.holds <=> t.flaws \cap flaws # {}
  BY DEF Foreign, Refusal
<1> HIDE DEF a, b, c, d, e, f
<1>8. FirstReason(<<a, b, c, d, e, f>>) = "none" <=> ~a.holds /\ ~b.holds /\ ~c.holds /\ ~d.holds /\ ~e.holds /\ ~f.holds
  BY <1>1, SixRefusals
<1>9. FirstReason(<<a, b, c, d, e, f>>) = "none" <=> Clean(o, t, n, flaws) /\ "diagnostics" \notin t.flaws
  BY <1>2, <1>3, <1>4, <1>5, <1>6, <1>7, <1>8 DEF Clean
<1> QED
  BY <1>9 DEF a, b, c, d, e, f

(* Without a look at the diagnostics, no refusal holds of a clean trial *)
(* only.                                                                *)
LEMMA ForeignLast ==
  ASSUME NEW o, NEW t, NEW n, NEW flaws
  PROVE  FirstReason(<<CloseFailed(t), Incapable(o), Unanswered(t, n), TranscriptMismatch(t), Foreign(t, flaws)>>)
           = "none" <=> Clean(o, t, n, flaws)
<1> DEFINE a == CloseFailed(t)
           b == Incapable(o)
           c == Unanswered(t, n)
           d == TranscriptMismatch(t)
           e == Foreign(t, flaws)
<1>1. a.reason # "none" /\ b.reason # "none" /\ c.reason # "none"
      /\ d.reason # "none" /\ e.reason # "none"
  BY DEF CloseFailed, Incapable, Unanswered, TranscriptMismatch, Foreign, Refusal
<1>2. a.holds <=> "close_failed" \in t.flaws
  BY DEF CloseFailed, Refusal
<1>3. b.holds <=> ~Capable(o)
  BY DEF Incapable, Refusal
<1>4. c.holds <=> t.answered # n
  BY DEF Unanswered, Refusal
<1>5. d.holds <=> "mismatch" \in t.flaws
  BY DEF TranscriptMismatch, Refusal
<1>6. e.holds <=> t.flaws \cap flaws # {}
  BY DEF Foreign, Refusal
<1> HIDE DEF a, b, c, d, e
<1>7. FirstReason(<<a, b, c, d, e>>) = "none" <=> ~a.holds /\ ~b.holds /\ ~c.holds /\ ~d.holds /\ ~e.holds
  BY <1>1, FiveRefusals
<1>8. FirstReason(<<a, b, c, d, e>>) = "none" <=> Clean(o, t, n, flaws)
  BY <1>2, <1>3, <1>4, <1>5, <1>6, <1>7 DEF Clean
<1> QED
  BY <1>8 DEF a, b, c, d, e

LEMMA TrustIsGiven ==
  ASSUME ExecutionInv, pc = "judge"
  PROVE  /\ FirstReason(Trust(offer, trial)) = "none" => Trusted
         /\ scenario \in {"SG-04", "SG-05", "SG-06"} /\ trial.answered = 2 /\ trial.flaws = {}
              => FirstReason(Trust(offer, trial)) = "none"
<1>1. scenario \in Scenarios /\ InstanceAt(fresh) = subject
  BY Executed DEF ExecutionInv, InstanceInv, Executing
<1>2. trial.answered = 2 => Capable(offer)
  BY TrialFacts
<1>3. CASE scenario = "SG-01"
  <2>1. RequestCount = 1 /\ Trust(offer, trial) = Trust01(offer, trial)
    BY <1>3 DEF RequestCount, Trust
  <2> QED
    BY <1>2, <1>3, <2>1, DiagnosedLast DEF Trust01, Clean, Trusted
<1>4. CASE scenario = "SG-02"
  <2>1. RequestCount = 2 /\ Trust(offer, trial) = Trust02(offer, trial)
    BY <1>4 DEF RequestCount, Trust
  <2> QED
    BY <1>2, <1>4, <2>1, RequestsLast DEF Trust02, Clean, Trusted
<1>5. CASE scenario = "SG-03"
  <2>1. RequestCount = 2 /\ Trust(offer, trial) = Trust03(offer, trial)
    BY <1>5 DEF RequestCount, Trust
  <2> QED
    BY <1>2, <1>5, <2>1, ForeignLast DEF Trust03, Clean, Trusted
<1>6. CASE scenario = "SG-04"
  <2>1. RequestCount = 2 /\ Trust(offer, trial) = Trust04(offer, trial)
    BY <1>6 DEF RequestCount, Trust
  <2> QED
    BY <1>2, <1>6, <2>1, ForeignLast DEF Trust04, Clean, Trusted
<1>7. CASE scenario = "SG-05"
  <2>1. RequestCount = 2 /\ Trust(offer, trial) = Trust05(offer, trial, Open)
    BY <1>7 DEF RequestCount, Trust
  <2> QED
    BY <1>2, <1>7, <2>1, DiagnosedLast DEF Trust05, Clean, Trusted
<1>8. CASE scenario = "SG-06"
  <2>1. RequestCount = 2 /\ Trust(offer, trial) = Trust06(offer, trial, Open)
    BY <1>8 DEF RequestCount, Trust
  <2> QED
    BY <1>1, <1>2, <1>8, <2>1, ForeignLast DEF Trust06, Clean, Trusted
<1>9. CASE scenario = "SG-07"
  <2>1. RequestCount = 1 /\ Trust(offer, trial) = Trust07(offer, trial)
    BY <1>9 DEF RequestCount, Trust
  <2> QED
    BY <1>2, <1>9, <2>1, ForeignLast DEF Trust07, Clean, Trusted
<1>10. CASE scenario = "SG-08"
  <2>1. Trust(offer, trial) = Trust08(offer, trial)
    BY <1>10 DEF Trust
  <2> QED
    BY <1>2, <1>10, <2>1, ForeignLast DEF Trust08, Clean, Trusted
<1> QED
  BY <1>1, <1>3, <1>4, <1>5, <1>6, <1>7, <1>8, <1>9, <1>10 DEF Scenarios

(* The assertions that can be judged, by scenario.                          *)
LEMMA JudgedKeys ==
  ASSUME ExecutionInv, pc \in Executing, NEW k \in Open
  PROVE  /\ k \in keys /\ results[k] = Undecided
         /\ subject.states[k] = "APPLICABLE"
         /\ k \notin {"SG05", "SG06"} \cup OwnMutation => subject.control
         /\ scenario \in {"SG-01", "SG-02", "SG-03", "SG-07"} => k \in CatalogKeys(scenario)
         /\ scenario \in {"SG-04", "SG-05", "SG-06"} => k \in CatalogKeys(scenario)
         /\ scenario = "SG-08" => k \in {"SG08_PRECAPTURE", "SG08_CAPTURE"}
<1>1. k \in keys /\ results[k] = Undecided
  BY DEF Open
<1>2. /\ subject \in Instances /\ subject.scenario = scenario /\ k \in DOMAIN subject.states
      /\ Preliminary(subject, k, results[k])
  BY <1>1, Executed
<1>3. subject.states[k] = "APPLICABLE"
      /\ (k \notin {"SG05", "SG06"} \cup OwnMutation => subject.control)
  BY <1>1, <1>2 DEF Preliminary
<1>4. InstanceValid(subject)
  BY <1>2, InstancesAssumption
<1>5. DOMAIN subject.states \in AssertionSets(scenario) /\ k # "SG08_LATE_POLICY"
  BY <1>2, <1>3, <1>4 DEF InstanceValid, StatesValid
<1>6. scenario \in {"SG-01", "SG-02", "SG-03", "SG-07"} => k \in CatalogKeys(scenario)
  BY <1>2, <1>5 DEF AssertionSets
<1>7. scenario \in {"SG-04", "SG-05", "SG-06"} => k \in CatalogKeys(scenario)
  BY <1>2, <1>5 DEF AssertionSets, CatalogKeys
<1>8. scenario = "SG-08" => k \in {"SG08_PRECAPTURE", "SG08_CAPTURE"}
  BY <1>2, <1>5 DEF AssertionSets, CatalogKeys
<1> QED
  BY <1>1, <1>3, <1>6, <1>7, <1>8

(* What an evaluation can say, and what stands in its place.                *)
LEMMA OutcomeResults ==
  ASSUME NEW v \in Outcomes
  PROVE  v # Undecided /\ v.result \in Verdicts \cup {"UNVERIFIED"}
BY DEF Outcomes, Undecided, Verdicts

(* A verdict that is given is the one of the reducer, and it is earned.     *)
Given(k) ==
  /\ k \notin OwnMutation => subject.control
  /\ k \in OwnMutation => offer.mutation
  /\ k \notin OwnMutation => offer.customer # "unavailable"
  /\ k \notin OwnMutation /\ Passes(trial.outcome[k]) => offer.customer = "entry_and_terminal"
  /\ trial.answered = 2 \/ (trial.answered = 1 /\ k \in {"SG01", "SG07"})
                         \/ (trial.answered = 1 /\ k = "SG08_PRECAPTURE" /\ ~Passes(trial.outcome[k]))
  /\ "foreign_mutation" \in trial.flaws => k \notin OwnMutation \ {"SG04_STATE"}
  /\ "foreign_customer" \in trial.flaws => k \in OwnMutation

(* And it is withheld from no assertion of a pair that can be observed.     *)
Observed(k) ==
  /\ OwnCapability(k)
  /\ k = "SG04_STATE" => subject.pair
  /\ k \notin OwnMutation => subject.control
  /\ ~Passes(trial.outcome[k]) \/ k \in OwnMutation \/ offer.customer = "entry_and_terminal"

JudgedAs(k, r) ==
  /\ r # Undecided
  /\ r.result \in Verdicts => r = trial.outcome[k] /\ Given(k)
  /\ scenario \in {"SG-04", "SG-05", "SG-06"} /\ Observed(k) => r = trial.outcome[k]

LEMMA CustomerVerdicts ==
  ASSUME NEW o, NEW v \in Outcomes
  PROVE  /\ CustomerVerdict(o, v) # Undecided
         /\ CustomerVerdict(o, v).result \in Verdicts =>
              /\ CustomerVerdict(o, v) = v
              /\ o.common /\ o.customer # "unavailable"
              /\ Passes(v) => o.customer = "entry_and_terminal"
         /\ o.common /\ o.customer # "unavailable" /\ (~Passes(v) \/ o.customer = "entry_and_terminal")
              => CustomerVerdict(o, v) = v
<1>1. Insufficient # Undecided /\ Insufficient.result \notin Verdicts
  BY UnverifiedResults DEF Insufficient
<1>2. v # Undecided
  BY OutcomeResults
<1>3. CASE ~CustomerObservable(o) \/ (Passes(v) /\ ~CustomerPassCapability(o))
  BY <1>1, <1>3 DEF CustomerVerdict, CustomerObservable, CustomerPassCapability
<1>4. CASE ~(~CustomerObservable(o) \/ (Passes(v) /\ ~CustomerPassCapability(o)))
  BY <1>2, <1>4 DEF CustomerVerdict, CustomerObservable, CustomerPassCapability
<1> QED
  BY <1>3, <1>4

LEMMA SingleJudged ==
  ASSUME ExecutionInv, pc = "judge", Trusted, NEW k \in Open,
         scenario \in {"SG-01", "SG-02", "SG-03", "SG-07"}
  PROVE  JudgedAs(k, Judge(k, offer, trial)) /\ offer.common
<1>1. k \in {"SG01", "SG02", "SG03", "SG07"} /\ (k \in {"SG01", "SG07"} <=> scenario \in {"SG-01", "SG-07"})
  BY JudgedKeys DEF Executing, CatalogKeys
<1>2. subject.control
  BY <1>1, JudgedKeys DEF Executing, OwnMutation
<1>3. offer.common /\ offer.customer = "entry_and_terminal"
  BY DEF Trusted, Capable, Capable01, Capable03, CapabilityIsSufficient
<1>4. trial.answered = IF scenario \in {"SG-01", "SG-07"} THEN 1 ELSE 2
  BY DEF Trusted, RequestCount
<1>5. "foreign_customer" \notin trial.flaws
  BY DEF Trusted
<1>6. Judge(k, offer, trial) = trial.outcome[k] /\ trial.outcome[k] \in Outcomes
  BY TrialFacts DEF Judge
<1> QED
  BY <1>1, <1>2, <1>3, <1>4, <1>5, <1>6, OutcomeResults DEF JudgedAs, Given, OwnMutation

LEMMA CaptureJudged ==
  ASSUME ExecutionInv, pc = "judge", Trusted, NEW k \in Open, scenario = "SG-08"
  PROVE  JudgedAs(k, Judge(k, offer, trial)) /\ offer.common
<1>1. k \in {"SG08_PRECAPTURE", "SG08_CAPTURE"}
  BY JudgedKeys DEF Executing
<1>2. subject.control
  BY <1>1, JudgedKeys DEF Executing, OwnMutation
<1>3. offer.common /\ offer.customer = "entry_and_terminal"
  BY DEF Trusted, Capable, Capable01, CapabilityIsSufficient
<1>4. trial.answered = RequestCount /\ RequestCount = IF "SG08_CAPTURE" \in Open THEN 2 ELSE 1
  BY DEF Trusted, RequestCount
<1>5. "foreign_customer" \notin trial.flaws /\ Capable(offer)
  BY DEF Trusted
<1>6. trial.outcome[k] \in Outcomes
      /\ ("SG08_PRECAPTURE" \in Open /\ RequestCount = 1 => ~Passes(trial.outcome["SG08_PRECAPTURE"]))
  BY <1>5, TrialFacts
<1>7. Judge(k, offer, trial) = Judge08(k, trial, trial.outcome[k])
  BY DEF Judge
<1>8. CASE k = "SG08_PRECAPTURE"
  <2>1. Judge(k, offer, trial) = trial.outcome[k]
    BY <1>7, <1>8 DEF Judge08
  <2> QED
    BY <1>2, <1>3, <1>4, <1>5, <1>6, <1>8, <2>1, OutcomeResults DEF JudgedAs, Given, OwnMutation
<1>9. CASE k = "SG08_CAPTURE"
  <2>1. trial.answered = 2
    BY <1>4, <1>9
  <2>2. Judge(k, offer, trial) = trial.outcome[k]
    BY <1>7, <1>9, <2>1 DEF Judge08
  <2> QED
    BY <1>2, <1>3, <1>5, <1>6, <1>9, <2>1, <2>2, OutcomeResults DEF JudgedAs, Given, OwnMutation
<1> QED
  BY <1>1, <1>3, <1>8, <1>9

LEMMA PairJudged ==
  ASSUME ExecutionInv, pc = "judge", Trusted, NEW k \in Open,
         scenario \in {"SG-04", "SG-05", "SG-06"}
  PROVE  JudgedAs(k, Judge(k, offer, trial)) /\ offer.common
<1> DEFINE v == trial.outcome[k]
<1>1. k \in CatalogKeys(scenario) /\ (k = "SG04" => subject.control)
  BY JudgedKeys DEF Executing, OwnMutation
<1>2. v \in Outcomes /\ InstanceAt(fresh) = subject
  BY TrialFacts, Executed DEF Executing
<1>3. trial.answered = 2 /\ offer.common
  BY DEF Trusted, Capable, Capable04, Capable05, Capable06, RequestCount, CustomerObservable,
         MutationCapability
<1>4. /\ "foreign_customer" \in trial.flaws => scenario # "SG-04"
      /\ "foreign_customer" \in trial.flaws /\ scenario = "SG-05" => k # "SG05"
      /\ "foreign_customer" \in trial.flaws /\ scenario = "SG-06" => ~subject.control
      /\ "foreign_mutation" \in trial.flaws /\ scenario = "SG-05" => k # "SG05_MUTATION"
      /\ "foreign_mutation" \in trial.flaws /\ scenario = "SG-06" => k # "SG06_MUTATION"
  BY DEF Trusted
<1>5. /\ Insufficient # Undecided /\ Insufficient.result \notin Verdicts
      /\ Mismatch # Undecided /\ Mismatch.result \notin Verdicts
      /\ v # Undecided
  BY <1>2, UnverifiedResults, MismatchResult, OutcomeResults DEF Insufficient
<1>6. Judge(k, offer, trial) = IF scenario = "SG-04" THEN Judge04(k, offer, v)
                               ELSE IF scenario = "SG-05" THEN Judge05(k, offer, v)
                               ELSE Judge06(k, offer, v)
  BY DEF Judge
<1> HIDE DEF v
<1>7. CASE k = "SG04"
  <2>1. Judge(k, offer, trial) = CustomerVerdict(offer, v) /\ scenario = "SG-04"
    BY <1>1, <1>6, <1>7 DEF Judge04, CatalogKeys
  <2> QED
    BY <1>1, <1>2, <1>3, <1>4, <1>7, <2>1, CustomerVerdicts
    DEF JudgedAs, Given, Observed, OwnCapability, OwnMutation, v
<1>8. CASE k = "SG04_STATE"
  <2>1. Judge(k, offer, trial) = IF ~MutationCapability(offer) THEN Insufficient
                                 ELSE IF ~subject.pair THEN Mismatch ELSE v
    BY <1>1, <1>2, <1>6, <1>8 DEF Judge04, CatalogKeys
  <2> QED
    BY <1>2, <1>3, <1>5, <1>8, <2>1
    DEF JudgedAs, Given, Observed, OwnCapability, OwnMutation, MutationCapability, v
<1>9. CASE k \in {"SG05_MUTATION", "SG06_MUTATION"}
  <2>1. Judge(k, offer, trial) = IF MutationCapability(offer) THEN v ELSE Insufficient
    BY <1>1, <1>6, <1>9 DEF Judge05, Judge06, CatalogKeys
  <2>2. "foreign_mutation" \notin trial.flaws
    BY <1>1, <1>4, <1>9 DEF CatalogKeys
  <2> QED
    BY <1>2, <1>3, <1>5, <1>9, <2>1, <2>2
    DEF JudgedAs, Given, Observed, OwnCapability, OwnMutation, MutationCapability, v
<1>10. CASE k \in {"SG05", "SG06"}
  <2>1. Judge(k, offer, trial) = IF ~subject.control THEN Insufficient ELSE CustomerVerdict(offer, v)
    BY <1>1, <1>2, <1>6, <1>10 DEF Judge05, Judge06, CatalogKeys
  <2>2. subject.control => "foreign_customer" \notin trial.flaws
    BY <1>1, <1>4, <1>10 DEF CatalogKeys
  <2> QED
    BY <1>2, <1>3, <1>5, <1>10, <2>1, <2>2, CustomerVerdicts
    DEF JudgedAs, Given, Observed, OwnCapability, OwnMutation, v
<1>11. k \in {"SG04", "SG04_STATE", "SG05_MUTATION", "SG06_MUTATION", "SG05", "SG06"}
  BY <1>1 DEF CatalogKeys
<1> QED
  BY <1>3, <1>7, <1>8, <1>9, <1>10, <1>11

LEMMA Judged ==
  ASSUME ExecutionInv, pc = "judge", Trusted, NEW k \in Open
  PROVE  JudgedAs(k, Judge(k, offer, trial)) /\ offer.common
<1>1. scenario \in Scenarios
  BY DEF ExecutionInv, InstanceInv
<1> QED
  BY <1>1, SingleJudged, CaptureJudged, PairJudged DEF Scenarios

LEMMA JudgeTranscriptStep == ASSUME ExecutionInv, JudgeTranscript PROVE ExecutionInv'
<1> DEFINE reason == FirstReason(Trust(offer, trial))
           decided == [k \in keys |-> IF k \in Open THEN Judge(k, offer, trial) ELSE results[k]]
<1>1. /\ pc = "judge" /\ pc \in Executing
      /\ UNCHANGED <<files, scenario, subject, moved, fresh, loaded, openRuntime, openSource, session,
                     offer, trial>>
      /\ reason # "none" => Withhold(reason)
      /\ reason = "none" => Decide(decided, "lost")
  BY DEF JudgeTranscript, Executing
<1>2. /\ session \in {"none", "closed"} /\ fresh = Expected /\ openSource = Expected
      /\ openRuntime = loaded /\ loaded \in {"managed", "managed_other"}
  BY <1>1 DEF ExecutionInv, HoldInv, ReadInv, Executing, Compared
<1>3. /\ reason = "none" => Trusted
      /\ scenario \in {"SG-04", "SG-05", "SG-06"} /\ trial.answered = 2 /\ trial.flaws = {} => reason = "none"
  BY <1>1, TrustIsGiven
<1>4. keys = KeysOf(scenario, InstanceAt(fresh)) /\ \A k \in keys : Preliminary(subject, k, results[k])
  BY <1>1, Executed
<1>5. DOMAIN trial.outcome = Open
  BY <1>1, TrialFacts
<1>6. DOMAIN decided = keys
      /\ \A k \in keys : decided[k] = IF k \in Open THEN Judge(k, offer, trial) ELSE results[k]
  OBVIOUS
<1> HIDE DEF reason, decided
<1>7. ASSUME pc' = "returned", keys' = keys, Promises' PROVE ExecutionInv'
  BY <1>1, <1>2, <1>7
  DEF ExecutionInv, InstanceInv, ReadInv, DecisionInv, HoldInv, TrialInv, Executing, Compared,
      Unopened, Places, files
<1>8. KeysOf(scenario, InstanceAt(fresh))' = KeysOf(scenario, InstanceAt(fresh))
  BY <1>1 DEF KeysOf, InstanceAt
<1>9. CASE reason # "none"
  <2>1. pc' = "returned" /\ keys' = keys
        /\ \A k \in keys' : results'[k].result \notin Verdicts /\ results'[k] # Undecided
    BY <1>1, <1>9, Withheld
  <2>2. AssertionsAreIndependent'
    BY <1>1, <1>3, <1>9 DEF AssertionsAreIndependent
  <2>3. Promises'
    BY <1>1, <1>2, <1>4, <1>8, <2>1, <2>2, WithoutVerdict
  <2> QED
    BY <1>7, <2>1, <2>3
<1>10. CASE reason = "none"
  <2>1. Trusted /\ Decide(decided, "lost")
    BY <1>1, <1>3, <1>10
  <2>2. \A k \in Open : JudgedAs(k, decided[k]) /\ offer.common /\ k \in keys
    BY <1>1, <1>6, <2>1, Judged DEF Open
  <2>3. \A k \in keys \ Open : decided[k] # Undecided /\ decided[k].result \notin Verdicts
    BY <1>4, <1>6 DEF Preliminary, Open
  <2>4. \A k \in keys : decided[k] # Undecided
    BY <2>2, <2>3 DEF JudgedAs
  <2>5. pc' = "returned" /\ keys' = keys /\ results' = decided
    BY <1>6, <2>1, <2>4 DEF Decide
  <2>6. VerdictIsEarned'
    <3> SUFFICES ASSUME NEW k \in keys, decided[k].result \in Verdicts
                 PROVE  Earned(k)'
      BY <2>5 DEF VerdictIsEarned
    <3>1. k \in Open /\ decided[k] = trial.outcome[k] /\ Given(k) /\ offer.common
      BY <2>2, <2>3 DEF JudgedAs
    <3>2. subject.states[k] = "APPLICABLE"
      BY <1>1, <3>1, JudgedKeys
    <3>3. trial.flaws \subseteq {"foreign_customer", "foreign_mutation"}
      BY <1>1, <2>1, TrialFacts DEF Trusted, Flaws
    <3> QED
      BY <1>1, <1>2, <2>5, <3>1, <3>2, <3>3 DEF Earned, Given
  <2>7. AssertionsAreIndependent'
    <3>1. \A k \in Open : Observed(k)' <=> Observed(k)
      BY <1>1 DEF Observed, OwnCapability
    <3> QED
      BY <1>1, <1>5, <2>2, <2>5, <3>1 DEF AssertionsAreIndependent, JudgedAs, Observed, OwnCapability
  <2>8. Promises'
    BY <1>1, <1>2, <1>4, <1>8, <2>4, <2>5, <2>6, <2>7
    DEF Promises, EverySessionIsClosed, EveryAssertionIsAnswered
  <2> QED
    BY <1>7, <2>5, <2>8
<1> QED
  BY <1>9, <1>10

LEMMA ExecutionStutter == ASSUME ExecutionInv, UNCHANGED execVars PROVE ExecutionInv'
<1>1. UNCHANGED <<source, runtime, edits, pc, scenario, subject, moved, fresh, loaded, openRuntime,
                  openSource, session, offer, trial, keys, results>>
  BY DEF execVars, files
<1>2. Open' = Open
  BY <1>1 DEF Open
<1>3. RequestCount' = RequestCount /\ (Capable(offer)' <=> Capable(offer))
  BY <1>1, <1>2 DEF RequestCount, Capable
<1>4. Trials(IF Capable(offer) THEN RequestCount ELSE 0, Open)'
        = Trials(IF Capable(offer) THEN RequestCount ELSE 0, Open)
  BY <1>1, <1>2, <1>3 DEF Trials
<1>5. TrialInv'
  BY <1>1, <1>4 DEF ExecutionInv, TrialInv
<1>6. Promises'
  BY <1>1
  DEF ExecutionInv, Promises, VerdictIsEarned, Earned, EverySessionIsClosed, EveryAssertionIsAnswered,
      AssertionsAreIndependent, OwnCapability, InstanceAt, KeysOf
<1> QED
  BY <1>1, <1>2, <1>5, <1>6 DEF ExecutionInv, InstanceInv, ReadInv, DecisionInv, HoldInv

LEMMA ExecutionSteps == ASSUME ExecutionInv, [ExecutionNext]_execVars PROVE ExecutionInv'
<1>1. CASE ExecutionStep
  BY <1>1, AnalyseFirstStep, LoadConfigStep, OpenStep, OpenFailsStep, CompareReopenedStep,
     CloseRaisesStep, AssessCapabilityStep, DispatchStep, JudgeTranscriptStep, ReadRaisesStep
  DEF ExecutionStep
<1> QED
  BY <1>1, EditStep, ExecutionStutter DEF ExecutionNext

(* An execution begins with an instance as an analysis found it, or with    *)
(* one that is no longer there.                                             *)
LEMMA ExecutionBegins ==
  ASSUME NEW x \in Instances, NEW y \in {x, None}, NEW m \in {x, None},
         source \in {0, 1}, runtime \in Runtimes, Begin(x.scenario, y, m)
  PROVE  ExecutionInv
<1>1. x.scenario \in Scenarios
  BY KeysOfInstance
<1>2. pc = "preflight" /\ scenario = x.scenario /\ subject = y /\ moved = m /\ session = "none"
      /\ trial = NoTrial
  BY DEF Begin
<1>3. Promises
  BY <1>2
  DEF Promises, VerdictIsEarned, EverySessionIsClosed, EveryAssertionIsAnswered, AssertionsAreIndependent
<1> QED
  BY <1>1, <1>2, <1>3
  DEF ExecutionInv, InstanceInv, ReadInv, DecisionInv, HoldInv, TrialInv, Executing, Compared,
      Unopened, Places

LEMMA ExecutionStarts == ASSUME ExecutionInit PROVE ExecutionInv
<1>1. PICK x \in Instances : \E y, m \in {x, None} : Begin(x.scenario, y, m)
  BY DEF ExecutionInit
<1>2. PICK y \in {x, None}, m \in {x, None} : Begin(x.scenario, y, m)
  BY <1>1
<1>3. source \in {0, 1} /\ runtime \in Runtimes
  BY DEF ExecutionInit, Expected, Runtimes
<1> QED
  BY <1>2, <1>3, ExecutionBegins

LEMMA ExecutionInvariant == ExecutionSpec => []ExecutionInv
<1>1. ExecutionInit => ExecutionInv
  BY ExecutionStarts
<1>2. ExecutionInv /\ [ExecutionNext]_execVars => ExecutionInv'
  BY ExecutionSteps
<1> QED
  BY <1>1, <1>2, PTL DEF ExecutionSpec

(* A verdict is earned, whatever the instance and however often the files   *)
(* are edited: of the source and the configuration the execution read, from *)
(* requests that were all answered and observations that bear it.           *)
THEOREM VerdictsAreEarned == ExecutionSpec => []VerdictIsEarned
<1>1. ExecutionInv => VerdictIsEarned
  BY DEF ExecutionInv, Promises
<1> QED
  BY <1>1, ExecutionInvariant, PTL

(* No session outlives its execution, on any path.                          *)
THEOREM SessionsAreClosed == ExecutionSpec => []EverySessionIsClosed
<1>1. ExecutionInv => EverySessionIsClosed
  BY DEF ExecutionInv, Promises
<1> QED
  BY <1>1, ExecutionInvariant, PTL

(* Every assertion has its result, and no lookup fails, for every instance  *)
(* that the engine makes.                                                   *)
THEOREM AssertionsAreAnswered == ExecutionSpec => []EveryAssertionIsAnswered
<1>1. ExecutionInv => EveryAssertionIsAnswered
  BY DEF ExecutionInv, Promises
<1> QED
  BY <1>1, ExecutionInvariant, PTL

(* The assertions of a pair do not withhold each other's verdicts.          *)
THEOREM PairsAreIndependent == ExecutionSpec => []AssertionsAreIndependent
<1>1. ExecutionInv => AssertionsAreIndependent
  BY DEF ExecutionInv, Promises
<1> QED
  BY <1>1, ExecutionInvariant, PTL

-----------------------------------------------------------------------------
(* What is on the disk for sure after each step of the writer: a run that   *)
(* has its name is whole, and so is its entry in the directory.             *)
ArtifactInv ==
  /\ final \in {"none", "whole"}
  /\ writer \in {"reload", "rename"} => staging = "whole" /\ "file" \in synced
  /\ writer = "rename" => "entry" \in synced
  /\ writer \in {"idle", "create", "write", "reload", "rename"} => final = "none"
  /\ writer \in {"verify", "written"} => "name" \in synced
  /\ final = "whole" => "file" \in synced /\ "entry" \in synced
  /\ reported => final = "whole" /\ "name" \in synced

LEMMA ArtifactStarts == ASSUME ArtifactInit PROVE ArtifactInv
BY DEF ArtifactInit, ArtifactInv

LEMMA ArtifactStutter == ASSUME ArtifactInv, UNCHANGED artifactVars PROVE ArtifactInv'
BY DEF ArtifactInv, artifactVars

LEMMA PowerLossStep == ASSUME ArtifactInv, PowerLoss PROVE ArtifactInv'
<1>1. PICK c \in AfterPowerLoss(IF final = "none" THEN staging ELSE final) :
        \/ final # "none" /\ final' = c /\ staging' = "none"
        \/ (final = "none" \/ "name" \notin synced) /\ staging' = c /\ final' = "none"
  BY DEF PowerLoss
<1>2. writer' = "down" /\ UNCHANGED <<synced, reported>>
  BY DEF PowerLoss
<1>3. final = "whole" => c = "whole"
  BY <1>1 DEF AfterPowerLoss, ArtifactInv
<1> QED
  BY <1>1, <1>2, <1>3 DEF ArtifactInv

LEMMA ArtifactSteps == ASSUME ArtifactInv, WriteStep PROVE ArtifactInv'
<1>1. CASE MakeStaging \/ CreateFile \/ WriteFile
  BY <1>1 DEF ArtifactInv, MakeStaging, CreateFile, WriteFile
<1>2. CASE ReloadStaged \/ Rename
  BY <1>2 DEF ArtifactInv, ReloadStaged, Rename
<1>3. CASE SyncRuns \/ VerifyPublished
  BY <1>3 DEF ArtifactInv, SyncRuns, VerifyPublished
<1>4. CASE WriteFails \/ Killed
  BY <1>4 DEF ArtifactInv, WriteFails, Killed
<1> QED
  BY <1>1, <1>2, <1>3, <1>4, PowerLossStep DEF WriteStep

LEMMA HistoryIsReadable == ASSUME ArtifactInv PROVE HistoryStaysReadable
BY DEF ArtifactInv, HistoryStaysReadable, ListVerificationRuns
-----------------------------------------------------------------------------
(* Where a run has read its configuration and has not been aborted, and     *)
(* where no execution of it goes on.                                        *)
Running == {"analyse", "next", "execute", "final", "validate", "build", "publish"}
Between == {"load", "analyse", "next", "final", "validate", "build", "publish"}

PlaceInv ==
  /\ rpc \in Running \cup {"load", "alone", "aborted"}
  /\ rpc \in Between => pc = "idle"
  /\ rpc = "load" => loaded = "none" /\ openRuntime = "none" /\ collected = {}
  /\ catalog \in Seq(Instances) /\ queue \in Seq(Instances)
  /\ edits \in Nat
  /\ runConfig \in Runtimes \/ rpc \in {"load", "alone", "aborted"}

(* A run writes nothing before its results have been compared.              *)
BuiltInv ==
  /\ final # "none" => rpc = "publish"
  /\ rpc \in {"build", "publish"} => finalRuntime = runConfig
  /\ rpc = "publish" =>
       /\ {<<r.instance, r.key>> : r \in collected} = AssertionsOf(catalog)
       /\ \A r \in collected : r.authority = Expected

(* The results of an instance are collected once, after those of the        *)
(* instances before it.                                                     *)
CollectInv ==
  /\ \A r \in collected :
       /\ r.instance \in Int /\ r.instance <= Len(catalog) - Len(queue)
       /\ rpc = "execute" => r.instance < Len(catalog) - Len(queue)
       /\ r.result \in Verdicts =>
            r.source = Expected /\ r.runtime \in {"managed", "managed_other"}
  /\ \A r, s \in collected : r.instance = s.instance /\ r.key = s.key => r = s

(* While the files were edited at most once, whatever was read of the       *)
(* configuration is what the run has read first, or is there to be read at  *)
(* the end, and was read.                                                   *)
Kept(v) == v \in {"none", runConfig} \/ (edits = 1 /\ runtime = v)

DriftInv ==
  /\ edits = 0 /\ rpc \in Running => runtime = runConfig
  /\ edits < 2 /\ rpc \in Running =>
       /\ Kept(loaded) /\ Kept(openRuntime)
       /\ \A r \in collected : r.result \in Verdicts => Kept(r.runtime)
  /\ edits < 2 /\ rpc \in {"validate", "build", "publish"} =>
       /\ finalRuntime \in Runtimes
       /\ \A r \in collected : r.result \in Verdicts => r.runtime \in {"none", runConfig, finalRuntime}

RunInv == PlaceInv /\ BuiltInv /\ CollectInv /\ DriftInv
Inv == ExecutionInv /\ ArtifactInv /\ RunInv
-----------------------------------------------------------------------------
(* An execution leaves the files alone, and reads nothing of the            *)
(* configuration but what is there.                                         *)
LEMMA ExecutionReads ==
  ASSUME ExecutionStep
  PROVE  UNCHANGED files /\ loaded' \in {loaded, runtime} /\ openRuntime' \in {openRuntime, runtime}
<1>1. CASE AnalyseFirst \/ LoadConfig
  BY <1>1 DEF AnalyseFirst, LoadConfig
<1>2. CASE OpenLoad \/ OpenAnalyse \/ OpenSession \/ OpenFails
  BY <1>2 DEF OpenLoad, OpenAnalyse, OpenSession, OpenFails
<1>3. CASE CompareReopened \/ CloseRaises \/ AssessCapability
  BY <1>3 DEF CompareReopened, CloseRaises, AssessCapability
<1>4. CASE DispatchManagedSequence \/ JudgeTranscript \/ ReadRaises
  BY <1>4 DEF DispatchManagedSequence, JudgeTranscript, ReadRaises
<1> QED
  BY <1>1, <1>2, <1>3, <1>4 DEF ExecutionStep

(* A step of the execution, within a run or alone.                          *)
LEMMA ExecuteStep == ASSUME Inv, Execute PROVE Inv'
<1>1. rpc = "execute" /\ ExecutionStep /\ UNCHANGED <<artifactVars, runVars>>
  BY DEF Execute
<1>2. ExecutionInv'
  BY <1>1, ExecutionSteps DEF Inv, ExecutionNext
<1>3. ArtifactInv' /\ UNCHANGED final
  BY <1>1, ArtifactStutter DEF Inv, artifactVars
<1>4. UNCHANGED <<source, runtime, edits>> /\ loaded' \in {loaded, runtime} /\ openRuntime' \in {openRuntime, runtime}
  BY <1>1, ExecutionReads DEF files
<1>5. UNCHANGED <<rpc, queue, catalog, runConfig, finalRuntime, collected>>
  BY <1>1 DEF runVars
<1>6. PlaceInv' /\ BuiltInv' /\ CollectInv'
  BY <1>1, <1>3, <1>4, <1>5 DEF Inv, RunInv, PlaceInv, BuiltInv, CollectInv, Between, Running
<1>7. DriftInv'
  BY <1>1, <1>4, <1>5 DEF Inv, RunInv, PlaceInv, DriftInv, Kept, Running
<1> QED
  BY <1>2, <1>3, <1>6, <1>7 DEF Inv, RunInv

LEMMA AloneStep == ASSUME Inv, Alone PROVE Inv'
<1>1. rpc = "alone" /\ ExecutionNext /\ UNCHANGED <<artifactVars, runVars>>
  BY DEF Alone
<1>2. ExecutionInv'
  BY <1>1, ExecutionSteps DEF Inv
<1>3. ArtifactInv' /\ UNCHANGED final
  BY <1>1, ArtifactStutter DEF Inv, artifactVars
<1>4. edits' \in Nat
  <2>1. CASE ExecutionStep
    BY <2>1, ExecutionReads DEF files, Inv, RunInv, PlaceInv
  <2>2. CASE Edit
    BY <2>2 DEF Edit, Inv, RunInv, PlaceInv
  <2> QED
    BY <1>1, <2>1, <2>2 DEF ExecutionNext
<1>5. UNCHANGED <<rpc, queue, catalog, runConfig, finalRuntime, collected>>
  BY <1>1 DEF runVars
<1> QED
  BY <1>1, <1>2, <1>3, <1>4, <1>5
  DEF Inv, RunInv, PlaceInv, BuiltInv, CollectInv, DriftInv, Between, Running

(* An edit, between the executions or during one.                           *)
LEMMA EditedRun ==
  ASSUME Inv, edits' = edits + 1, rpc \notin {"alone", "aborted", "publish"},
         UNCHANGED <<pc, loaded, openRuntime, artifactVars, runVars>>, ExecutionInv'
  PROVE  Inv'
<1>1. ArtifactInv' /\ UNCHANGED final
  BY ArtifactStutter DEF Inv, artifactVars
<1>2. UNCHANGED <<rpc, queue, catalog, runConfig, finalRuntime, collected>>
  BY DEF runVars
<1>3. PlaceInv' /\ BuiltInv' /\ CollectInv'
  BY <1>1, <1>2 DEF Inv, RunInv, PlaceInv, BuiltInv, CollectInv
<1>4. DriftInv'
  <2>1. edits \in Nat
    BY DEF Inv, RunInv, PlaceInv
  <2>2. edits' < 2 => edits = 0
    BY <2>1
  <2>3. (edits' # 0 /\ edits # 1) \/ edits = 1
    BY <2>1
  <2> QED
    BY <1>2, <2>1, <2>2, <2>3 DEF Inv, RunInv, DriftInv, Kept
<1> QED
  BY <1>1, <1>3, <1>4 DEF Inv, RunInv

LEMMA EditDuringStep == ASSUME Inv, EditDuring PROVE Inv'
<1>1. rpc = "execute" /\ Edit /\ UNCHANGED <<artifactVars, runVars>>
  BY DEF EditDuring
<1>2. ExecutionInv'
  BY <1>1, EditStep DEF Inv
<1>3. edits' = edits + 1 /\ UNCHANGED <<pc, loaded, openRuntime>>
  BY <1>1 DEF Edit
<1> QED
  BY <1>1, <1>2, <1>3, EditedRun

LEMMA EditBetweenStep == ASSUME Inv, EditBetween PROVE Inv'
<1>1. /\ rpc \in Between \ {"publish"} /\ pc = "idle"
      /\ edits' = edits + 1 /\ source' \in {0, 1} /\ runtime' \in Runtimes
      /\ UNCHANGED <<pc, scenario, subject, moved, fresh, loaded, openRuntime, openSource, session,
                     offer, trial, keys, results>>
      /\ UNCHANGED <<artifactVars, runVars>>
  BY DEF EditBetween, Between, Inv, RunInv, PlaceInv, ExecutionInv, ReadInv, Runtimes
<1>2. Promises'
  BY <1>1, NotEnded DEF Places
<1>3. ExecutionInv'
  BY <1>1, <1>2
  DEF Inv, ExecutionInv, InstanceInv, ReadInv, DecisionInv, HoldInv, TrialInv, Executing, Compared,
      Unopened, Places
<1> QED
  BY <1>1, <1>3, EditedRun DEF Between
-----------------------------------------------------------------------------
(* A step of the run between its executions.                                *)
LEMMA LoadInitialStep == ASSUME Inv, LoadInitial PROVE Inv'
<1>1. /\ rpc = "load" /\ rpc' = "analyse" /\ runConfig' = runtime
      /\ UNCHANGED <<execVars, artifactVars, queue, catalog, finalRuntime, collected>>
  BY DEF LoadInitial
<1>2. ExecutionInv' /\ ArtifactInv'
  BY <1>1, ExecutionStutter, ArtifactStutter DEF Inv
<1>3. UNCHANGED <<final, pc, runtime, edits, loaded, openRuntime>>
  BY <1>1 DEF artifactVars, execVars, files
<1>4. runtime \in Runtimes
  BY DEF Inv, ExecutionInv, ReadInv
<1>5. PlaceInv' /\ BuiltInv' /\ CollectInv'
  BY <1>1, <1>3, <1>4 DEF Inv, RunInv, PlaceInv, BuiltInv, CollectInv, Between, Running
<1>6. DriftInv'
  BY <1>1, <1>3 DEF Inv, RunInv, PlaceInv, DriftInv, Kept, Running
<1> QED
  BY <1>2, <1>5, <1>6 DEF Inv, RunInv

LEMMA AnalyseInitialStep == ASSUME Inv, AnalyseInitial PROVE Inv'
<1>1. /\ rpc = "analyse" /\ rpc' = "next"
      /\ UNCHANGED <<execVars, artifactVars, queue, catalog, runConfig, finalRuntime, collected>>
  BY DEF AnalyseInitial
<1>2. ExecutionInv' /\ ArtifactInv'
  BY <1>1, ExecutionStutter, ArtifactStutter DEF Inv
<1>3. UNCHANGED <<final, pc, runtime, edits, loaded, openRuntime>>
  BY <1>1 DEF artifactVars, execVars, files
<1>4. PlaceInv' /\ BuiltInv' /\ CollectInv' /\ DriftInv'
  BY <1>1, <1>3 DEF Inv, RunInv, PlaceInv, BuiltInv, CollectInv, DriftInv, Kept, Between, Running
<1> QED
  BY <1>2, <1>4 DEF Inv, RunInv

LEMMA NextInstanceStep == ASSUME Inv, NextInstance PROVE Inv'
<1>1. /\ rpc = "next" /\ rpc' = "execute" /\ queue # <<>> /\ queue' = Tail(queue)
      /\ UNCHANGED <<files, artifactVars, catalog, runConfig, finalRuntime, collected>>
  BY DEF NextInstance
<1>2. PICK m \in {Head(queue), None} : StartExecution(Head(queue), m)
  BY DEF NextInstance
<1>3. queue \in Seq(Instances) /\ catalog \in Seq(Instances)
  BY DEF Inv, RunInv, PlaceInv
<1>4. Head(queue) \in Instances /\ Tail(queue) \in Seq(Instances) /\ Len(Tail(queue)) = Len(queue) - 1
      /\ Len(queue) \in Nat /\ Len(catalog) \in Nat
  BY <1>1, <1>3
<1>5. /\ pc' = "preflight" /\ scenario' = Head(queue).scenario /\ subject' = Head(queue) /\ moved' = m
      /\ fresh' = Expected /\ loaded' = "none" /\ openRuntime' = "none"
      /\ session' = "none" /\ trial' = NoTrial
  BY <1>2 DEF StartExecution
<1>6. ExecutionInv'
  <2>1. Head(queue).scenario \in Scenarios
    BY <1>4, KeysOfInstance
  <2>2. Promises'
    BY <1>5, NotEnded DEF Places
  <2> QED
    BY <1>1, <1>4, <1>5, <2>1, <2>2
    DEF Inv, ExecutionInv, InstanceInv, ReadInv, DecisionInv, HoldInv, TrialInv, Executing, Compared,
        Unopened, Places, files
<1>7. ArtifactInv' /\ UNCHANGED <<final, runtime, edits>>
  BY <1>1, ArtifactStutter DEF Inv, artifactVars, files
<1>8. PlaceInv' /\ BuiltInv'
  BY <1>1, <1>3, <1>4, <1>7 DEF Inv, RunInv, PlaceInv, BuiltInv, Between, Running
<1>9. CollectInv'
  BY <1>1, <1>4 DEF Inv, RunInv, CollectInv
<1>10. DriftInv'
  BY <1>1, <1>5, <1>7 DEF Inv, RunInv, DriftInv, Kept, Running
<1> QED
  BY <1>6, <1>7, <1>8, <1>9, <1>10 DEF Inv, RunInv

(* What an execution leaves behind: results that are earned.                *)
LEMMA CollectStep == ASSUME Inv, Collect PROVE Inv'
<1> DEFINE at == Len(catalog) - Len(queue)
           Result(k) == [instance |-> at, key |-> k, result |-> results[k].result, authority |-> fresh,
                         source |-> openSource, runtime |-> openRuntime]
<1>1. /\ rpc = "execute" /\ pc = "returned" /\ pc' = "idle" /\ rpc' \in {"final", "next"}
      /\ collected' = collected \cup {Result(k) : k \in keys}
      /\ trial' = NoTrial /\ session' = "none"
      /\ UNCHANGED <<files, scenario, subject, moved, loaded, openRuntime,
                     artifactVars, queue, catalog, runConfig, finalRuntime>>
  BY DEF Collect
<1>2. at \in Int
  BY DEF Inv, RunInv, PlaceInv
<1>3. \A k \in keys : /\ Result(k).instance = at /\ Result(k).key = k
                      /\ Result(k).result = results[k].result
                      /\ Result(k).source = openSource /\ Result(k).runtime = openRuntime
  OBVIOUS
<1>4. \A k \in keys : results[k].result \in Verdicts =>
        openSource = Expected /\ openRuntime \in {"managed", "managed_other"}
  BY <1>1 DEF Inv, ExecutionInv, Promises, VerdictIsEarned, Earned
<1>5. \A r \in collected : r.instance \in Int /\ r.instance < at
  BY <1>1 DEF Inv, RunInv, CollectInv
<1>6. at' = at
  BY <1>1
<1> HIDE DEF at, Result
<1>7. ExecutionInv'
  <2>1. Promises'
    BY <1>1, NotEnded DEF Places
  <2> QED
    BY <1>1, <2>1
    DEF Inv, ExecutionInv, InstanceInv, ReadInv, DecisionInv, HoldInv, TrialInv, Executing, Compared,
        Unopened, Places, files
<1>8. ArtifactInv' /\ UNCHANGED <<final, runtime, edits>>
  BY <1>1, ArtifactStutter DEF Inv, artifactVars, files
<1>9. PlaceInv' /\ BuiltInv'
  BY <1>1, <1>8 DEF Inv, RunInv, PlaceInv, BuiltInv, Between, Running
<1>10. CollectInv'
  <2>1. \A r \in collected' :
          /\ r.instance \in Int /\ r.instance <= at'
          /\ r.result \in Verdicts => r.source = Expected /\ r.runtime \in {"managed", "managed_other"}
    BY <1>1, <1>2, <1>3, <1>4, <1>5, <1>6 DEF Inv, RunInv, CollectInv
  <2>2. ASSUME NEW r \in collected', NEW s \in collected', r.instance = s.instance, r.key = s.key
        PROVE  r = s
    <3>1. CASE r \in collected /\ s \in collected
      BY <2>2, <3>1 DEF Inv, RunInv, CollectInv
    <3>2. CASE r \notin collected /\ s \notin collected
      BY <1>1, <1>3, <2>2, <3>2
    <3>3. CASE r \in collected /\ s \notin collected
      BY <1>1, <1>2, <1>3, <1>5, <2>2, <3>3
    <3>4. CASE r \notin collected /\ s \in collected
      BY <1>1, <1>2, <1>3, <1>5, <2>2, <3>4
    <3> QED
      BY <3>1, <3>2, <3>3, <3>4
  <2> QED
    BY <1>1, <2>1, <2>2 DEF CollectInv, at
<1>11. DriftInv'
  BY <1>1, <1>3, <1>8 DEF Inv, RunInv, DriftInv, Kept, Running
<1> QED
  BY <1>7, <1>8, <1>9, <1>10, <1>11 DEF Inv, RunInv

LEMMA FinalLoadStep == ASSUME Inv, FinalLoad PROVE Inv'
<1>1. /\ rpc = "final" /\ rpc' = "validate" /\ finalRuntime' = runtime
      /\ UNCHANGED <<execVars, artifactVars, queue, catalog, runConfig, collected>>
  BY DEF FinalLoad
<1>2. ExecutionInv' /\ ArtifactInv'
  BY <1>1, ExecutionStutter, ArtifactStutter DEF Inv
<1>3. UNCHANGED <<final, pc, runtime, edits, loaded, openRuntime>>
  BY <1>1 DEF artifactVars, execVars, files
<1>4. runtime \in Runtimes
  BY DEF Inv, ExecutionInv, ReadInv
<1>5. PlaceInv' /\ BuiltInv' /\ CollectInv'
  BY <1>1, <1>3 DEF Inv, RunInv, PlaceInv, BuiltInv, CollectInv, Between, Running
<1>6. DriftInv'
  BY <1>1, <1>3, <1>4 DEF Inv, RunInv, DriftInv, Kept, Running
<1> QED
  BY <1>2, <1>5, <1>6 DEF Inv, RunInv

(* A step that only goes on, or ends the run.                               *)
LEMMA RunGoesOn ==
  ASSUME Inv, UNCHANGED <<execVars, artifactVars, queue, catalog, runConfig, finalRuntime, collected>>,
         rpc \notin {"alone", "publish"},
         \/ rpc' = "aborted"
         \/ rpc = "validate" /\ rpc' = "build" /\ finalRuntime = runConfig
         \/ /\ rpc = "build" /\ rpc' = "publish"
            /\ {<<r.instance, r.key>> : r \in collected} = AssertionsOf(catalog)
            /\ \A r \in collected : r.authority = Expected
  PROVE  Inv'
<1>1. ExecutionInv' /\ ArtifactInv'
  BY ExecutionStutter, ArtifactStutter DEF Inv
<1>2. UNCHANGED <<final, pc, runtime, edits, loaded, openRuntime>>
  BY DEF artifactVars, execVars, files
<1>3. PlaceInv' /\ CollectInv' /\ DriftInv'
  BY <1>2 DEF Inv, RunInv, PlaceInv, CollectInv, DriftInv, Kept, Between, Running
<1>4. BuiltInv'
  BY <1>2 DEF Inv, RunInv, BuiltInv
<1> QED
  BY <1>1, <1>3, <1>4 DEF Inv, RunInv

LEMMA ValidateStep == ASSUME Inv, ValidateUnchangedAuthority PROVE Inv'
BY RunGoesOn DEF ValidateUnchangedAuthority

LEMMA RunRaisesStep == ASSUME Inv, RunRaises PROVE Inv'
BY RunGoesOn DEF RunRaises

LEMMA BuildStep == ASSUME Inv, BuildVerificationRun PROVE Inv'
BY RunGoesOn DEF BuildVerificationRun

LEMMA PublishStep == ASSUME Inv, Publish PROVE Inv'
<1>1. rpc = "publish" /\ WriteStep /\ UNCHANGED <<execVars, runVars>>
  BY DEF Publish
<1>2. ExecutionInv' /\ ArtifactInv'
  BY <1>1, ExecutionStutter, ArtifactSteps DEF Inv
<1>3. UNCHANGED <<rpc, queue, catalog, runConfig, finalRuntime, collected>>
      /\ UNCHANGED <<pc, runtime, edits, loaded, openRuntime>>
  BY <1>1 DEF runVars, execVars, files
<1> QED
  BY <1>1, <1>2, <1>3 DEF Inv, RunInv, PlaceInv, BuiltInv, CollectInv, DriftInv, Kept, Between, Running

LEMMA RunStutter == ASSUME Inv, UNCHANGED allVars PROVE Inv'
<1>1. UNCHANGED <<execVars, artifactVars, runVars>>
  BY DEF allVars
<1>2. ExecutionInv' /\ ArtifactInv'
  BY <1>1, ExecutionStutter, ArtifactStutter DEF Inv
<1>3. UNCHANGED <<rpc, queue, catalog, runConfig, finalRuntime, collected>>
      /\ UNCHANGED <<final, pc, runtime, edits, loaded, openRuntime>>
  BY <1>1 DEF runVars, artifactVars, execVars, files
<1> QED
  BY <1>2, <1>3 DEF Inv, RunInv, PlaceInv, BuiltInv, CollectInv, DriftInv, Kept

LEMMA RunSteps == ASSUME Inv, [Next]_allVars PROVE Inv'
<1>1. CASE RunStep
  BY <1>1, LoadInitialStep, AnalyseInitialStep, NextInstanceStep, ExecuteStep, CollectStep,
     FinalLoadStep, ValidateStep, RunRaisesStep, BuildStep, PublishStep DEF RunStep
<1> QED
  BY <1>1, EditBetweenStep, EditDuringStep, AloneStep, RunStutter DEF Next

LEMMA RunStarts == ASSUME Init PROVE Inv
<1>1. ArtifactInv /\ final = "none"
  BY ArtifactStarts DEF Init, ArtifactInit
<1>2. CASE RunInit
  <2>1. PICK c \in Catalogs : catalog = c /\ queue = c
    BY <1>2 DEF RunInit
  <2>2. catalog \in Seq(Instances) /\ queue \in Seq(Instances)
    BY <2>1, CatalogsAssumption
  <2>3. /\ rpc = "load" /\ pc = "idle" /\ scenario = "SG-01" /\ subject = None /\ moved = None
        /\ loaded = "none" /\ openRuntime = "none" /\ session = "none" /\ trial = NoTrial
        /\ source \in {0, 1} /\ runtime \in Runtimes /\ edits = 0 /\ collected = {}
    BY <1>2 DEF RunInit, Idle, Expected, Runtimes
  <2>4. Promises
    BY <2>3
    DEF Promises, VerdictIsEarned, EverySessionIsClosed, EveryAssertionIsAnswered, AssertionsAreIndependent
  <2>5. ExecutionInv
    BY <2>3, <2>4
    DEF ExecutionInv, InstanceInv, ReadInv, DecisionInv, HoldInv, TrialInv, Executing, Compared,
        Unopened, Places, Scenarios
  <2> QED
    BY <1>1, <2>2, <2>3, <2>5
    DEF Inv, RunInv, PlaceInv, BuiltInv, CollectInv, DriftInv, Between, Running
<1>3. CASE AloneInit
  <2>1. ExecutionInv /\ edits = 0
    BY <1>3, ExecutionStarts DEF AloneInit, ExecutionInit
  <2>2. rpc = "alone" /\ queue = <<>> /\ catalog = <<>> /\ collected = {}
    BY <1>3 DEF AloneInit
  <2>3. <<>> \in Seq(Instances)
    OBVIOUS
  <2> QED
    BY <1>1, <2>1, <2>2, <2>3
    DEF Inv, RunInv, PlaceInv, BuiltInv, CollectInv, DriftInv, Between, Running
<1> QED
  BY <1>2, <1>3 DEF Init

LEMMA RunInvariant == Spec => []Inv
<1>1. Init => Inv
  BY RunStarts
<1>2. Inv /\ [Next]_allVars => Inv'
  BY RunSteps
<1> QED
  BY <1>1, <1>2, PTL DEF Spec
-----------------------------------------------------------------------------
(* The history can be listed whenever the writer or the machine goes down,  *)
(* and has the run whose path was returned.                                 *)
THEOREM HistoryIsSafe == Spec => []HistoryStaysReadable
<1>1. Inv => HistoryStaysReadable
  BY HistoryIsReadable DEF Inv
<1> QED
  BY <1>1, RunInvariant, PTL

(* A published run is of one source: it has one result for each assertion   *)
(* that its first analysis found, whatever was edited meanwhile.            *)
THEOREM PublishedRunsAreOfOneSource == Spec => []PublishedRunIsOfOneSource
<1>1. Inv => PublishedRunIsOfOneSource
  <2> SUFFICES ASSUME Inv, Published PROVE PublishedRunIsOfOneSource
    BY DEF PublishedRunIsOfOneSource
  <2>1. rpc = "publish"
    BY DEF Published, Inv, RunInv, BuiltInv
  <2> QED
    BY <2>1 DEF PublishedRunIsOfOneSource, VerdictsOf, Inv, RunInv, BuiltInv, CollectInv
<1> QED
  BY <1>1, RunInvariant, PTL

(* A run in which the configuration was edited once, before a verdict or    *)
(* after it, is not published with that verdict.                            *)
THEOREM DriftIsNotPublished == Spec => []DriftAborts
<1>1. Inv => DriftAborts
  <2> SUFFICES ASSUME Inv, Published PROVE DriftAborts
    BY DEF DriftAborts
  <2>1. rpc = "publish" /\ finalRuntime = runConfig
    BY DEF Published, Inv, RunInv, BuiltInv
  <2>2. ASSUME edits < 2, NEW r \in collected, r.result \in Verdicts PROVE r.runtime = runConfig
    <3>1. r.runtime \in {"managed", "managed_other"} /\ r.runtime \in {"none", runConfig, finalRuntime}
      BY <2>1, <2>2 DEF Inv, RunInv, CollectInv, DriftInv
    <3> QED
      BY <2>1, <3>1
  <2> QED
    BY <2>1, <2>2 DEF DriftAborts, VerdictsOf
<1> QED
  BY <1>1, RunInvariant, PTL

(* What an execution promises it promises within a run.                     *)
THEOREM RunsKeepThePromises ==
  Spec => [](VerdictIsEarned /\ EverySessionIsClosed /\ EveryAssertionIsAnswered /\ AssertionsAreIndependent)
<1>1. Inv => VerdictIsEarned /\ EverySessionIsClosed /\ EveryAssertionIsAnswered /\ AssertionsAreIndependent
  BY DEF Inv, ExecutionInv, Promises
<1> QED
  BY <1>1, RunInvariant, PTL
=============================================================================
