------------------------- MODULE ScenarioAssertions -------------------------
(***************************************************************************)
(* The scenarios and the keys of their assertions, which the applicability *)
(* engine gives a state and an execution a result.                         *)
(***************************************************************************)
Scenarios == {"SG-01", "SG-02", "SG-03", "SG-04", "SG-05", "SG-06", "SG-07", "SG-08"}

CatalogKeys(s) ==
  CASE s = "SG-01" -> {"SG01"} [] s = "SG-02" -> {"SG02"} [] s = "SG-03" -> {"SG03"}
    [] s = "SG-04" -> {"SG04", "SG04_STATE"}
    [] s = "SG-05" -> {"SG05", "SG05_MUTATION"} [] s = "SG-06" -> {"SG06", "SG06_MUTATION"}
    [] s = "SG-07" -> {"SG07"} [] s = "SG-08" -> {"SG08_LATE_POLICY"}

AssertionSets(s) ==
  CASE s = "SG-04" -> {{"SG04"}, CatalogKeys(s)}
    [] s = "SG-05" -> {{"SG05"}, CatalogKeys(s)}
    [] s = "SG-06" -> {{"SG06"}, CatalogKeys(s)}
    [] s = "SG-08" -> {CatalogKeys(s), {"SG08_PRECAPTURE"}, {"SG08_PRECAPTURE", "SG08_CAPTURE"}}
    [] OTHER -> {CatalogKeys(s)}

(* What the engine makes of an instance: one without a policy to choose by, *)
(* or without the second assertion of its pair, has nothing that can be     *)
(* executed.                                                                *)
StatesValid(s, states) ==
  /\ s \in Scenarios /\ DOMAIN states \in AssertionSets(s)
  /\ \A k \in DOMAIN states :
       /\ states[k] \in {"APPLICABLE", "NOT_APPLICABLE", "NEEDS_INPUT", "INDETERMINATE"}
       /\ states[k] = "APPLICABLE" =>
            /\ k # "SG08_LATE_POLICY"
            /\ s \in {"SG-04", "SG-05", "SG-06"} => DOMAIN states = CatalogKeys(s)

StatesOf(assertions) ==
  [k \in {a.key : a \in assertions} |-> (CHOOSE a \in assertions : a.key = k).judged.state]
=============================================================================
