--------------------------- MODULE MCScenarioRun ---------------------------
(* Every plan that the eight scenarios send.                                *)
EXTENDS ScenarioRun
=============================================================================
