------------------------ MODULE MCObservationChannel ------------------------
(* The observation channel on small instances: two observations tell order *)
(* and loss apart.                                                         *)
EXTENDS ObservationChannel

CONSTANTS o1, o2
=============================================================================
