-------------------------- MODULE SealedTranscript --------------------------
(***************************************************************************)
(* What an observation channel promises its reader: observations are      *)
(* recorded until the channel freezes, and the one transcript that is     *)
(* then published is either marked complete, and is exactly what was      *)
(* recorded, or is marked incomplete and promises nothing.                 *)
(*                                                                         *)
(* Module ObservationChannel implements it with a collector, a queue, a   *)
(* writer thread, a file and a status record in two processes.            *)
(***************************************************************************)
EXTENDS Sequences

CONSTANT Observations        \* what may be recorded

VARIABLES
  recorded,    \* the observations so far, in the order they were made
  seal,        \* "open", "frozen", "complete" or "incomplete"
  published    \* the transcript handed to the reader

svars == <<recorded, seal, published>>

SealInit ==
  /\ recorded = << >>
  /\ seal = "open"
  /\ published = << >>

(* An incomplete transcript may be published while recording goes on.       *)
Record(observation) ==
  /\ seal \in {"open", "incomplete"}
  /\ recorded' = Append(recorded, observation)
  /\ UNCHANGED <<seal, published>>

Freeze ==
  /\ seal = "open"
  /\ seal' = "frozen"
  /\ UNCHANGED <<recorded, published>>

PublishComplete ==
  /\ seal = "frozen"
  /\ seal' = "complete"
  /\ published' = recorded
  /\ UNCHANGED recorded

PublishIncomplete ==
  /\ seal \in {"open", "frozen"}
  /\ seal' = "incomplete"
  /\ published' \in Seq(Observations)
  /\ UNCHANGED recorded

SealNext ==
  \/ \E observation \in Observations : Record(observation)
  \/ Freeze
  \/ PublishComplete
  \/ PublishIncomplete

SealSpec == SealInit /\ [][SealNext]_svars
=============================================================================
