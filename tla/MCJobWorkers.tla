---------------------------- MODULE MCJobWorkers ----------------------------
(***************************************************************************)
(* Instances of JobWorkers for TLC.                                        *)
(***************************************************************************)
EXTENDS JobWorkers

\* defaultJobOptions of the three queues.
CodeAttempts ==
  [q \in Queues |-> IF q = "location-callback" THEN 3 ELSE 5]
=============================================================================
