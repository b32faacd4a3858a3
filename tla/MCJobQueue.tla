------------------------------ MODULE MCJobQueue ------------------------------
(* JobQueue on small sets of jobs and consumers. *)
EXTENDS JobQueue, TLC

WorkerSymmetry == Permutations(Workers)

==============================================================================
