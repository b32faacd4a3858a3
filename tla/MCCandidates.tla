------------------------------ MODULE MCCandidates ------------------------------
EXTENDS Candidates

(* The plan of the second binding lacks a node for Application 1. *)
ThePlanned == [standard |-> {1, 2}, other |-> {2}]
==============================================================================
