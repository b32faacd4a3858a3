------------------------------ MODULE MCOnboarding ------------------------------
EXTENDS Onboarding, TLC

(* Labelled from the start and synced by Argo CD. *)
Labelled == [here : {TRUE}, labelled : {TRUE}, auto : {TRUE}, content : {"mapped"}]

(* Two administrators at once while nobody else acts, or one while the     *)
(* Application is changed.                                                 *)
TheBudgets == {[clients |-> {"ann", "bob"}, requests |-> 3, edits |-> 0],
               [clients |-> {"ann"}, requests |-> 4, edits |-> 1],
               [clients |-> {"ann"}, requests |-> 2, edits |-> 2]}
=============================================================================
