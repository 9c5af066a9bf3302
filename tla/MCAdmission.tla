---------------------------- MODULE MCAdmission ----------------------------
(* Instances of Admission for TLC. *)
EXTENDS Admission, TLC

\* Handlers are interchangeable goroutines.
HandlerSymmetry == Permutations(Handlers)
============================================================================
