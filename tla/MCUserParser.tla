---------------------------- MODULE MCUserParser ----------------------------
(* Instances of UserParser for TLC. *)
EXTENDS UserParser, TLC

(* Users, goroutines and clients are interchangeable. *)
Symmetry == Permutations(Users) \cup Permutations(Callers) \cup Permutations(HttpClients)
=============================================================================
