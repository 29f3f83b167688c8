--------------------------- MODULE MCUserManager ---------------------------
(* Instances of UserManager for TLC. *)
EXTENDS UserManager, TLC

CONSTANTS ann, c1, c2

(* All clients are devices of one user. *)
OneOwner == [c \in Clients |-> ann]

StudentsOnly == [u \in Users |-> "student"]

Devices == Permutations(Clients)
=============================================================================
