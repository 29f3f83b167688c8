------------------------------- MODULE MCAuth -------------------------------
(* An instance of Auth for TLC. *)
EXTENDS Auth, TLC

CONSTANTS d1, d2, ann, nginx, student, admin, demoMode, portalMode

(* Two devices of one user, behind nginx. *)
OneOwner == [d \in Devices |-> ann]
OneAddress == [d \in Devices |-> nginx]

(* ann is the administrator among the demo users (demo.go:20-25), whom the  *)
(* portal refuses.                                                          *)
DemoOnly == demoMode :> (ann :> admin) @@ portalMode :> (ann :> Refused)
=============================================================================
