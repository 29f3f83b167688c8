--------------------------- MODULE SessionStates ---------------------------
(***************************************************************************)
(* The session map as UserManager sees it: for every user there is no      *)
(* session, a usable one, or one idle for longer than its TTL, which is    *)
(* gone as soon as anybody makes the provider prune.  UserParser, with its *)
(* clock and its sessions, implements it.                                  *)
(***************************************************************************)
CONSTANTS Users, Callers

VARIABLES
  state,    \* of each user's session: "none", "live" or "lapsed"
  outcome   \* of each caller's last call, as far as sessions go

vars == <<state, outcome>>

Init ==
  /\ state   = [u \in Users |-> "none"]
  /\ outcome = [c \in Callers |-> "none"]

Pruned == [u \in Users |-> IF state[u] = "lapsed" THEN "none" ELSE state[u]]

Reports(c, how) == outcome' = [outcome EXCEPT ![c] = how]

Begin(c) == Reports(c, "none") /\ UNCHANGED state

Register(c, u) == Reports(c, "registered") /\ state' = [Pruned EXCEPT ![u] = "live"]

Lookup(c, u) ==
  /\ state' = Pruned
  /\ \/ Pruned[u] = "none" /\ Reports(c, "notFound")
     \/ Pruned[u] = "live" /\ Reports(c, "given")

Drop(c, u) == Reports(c, "closed") /\ state' = [state EXCEPT ![u] = "none"]

(* The provider is closed, or the process ends and its callers with it. *)
DropAll ==
  /\ state' = [u \in Users |-> "none"]
  /\ outcome' \in {outcome, [c \in Callers |-> "none"]}

Lapse(users) ==
  /\ \A u \in users : state[u] = "live"
  /\ state' = [u \in Users |-> IF u \in users THEN "lapsed" ELSE state[u]]
  /\ UNCHANGED outcome

Next ==
  \/ \E c \in Callers : Begin(c) \/ \E u \in Users : Register(c, u) \/ Lookup(c, u) \/ Drop(c, u)
  \/ DropAll
  \/ \E users \in SUBSET Users : Lapse(users)

Spec == Init /\ [][Next]_vars
=============================================================================
