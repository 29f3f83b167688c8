--------------------------- MODULE GradesService ---------------------------
(***************************************************************************)
(* What the portal's back end promises its clients about stored data, with *)
(* no handlers, cache, sessions or in-flight calls: a list of grades is    *)
(* shown only if it was kept, it is kept only if the university published  *)
(* it, a user once known stays known, and only an administrator changes    *)
(* the role of a known user.  UserManager implements it.                   *)
(***************************************************************************)
EXTENDS Naturals

CONSTANTS
  Users, Clients, Owner, Roles,
  FirstRole,   \* the role a user gets when first saved
  MaxEdition,  \* bound on the editions published per user
  Blank,       \* editions with no rows of grades, never kept
  Unknown,     \* the role of a user who was never saved
  NoGrades,    \* an empty list of grades, shown
  Nothing      \* no grades shown

VARIABLES
  published,   \* latest edition published for each user
  role,        \* the stored role of each user, or Unknown
  kept,        \* the editions of grades committed so far for each user
  shown        \* the grades in each client's last answer

vars == <<published, role, kept, shown>>

Init ==
  /\ published = [u \in Users |-> 0]
  /\ role      = [u \in Users |-> Unknown]
  /\ kept      = [u \in Users |-> {}]
  /\ shown     = [c \in Clients |-> Nothing]

Publish(u) ==
  /\ published[u] < MaxEdition
  /\ published' = [published EXCEPT ![u] = @ + 1]
  /\ UNCHANGED <<role, kept, shown>>

(* A save makes the user known, and may keep one more published edition. *)
Save(u, editions) ==
  /\ editions \subseteq (0 .. published[u]) \ Blank
  /\ \A e, f \in editions : e = f
  /\ role' = [role EXCEPT ![u] = IF @ = Unknown THEN FirstRole[u] ELSE @]
  /\ kept' = [kept EXCEPT ![u] = @ \cup editions]
  /\ UNCHANGED <<published, shown>>

AssignRole(u, r) ==
  /\ role[u] # Unknown
  /\ role' = [role EXCEPT ![u] = r]
  /\ UNCHANGED <<published, kept, shown>>

(* A client of a known user is shown kept grades, or the empty list. *)
Show(c, grades) ==
  /\ role[Owner[c]] # Unknown
  /\ grades \in kept[Owner[c]] \cup {NoGrades}
  /\ shown' = [shown EXCEPT ![c] = grades]
  /\ UNCHANGED <<published, role, kept>>

(* Clients start other requests, are told of errors, or lose the server. *)
Clear(clients) ==
  /\ shown' = [c \in Clients |-> IF c \in clients THEN Nothing ELSE shown[c]]
  /\ UNCHANGED <<published, role, kept>>

Next ==
  \/ \E u \in Users : Publish(u)
  \/ \E u \in Users : \E editions \in SUBSET (0 .. MaxEdition) : Save(u, editions)
  \/ \E u \in Users : \E r \in Roles : AssignRole(u, r)
  \/ \E c \in Clients : \E grades \in (0 .. MaxEdition) \cup {NoGrades} : Show(c, grades)
  \/ \E clients \in SUBSET Clients : Clear(clients)

Spec == Init /\ [][Next]_vars
=============================================================================
