---------------------------- MODULE AtomicStore ----------------------------
(***************************************************************************)
(* What UserManager assumes of UserStorage.SaveUser: the user, all grades  *)
(* of the page and their credit units are stored in one step or not at     *)
(* all, at most once per call, and the caller is told so unless the        *)
(* acknowledgement is lost.  UserStorage implements it.                    *)
(***************************************************************************)
EXTENDS Naturals, Sequences

CONSTANTS Users, Savers, Saves, Roles, None

VARIABLES
  users,     \* the row of each user with the rows of grades, or None
  controls,  \* the rows of subject_control
  request,   \* what each saver was asked to save, or None
  outcome    \* "none" while a save is under way

vars == <<users, controls, request, outcome>>

Init ==
  /\ users    = [u \in Users |-> None]
  /\ controls = {}
  /\ request  = [s \in Savers |-> None]
  /\ outcome  = [s \in Savers |-> "none"]

(* Of several rows of a page about one subject the last one counts. *)
Last(page) == {i \in DOMAIN page : \A j \in DOMAIN page : j > i => page[j].title # page[i].title}

Grades(page) == {[title |-> page[i].title, mark |-> page[i].mark] : i \in Last(page)}

Controls(page) == {[title |-> page[i].title, zed |-> page[i].zed] : i \in Last(page)}

(* The profile is replaced and the role is not; without a page the grades   *)
(* stay, with one they become those of the page.                            *)
Upsert(row, save) ==
  [profile |-> save.profile,
   role    |-> IF row = None THEN save.role ELSE row.role,
   grades  |-> IF save.page # None THEN Grades(save.page)
               ELSE IF row = None THEN {} ELSE row.grades]

(* The controls of the subjects on the page become those of the page, for   *)
(* every user who has the subject.                                          *)
Merge(page) ==
  IF page = None THEN controls
  ELSE {c \in controls : \A z \in Controls(page) : z.title # c.title} \cup Controls(page)

Ask(s, save) ==
  /\ request' = [request EXCEPT ![s] = save]
  /\ outcome' = [outcome EXCEPT ![s] = "none"]
  /\ UNCHANGED <<users, controls>>

Save(s) ==
  LET save == request[s]
  IN  /\ save # None /\ outcome[s] = "none"
      /\ users' = [users EXCEPT ![save.user] = Upsert(@, save)]
      /\ controls' = Merge(save.page)
      /\ \E how \in {"saved", "failed"} : outcome' = [outcome EXCEPT ![s] = how]
      /\ UNCHANGED request

Fail(s) ==
  /\ outcome[s] = "none"
  /\ outcome' = [outcome EXCEPT ![s] = "failed"]
  /\ UNCHANGED <<users, controls, request>>

AssignRole(u, role) ==
  /\ users[u] # None
  /\ users' = [users EXCEPT ![u].role = role]
  /\ UNCHANGED <<controls, request, outcome>>

Crash ==
  /\ request' = [s \in Savers |-> None]
  /\ outcome' = [s \in Savers |-> "none"]
  /\ UNCHANGED <<users, controls>>

Next ==
  \/ \E s \in Savers : (\E save \in Saves : Ask(s, save)) \/ Save(s) \/ Fail(s)
  \/ \E u \in Users : \E role \in Roles : AssignRole(u, role)
  \/ Crash

Spec == Init /\ [][Next]_vars
=============================================================================
