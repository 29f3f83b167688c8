---------------------------- MODULE UserStorage ----------------------------
(***************************************************************************)
(* SaveUser of internal/repository/userStorage/db/db.go statement by       *)
(* statement, as PostgreSQL runs it: READ COMMITTED, the writes of a       *)
(* transaction private until it commits, every INSERT ... ON CONFLICT DO   *)
(* UPDATE locking its row (or the key it inserts) until the transaction    *)
(* ends, statements queueing for such locks, a deadlock detector, and a    *)
(* connection of the pool taken for as long as the transaction lasts.      *)
(*                                                                         *)
(* A control row is only reached with its subject's row locked, and grades *)
(* of a user with the user's row locked, so the locks on users and         *)
(* subjects are the only ones ever waited for.  The key of a grade         *)
(* (subject, semester, course, type of control) and of a control (subject, *)
(* type) is abstracted to the title of the subject.                        *)
(***************************************************************************)
EXTENDS Naturals, Sequences, FiniteSets

CONSTANTS
  Users,     \* user names
  Savers,    \* goroutines that call SaveUser
  Titles,    \* subjects.title
  Zeds,      \* credit units
  Marks,     \* scores
  Profiles,  \* profiles
  Roles,     \* the roles users.role admits
  Saves,     \* the *domain.User arguments, with role already defaulted
  MaxConns,  \* size of the connection pool
  None       \* no row, no page (nil slice), no lock, no argument

PageRow    == [title : Titles, zed : Zeds, mark : Marks]
GradeRow   == [title : Titles, mark : Marks]
ControlRow == [title : Titles, zed : Zeds]
Rows       == [profile : Profiles, role : Roles, grades : SUBSET GradeRow]

ASSUME StorageAssumption ==
  /\ Saves \subseteq [user : Users, profile : Profiles, role : Roles, page : Seq(PageRow) \cup {None}]
  /\ MaxConns \in Nat \ {0}
  /\ IsFiniteSet(Savers)
  /\ None \notin Rows \cup Saves \cup Savers \cup Seq(PageRow)

VARIABLES
  users,     \* committed row of each user with the rows of grades, or None
  subjects,  \* committed titles
  controls,  \* committed rows of subject_control
  userLock,  \* the transaction that has locked each user's row or key
  titleLock, \* the transaction that has locked each subject's row or key
  free,      \* idle connections of the pool
  pc,        \* next statement of each save, or how it ended
  arg,       \* what each save was asked to store
  at,        \* index of the row of the page each save is at
  draft      \* uncommitted writes of each save

vars == <<users, subjects, controls, userLock, titleLock, free, pc, arg, at, draft>>

Answers    == {"idle", "saved", "failed"}
Statements == {"upsertUser", "deleteGrades", "upsertSubject", "upsertControl", "upsertGrade", "commit"}

NoDraft == [row |-> None, subjects |-> {}, controls |-> {}]

Init ==
  /\ users     = [u \in Users |-> None]
  /\ subjects  = {}
  /\ controls  = {}
  /\ userLock  = [u \in Users |-> None]
  /\ titleLock = [t \in Titles |-> None]
  /\ free      = MaxConns
  /\ pc        = [s \in Savers |-> "idle"]
  /\ arg       = [s \in Savers |-> None]
  /\ at        = [s \in Savers |-> 1]
  /\ draft     = [s \in Savers |-> NoDraft]

-----------------------------------------------------------------------------
Idle(s) == pc[s] \in Answers

Goto(s, statement) == pc' = [pc EXCEPT ![s] = statement]

(* The row of the page a save is at. *)
Current(s) == arg[s].page[at[s]]

(* Where a save goes when it is at row i of its page. *)
RowAt(s, i) == IF i > Len(arg[s].page) THEN "commit" ELSE "upsertSubject"

(* PostgreSQL ends a transaction, committed or aborted: its locks are gone. *)
Unlock(s) ==
  /\ userLock'  = [u \in Users  |-> IF userLock[u]  = s THEN None ELSE userLock[u]]
  /\ titleLock' = [t \in Titles |-> IF titleLock[t] = s THEN None ELSE titleLock[t]]
  /\ draft' = [draft EXCEPT ![s] = NoDraft]

(* INSERT ... ON CONFLICT DO UPDATE of rows into a table with key title. *)
Put(table, rows) == {old \in table : \A row \in rows : row.title # old.title} \cup rows

-----------------------------------------------------------------------------
SaveUser(s, save) ==
  /\ Idle(s)
  /\ Goto(s, "begin")
  /\ arg' = [arg EXCEPT ![s] = save]
  /\ UNCHANGED <<users, subjects, controls, userLock, titleLock, free, at, draft>>

(* Begin waits for a connection. *)
Begin(s) ==
  /\ pc[s] = "begin"
  /\ free > 0
  /\ free' = free - 1
  /\ Goto(s, "upsertUser")
  /\ UNCHANGED <<users, subjects, controls, userLock, titleLock, arg, at, draft>>

(* What the row of the user becomes before its grades are replaced. *)
Profiled(row, save) ==
  [profile |-> save.profile,
   role    |-> IF row = None THEN save.role ELSE row.role,
   grades  |-> IF row = None THEN {} ELSE row.grades]

(* Mutant of UpsertUser: ON CONFLICT DO NOTHING does not lock the row. *)
UpsertUserUnlocked(s) ==
  LET u == arg[s].user
  IN  /\ pc[s] = "upsertUser"
      /\ userLock[u] = None \/ users[u] # None
      /\ userLock' = IF users[u] = None THEN [userLock EXCEPT ![u] = s] ELSE userLock
      /\ draft' = [draft EXCEPT ![s].row = Profiled(users[u], arg[s])]
      /\ Goto(s, IF arg[s].page = None THEN "commit" ELSE "deleteGrades")
      /\ UNCHANGED <<users, subjects, controls, titleLock, free, arg, at>>

UpsertUser(s) ==
  LET u == arg[s].user
  IN  /\ pc[s] = "upsertUser"
      /\ userLock[u] = None
      /\ userLock' = [userLock EXCEPT ![u] = s]
      /\ draft' = [draft EXCEPT ![s].row = Profiled(users[u], arg[s])]
      /\ Goto(s, IF arg[s].page = None THEN "commit" ELSE "deleteGrades")
      /\ UNCHANGED <<users, subjects, controls, titleLock, free, arg, at>>

(* Mutant of DeleteGrades: run on the pool and not in the transaction. *)
DeleteGradesOnPool(s) ==
  LET u == arg[s].user
  IN  /\ pc[s] = "deleteGrades"
      /\ users' = IF users[u] = None THEN users ELSE [users EXCEPT ![u].grades = {}]
      /\ draft' = [draft EXCEPT ![s].row.grades = {}]
      /\ at' = [at EXCEPT ![s] = 1]
      /\ Goto(s, RowAt(s, 1))
      /\ UNCHANGED <<subjects, controls, userLock, titleLock, free, arg>>

DeleteGrades(s) ==
  /\ pc[s] = "deleteGrades"
  /\ draft' = [draft EXCEPT ![s].row.grades = {}]
  /\ at' = [at EXCEPT ![s] = 1]
  /\ Goto(s, RowAt(s, 1))
  /\ UNCHANGED <<users, subjects, controls, userLock, titleLock, free, arg>>

UpsertSubject(s) ==
  LET t == Current(s).title
  IN  /\ pc[s] = "upsertSubject"
      /\ titleLock[t] \in {None, s}
      /\ titleLock' = [titleLock EXCEPT ![t] = s]
      /\ draft' = [draft EXCEPT ![s].subjects = @ \cup {t}]
      /\ Goto(s, "upsertControl")
      /\ UNCHANGED <<users, subjects, controls, userLock, free, arg, at>>

(* Mutant of UpsertControl: the control is not written. *)
UpsertControlLeftOut(s) ==
  /\ pc[s] = "upsertControl"
  /\ Goto(s, "upsertGrade")
  /\ UNCHANGED <<users, subjects, controls, userLock, titleLock, free, arg, at, draft>>

UpsertControl(s) ==
  LET row == Current(s)
  IN  /\ pc[s] = "upsertControl"
      /\ draft' = [draft EXCEPT ![s].controls = Put(@, {[title |-> row.title, zed |-> row.zed]})]
      /\ Goto(s, "upsertGrade")
      /\ UNCHANGED <<users, subjects, controls, userLock, titleLock, free, arg, at>>

UpsertGrade(s) ==
  LET row == Current(s)
  IN  /\ pc[s] = "upsertGrade"
      /\ draft' = [draft EXCEPT ![s].row.grades = Put(@, {[title |-> row.title, mark |-> row.mark]})]
      /\ at' = [at EXCEPT ![s] = @ + 1]
      /\ Goto(s, RowAt(s, at[s] + 1))
      /\ UNCHANGED <<users, subjects, controls, userLock, titleLock, free, arg>>

(* Commit makes the writes visible at once; its acknowledgement may be lost. *)
Commit(s) ==
  /\ pc[s] = "commit"
  /\ users'    = [users EXCEPT ![arg[s].user] = draft[s].row]
  /\ subjects' = subjects \cup draft[s].subjects
  /\ controls' = Put(controls, draft[s].controls)
  /\ Unlock(s)
  /\ free' = free + 1
  /\ Goto(s, "saved") \/ Goto(s, "failed")
  /\ UNCHANGED <<arg, at>>

-----------------------------------------------------------------------------
(* A statement, or the connection, fails: PostgreSQL aborts the transaction. *)
Abort(s) ==
  /\ Unlock(s)
  /\ Goto(s, "rollback")
  /\ UNCHANGED <<users, subjects, controls, free, arg, at>>

FailStatement(s) == pc[s] \in Statements /\ Abort(s)

(* The pool has no connection to give, or cannot make one. *)
FailBegin(s) ==
  /\ pc[s] = "begin"
  /\ Goto(s, "failed")
  /\ UNCHANGED <<users, subjects, controls, userLock, titleLock, free, arg, at, draft>>

(* s waits for a row that t has locked. *)
WaitsFor(s, t) ==
  /\ t # s
  /\ \/ pc[s] = "upsertUser" /\ userLock[arg[s].user] = t
     \/ pc[s] = "upsertSubject" /\ titleLock[Current(s).title] = t

(* They wait for one another: the saves of one or more cycles. *)
Deadlocked(savers) ==
  /\ savers # {}
  /\ \A s \in savers : /\ \E t \in savers : WaitsFor(s, t)
                       /\ \E t \in savers : WaitsFor(t, s)

(* The deadlock detector fails a statement of a cycle. *)
Victim(s) ==
  /\ \E savers \in SUBSET Savers : s \in savers /\ Deadlocked(savers)
  /\ Abort(s)

(* Mutant of Rollback: no deferred Rollback, the connection is not returned. *)
RollbackForgotten(s) ==
  /\ pc[s] = "rollback"
  /\ Goto(s, "failed")
  /\ UNCHANGED <<users, subjects, controls, userLock, titleLock, free, arg, at, draft>>

(* The deferred Rollback returns the connection to the pool. *)
Rollback(s) ==
  /\ pc[s] = "rollback"
  /\ free' = free + 1
  /\ Goto(s, "failed")
  /\ UNCHANGED <<users, subjects, controls, userLock, titleLock, arg, at, draft>>

(* The process dies: its connections break and PostgreSQL aborts. *)
Crash ==
  /\ userLock'  = [u \in Users |-> None]
  /\ titleLock' = [t \in Titles |-> None]
  /\ free'  = MaxConns
  /\ pc'    = [s \in Savers |-> "idle"]
  /\ arg'   = [s \in Savers |-> None]
  /\ draft' = [s \in Savers |-> NoDraft]
  /\ UNCHANGED <<users, subjects, controls, at>>

(* An administrator's UPDATE waits for the row too, and commits at once. *)
AssignRole(u, role) ==
  /\ users[u] # None
  /\ userLock[u] = None
  /\ users' = [users EXCEPT ![u].role = role]
  /\ UNCHANGED <<subjects, controls, userLock, titleLock, free, pc, arg, at, draft>>

(* What a save does on its own, its deferred Rollback included. *)
Advance(s) ==
  \/ Begin(s) \/ UpsertUser(s) \/ DeleteGrades(s) \/ UpsertSubject(s)
  \/ UpsertControl(s) \/ UpsertGrade(s) \/ Commit(s) \/ Rollback(s)

Next ==
  \/ \E s \in Savers :
       \/ \E save \in Saves : SaveUser(s, save)
       \/ Advance(s) \/ FailBegin(s) \/ FailStatement(s) \/ Victim(s)
  \/ \E u \in Users : \E role \in Roles : AssignRole(u, role)
  \/ Crash

Spec == Init /\ [][Next]_vars

(* PostgreSQL grants a row to those who queue for it in turn, the pool its  *)
(* connections, and the detector looks at every wait; nothing is assumed of *)
(* failures, of callers or of crashes.                                      *)
FairSpec ==
  /\ Spec
  /\ \A s \in Savers : SF_vars(Advance(s)) /\ WF_vars(Victim(s))

-----------------------------------------------------------------------------
Draft == [row : Rows \cup {None}, subjects : SUBSET Titles, controls : SUBSET ControlRow]

InTransaction(s) == pc[s] \in Statements \cup {"rollback"}

(* Every variable keeps its type, and the pool loses no connection: those   *)
(* in use are the ones of open transactions.                                *)
TypeOK ==
  /\ users     \in [Users -> Rows \cup {None}]
  /\ subjects  \subseteq Titles
  /\ controls  \subseteq ControlRow
  /\ userLock  \in [Users -> Savers \cup {None}]
  /\ titleLock \in [Titles -> Savers \cup {None}]
  /\ free      \in 0 .. MaxConns
  /\ pc        \in [Savers -> Answers \cup Statements \cup {"begin", "rollback"}]
  /\ arg       \in [Savers -> Saves \cup {None}]
  /\ at        \in [Savers -> Nat]
  /\ draft     \in [Savers -> Draft]
  /\ free + Cardinality({s \in Savers : InTransaction(s)}) = MaxConns

(* Every stored grade has its subject and its control, so the LEFT JOIN of  *)
(* GetUser never meets the NULL zed it could not scan, and the foreign keys *)
(* never refuse a save, whichever of the saves that share the subject       *)
(* committed or rolled back.                                                *)
GradesReadable ==
  /\ \A u \in Users : users[u] # None =>
       \A grade \in users[u].grades : \E control \in controls : control.title = grade.title
  /\ \A control \in controls : control.title \in subjects

(* Saves may deadlock on the subjects they share, but never among saves of  *)
(* one user: the row of the user is locked before any subject.              *)
DeadlocksCrossUsers ==
  \A savers \in SUBSET Savers : Deadlocked(savers) =>
    \E s, t \in savers : arg[s].user # arg[t].user

(* Every save ends: waits are resolved, deadlocks broken, and failed saves  *)
(* give their locks and connections back.                                   *)
EverySaveEnds == \A s \in Savers : ~ Idle(s) ~> Idle(s)

Outcome == [s \in Savers |-> IF pc[s] \in {"saved", "failed"} THEN pc[s] ELSE "none"]

Store == INSTANCE AtomicStore WITH request <- arg, outcome <- Outcome

(* README.md:140: profile and grades are saved atomically.  Statement by    *)
(* statement, with the locks that PostgreSQL takes, a save is the single    *)
(* step AtomicStore says it is: saves of one user never mix.                *)
ImplementsStore == Store!Spec
=============================================================================
