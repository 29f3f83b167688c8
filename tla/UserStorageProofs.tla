------------------------- MODULE UserStorageProofs -------------------------
(* Proofs about UserStorage, for any users, savers, pages and pool size. *)
EXTENDS UserStorage, FiniteSetTheorems, TLAPS

USE StorageAssumption

-----------------------------------------------------------------------------
(* The first n rows of a page, as the tables they make. *)
LastTo(page, n)   == {i \in 1 .. n : \A j \in 1 .. n : j > i => page[j].title # page[i].title}
GradesTo(page, n) == {[title |-> page[i].title, mark |-> page[i].mark] : i \in LastTo(page, n)}
ZedsTo(page, n)   == {[title |-> page[i].title, zed |-> page[i].zed] : i \in LastTo(page, n)}
TitlesTo(page, n) == {page[i].title : i \in 1 .. n}

(* Before the first row nothing has been written. *)
LEMMA EmptyPage ==
  ASSUME NEW page
  PROVE  GradesTo(page, 0) = {} /\ ZedsTo(page, 0) = {} /\ TitlesTo(page, 0) = {}
<1>1. 1 .. 0 = {}
  OBVIOUS
<1>2. LastTo(page, 0) = {}
  BY <1>1 DEF LastTo
<1>3. QED
  BY <1>1, <1>2 DEF GradesTo, ZedsTo, TitlesTo

(* One more row is counted, and those before it unless it repeats them. *)
LEMMA LastOfNext ==
  ASSUME NEW page, NEW n \in Nat \ {0}
  PROVE  LastTo(page, n) = {i \in LastTo(page, n - 1) : page[i].title # page[n].title} \cup {n}
<1>1. ASSUME NEW i \in LastTo(page, n), i # n
      PROVE  i \in LastTo(page, n - 1) /\ page[i].title # page[n].title
  BY <1>1 DEF LastTo
<1>2. ASSUME NEW i \in LastTo(page, n - 1), page[i].title # page[n].title
      PROVE  i \in LastTo(page, n)
  BY <1>2 DEF LastTo
<1>3. n \in LastTo(page, n)
  BY DEF LastTo
<1>4. QED
  BY <1>1, <1>2, <1>3

(* The upsert of row n makes the tables of n - 1 rows those of n rows. *)
LEMMA NextRow ==
  ASSUME NEW page, NEW n \in Nat \ {0}
  PROVE  /\ GradesTo(page, n) = Put(GradesTo(page, n - 1), {[title |-> page[n].title, mark |-> page[n].mark]})
         /\ ZedsTo(page, n) = Put(ZedsTo(page, n - 1), {[title |-> page[n].title, zed |-> page[n].zed]})
         /\ TitlesTo(page, n) = TitlesTo(page, n - 1) \cup {page[n].title}
<1>1. GradesTo(page, n) = Put(GradesTo(page, n - 1), {[title |-> page[n].title, mark |-> page[n].mark]})
  BY LastOfNext DEF GradesTo, Put
<1>2. ZedsTo(page, n) = Put(ZedsTo(page, n - 1), {[title |-> page[n].title, zed |-> page[n].zed]})
  BY LastOfNext DEF ZedsTo, Put
<1>3. TitlesTo(page, n) = TitlesTo(page, n - 1) \cup {page[n].title}
  BY 1 .. n = (1 .. n - 1) \cup {n} DEF TitlesTo
<1>4. QED
  BY <1>1, <1>2, <1>3

(* All rows of a page make the tables AtomicStore speaks of. *)
LEMMA WholePage ==
  ASSUME NEW page \in Seq(PageRow)
  PROVE  /\ GradesTo(page, Len(page)) = Store!Grades(page)
         /\ ZedsTo(page, Len(page)) = Store!Controls(page)
<1>1. DOMAIN page = 1 .. Len(page)
  OBVIOUS
<1>2. LastTo(page, Len(page)) = Store!Last(page)
  BY <1>1 DEF LastTo, Store!Last
<1>3. QED
  BY <1>2 DEF GradesTo, ZedsTo, Store!Grades, Store!Controls

-----------------------------------------------------------------------------
(* The statements of a transaction that has locked its user. *)
Past   == {"deleteGrades", "upsertSubject", "upsertControl", "upsertGrade", "commit"}
OnPage == {"upsertSubject", "upsertControl", "upsertGrade"}

(* TypeOK but for the count of connections, which bounds free. *)
StateType ==
  /\ users     \in [Users -> Rows \cup {None}]
  /\ subjects  \subseteq Titles
  /\ controls  \subseteq ControlRow
  /\ userLock  \in [Users -> Savers \cup {None}]
  /\ titleLock \in [Titles -> Savers \cup {None}]
  /\ free      \in Nat
  /\ pc        \in [Savers -> Answers \cup Statements \cup {"begin", "rollback"}]
  /\ arg       \in [Savers -> Saves \cup {None}]
  /\ at        \in [Savers -> Nat]
  /\ draft     \in [Savers -> Draft]

(* Where a save is tells what it was asked, and where it is on the page. *)
Place ==
  \A s \in Savers :
    /\ pc[s] # "idle" => arg[s] \in Saves
    /\ pc[s] \in OnPage \cup {"deleteGrades"} => arg[s].page # None
    /\ pc[s] \in OnPage => at[s] \in 1 .. Len(arg[s].page)
    /\ pc[s] = "commit" /\ arg[s].page # None => at[s] = Len(arg[s].page) + 1

(* A save keeps the row of its user locked from its first statement on, and *)
(* nobody else holds a lock.                                                *)
Locks ==
  /\ \A s \in Savers : pc[s] \in Past => userLock[arg[s].user] = s
  /\ \A u \in Users : userLock[u] # None => pc[userLock[u]] \in Past /\ arg[userLock[u]].user = u
  /\ \A t \in Titles : titleLock[t] # None => pc[titleLock[t]] \in Past

(* The uncommitted row agrees with the stored one, which the lock protects. *)
DraftedRow(s) ==
  LET stored == users[arg[s].user] IN
  /\ draft[s].row \in Rows
  /\ draft[s].row.profile = arg[s].profile
  /\ draft[s].row.role = IF stored = None THEN arg[s].role ELSE stored.role
  /\ pc[s] = "commit" /\ arg[s].page = None =>
       draft[s].row.grades = IF stored = None THEN {} ELSE stored.grades

(* Uncommitted grades, controls and subjects are those of the rows done. *)
DraftedPage(s) ==
  /\ pc[s] = "deleteGrades" \/ (pc[s] = "commit" /\ arg[s].page = None) =>
       draft[s].controls = {} /\ draft[s].subjects = {}
  /\ pc[s] \in OnPage \/ (pc[s] = "commit" /\ arg[s].page # None) =>
       /\ draft[s].row.grades = GradesTo(arg[s].page, at[s] - 1)
       /\ draft[s].controls = ZedsTo(arg[s].page, IF pc[s] = "upsertGrade" THEN at[s] ELSE at[s] - 1)
       /\ draft[s].subjects = TitlesTo(arg[s].page, IF pc[s] \in {"upsertControl", "upsertGrade"}
                                                    THEN at[s] ELSE at[s] - 1)

DraftOf(s) ==
  /\ pc[s] \notin Past => draft[s] = NoDraft
  /\ pc[s] \in Past => DraftedRow(s) /\ DraftedPage(s)

Drafted == \A s \in Savers : DraftOf(s)

-----------------------------------------------------------------------------
(* The arguments of saves, and the rows they are made of. *)
LEMMA SavesTyped ==
  ASSUME NEW save \in Saves
  PROVE  /\ save.user \in Users /\ save.profile \in Profiles /\ save.role \in Roles
         /\ save.page # None => save.page \in Seq(PageRow)
         /\ Profiled(None, save) \in Rows
         /\ \A row \in Rows : Profiled(row, save) \in Rows
BY DEF Profiled, Rows

(* Where a save on its page goes next is a row of the page, or its end. *)
LEMMA RowAtTyped ==
  ASSUME NEW s \in Savers, NEW i \in Nat, i >= 1, arg[s].page \in Seq(PageRow), i <= Len(arg[s].page) + 1
  PROVE  \/ RowAt(s, i) = "upsertSubject" /\ i \in 1 .. Len(arg[s].page)
         \/ RowAt(s, i) = "commit" /\ i = Len(arg[s].page) + 1
BY DEF RowAt

(* The row of the page a save is at. *)
LEMMA CurrentTyped ==
  ASSUME StateType, Place, NEW s \in Savers, pc[s] \in OnPage
  PROVE  /\ arg[s] \in Saves /\ arg[s].page \in Seq(PageRow)
         /\ at[s] \in Nat \ {0} /\ at[s] <= Len(arg[s].page)
         /\ Current(s) = arg[s].page[at[s]]
         /\ Current(s).title \in Titles /\ Current(s).zed \in Zeds /\ Current(s).mark \in Marks
<1>1. arg[s] \in Saves /\ arg[s].page # None /\ at[s] \in 1 .. Len(arg[s].page)
  BY DEF Place, OnPage
<1>2. arg[s].page \in Seq(PageRow)
  BY <1>1, SavesTyped
<1>3. arg[s].page[at[s]] \in PageRow
  BY <1>1, <1>2
<1>4. QED
  BY <1>1, <1>2, <1>3 DEF Current, PageRow

(* What a save was asked, and its place on the page, stays right in a step. *)
LEMMA StepPlace == StateType /\ Place /\ Next => Place'
<1> SUFFICES ASSUME StateType, Place, Next PROVE Place'
  OBVIOUS
<1> DEFINE PlaceOf(s) ==
      /\ pc[s] # "idle" => arg[s] \in Saves
      /\ pc[s] \in OnPage \cup {"deleteGrades"} => arg[s].page # None
      /\ pc[s] \in OnPage => at[s] \in 1 .. Len(arg[s].page)
      /\ pc[s] = "commit" /\ arg[s].page # None => at[s] = Len(arg[s].page) + 1
<1> USE DEF StateType, Goto, OnPage, Answers, Statements
<1>0. ASSUME NEW s \in Savers, pc' = [pc EXCEPT ![s] = pc'[s]], at' = [at EXCEPT ![s] = at'[s]],
             arg' = [arg EXCEPT ![s] = arg'[s]], PlaceOf(s)'
      PROVE  Place'
  BY <1>0 DEF Place
<1>1. ASSUME NEW s \in Savers, NEW save \in Saves, SaveUser(s, save) PROVE Place'
  BY <1>1 DEF SaveUser, Idle, Place
<1>2. ASSUME NEW s \in Savers, Begin(s) PROVE Place'
  BY <1>2 DEF Begin, Place
<1>3. ASSUME NEW s \in Savers, FailBegin(s) PROVE Place'
  BY <1>3 DEF FailBegin, Place
<1>4. ASSUME NEW s \in Savers, Rollback(s) PROVE Place'
  BY <1>4 DEF Rollback, Place
<1>5. ASSUME NEW s \in Savers, UpsertUser(s) PROVE Place'
  BY <1>5 DEF UpsertUser, Place
<1>6. ASSUME NEW s \in Savers, DeleteGrades(s) PROVE Place'
  <2>1. arg[s] \in Saves /\ arg[s].page # None /\ arg[s].page \in Seq(PageRow)
    BY <1>6, SavesTyped DEF DeleteGrades, Place
  <2>2. pc' = [pc EXCEPT ![s] = RowAt(s, 1)] /\ at' = [at EXCEPT ![s] = 1] /\ UNCHANGED arg
    BY <1>6 DEF DeleteGrades
  <2>3. Len(arg[s].page) \in Nat
    BY <2>1
  <2>4. \/ RowAt(s, 1) = "upsertSubject" /\ 1 \in 1 .. Len(arg[s].page)
        \/ RowAt(s, 1) = "commit" /\ 1 = Len(arg[s].page) + 1
    BY <2>1, <2>3, RowAtTyped
  <2>5. PlaceOf(s)'
    BY <2>1, <2>2, <2>4
  <2>6. QED
    BY <2>2, <2>5, <1>0
<1>7. ASSUME NEW s \in Savers, UpsertSubject(s) PROVE Place'
  BY <1>7 DEF UpsertSubject, Place
<1>8. ASSUME NEW s \in Savers, UpsertControl(s) PROVE Place'
  BY <1>8 DEF UpsertControl, Place
<1>9. ASSUME NEW s \in Savers, UpsertGrade(s) PROVE Place'
  <2>1. pc[s] \in OnPage
    BY <1>9 DEF UpsertGrade
  <2>2. arg[s] \in Saves /\ arg[s].page # None /\ arg[s].page \in Seq(PageRow)
        /\ at[s] \in Nat \ {0} /\ at[s] <= Len(arg[s].page)
    BY <2>1, CurrentTyped DEF Place
  <2>3. pc' = [pc EXCEPT ![s] = RowAt(s, at[s] + 1)] /\ at' = [at EXCEPT ![s] = at[s] + 1] /\ UNCHANGED arg
    BY <1>9 DEF UpsertGrade
  <2>4. at[s] + 1 \in Nat /\ at[s] + 1 >= 1 /\ at[s] + 1 <= Len(arg[s].page) + 1
    BY <2>2
  <2>5. \/ RowAt(s, at[s] + 1) = "upsertSubject" /\ at[s] + 1 \in 1 .. Len(arg[s].page)
        \/ RowAt(s, at[s] + 1) = "commit" /\ at[s] + 1 = Len(arg[s].page) + 1
    BY <2>2, <2>4, RowAtTyped
  <2>6. PlaceOf(s)'
    BY <2>2, <2>3, <2>5
  <2>7. QED
    BY <2>3, <2>6, <1>0
<1>10. ASSUME NEW s \in Savers, Commit(s) PROVE Place'
  BY <1>10 DEF Commit, Place
<1>11. ASSUME NEW s \in Savers, FailStatement(s) PROVE Place'
  BY <1>11 DEF FailStatement, Abort, Place
<1>12. ASSUME NEW s \in Savers, Victim(s) PROVE Place'
  <2>1. pc[s] # "idle"
    BY <1>12 DEF Victim, Deadlocked, WaitsFor
  <2>2. QED
    BY <1>12, <2>1 DEF Victim, Abort, Place
<1>13. CASE Crash
  BY <1>13 DEF Crash, Place
<1>14. ASSUME NEW u \in Users, NEW role \in Roles, AssignRole(u, role) PROVE Place'
  BY <1>14 DEF AssignRole, Place
<1>15. QED
  BY <1>1, <1>2, <1>3, <1>4, <1>5, <1>6, <1>7, <1>8, <1>9, <1>10, <1>11, <1>12, <1>13, <1>14 DEF Next, Advance

(* A save that waits has no lock to lose but those of its transaction. *)
LEMMA VictimInTransaction ==
  ASSUME NEW s \in Savers, Victim(s)
  PROVE  FailStatement(s)
BY DEF Victim, Deadlocked, WaitsFor, FailStatement, Statements

(* Locks are held from a save's first statement to its end, in every step. *)
LEMMA StepLocks == StateType /\ Place /\ Locks /\ Next => Locks'
<1> SUFFICES ASSUME StateType, Place, Locks, Next PROVE Locks'
  OBVIOUS
<1> USE DEF StateType, Goto, Past, Answers, Statements
(* Steps of a save that leaves its locks and its argument as they are. *)
<1>1. ASSUME NEW s \in Savers, UNCHANGED <<userLock, titleLock, arg>>, pc' = [pc EXCEPT ![s] = pc'[s]],
             (pc[s] \in Past) <=> (pc'[s] \in Past)
      PROVE  Locks'
  <2>1. \A d \in Savers : (pc[d] \in Past) <=> (pc'[d] \in Past)
    BY <1>1
  <2>2. QED
    BY <1>1, <2>1 DEF Locks
<1>2. ASSUME NEW s \in Savers, NEW save \in Saves, SaveUser(s, save) PROVE Locks'
  BY <1>2 DEF SaveUser, Idle, Locks
<1>3. ASSUME NEW s \in Savers, Begin(s) PROVE Locks'
  BY <1>1, <1>3 DEF Begin
<1>4. ASSUME NEW s \in Savers, FailBegin(s) PROVE Locks'
  BY <1>1, <1>4 DEF FailBegin
<1>5. ASSUME NEW s \in Savers, Rollback(s) PROVE Locks'
  BY <1>1, <1>5 DEF Rollback
<1>6. ASSUME NEW s \in Savers, UpsertUser(s) PROVE Locks'
  <2>1. arg[s].user \in Users
    BY <1>6, SavesTyped DEF UpsertUser, Place
  <2>2. QED
    BY <1>6, <2>1 DEF UpsertUser, Locks
<1>7. ASSUME NEW s \in Savers, DeleteGrades(s) PROVE Locks'
  BY <1>1, <1>7 DEF DeleteGrades, RowAt
<1>8. ASSUME NEW s \in Savers, UpsertSubject(s) PROVE Locks'
  BY <1>8 DEF UpsertSubject, Locks
<1>9. ASSUME NEW s \in Savers, UpsertControl(s) PROVE Locks'
  BY <1>1, <1>9 DEF UpsertControl
<1>10. ASSUME NEW s \in Savers, UpsertGrade(s) PROVE Locks'
  BY <1>1, <1>10 DEF UpsertGrade, RowAt
<1>11. ASSUME NEW s \in Savers, pc[s] \in Statements, Unlock(s), UNCHANGED arg,
              pc' = [pc EXCEPT ![s] = pc'[s]], pc'[s] \notin Past
       PROVE  Locks'
  <2>1. ASSUME NEW d \in Savers, pc'[d] \in Past PROVE userLock'[arg'[d].user] = d
    <3>1. d # s /\ pc[d] \in Past /\ arg[d].user \in Users
      BY <1>11, <2>1, SavesTyped DEF Place
    <3>2. QED
      BY <1>11, <3>1 DEF Unlock, Locks
  <2>2. ASSUME NEW u \in Users, userLock'[u] # None
        PROVE  pc'[userLock'[u]] \in Past /\ arg'[userLock'[u]].user = u
    BY <1>11, <2>2 DEF Unlock, Locks
  <2>3. ASSUME NEW t \in Titles, titleLock'[t] # None PROVE pc'[titleLock'[t]] \in Past
    BY <1>11, <2>3 DEF Unlock, Locks
  <2>4. QED
    BY <2>1, <2>2, <2>3 DEF Locks
<1>12. ASSUME NEW s \in Savers, Commit(s) PROVE Locks'
  BY <1>11, <1>12 DEF Commit
<1>13. ASSUME NEW s \in Savers, FailStatement(s) PROVE Locks'
  BY <1>11, <1>13 DEF FailStatement, Abort
<1>14. CASE Crash
  BY <1>14 DEF Crash, Locks
<1>15. ASSUME NEW u \in Users, NEW role \in Roles, AssignRole(u, role) PROVE Locks'
  BY <1>15 DEF AssignRole, Locks
<1>16. QED
  BY <1>2, <1>3, <1>4, <1>5, <1>6, <1>7, <1>8, <1>9, <1>10, <1>12, <1>13, <1>14, <1>15,
     VictimInTransaction DEF Next, Advance

-----------------------------------------------------------------------------
(* A locked user is the user of a save, which has a row to store. *)
LEMMA DraftedTyped ==
  ASSUME StateType, Place, Drafted, NEW s \in Savers, pc[s] \in Past
  PROVE  /\ draft[s] \in Draft /\ draft[s].row \in Rows
         /\ arg[s] \in Saves /\ arg[s].user \in Users
<1>1. arg[s] \in Saves
  BY DEF Place, StateType, Past, Answers, Statements
<1>2. draft[s].row \in Rows
  BY DEF Drafted, DraftOf, DraftedRow
<1>3. QED
  BY <1>1, <1>2, SavesTyped DEF StateType

(* Every statement makes a draft of a draft. *)
LEMMA DraftsTyped ==
  ASSUME NEW old \in Draft
  PROVE  /\ \A row \in Rows : [old EXCEPT !.row = row] \in Draft
         /\ \A titles \in SUBSET Titles : [old EXCEPT !.subjects = titles] \in Draft
         /\ \A rows \in SUBSET ControlRow : [old EXCEPT !.controls = rows] \in Draft
<1>1. ASSUME NEW row \in Rows PROVE [old EXCEPT !.row = row] \in Draft
  BY DEF Draft
<1>2. ASSUME NEW titles \in SUBSET Titles PROVE [old EXCEPT !.subjects = titles] \in Draft
  BY DEF Draft
<1>3. ASSUME NEW rows \in SUBSET ControlRow PROVE [old EXCEPT !.controls = rows] \in Draft
  BY DEF Draft
<1>4. QED
  BY <1>1, <1>2, <1>3

(* Every variable keeps its type in a step. *)
LEMMA StepTyped == StateType /\ Place /\ Drafted /\ Next => StateType'
<1> SUFFICES ASSUME StateType, Place, Drafted, Next PROVE StateType'
  OBVIOUS
<1> USE DEF StateType, Goto, Answers, Statements
<1>1. NoDraft \in Draft
  BY DEF NoDraft, Draft
<1>2. ASSUME NEW s \in Savers, NEW save \in Saves, SaveUser(s, save) PROVE StateType'
  BY <1>2 DEF SaveUser
<1>3. ASSUME NEW s \in Savers, Begin(s) PROVE StateType'
  BY <1>3 DEF Begin
<1>4. ASSUME NEW s \in Savers, FailBegin(s) PROVE StateType'
  BY <1>4 DEF FailBegin
<1>5. ASSUME NEW s \in Savers, Rollback(s) PROVE StateType'
  BY <1>5 DEF Rollback
<1>6. ASSUME NEW s \in Savers, UpsertUser(s) PROVE StateType'
  <2>1. arg[s] \in Saves /\ arg[s].user \in Users
    BY <1>6, SavesTyped DEF UpsertUser, Place
  <2>2. users[arg[s].user] \in Rows \cup {None}
    BY <2>1
  <2>3. Profiled(users[arg[s].user], arg[s]) \in Rows
    BY <2>1, <2>2, SavesTyped
  <2>4. [draft[s] EXCEPT !.row = Profiled(users[arg[s].user], arg[s])] \in Draft
    BY <2>3, DraftsTyped
  <2>5. draft' \in [Savers -> Draft]
    BY <1>6, <2>4 DEF UpsertUser
  <2>6. QED
    BY <1>6, <2>1, <2>5 DEF UpsertUser
<1>7. ASSUME NEW s \in Savers, DeleteGrades(s) PROVE StateType'
  <2>1. draft[s] \in Draft /\ draft[s].row \in Rows
    BY <1>7, DraftedTyped DEF DeleteGrades, Past
  <2>2. draft' \in [Savers -> Draft]
    BY <1>7, <2>1 DEF DeleteGrades, Draft, Rows
  <2>3. QED
    BY <1>7, <2>2 DEF DeleteGrades, RowAt
<1>8. ASSUME NEW s \in Savers, UpsertSubject(s) PROVE StateType'
  <2>1. Current(s).title \in Titles
    BY <1>8, CurrentTyped DEF UpsertSubject, OnPage
  <2>2. draft[s].subjects \cup {Current(s).title} \in SUBSET Titles
    BY <2>1 DEF Draft
  <2>3. [draft[s] EXCEPT !.subjects = draft[s].subjects \cup {Current(s).title}] \in Draft
    BY <2>2, DraftsTyped
  <2>4. draft' \in [Savers -> Draft]
    BY <1>8, <2>3 DEF UpsertSubject
  <2>5. QED
    BY <1>8, <2>1, <2>4 DEF UpsertSubject
<1>9. ASSUME NEW s \in Savers, UpsertControl(s) PROVE StateType'
  <2>1. [title |-> Current(s).title, zed |-> Current(s).zed] \in ControlRow
    BY <1>9, CurrentTyped DEF UpsertControl, OnPage, ControlRow
  <2> DEFINE table == Put(draft[s].controls, {[title |-> Current(s).title, zed |-> Current(s).zed]})
  <2>2. table \in SUBSET ControlRow
    BY <2>1 DEF Draft, Put
  <2>3. [draft[s] EXCEPT !.controls = table] \in Draft
    BY <2>2, DraftsTyped
  <2>4. draft' \in [Savers -> Draft]
    BY <1>9, <2>3 DEF UpsertControl
  <2>5. QED
    BY <1>9, <2>4 DEF UpsertControl
<1>10. ASSUME NEW s \in Savers, UpsertGrade(s) PROVE StateType'
  <2>1. [title |-> Current(s).title, mark |-> Current(s).mark] \in GradeRow
    BY <1>10, CurrentTyped DEF UpsertGrade, OnPage, GradeRow
  <2>2. draft[s] \in Draft /\ draft[s].row \in Rows
    BY <1>10, DraftedTyped DEF UpsertGrade, Past
  <2>3. draft' \in [Savers -> Draft]
    BY <1>10, <2>1, <2>2 DEF UpsertGrade, Draft, Rows, Put
  <2>4. QED
    BY <1>10, <2>3 DEF UpsertGrade, RowAt
<1>11. ASSUME NEW s \in Savers, Commit(s) PROVE StateType'
  <2>1. draft[s] \in Draft /\ draft[s].row \in Rows /\ arg[s].user \in Users
    BY <1>11, DraftedTyped DEF Commit, Past
  <2>2. users' \in [Users -> Rows \cup {None}] /\ subjects' \subseteq Titles
    BY <1>11, <2>1 DEF Commit, Draft
  <2>3. controls' \subseteq ControlRow
    BY <1>11, <2>1 DEF Commit, Draft, Put
  <2>4. userLock' \in [Users -> Savers \cup {None}] /\ titleLock' \in [Titles -> Savers \cup {None}]
    BY <1>11 DEF Commit, Unlock
  <2>5. draft' \in [Savers -> Draft]
    BY <1>1, <1>11 DEF Commit, Unlock
  <2>6. pc' \in [Savers -> Answers \cup Statements \cup {"begin", "rollback"}]
    <3>1. ASSUME NEW how \in Answers, Goto(s, how) PROVE pc' \in [Savers -> Answers \cup Statements \cup {"begin", "rollback"}]
      BY <3>1
    <3>2. QED
      BY <1>11, <3>1 DEF Commit
  <2>7. free' \in Nat /\ UNCHANGED <<arg, at>>
    BY <1>11 DEF Commit
  <2>8. QED
    BY <2>2, <2>3, <2>4, <2>5, <2>6, <2>7
<1>12. ASSUME NEW s \in Savers, FailStatement(s) PROVE StateType'
  BY <1>1, <1>12 DEF FailStatement, Abort, Unlock
<1>13. CASE Crash
  BY <1>1, <1>13 DEF Crash
<1>14. ASSUME NEW u \in Users, NEW role \in Roles, AssignRole(u, role) PROVE StateType'
  <2>1. users[u] \in Rows
    BY <1>14 DEF AssignRole
  <2>2. [users[u] EXCEPT !.role = role] \in Rows
    BY <2>1 DEF Rows
  <2>3. QED
    BY <1>14, <2>2 DEF AssignRole
<1>15. QED
  BY <1>2, <1>3, <1>4, <1>5, <1>6, <1>7, <1>8, <1>9, <1>10, <1>11, <1>12, <1>13, <1>14,
     VictimInTransaction DEF Next, Advance

-----------------------------------------------------------------------------
(* Nothing disturbs the draft of a save but the save, as long as the row of *)
(* its user does not change.                                                *)
LEMMA DraftKept ==
  ASSUME NEW d \in Savers, DraftOf(d),
         pc'[d] = pc[d], arg'[d] = arg[d], at'[d] = at[d], draft'[d] = draft[d],
         pc[d] \in Past => users'[arg[d].user] = users[arg[d].user]
  PROVE  DraftOf(d)'
BY DEF DraftOf, DraftedRow, DraftedPage

(* The draft of a save between its statements is that of the rows done. *)
LEMMA OwnDraft ==
  ASSUME StateType, Place, Locks, Drafted, NEW s \in Savers,
         UpsertUser(s) \/ DeleteGrades(s) \/ UpsertSubject(s) \/ UpsertControl(s) \/ UpsertGrade(s)
  PROVE  DraftOf(s)'
<1> USE DEF StateType, Goto, Past, OnPage
<1>0. DraftOf(s)
  BY DEF Drafted
<1>1. CASE UpsertUser(s)
  <2>1. draft[s] = NoDraft /\ arg[s] \in Saves
    BY <1>0, <1>1 DEF UpsertUser, DraftOf, Place
  <2>2. users[arg[s].user] \in Rows \cup {None}
    BY <2>1, SavesTyped
  <2>3. Profiled(users[arg[s].user], arg[s]) \in Rows
    BY <2>1, <2>2, SavesTyped
  <2>4. /\ draft'[s].row = Profiled(users[arg[s].user], arg[s])
        /\ draft'[s].subjects = {} /\ draft'[s].controls = {}
    <3> DEFINE row == Profiled(users[arg[s].user], arg[s])
    <3>1. draft'[s] = [draft[s] EXCEPT !.row = row]
      BY <1>1 DEF UpsertUser
    <3> HIDE DEF row
    <3>2. draft'[s].row = row /\ draft'[s].subjects = {} /\ draft'[s].controls = {}
      BY <2>1, <3>1 DEF NoDraft
    <3>3. QED
      BY <3>2 DEF row
  <2>5. UNCHANGED <<users, arg>> /\ pc'[s] = (IF arg[s].page = None THEN "commit" ELSE "deleteGrades")
    BY <1>1 DEF UpsertUser
  <2>6. DraftedRow(s)'
    BY <2>3, <2>4, <2>5 DEF DraftedRow, Profiled
  <2>7. DraftedPage(s)'
    BY <2>4, <2>5 DEF DraftedPage
  <2>8. QED
    BY <2>5, <2>6, <2>7 DEF DraftOf
<1>2. CASE DeleteGrades(s)
  <2>1. /\ DraftedRow(s) /\ DraftedPage(s) /\ arg[s].page # None
        /\ pc[s] = "deleteGrades"
    BY <1>0, <1>2 DEF DeleteGrades, DraftOf, Place
  <2>2. /\ draft[s] \in Draft /\ draft[s].row \in Rows
        /\ draft[s].controls = {} /\ draft[s].subjects = {}
    BY <2>1 DEF DraftedRow, DraftedPage
  <2>3. /\ UNCHANGED <<users, arg>> /\ at'[s] = 1 /\ pc'[s] \in {"upsertSubject", "commit"}
        /\ draft'[s] = [draft[s] EXCEPT !.row = [draft[s].row EXCEPT !.grades = {}]]
    BY <1>2 DEF DeleteGrades, RowAt
  <2>4. DraftedRow(s)'
    BY <2>1, <2>2, <2>3 DEF DraftedRow, Draft, Rows
  <2>5. DraftedPage(s)'
    <3>1. /\ draft'[s].row = [draft[s].row EXCEPT !.grades = {}]
          /\ draft'[s].controls = {} /\ draft'[s].subjects = {}
      BY <2>2, <2>3 DEF Draft
    <3>2. draft'[s].row.grades = {}
      BY <2>2, <3>1 DEF Rows
    <3>3. at'[s] - 1 = 0
      BY <2>3
    <3>4. QED
      BY <2>1, <2>3, <3>1, <3>2, <3>3, EmptyPage DEF DraftedPage
  <2>6. QED
    BY <2>3, <2>4, <2>5 DEF DraftOf
<1>3. CASE UpsertSubject(s)
  <2>1. DraftedRow(s) /\ DraftedPage(s) /\ pc[s] = "upsertSubject" /\ draft[s] \in Draft
    BY <1>0, <1>3 DEF UpsertSubject, DraftOf
  <2>2. at[s] \in Nat \ {0} /\ Current(s) = arg[s].page[at[s]]
    BY <2>1, CurrentTyped
  <2>3. /\ UNCHANGED <<users, arg, at>> /\ pc'[s] = "upsertControl"
        /\ draft'[s] = [draft[s] EXCEPT !.subjects = @ \cup {Current(s).title}]
    BY <1>3 DEF UpsertSubject
  <2>4. DraftedRow(s)'
    BY <2>1, <2>3 DEF DraftedRow, Draft
  <2>5. DraftedPage(s)'
    <3>1. /\ draft'[s].row = draft[s].row /\ draft'[s].controls = draft[s].controls
          /\ draft'[s].subjects = draft[s].subjects \cup {Current(s).title}
      BY <2>1, <2>3 DEF Draft
    <3>2. draft[s].subjects = TitlesTo(arg[s].page, at[s] - 1)
      BY <2>1 DEF DraftedPage
    <3>3. TitlesTo(arg[s].page, at[s]) = TitlesTo(arg[s].page, at[s] - 1) \cup {arg[s].page[at[s]].title}
      BY <2>2, NextRow
    <3>4. QED
      BY <2>1, <2>2, <2>3, <3>1, <3>2, <3>3 DEF DraftedPage
  <2>6. QED
    BY <2>3, <2>4, <2>5 DEF DraftOf
<1>4. CASE UpsertControl(s)
  <2>1. DraftedRow(s) /\ DraftedPage(s) /\ pc[s] = "upsertControl" /\ draft[s] \in Draft
    BY <1>0, <1>4 DEF UpsertControl, DraftOf
  <2>2. at[s] \in Nat \ {0} /\ Current(s) = arg[s].page[at[s]]
    BY <2>1, CurrentTyped
  <2>3. /\ UNCHANGED <<users, arg, at>> /\ pc'[s] = "upsertGrade"
        /\ draft'[s] = [draft[s] EXCEPT !.controls =
                          Put(@, {[title |-> Current(s).title, zed |-> Current(s).zed]})]
    BY <1>4 DEF UpsertControl
  <2>4. DraftedRow(s)'
    BY <2>1, <2>3 DEF DraftedRow, Draft
  <2>5. DraftedPage(s)'
    <3> DEFINE row == arg[s].page[at[s]]
    <3>1. /\ draft'[s].row = draft[s].row /\ draft'[s].subjects = draft[s].subjects
          /\ draft'[s].controls = Put(draft[s].controls, {[title |-> row.title, zed |-> row.zed]})
      BY <2>1, <2>2, <2>3 DEF Draft
    <3>2. draft[s].controls = ZedsTo(arg[s].page, at[s] - 1)
      BY <2>1 DEF DraftedPage
    <3>3. ZedsTo(arg[s].page, at[s])
            = Put(ZedsTo(arg[s].page, at[s] - 1), {[title |-> row.title, zed |-> row.zed]})
      BY <2>2, NextRow
    <3>4. draft'[s].controls = ZedsTo(arg[s].page, at[s])
      BY <3>1, <3>2, <3>3
    <3>5. QED
      BY <2>1, <2>3, <3>1, <3>4 DEF DraftedPage
  <2>6. QED
    BY <2>3, <2>4, <2>5 DEF DraftOf
<1>5. CASE UpsertGrade(s)
  <2>1. /\ DraftedRow(s) /\ DraftedPage(s) /\ pc[s] = "upsertGrade" /\ draft[s] \in Draft
        /\ draft[s].row \in Rows /\ arg[s].page # None
    BY <1>0, <1>5 DEF UpsertGrade, DraftOf, DraftedRow, Place
  <2>2. at[s] \in Nat \ {0} /\ Current(s) = arg[s].page[at[s]]
    BY <2>1, CurrentTyped
  <2>3. [title |-> Current(s).title, mark |-> Current(s).mark] \in GradeRow
    BY <2>1, CurrentTyped DEF GradeRow
  <2>4. /\ UNCHANGED <<users, arg>> /\ at'[s] = at[s] + 1 /\ pc'[s] \in {"upsertSubject", "commit"}
        /\ draft'[s] = [draft[s] EXCEPT !.row = [draft[s].row EXCEPT !.grades =
                          Put(@, {[title |-> Current(s).title, mark |-> Current(s).mark]})]]
    BY <1>5 DEF UpsertGrade, RowAt
  <2>5. DraftedRow(s)'
    BY <2>1, <2>3, <2>4 DEF DraftedRow, Draft, Rows, Put
  <2>6. at'[s] - 1 = at[s]
    BY <2>2, <2>4
  <2>7. draft'[s].row.grades = GradesTo(arg[s].page, at[s])
    <3> DEFINE row == arg[s].page[at[s]]
               grades == Put(draft[s].row.grades, {[title |-> row.title, mark |-> row.mark]})
    <3>1. draft'[s].row = [draft[s].row EXCEPT !.grades = grades]
      BY <2>1, <2>2, <2>4 DEF Draft
    <3> HIDE DEF grades
    <3>2. draft'[s].row.grades = grades
      BY <2>1, <3>1 DEF Rows
    <3>3. draft[s].row.grades = GradesTo(arg[s].page, at[s] - 1)
      BY <2>1 DEF DraftedPage
    <3>4. GradesTo(arg[s].page, at[s])
            = Put(GradesTo(arg[s].page, at[s] - 1), {[title |-> row.title, mark |-> row.mark]})
      BY <2>2, NextRow
    <3>5. QED
      BY <3>2, <3>3, <3>4 DEF grades
  <2>8. draft'[s].controls = draft[s].controls /\ draft'[s].subjects = draft[s].subjects
    BY <2>1, <2>4 DEF Draft
  <2>9. DraftedPage(s)'
    BY <2>1, <2>4, <2>6, <2>7, <2>8 DEF DraftedPage
  <2>10. QED
    BY <2>4, <2>5, <2>9 DEF DraftOf
<1>6. QED
  BY <1>1, <1>2, <1>3, <1>4, <1>5

(* Drafts stay those of the rows done in a step, and go with the lock. *)
LEMMA StepDrafted == StateType /\ Place /\ Locks /\ Drafted /\ Next => Drafted'
<1> SUFFICES ASSUME StateType, Place, Locks, Drafted, Next PROVE Drafted'
  OBVIOUS
<1> USE DEF StateType, Goto, Past
<1>1. ASSUME NEW s \in Savers, NEW p, DraftOf(s)', pc' = [pc EXCEPT ![s] = p],
             arg' = [arg EXCEPT ![s] = arg'[s]], at' = [at EXCEPT ![s] = at'[s]],
             draft' = [draft EXCEPT ![s] = draft'[s]],
             \A d \in Savers \ {s} : pc[d] \in Past => users'[arg[d].user] = users[arg[d].user]
      PROVE  Drafted'
  <2>1. ASSUME NEW d \in Savers, d # s PROVE DraftOf(d)'
    BY <1>1, <2>1, DraftKept DEF Drafted
  <2>2. QED
    BY <1>1, <2>1 DEF Drafted
<1>2. ASSUME NEW s \in Savers, pc'[s] \notin Past, draft'[s] = NoDraft PROVE DraftOf(s)'
  BY <1>2 DEF DraftOf
<1>3. ASSUME NEW s \in Savers, pc[s] \notin Past PROVE draft[s] = NoDraft
  BY <1>3 DEF Drafted, DraftOf
<1>4. ASSUME NEW s \in Savers, NEW save \in Saves, SaveUser(s, save) PROVE Drafted'
  <2>1. pc[s] \notin Past
    BY <1>4 DEF SaveUser, Idle, Answers
  <2>2. QED
    BY <1>1, <1>2, <1>3, <1>4, <2>1 DEF SaveUser
<1>5. ASSUME NEW s \in Savers, Begin(s) PROVE Drafted'
  BY <1>1, <1>2, <1>3, <1>5 DEF Begin
<1>6. ASSUME NEW s \in Savers, FailBegin(s) PROVE Drafted'
  BY <1>1, <1>2, <1>3, <1>6 DEF FailBegin
<1>7. ASSUME NEW s \in Savers, Rollback(s) PROVE Drafted'
  BY <1>1, <1>2, <1>3, <1>7 DEF Rollback
<1>8. ASSUME NEW s \in Savers, UpsertUser(s) PROVE Drafted'
  BY <1>1, <1>8, OwnDraft DEF UpsertUser
<1>9. ASSUME NEW s \in Savers, DeleteGrades(s) PROVE Drafted'
  BY <1>1, <1>9, OwnDraft DEF DeleteGrades
<1>10. ASSUME NEW s \in Savers, UpsertSubject(s) PROVE Drafted'
  BY <1>1, <1>10, OwnDraft DEF UpsertSubject
<1>11. ASSUME NEW s \in Savers, UpsertControl(s) PROVE Drafted'
  BY <1>1, <1>11, OwnDraft DEF UpsertControl
<1>12. ASSUME NEW s \in Savers, UpsertGrade(s) PROVE Drafted'
  BY <1>1, <1>12, OwnDraft DEF UpsertGrade
<1>13. ASSUME NEW s \in Savers, Commit(s) PROVE Drafted'
  <2>1. arg[s].user \in Users /\ userLock[arg[s].user] = s
    BY <1>13, DraftedTyped DEF Commit, Locks
  <2>2. \A d \in Savers \ {s} : pc[d] \in Past => users'[arg[d].user] = users[arg[d].user]
    BY <1>13, <2>1, DraftedTyped DEF Commit, Locks
  <2>3. PICK how \in {"saved", "failed"} : Goto(s, how)
    BY <1>13 DEF Commit
  <2>4. draft' = [draft EXCEPT ![s] = NoDraft] /\ UNCHANGED <<arg, at>>
    BY <1>13 DEF Commit, Unlock
  <2>5. pc' = [pc EXCEPT ![s] = how] /\ pc'[s] \notin Past /\ draft'[s] = NoDraft
    BY <2>3, <2>4
  <2>6. DraftOf(s)'
    BY <1>2, <2>5
  <2>7. QED
    BY <1>1, <2>2, <2>4, <2>5, <2>6
<1>14. ASSUME NEW s \in Savers, FailStatement(s) PROVE Drafted'
  BY <1>1, <1>2, <1>14 DEF FailStatement, Abort, Unlock
<1>15. CASE Crash
  BY <1>15 DEF Crash, Drafted, DraftOf
<1>16. ASSUME NEW u \in Users, NEW role \in Roles, AssignRole(u, role) PROVE Drafted'
  <2>1. ASSUME NEW d \in Savers PROVE DraftOf(d)'
    <3>1. pc[d] \in Past => arg[d].user # u
      BY <1>16 DEF AssignRole, Locks
    <3>2. QED
      BY <1>16, <3>1, DraftKept DEF AssignRole, Drafted
  <2>2. QED
    BY <2>1 DEF Drafted
<1>17. QED
  BY <1>4, <1>5, <1>6, <1>7, <1>8, <1>9, <1>10, <1>11, <1>12, <1>13, <1>14, <1>15, <1>16,
     VictimInTransaction DEF Next, Advance

-----------------------------------------------------------------------------
(* What a save commits are grades whose controls and subjects it commits. *)
LEMMA PageReadable ==
  ASSUME NEW page, NEW n
  PROVE  /\ \A grade \in GradesTo(page, n) : \E control \in ZedsTo(page, n) : control.title = grade.title
         /\ \A control \in ZedsTo(page, n) : control.title \in TitlesTo(page, n)
<1>1. ASSUME NEW grade \in GradesTo(page, n) PROVE \E control \in ZedsTo(page, n) : control.title = grade.title
  <2>1. PICK i \in LastTo(page, n) : grade = [title |-> page[i].title, mark |-> page[i].mark]
    BY DEF GradesTo
  <2>2. [title |-> page[i].title, zed |-> page[i].zed] \in ZedsTo(page, n)
    BY DEF ZedsTo
  <2>3. QED
    BY <2>1, <2>2
<1>2. ASSUME NEW control \in ZedsTo(page, n) PROVE control.title \in TitlesTo(page, n)
  BY DEF ZedsTo, TitlesTo, LastTo
<1>3. QED
  BY <1>1, <1>2

(* At its commit a save has drafted its whole page. *)
LEMMA AtCommit ==
  ASSUME StateType, Place, Drafted, NEW s \in Savers, pc[s] = "commit"
  PROVE  /\ arg[s] \in Saves /\ arg[s].user \in Users /\ DraftedRow(s)
         /\ arg[s].page # None =>
              /\ arg[s].page \in Seq(PageRow)
              /\ draft[s].row.grades = GradesTo(arg[s].page, Len(arg[s].page))
              /\ draft[s].controls = ZedsTo(arg[s].page, Len(arg[s].page))
              /\ draft[s].subjects = TitlesTo(arg[s].page, Len(arg[s].page))
         /\ arg[s].page = None => draft[s].controls = {} /\ draft[s].subjects = {}
<1>1. arg[s] \in Saves /\ arg[s].user \in Users
  BY DraftedTyped DEF Past
<1>2. DraftedRow(s) /\ DraftedPage(s)
  BY DEF Drafted, DraftOf, Past
<1>3. ASSUME arg[s].page # None
      PROVE  /\ arg[s].page \in Seq(PageRow)
             /\ at[s] - 1 = Len(arg[s].page)
  <2>1. arg[s].page \in Seq(PageRow)
    BY <1>1, <1>3, SavesTyped
  <2>2. at[s] = Len(arg[s].page) + 1 /\ Len(arg[s].page) \in Nat
    BY <1>3, <2>1 DEF Place
  <2>3. QED
    BY <2>1, <2>2
<1>4. QED
  BY <1>1, <1>2, <1>3 DEF DraftedPage

(* Stored grades stay readable in a step. *)
LEMMA StepReadable == StateType /\ Place /\ Locks /\ Drafted /\ GradesReadable /\ Next => GradesReadable'
<1> SUFFICES ASSUME StateType, Place, Locks, Drafted, GradesReadable, Next PROVE GradesReadable'
  OBVIOUS
<1>1. CASE UNCHANGED <<users, subjects, controls>>
  BY <1>1 DEF GradesReadable
<1>2. ASSUME NEW s \in Savers, Commit(s) PROVE GradesReadable'
  <2>1. pc[s] = "commit"
    BY <1>2 DEF Commit
  <2>2. /\ users' = [users EXCEPT ![arg[s].user] = draft[s].row]
        /\ subjects' = subjects \cup draft[s].subjects
        /\ controls' = Put(controls, draft[s].controls)
    BY <1>2 DEF Commit
  <2>3. ASSUME NEW control \in controls PROVE \E c \in controls' : c.title = control.title
    BY <2>2 DEF Put
  <2>4. \A control \in draft[s].controls : control \in controls'
    BY <2>2 DEF Put
  <2>5. \A grade \in draft[s].row.grades : \E c \in controls' : c.title = grade.title
    <3>1. CASE arg[s].page = None
      BY <2>1, <2>3, <3>1, AtCommit DEF DraftedRow, GradesReadable
    <3>2. CASE arg[s].page # None
      BY <2>1, <2>4, <3>2, AtCommit, PageReadable
    <3>3. QED
      BY <3>1, <3>2
  <2>6. \A control \in draft[s].controls : control.title \in draft[s].subjects
    BY <2>1, AtCommit, PageReadable
  <2>7. ASSUME NEW u \in Users, users'[u] # None, NEW grade \in users'[u].grades
        PROVE  \E c \in controls' : c.title = grade.title
    <3>1. CASE u = arg[s].user
      BY <2>2, <2>5, <2>7, <3>1 DEF StateType
    <3>2. CASE u # arg[s].user
      BY <2>2, <2>3, <2>7, <3>2 DEF StateType, GradesReadable
    <3>3. QED
      BY <3>1, <3>2
  <2>8. ASSUME NEW control \in controls' PROVE control.title \in subjects'
    BY <2>2, <2>6 DEF Put, GradesReadable
  <2>9. QED
    BY <2>7, <2>8 DEF GradesReadable
<1>3. ASSUME NEW u \in Users, NEW role \in Roles, AssignRole(u, role) PROVE GradesReadable'
  <2>1. users[u] \in Rows /\ users' = [users EXCEPT ![u] = [users[u] EXCEPT !.role = role]]
    BY <1>3 DEF AssignRole, StateType
  <2>2. [users[u] EXCEPT !.role = role].grades = users[u].grades
    BY <2>1 DEF Rows
  <2>3. QED
    BY <1>3, <2>1, <2>2 DEF AssignRole, GradesReadable, StateType
<1>4. QED
  BY <1>1, <1>2, <1>3 DEF Next, Advance, SaveUser, Begin, UpsertUser, DeleteGrades, UpsertSubject,
     UpsertControl, UpsertGrade, Rollback, FailBegin, FailStatement, Victim, Abort, Crash

-----------------------------------------------------------------------------
(* Every connection is idle or belongs to an open transaction. *)
Connections == free + Cardinality({s \in Savers : InTransaction(s)}) = MaxConns

(* A connection is taken where a transaction begins and given back where it *)
(* ends.                                                                    *)
LEMMA StepConnections == StateType /\ Connections /\ Next => Connections'
<1> SUFFICES ASSUME StateType, Connections, Next PROVE Connections'
  OBVIOUS
<1> DEFINE open == {s \in Savers : InTransaction(s)}
<1> USE DEF StateType, Goto, InTransaction, Statements, Answers
<1>0. IsFiniteSet(open) /\ Cardinality(open) \in Nat
  BY FS_Subset, FS_CardinalityType
<1>1. ASSUME NEW s \in Savers, NEW p, pc' = [pc EXCEPT ![s] = p], UNCHANGED free,
             (pc[s] \in Statements \cup {"rollback"}) <=> (p \in Statements \cup {"rollback"})
      PROVE  Connections'
  <2>1. open' = open
    BY <1>1
  <2>2. QED
    BY <1>1, <2>1 DEF Connections
<1>2. ASSUME NEW s \in Savers, NEW p, pc' = [pc EXCEPT ![s] = p], free' = free + 1,
             pc[s] \in Statements \cup {"rollback"}, p \notin Statements \cup {"rollback"}
      PROVE  Connections'
  <2>1. open' = open \ {s}
    BY <1>2
  <2>2. s \in open
    BY <1>2
  <2>3. Cardinality(open \ {s}) = Cardinality(open) - 1
    BY <1>0, <2>2, FS_RemoveElement
  <2>4. Cardinality(open') = Cardinality(open) - 1
    BY <2>1, <2>3
  <2>5. free + Cardinality(open) = MaxConns /\ free' = free + 1
    BY <1>2 DEF Connections
  <2> HIDE DEF open
  <2>6. free' + Cardinality(open') = MaxConns
    BY <1>0, <2>4, <2>5
  <2>7. QED
    BY <2>6 DEF Connections, open
<1>3. ASSUME NEW s \in Savers, NEW save \in Saves, SaveUser(s, save) PROVE Connections'
  BY <1>1, <1>3 DEF SaveUser, Idle
<1>4. ASSUME NEW s \in Savers, Begin(s) PROVE Connections'
  <2>1. open' = open \cup {s} /\ s \notin open
    BY <1>4 DEF Begin
  <2>2. Cardinality(open') = Cardinality(open) + 1
    BY <1>0, <2>1, FS_AddElement
  <2>3. QED
    BY <1>0, <1>4, <2>2 DEF Begin, Connections
<1>5. ASSUME NEW s \in Savers, FailBegin(s) PROVE Connections'
  BY <1>1, <1>5 DEF FailBegin
<1>6. ASSUME NEW s \in Savers, Rollback(s) PROVE Connections'
  BY <1>2, <1>6 DEF Rollback
<1>7. ASSUME NEW s \in Savers, UpsertUser(s) PROVE Connections'
  BY <1>1, <1>7 DEF UpsertUser
<1>8. ASSUME NEW s \in Savers, DeleteGrades(s) PROVE Connections'
  BY <1>1, <1>8 DEF DeleteGrades, RowAt
<1>9. ASSUME NEW s \in Savers, UpsertSubject(s) PROVE Connections'
  BY <1>1, <1>9 DEF UpsertSubject
<1>10. ASSUME NEW s \in Savers, UpsertControl(s) PROVE Connections'
  BY <1>1, <1>10 DEF UpsertControl
<1>11. ASSUME NEW s \in Savers, UpsertGrade(s) PROVE Connections'
  BY <1>1, <1>11 DEF UpsertGrade, RowAt
<1>12. ASSUME NEW s \in Savers, Commit(s) PROVE Connections'
  BY <1>2, <1>12 DEF Commit
<1>13. ASSUME NEW s \in Savers, FailStatement(s) PROVE Connections'
  BY <1>1, <1>13 DEF FailStatement, Abort
<1>14. CASE Crash
  <2>1. open' = {} /\ free' = MaxConns
    BY <1>14 DEF Crash
  <2>2. Cardinality(open') = 0
    BY <2>1, FS_EmptySet
  <2>3. QED
    BY <2>1, <2>2 DEF Connections
<1>15. ASSUME NEW u \in Users, NEW role \in Roles, AssignRole(u, role) PROVE Connections'
  BY <1>15 DEF AssignRole, Connections
<1>16. QED
  BY <1>3, <1>4, <1>5, <1>6, <1>7, <1>8, <1>9, <1>10, <1>11, <1>12, <1>13, <1>14, <1>15,
     VictimInTransaction DEF Next, Advance

-----------------------------------------------------------------------------
(* The inductive invariant. *)
Invariant == StateType /\ Place /\ Locks /\ Drafted /\ GradesReadable /\ Connections

(* It holds of empty tables and idle savers. *)
LEMMA InitInvariant == Init => Invariant
<1> SUFFICES ASSUME Init PROVE Invariant
  OBVIOUS
<1> USE DEF Init
<1>1. StateType
  BY DEF StateType, Answers, NoDraft, Draft
<1>2. Place
  BY DEF Place, OnPage
<1>3. Locks
  BY DEF Locks, Past
<1>4. Drafted
  BY DEF Drafted, DraftOf, Past
<1>5. GradesReadable
  BY DEF GradesReadable
<1>6. Connections
  <2>1. {s \in Savers : InTransaction(s)} = {}
    BY DEF InTransaction, Statements
  <2>2. Cardinality({s \in Savers : InTransaction(s)}) = 0
    BY <2>1, FS_EmptySet
  <2>3. QED
    BY <2>2 DEF Connections
<1>7. QED
  BY <1>1, <1>2, <1>3, <1>4, <1>5, <1>6 DEF Invariant

(* Every step keeps it. *)
LEMMA StepInvariant == Invariant /\ [Next]_vars => Invariant'
<1> SUFFICES ASSUME Invariant, [Next]_vars PROVE Invariant'
  OBVIOUS
<1>1. CASE Next
  BY <1>1, StepTyped, StepPlace, StepLocks, StepDrafted, StepReadable, StepConnections DEF Invariant
<1>2. CASE UNCHANGED vars
  BY <1>2 DEF vars, Invariant, StateType, Place, Locks, Drafted, DraftOf, DraftedRow, DraftedPage,
     GradesReadable, Connections, InTransaction
<1>3. QED
  BY <1>1, <1>2

(* SaveUser with its statements, locks and transactions keeps the invariant. *)
THEOREM Invariance == Spec => []Invariant
BY InitInvariant, StepInvariant, PTL DEF Spec

(* Every variable keeps its type, and no path through SaveUser, the deferred *)
(* Rollback included, loses a connection of the pool or returns it twice.    *)
THEOREM TypeCorrect == Spec => []TypeOK
<1>1. Invariant => TypeOK
  <2> SUFFICES ASSUME Invariant PROVE TypeOK
    OBVIOUS
  <2>1. Cardinality({s \in Savers : InTransaction(s)}) \in Nat
    BY FS_Subset, FS_CardinalityType
  <2>2. free \in 0 .. MaxConns
    BY <2>1 DEF Invariant, StateType, Connections
  <2>3. QED
    BY <2>2 DEF Invariant, StateType, Connections, TypeOK
<1>2. QED
  BY <1>1, Invariance, PTL

(* GetUser can scan every stored grade: no interleaving of saves leaves one  *)
(* without its subject and its control.                                     *)
THEOREM Readable == Spec => []GradesReadable
<1>1. Invariant => GradesReadable
  BY DEF Invariant
<1>2. QED
  BY <1>1, Invariance, PTL

(* Saves of one user never deadlock among themselves: the row of the user   *)
(* is the first that SaveUser locks.                                        *)
THEOREM UsersApart == Spec => []DeadlocksCrossUsers
<1>1. Invariant => DeadlocksCrossUsers
  <2> SUFFICES ASSUME Invariant, NEW savers \in SUBSET Savers, Deadlocked(savers)
               PROVE  \E s, t \in savers : arg[s].user # arg[t].user
    BY DEF DeadlocksCrossUsers
  <2>1. ASSUME NEW s \in savers PROVE pc[s] \in Past
    <3>1. PICK t \in savers : WaitsFor(t, s)
      BY DEF Deadlocked
    <3>2. CASE pc[t] = "upsertUser" /\ userLock[arg[t].user] = s
      <4>1. arg[t].user \in Users
        BY <3>2, SavesTyped DEF Invariant, Place
      <4>2. QED
        BY <3>2, <4>1 DEF Invariant, Locks
    <3>3. CASE pc[t] = "upsertSubject" /\ titleLock[Current(t).title] = s
      <4>1. Current(t).title \in Titles
        BY <3>3, CurrentTyped DEF Invariant, OnPage
      <4>2. QED
        BY <3>3, <4>1 DEF Invariant, Locks
    <3>4. QED
      BY <3>1, <3>2, <3>3 DEF WaitsFor
  <2>2. PICK s \in savers : TRUE
    BY DEF Deadlocked
  <2>3. PICK t \in savers : WaitsFor(s, t)
    BY DEF Deadlocked
  <2>4. t # s /\ userLock[arg[s].user] = s /\ userLock[arg[t].user] = t
    BY <2>1, <2>3 DEF WaitsFor, Invariant, Locks
  <2>5. QED
    BY <2>4
<1>2. QED
  BY <1>1, Invariance, PTL

-----------------------------------------------------------------------------
(* A step that takes one save to p changes the outcome of that save alone. *)
LEMMA OutcomeOf ==
  ASSUME StateType, NEW s \in Savers, NEW p, Goto(s, p)
  PROVE  Outcome' = [Outcome EXCEPT ![s] = IF p \in {"saved", "failed"} THEN p ELSE "none"]
BY DEF Outcome, Goto, StateType

(* What a save commits is the row AtomicStore stores. *)
LEMMA CommitsUpsert ==
  ASSUME StateType, Place, Drafted, NEW s \in Savers, pc[s] = "commit"
  PROVE  /\ draft[s].row = Store!Upsert(users[arg[s].user], arg[s])
         /\ Put(controls, draft[s].controls) = Store!Merge(arg[s].page)
<1> DEFINE stored == users[arg[s].user]
           grades == IF arg[s].page # None THEN Store!Grades(arg[s].page)
                     ELSE IF stored = None THEN {} ELSE stored.grades
<1>1. arg[s] \in Saves /\ DraftedRow(s)
  BY AtCommit
<1>2. draft[s].row.grades = grades
  BY AtCommit, WholePage, <1>1 DEF DraftedRow
<1>3. draft[s].row \in Rows /\ draft[s].row.profile = arg[s].profile
      /\ draft[s].row.role = IF stored = None THEN arg[s].role ELSE stored.role
  BY <1>1 DEF DraftedRow
<1>4. draft[s].row = [profile |-> draft[s].row.profile, role |-> draft[s].row.role, grades |-> draft[s].row.grades]
  BY <1>3 DEF Rows
<1>5. draft[s].row = Store!Upsert(stored, arg[s])
  BY <1>2, <1>3, <1>4 DEF Store!Upsert
<1>6. Put(controls, draft[s].controls) = Store!Merge(arg[s].page)
  <2>1. CASE arg[s].page = None
    BY <2>1, AtCommit DEF Put, Store!Merge
  <2>2. CASE arg[s].page # None
    <3>1. draft[s].controls = Store!Controls(arg[s].page)
      BY <2>2, AtCommit, WholePage
    <3>2. QED
      BY <2>2, <3>1 DEF Put, Store!Merge
  <2>3. QED
    BY <2>1, <2>2
<1>7. QED
  BY <1>5, <1>6

(* Every step of SaveUser is a step of AtomicStore or changes nothing there. *)
LEMMA StepStore == Invariant /\ [Next]_vars => [Store!Next]_(Store!vars)
<1> SUFFICES ASSUME Invariant, [Next]_vars PROVE [Store!Next]_(Store!vars)
  OBVIOUS
<1> USE DEF Invariant
<1>1. ASSUME NEW s \in Savers, NEW p, Goto(s, p), UNCHANGED <<users, controls, arg>>,
             pc[s] \notin {"saved", "failed"}, p \notin {"saved", "failed"}
      PROVE  UNCHANGED Store!vars
  <2>1. \A d \in Savers : (pc'[d] \in {"saved", "failed"} \/ pc[d] \in {"saved", "failed"}) => pc'[d] = pc[d]
    BY <1>1 DEF Goto, StateType
  <2>2. Outcome' = Outcome
    BY <2>1 DEF Outcome
  <2>3. QED
    BY <1>1, <2>2 DEF Store!vars
<1>2. ASSUME NEW s \in Savers, Goto(s, "failed"), UNCHANGED <<users, controls, arg>>,
             pc[s] \notin {"saved", "failed"}
      PROVE  Store!Next
  <2>1. Outcome' = [Outcome EXCEPT ![s] = "failed"] /\ Outcome[s] = "none"
    BY <1>2, OutcomeOf DEF Outcome
  <2>2. Store!Fail(s)
    BY <1>2, <2>1 DEF Store!Fail
  <2>3. QED
    BY <2>2 DEF Store!Next
<1>3. ASSUME NEW s \in Savers, NEW save \in Saves, SaveUser(s, save) PROVE Store!Next
  <2>1. Outcome' = [Outcome EXCEPT ![s] = "none"]
    BY <1>3, OutcomeOf DEF SaveUser
  <2>2. Store!Ask(s, save)
    BY <1>3, <2>1 DEF SaveUser, Store!Ask
  <2>3. QED
    BY <2>2 DEF Store!Next
<1>4. ASSUME NEW s \in Savers, Commit(s) PROVE Store!Next
  <2>1. pc[s] = "commit" /\ arg[s] \in Saves /\ arg[s] # None /\ Outcome[s] = "none"
    BY <1>4, AtCommit DEF Commit, Outcome
  <2>2. PICK how \in {"saved", "failed"} : Goto(s, how)
    BY <1>4 DEF Commit
  <2>3. Outcome' = [Outcome EXCEPT ![s] = how]
    BY <2>2, OutcomeOf
  <2>4. users' = [users EXCEPT ![arg[s].user] = Store!Upsert(users[arg[s].user], arg[s])]
    BY <1>4, <2>1, CommitsUpsert DEF Commit
  <2>5. controls' = Store!Merge(arg[s].page)
    BY <1>4, <2>1, CommitsUpsert DEF Commit
  <2>6. Store!Save(s)
    BY <1>4, <2>1, <2>3, <2>4, <2>5 DEF Commit, Store!Save
  <2>7. QED
    BY <2>6 DEF Store!Next
<1>5. ASSUME NEW s \in Savers, FailBegin(s) PROVE Store!Next
  BY <1>2, <1>5 DEF FailBegin
<1>6. ASSUME NEW s \in Savers, Rollback(s) PROVE Store!Next
  BY <1>2, <1>6 DEF Rollback
<1>7. ASSUME NEW s \in Savers, Begin(s) PROVE UNCHANGED Store!vars
  BY <1>1, <1>7 DEF Begin
<1>8. ASSUME NEW s \in Savers, UpsertUser(s) PROVE UNCHANGED Store!vars
  BY <1>1, <1>8 DEF UpsertUser
<1>9. ASSUME NEW s \in Savers, DeleteGrades(s) PROVE UNCHANGED Store!vars
  BY <1>1, <1>9 DEF DeleteGrades, RowAt
<1>10. ASSUME NEW s \in Savers, UpsertSubject(s) PROVE UNCHANGED Store!vars
  BY <1>1, <1>10 DEF UpsertSubject
<1>11. ASSUME NEW s \in Savers, UpsertControl(s) PROVE UNCHANGED Store!vars
  BY <1>1, <1>11 DEF UpsertControl
<1>12. ASSUME NEW s \in Savers, UpsertGrade(s) PROVE UNCHANGED Store!vars
  BY <1>1, <1>12 DEF UpsertGrade, RowAt
<1>13. ASSUME NEW s \in Savers, FailStatement(s) PROVE UNCHANGED Store!vars
  BY <1>1, <1>13 DEF FailStatement, Abort, Statements
<1>14. CASE Crash
  <2>1. Outcome' = [s \in Savers |-> "none"]
    BY <1>14 DEF Crash, Outcome
  <2>2. QED
    BY <1>14, <2>1 DEF Crash, Store!Crash, Store!Next
<1>15. ASSUME NEW u \in Users, NEW role \in Roles, AssignRole(u, role) PROVE Store!Next
  <2>1. Store!AssignRole(u, role)
    BY <1>15 DEF AssignRole, Store!AssignRole, Outcome
  <2>2. QED
    BY <2>1 DEF Store!Next
<1>16. CASE UNCHANGED vars
  BY <1>16 DEF vars, Store!vars, Outcome
<1>17. QED
  BY <1>3, <1>4, <1>5, <1>6, <1>7, <1>8, <1>9, <1>10, <1>11, <1>12, <1>13, <1>14, <1>15, <1>16,
     VictimInTransaction DEF Next, Advance

(* README.md:140: SaveUser, statement by statement and with the locks that  *)
(* PostgreSQL takes, stores profile, grades and credit units in one step or *)
(* not at all, at most once per call.                                       *)
THEOREM Implementation == Spec => ImplementsStore
<1>1. Init => Store!Init
  BY DEF Init, Store!Init, Outcome
<1>2. QED
  BY <1>1, StepStore, Invariance, PTL DEF Spec, ImplementsStore, Store!Spec
=============================================================================
