------------------------- MODULE UserManagerProofs -------------------------
(* Proofs about UserManager, for any users, devices, roles and bound. *)
EXTENDS UserManager, TLAPS

USE ConstantsAssumption

-----------------------------------------------------------------------------
(* The state without the history variables keeps its types. *)
StateType ==
  /\ portal    \in [Users -> Editions]
  /\ sessions  \in [Users -> {"none", "live", "lapsed"}]
  /\ users     \in [Users -> Rows \cup {NoRow}]
  /\ cache     \in [Users -> Grades]
  /\ tokens    \subseteq Clients
  /\ pc        \in [Clients -> Calls \cup Answers]
  /\ held      \in [Clients -> HeldUser]

(* Domain.User{} is a user, and so is one with another list of grades. *)
LEMMA EmptyUserTyped ==
  /\ EmptyUser \in HeldUser
  /\ \A g \in Grades \cup {NilGrades} : [EmptyUser EXCEPT !.grades = g] \in HeldUser
BY DEF EmptyUser, HeldUser, Editions

(* Whatever a handler saves over whatever is stored gives a well-formed row. *)
LEMMA UpsertTyped ==
  ASSUME NEW row \in Rows \cup {NoRow}, NEW user \in HeldUser
  PROVE  Upsert(row, user) \in Rows
BY DEF Upsert, Rows, HeldUser, Grades

(* The body of a response is the list of grades it was given. *)
LEMMA BodyOf == \A g : [EmptyUser EXCEPT !.grades = g].grades = g /\ EmptyUser.grades = NilGrades
BY DEF EmptyUser

(* Answering a request keeps the types of what it changes. *)
LEMMA AnswerTyped ==
  ASSUME NEW c \in Clients, NEW how \in Answers, NEW body \in Grades \cup {NilGrades},
         StateType, Answer(c, how, body)
  PROVE  pc' \in [Clients -> Calls \cup Answers] /\ held' \in [Clients -> HeldUser]
<1>1. [EmptyUser EXCEPT !.grades = body] \in HeldUser
  BY EmptyUserTyped
<1>2. QED
  BY <1>1 DEF Answer, Goto, Hold, StateType

(* So does failing one. *)
LEMMA FailTyped ==
  ASSUME NEW c \in Clients, StateType, Fail(c)
  PROVE  pc' \in [Clients -> Calls \cup Answers] /\ held' \in [Clients -> HeldUser]
BY AnswerTyped DEF Fail, Answers

(* Both outcomes of SaveUser leave well-formed rows and handlers. *)
LEMMA SaveUserTyped ==
  ASSUME NEW c \in Clients, NEW next \in Calls, StateType, SaveUser(c, next)
  PROVE  /\ users' \in [Users -> Rows \cup {NoRow}]
         /\ pc' \in [Clients -> Calls \cup Answers]
         /\ held' \in [Clients -> HeldUser]
<1> DEFINE u     == Owner[c]
           saved == [users EXCEPT ![u] = Upsert(@, held[c])]
<1>1. u \in Users /\ users[u] \in Rows \cup {NoRow} /\ held[c] \in HeldUser
  BY DEF StateType
<1>2. Upsert(users[u], held[c]) \in Rows
  BY <1>1, UpsertTyped
<1>3. saved \in [Users -> Rows \cup {NoRow}]
  BY <1>1, <1>2 DEF StateType
<1>4. CASE users' = saved /\ Goto(c, next) /\ UNCHANGED held
  BY <1>3, <1>4 DEF Goto, StateType
<1>5. CASE users' \in {users, saved} /\ Fail(c)
  BY <1>3, <1>5, FailTyped DEF StateType
<1>6. QED
  BY <1>4, <1>5 DEF SaveUser

(* Both outcomes of reading a row keep every type. *)
LEMMA ReadRowTyped ==
  ASSUME NEW c \in Clients, NEW from, NEW next \in Calls, StateType, ReadRow(c, from, next)
  PROVE  StateType'
<1> DEFINE row == users[Owner[c]]
<1>1. row \in Rows \cup {NoRow} /\ held[c] \in HeldUser
  BY DEF StateType
<1>2. CASE row = NoRow /\ Answer(c, "notFound", NilGrades)
  BY <1>2, AnswerTyped DEF ReadRow, StateType, Answers
<1>3. CASE /\ row # NoRow
           /\ Goto(c, next)
           /\ Hold(c, [held[c] EXCEPT !.profile = row.profile, !.role = row.role])
  <2>1. [held[c] EXCEPT !.profile = row.profile, !.role = row.role] \in HeldUser
    BY <1>1, <1>3 DEF HeldUser, Rows
  <2>2. QED
    BY <2>1, <1>3 DEF ReadRow, StateType, Goto, Hold
<1>4. CASE Fail(c)
  BY <1>4, FailTyped DEF ReadRow, StateType
<1>5. QED
  BY <1>2, <1>3, <1>4 DEF ReadRow

(* The server starts in a well-typed state. *)
THEOREM InitTyped == Init => StateType
<1>1. EmptyUser \in HeldUser
  BY EmptyUserTyped
<1>2. 0 \in Editions
  BY DEF Editions
<1>3. QED
  BY <1>1, <1>2 DEF Init, StateType, Grades, Answers

(* A client that holds a token, and a handler past the login's save, stand  *)
(* for a user with a row.                                                   *)
PastSave == Calls \ {"authenticate", "register", "saveLogin"}

Known ==
  /\ TokenHolderKnown
  /\ \A c \in Clients : pc[c] \in PastSave => users[Owner[c]] # NoRow

(* A login holds the provider's role and no list of grades, a write-back    *)
(* always holds a list.                                                     *)
HeldLists ==
  \A c \in Clients :
    /\ pc[c] \in {"register", "saveLogin"}  => /\ held[c].grades = NilGrades
                                               /\ held[c].role = ProviderRole[Owner[c]]
    /\ pc[c] \in {"saveGrades", "cacheSet"} => held[c].grades \in Grades

(* No step breaks a type: a row read by a handler exists, and what is       *)
(* cached is a list.                                                        *)
LEMMA StepTyped == StateType /\ Known /\ HeldLists /\ Step => StateType'
<1> SUFFICES ASSUME StateType, Known, HeldLists, Step
             PROVE  StateType'
  OBVIOUS
<1> USE DEF Goto, Calls
<1>h. \A c \in Clients : Owner[c] \in Users /\ held[c] \in HeldUser /\ users[Owner[c]] \in Rows \cup {NoRow}
  BY DEF StateType
<1>e. EmptyUser \in HeldUser
  BY EmptyUserTyped
<1>p. Pruned \in [Users -> {"none", "live", "lapsed"}]
  BY DEF Pruned, StateType
<1>l. \A u \in Users : Listed(portal[u]) \in Grades
  BY DEF Listed, Grades, StateType
<1>n. NilGrades \in Grades \cup {NilGrades}
  OBVIOUS
<1>1. ASSUME NEW c \in Clients, LoginPost(c) PROVE StateType'
  BY <1>1, <1>e DEF LoginPost, Hold, StateType
<1>2. ASSUME NEW c \in Clients, NEW call \in Calls, Enter(c, call) PROVE StateType'
  BY <1>2, <1>e DEF Enter, Hold, StateType
<1>3. ASSUME NEW c \in Clients, LogoutPost(c) PROVE StateType'
  <2>1. /\ pc' \in [Clients -> Calls \cup Answers] /\ held' \in [Clients -> HeldUser]
    BY <1>3, AnswerTyped DEF LogoutPost, Answers
  <2>2. QED
    BY <1>3, <2>1 DEF LogoutPost, StateType
<1>4. ASSUME NEW c \in Clients, ExpireToken(c) PROVE StateType'
  BY <1>4 DEF ExpireToken, StateType
<1>5. ASSUME NEW c \in Clients, Authenticate(c) PROVE StateType'
  <2> DEFINE u    == Owner[c]
             user == [EmptyUser EXCEPT !.profile = portal[u], !.role = ProviderRole[u]]
  <2>1. CASE Goto(c, "register") /\ Hold(c, user)
    <3>1. user \in HeldUser
      BY <1>e DEF HeldUser, StateType
    <3>2. QED
      BY <1>5, <2>1, <3>1 DEF Authenticate, Hold, StateType
  <2>2. CASE Answer(c, "denied", NilGrades)
    BY <1>5, <2>2, AnswerTyped DEF Authenticate, StateType, Answers
  <2>3. CASE Fail(c)
    BY <1>5, <2>3, FailTyped DEF Authenticate, StateType
  <2>4. QED
    BY <1>5, <2>1, <2>2, <2>3 DEF Authenticate
<1>6. ASSUME NEW c \in Clients, RegisterSession(c) PROVE StateType'
  BY <1>6, <1>p DEF RegisterSession, StateType
<1>7. ASSUME NEW c \in Clients, SaveLogin(c) PROVE StateType'
  BY <1>7, SaveUserTyped DEF SaveLogin, StateType
<1>8. ASSUME NEW c \in Clients, IssueToken(c) PROVE StateType'
  BY <1>8, AnswerTyped DEF IssueToken, StateType, Answers
<1>9. ASSUME NEW c \in Clients, CacheGet(c) PROVE StateType'
  <2>1. CASE Answer(c, "ok", cache[Owner[c]])
    BY <1>9, <2>1, AnswerTyped DEF CacheGet, StateType, Answers
  <2>2. CASE Goto(c, "readRow") /\ UNCHANGED held
    BY <1>9, <2>2 DEF CacheGet, StateType
  <2>3. QED
    BY <1>9, <2>1, <2>2 DEF CacheGet
<1>10. ASSUME NEW c \in Clients, ReadRow(c, "infoRow", "infoGrades") PROVE StateType'
  BY <1>10, ReadRowTyped
<1>11. ASSUME NEW c \in Clients, ReadRow(c, "readRow", "readGrades") PROVE StateType'
  BY <1>11, ReadRowTyped
<1>12. ASSUME NEW c \in Clients, ReadInfoGrades(c) PROVE StateType'
  BY <1>12, AnswerTyped, FailTyped DEF ReadInfoGrades, StateType, Answers
<1>13. ASSUME NEW c \in Clients, ReadGrades(c) PROVE StateType'
  <2> DEFINE stored == users[Owner[c]].grades
  <2>1. CASE Fail(c)
    BY <1>13, <2>1, FailTyped DEF ReadGrades, StateType
  <2>2. CASE /\ Goto(c, IF stored = NoGrades THEN "lookup" ELSE "cacheSet")
             /\ Hold(c, [held[c] EXCEPT !.grades = stored])
    <3>1. stored \in Grades
      BY <1>13, <1>h DEF ReadGrades, Known, PastSave, Rows
    <3>2. [held[c] EXCEPT !.grades = stored] \in HeldUser
      BY <1>h, <3>1 DEF HeldUser
    <3>3. QED
      BY <1>13, <2>2, <3>2 DEF ReadGrades, Hold, StateType
  <2>3. QED
    BY <1>13, <2>1, <2>2 DEF ReadGrades
<1>14. ASSUME NEW c \in Clients, LookupSession(c) PROVE StateType'
  <2>1. CASE Answer(c, "conflict", NilGrades)
    BY <1>14, <2>1, <1>p, AnswerTyped DEF LookupSession, StateType, Answers
  <2>2. CASE Goto(c, "fetch") /\ UNCHANGED held
    BY <1>14, <2>2, <1>p DEF LookupSession, StateType
  <2>3. QED
    BY <1>14, <2>1, <2>2 DEF LookupSession
<1>15. ASSUME NEW c \in Clients, FetchGrades(c) PROVE StateType'
  <2> DEFINE user == [held[c] EXCEPT !.grades = Listed(portal[Owner[c]])]
  <2>1. CASE Goto(c, "saveGrades") /\ Hold(c, user)
    <3>1. user \in HeldUser
      BY <1>h, <1>l DEF HeldUser
    <3>2. QED
      BY <1>15, <2>1, <3>1 DEF FetchGrades, Hold, StateType
  <2>2. CASE Fail(c)
    BY <1>15, <2>2, FailTyped DEF FetchGrades, StateType
  <2>3. QED
    BY <1>15, <2>1, <2>2 DEF FetchGrades
<1>16. ASSUME NEW c \in Clients, SaveGrades(c) PROVE StateType'
  BY <1>16, SaveUserTyped DEF SaveGrades, StateType
<1>17. ASSUME NEW c \in Clients, CacheSet(c) PROVE StateType'
  <2>1. held[c].grades \in Grades
    BY <1>17 DEF CacheSet, HeldLists
  <2>2. /\ pc' \in [Clients -> Calls \cup Answers] /\ held' \in [Clients -> HeldUser]
    BY <1>17, <2>1, AnswerTyped DEF CacheSet, Answers
  <2>3. QED
    BY <1>17, <2>1, <2>2 DEF CacheSet, StateType
<1>18. ASSUME NEW u \in Users, LapseSession(u) PROVE StateType'
  BY <1>18 DEF LapseSession, StateType
<1>19. ASSUME NEW u \in Users, ExpireEntry(u) PROVE StateType'
  BY <1>19 DEF ExpireEntry, StateType, Grades
<1>20. ASSUME NEW u \in Users, Publish(u) PROVE StateType'
  BY <1>20 DEF Publish, StateType, Editions
<1>21. ASSUME NEW u \in Users, NEW role \in Roles, AssignRole(u, role) PROVE StateType'
  <2>1. [users[u] EXCEPT !.role = role] \in Rows
    BY <1>21 DEF AssignRole, StateType, Rows
  <2>2. QED
    BY <1>21, <2>1 DEF AssignRole, StateType
<1>22. ASSUME Restart PROVE StateType'
  BY <1>22, <1>e DEF Restart, StateType, Answers
<1>30. QED
  BY <1>1, <1>2, <1>3, <1>4, <1>5, <1>6, <1>7, <1>8, <1>9, <1>10, <1>11, <1>12, <1>13,
     <1>14, <1>15, <1>16, <1>17, <1>18, <1>19, <1>20, <1>21, <1>22
  DEF Step, Request, Serve, Environment, GetUserInfo, GetUserGrades

-----------------------------------------------------------------------------
(* Rows are only ever replaced by rows. *)
LEMMA RowsStay ==
  ASSUME StateType, Step, NEW u \in Users, users[u] # NoRow
  PROVE  users'[u] # NoRow
<1>1. ASSUME NEW c \in Clients, NEW next, SaveUser(c, next) PROVE users'[u] # NoRow
  <2>1. Upsert(users[Owner[c]], held[c]) \in Rows
    BY UpsertTyped DEF StateType
  <2>2. QED
    BY <1>1, <2>1 DEF SaveUser, StateType
<1>2. ASSUME NEW v \in Users, NEW role \in Roles, AssignRole(v, role) PROVE users'[u] # NoRow
  <2>1. [users[v] EXCEPT !.role = role] \in Rows
    BY <1>2 DEF AssignRole, StateType, Rows
  <2>2. QED
    BY <1>2, <2>1 DEF AssignRole, StateType
<1>3. QED
  BY <1>1, <1>2 DEF Step, Request, Serve, Environment, SaveLogin, SaveGrades, LoginPost,
     GetUserInfo, GetUserGrades, Enter, LogoutPost, ExpireToken, Authenticate,
     RegisterSession, IssueToken, ReadRow, ReadInfoGrades, CacheGet, ReadGrades,
     LookupSession, FetchGrades, CacheSet, LapseSession, ExpireEntry, Publish, Restart

(* The two outcomes of SaveUser, for its handler and for everybody else. *)
LEMMA SaveUserOutcomes ==
  ASSUME NEW c \in Clients, NEW next \in Calls, StateType, SaveUser(c, next)
  PROVE  /\ \/ /\ pc' = [pc EXCEPT ![c] = next]
               /\ held' = held
               /\ users'[Owner[c]] = Upsert(users[Owner[c]], held[c])
            \/ /\ pc' = [pc EXCEPT ![c] = "failed"]
               /\ held'[c].grades = NilGrades /\ held'[c].profile = 0
               /\ \A d \in Clients \ {c} : held'[d] = held[d]
               /\ users'[Owner[c]] \in {users[Owner[c]], Upsert(users[Owner[c]], held[c])}
         /\ \A u \in Users : u # Owner[c] => users'[u] = users[u]
         /\ Upsert(users[Owner[c]], held[c]) \in Rows
<1>1. Owner[c] \in Users /\ users[Owner[c]] \in Rows \cup {NoRow} /\ held[c] \in HeldUser
  BY DEF StateType
<1>2. Upsert(users[Owner[c]], held[c]) \in Rows
  BY <1>1, UpsertTyped
<1>3. CASE users' = [users EXCEPT ![Owner[c]] = Upsert(@, held[c])] /\ Goto(c, next) /\ UNCHANGED held
  BY <1>1, <1>2, <1>3 DEF Goto, StateType
<1>4. CASE users' \in {users, [users EXCEPT ![Owner[c]] = Upsert(@, held[c])]} /\ Fail(c)
  BY <1>1, <1>2, <1>4 DEF Fail, Answer, Goto, Hold, EmptyUser, StateType
<1>5. QED
  BY <1>3, <1>4 DEF SaveUser

(* A token, and every handler past its first save, keeps its row. *)
LEMMA StepKnown == StateType /\ Known /\ Step => Known'
<1> SUFFICES ASSUME StateType, Known, Step
             PROVE  Known'
  OBVIOUS
<1> USE RowsStay DEF Known, TokenHolderKnown, PastSave, Calls, Answers, Answer, Fail, Goto, Hold, StateType
<1>1. ASSUME NEW c \in Clients, Request(c) PROVE Known'
  BY <1>1 DEF Request, LoginPost, GetUserInfo, GetUserGrades, Enter, LogoutPost, ExpireToken
<1>2. ASSUME NEW c \in Clients, Serve(c) PROVE Known'
  <2>1. CASE SaveLogin(c)
    BY <2>1, SaveUserOutcomes DEF SaveLogin
  <2>2. CASE SaveGrades(c)
    BY <2>2, SaveUserOutcomes DEF SaveGrades
  <2>3. CASE Authenticate(c) \/ RegisterSession(c) \/ IssueToken(c)
    BY <2>3 DEF Authenticate, RegisterSession, IssueToken
  <2>4. CASE ReadRow(c, "infoRow", "infoGrades") \/ ReadRow(c, "readRow", "readGrades")
    BY <2>4 DEF ReadRow
  <2>5. CASE ReadInfoGrades(c) \/ CacheGet(c) \/ ReadGrades(c)
    BY <2>5 DEF ReadInfoGrades, CacheGet, ReadGrades
  <2>6. CASE LookupSession(c) \/ FetchGrades(c) \/ CacheSet(c)
    BY <2>6 DEF LookupSession, FetchGrades, CacheSet
  <2>7. QED
    BY <1>2, <2>1, <2>2, <2>3, <2>4, <2>5, <2>6 DEF Serve
<1>3. ASSUME NEW u \in Users, Environment(u) PROVE Known'
  BY <1>3 DEF Environment, LapseSession, ExpireEntry, Publish, AssignRole
<1>4. CASE Restart
  BY <1>4 DEF Restart
<1>5. QED
  BY <1>1, <1>2, <1>3, <1>4 DEF Step

(* A login never gets a list in its hands, a handler about to write back or *)
(* cache always has one.                                                    *)
LEMMA StepHeldLists == StateType /\ Known /\ HeldLists /\ Step => HeldLists'
<1> SUFFICES ASSUME StateType, Known, HeldLists, Step
             PROVE  HeldLists'
  OBVIOUS
<1>l. \A u \in Users : Listed(portal[u]) \in Grades
  BY DEF Listed, Grades, StateType
<1>e. EmptyUser.grades = NilGrades
  BY DEF EmptyUser
<1> USE <1>e DEF HeldLists, Calls, Answers, Answer, Fail, Goto, Hold, StateType
<1>1. ASSUME NEW c \in Clients, Request(c) PROVE HeldLists'
  BY <1>1 DEF Request, LoginPost, GetUserInfo, GetUserGrades, Enter, LogoutPost, ExpireToken
<1>2. ASSUME NEW c \in Clients, Serve(c) PROVE HeldLists'
  <2>1. CASE SaveLogin(c)
    BY <2>1, SaveUserOutcomes DEF SaveLogin
  <2>2. CASE SaveGrades(c)
    BY <2>2, SaveUserOutcomes DEF SaveGrades
  <2>3. CASE Authenticate(c)
    <3> DEFINE user == [EmptyUser EXCEPT !.profile = portal[Owner[c]], !.role = ProviderRole[Owner[c]]]
               none == [EmptyUser EXCEPT !.grades = NilGrades]
    <3>1. /\ user.grades = NilGrades /\ user.role = ProviderRole[Owner[c]]
          /\ none.grades = NilGrades
      BY EmptyUserTyped DEF HeldUser
    <3>2. \/ held' = [held EXCEPT ![c] = user] /\ pc' = [pc EXCEPT ![c] = "register"]
          \/ /\ held' = [held EXCEPT ![c] = none]
             /\ \E call \in {"denied", "failed"} : pc' = [pc EXCEPT ![c] = call]
      BY <2>3 DEF Authenticate
    <3> HIDE DEF user, none
    <3>3. CASE held' = [held EXCEPT ![c] = user] /\ pc' = [pc EXCEPT ![c] = "register"]
      BY <3>1, <3>3
    <3>4. ASSUME NEW call \in {"denied", "failed"},
                 held' = [held EXCEPT ![c] = none], pc' = [pc EXCEPT ![c] = call]
          PROVE  HeldLists'
      BY <3>1, <3>4
    <3>5. QED
      BY <3>2, <3>3, <3>4
  <2>4. CASE RegisterSession(c) \/ IssueToken(c)
    BY <2>4 DEF RegisterSession, IssueToken
  <2>5. CASE ReadRow(c, "infoRow", "infoGrades") \/ ReadRow(c, "readRow", "readGrades")
    BY <2>5 DEF ReadRow
  <2>6. CASE ReadInfoGrades(c) \/ CacheGet(c)
    BY <2>6 DEF ReadInfoGrades, CacheGet
  <2>7. CASE ReadGrades(c)
    <3>1. users[Owner[c]].grades \in Grades
      BY <2>7 DEF ReadGrades, Known, PastSave, Rows
    <3>2. QED
      BY <2>7, <3>1 DEF ReadGrades, HeldUser
  <2>8. CASE LookupSession(c) \/ CacheSet(c)
    BY <2>8 DEF LookupSession, CacheSet
  <2>9. CASE FetchGrades(c)
    BY <2>9, <1>l DEF FetchGrades, HeldUser
  <2>10. QED
    BY <1>2, <2>1, <2>2, <2>3, <2>4, <2>5, <2>6, <2>7, <2>8, <2>9 DEF Serve
<1>3. ASSUME NEW u \in Users, Environment(u) PROVE HeldLists'
  BY <1>3 DEF Environment, LapseSession, ExpireEntry, Publish, AssignRole
<1>4. CASE Restart
  BY <1>4 DEF Restart
<1>5. QED
  BY <1>1, <1>2, <1>3, <1>4 DEF Step

-----------------------------------------------------------------------------
(* The history of committed grades covers every place grades are shown from. *)
Kept ==
  /\ \A u \in Users : users[u] # NoRow => Stored(users[u]) \subseteq committed[u]
  /\ \A c \in Clients : pc[c] = "cacheSet" /\ held[c].grades \in Editions
                         => held[c].grades \in committed[Owner[c]]
  /\ OnlyCommittedShown

HistoryType == committed \in [Users -> SUBSET Editions] /\ raced \subseteq Clients

(* The history variables keep their types. *)
LEMMA StepHistoryTyped == StateType' /\ HistoryType /\ Track => HistoryType'
<1> SUFFICES ASSUME StateType', HistoryType, Track
             PROVE  HistoryType'
  OBVIOUS
<1>1. ASSUME NEW u \in Users PROVE Stored(users'[u]) \subseteq Editions
  BY DEF StateType, Stored, Rows, Grades
<1>2. QED
  BY <1>1 DEF Track, HistoryType

(* What a step stores is remembered as committed. *)
LEMMA Commits ==
  ASSUME HistoryType, Track, NEW u \in Users
  PROVE  committed'[u] = committed[u] \cup Stored(users'[u])
BY DEF Track, HistoryType

(* Whatever is stored, cached, shown or about to be shown was committed,    *)
(* after every step.                                                        *)
LEMMA StepKept == StateType /\ Known /\ HeldLists /\ HistoryType /\ Kept /\ Next => Kept'
<1> SUFFICES ASSUME StateType, Known, HeldLists, HistoryType, Kept, Step, Track
             PROVE  Kept'
  BY DEF Next
<1>c. \A u \in Users : committed[u] \subseteq committed'[u] /\ Stored(users'[u]) \subseteq committed'[u]
  BY Commits
<1> USE <1>c, BodyOf DEF Kept, OnlyCommittedShown, Calls, Answers, Answer, Fail, Goto, Hold, StateType
<1>1. ASSUME NEW c \in Clients, Request(c) PROVE Kept'
  <2>1. CASE LoginPost(c)
    BY <2>1 DEF LoginPost
  <2>2. CASE \E call \in Calls : Enter(c, call)
    BY <2>2 DEF Enter
  <2>3. CASE LogoutPost(c)
    BY <2>3 DEF LogoutPost
  <2>4. CASE ExpireToken(c)
    BY <2>4 DEF ExpireToken
  <2>5. QED
    BY <1>1, <2>1, <2>2, <2>3, <2>4 DEF Request, GetUserInfo, GetUserGrades
<1>2. ASSUME NEW c \in Clients, Serve(c) PROVE Kept'
  <2>1. CASE SaveLogin(c)
    BY <2>1, SaveUserOutcomes DEF SaveLogin
  <2>2. CASE SaveGrades(c)
    <3>1. Upsert(users[Owner[c]], held[c]).grades = held[c].grades
      BY <2>2 DEF SaveGrades, HeldLists, Grades, Upsert
    <3>2. held[c].grades \in Editions /\ users'[Owner[c]] = Upsert(users[Owner[c]], held[c])
            => held[c].grades \in Stored(users'[Owner[c]])
      BY <3>1, SaveUserOutcomes, <2>2 DEF SaveGrades, Stored
    <3>3. UNCHANGED cache /\ SaveUser(c, "cacheSet")
      BY <2>2 DEF SaveGrades
    <3>4. CASE pc' = [pc EXCEPT ![c] = "failed"] /\ \A d \in Clients \ {c} : held'[d] = held[d]
      BY <3>3, <3>4
    <3>5. CASE /\ pc' = [pc EXCEPT ![c] = "cacheSet"] /\ held' = held
               /\ users'[Owner[c]] = Upsert(users[Owner[c]], held[c])
      BY <3>2, <3>3, <3>5
    <3>6. QED
      BY <3>3, <3>4, <3>5, SaveUserOutcomes
  <2>3. CASE Authenticate(c)
    <3>1. /\ UNCHANGED <<users, cache>>
          /\ \E call \in {"register", "denied", "failed"} : pc' = [pc EXCEPT ![c] = call]
          /\ \A d \in Clients \ {c} : held'[d] = held[d]
      BY <2>3 DEF Authenticate
    <3>2. QED
      BY <3>1
  <2>4. CASE RegisterSession(c)
    BY <2>4 DEF RegisterSession
  <2>5. CASE IssueToken(c)
    BY <2>5 DEF IssueToken
  <2>6. CASE ReadRow(c, "infoRow", "infoGrades") \/ ReadRow(c, "readRow", "readGrades")
    BY <2>6 DEF ReadRow
  <2>7. CASE ReadInfoGrades(c)
    <3>1. CASE Answer(c, "ok", NilGrades)
      BY <2>7, <3>1 DEF ReadInfoGrades
    <3>2. CASE Fail(c)
      BY <2>7, <3>2 DEF ReadInfoGrades
    <3>3. QED
      BY <2>7, <3>1, <3>2 DEF ReadInfoGrades
  <2>8. CASE CacheGet(c)
    <3>1. CASE cache[Owner[c]] # NoGrades /\ Answer(c, "ok", cache[Owner[c]])
      BY <2>8, <3>1 DEF CacheGet
    <3>2. CASE Goto(c, "readRow") /\ UNCHANGED held
      BY <2>8, <3>2 DEF CacheGet
    <3>3. QED
      BY <2>8, <3>1, <3>2 DEF CacheGet
  <2>9. CASE ReadGrades(c)
    <3> DEFINE user == [held[c] EXCEPT !.grades = users[Owner[c]].grades]
    <3>1. users[Owner[c]].grades \in Editions => users[Owner[c]].grades \in committed[Owner[c]]
      BY <2>9 DEF ReadGrades, Known, PastSave, Stored
    <3>2. user.grades = users[Owner[c]].grades
      BY DEF HeldUser
    <3>3. CASE Fail(c)
      BY <2>9, <3>3 DEF ReadGrades
    <3>4. CASE Hold(c, user) /\ \E call \in {"lookup", "cacheSet"} : pc' = [pc EXCEPT ![c] = call]
      BY <2>9, <3>1, <3>2, <3>4 DEF ReadGrades
    <3>5. QED
      BY <2>9, <3>3, <3>4 DEF ReadGrades
  <2>10. CASE LookupSession(c)
    BY <2>10 DEF LookupSession
  <2>11. CASE FetchGrades(c)
    BY <2>11 DEF FetchGrades
  <2>12. CASE CacheSet(c)
    BY <2>12 DEF CacheSet, HeldLists, Grades
  <2>13. QED
    BY <1>2, <2>1, <2>2, <2>3, <2>4, <2>5, <2>6, <2>7, <2>8, <2>9, <2>10, <2>11, <2>12 DEF Serve
<1>3. ASSUME NEW u \in Users, Environment(u) PROVE Kept'
  BY <1>3 DEF Environment, LapseSession, ExpireEntry, Publish, AssignRole
<1>4. CASE Restart
  BY <1>4 DEF Restart
<1>5. QED
  BY <1>1, <1>2, <1>3, <1>4 DEF Step

-----------------------------------------------------------------------------
(* Nothing stored, cached or held is newer than what the portal shows. *)
Shown(u, grades) == grades \in Editions => grades <= portal[u]

Published ==
  /\ \A u \in Users : \A e \in committed[u] : e <= portal[u] /\ e \notin Blank
  /\ \A u \in Users : users[u] # NoRow => users[u].profile <= portal[u]
  /\ \A c \in Clients : held[c].profile <= portal[Owner[c]] /\ Shown(Owner[c], held[c].grades)

(* The portal only moves forward. *)
LEMMA PortalGrows ==
  ASSUME StateType, Step, NEW u \in Users
  PROVE  portal[u] \in Nat /\ portal'[u] \in Nat /\ portal[u] <= portal'[u]
<1>1. portal[u] \in Nat
  BY DEF StateType, Editions
<1>2. CASE \E v \in Users : Publish(v)
  BY <1>1, <1>2 DEF Publish, StateType
<1>3. CASE UNCHANGED portal
  BY <1>1, <1>3
<1>4. QED
  BY <1>2, <1>3 DEF Step, Request, Serve, Environment, SaveLogin, SaveGrades, LoginPost,
     GetUserInfo, GetUserGrades, Enter, LogoutPost, ExpireToken, Authenticate,
     RegisterSession, IssueToken, ReadRow, ReadInfoGrades, CacheGet, ReadGrades,
     LookupSession, FetchGrades, CacheSet, LapseSession, ExpireEntry, AssignRole, Restart

(* A row changes by an administrator's hand, or by the save of a handler of *)
(* its user.                                                                *)
LEMMA RowChanges ==
  ASSUME StateType, Step, NEW u \in Users, users'[u] # users[u]
  PROVE  \/ \E role \in Roles : AssignRole(u, role)
         \/ \E c \in Clients : /\ Owner[c] = u
                               /\ SaveLogin(c) \/ SaveGrades(c)
                               /\ users'[u] = Upsert(users[u], held[c])
<1>1. ASSUME NEW c \in Clients, SaveLogin(c) \/ SaveGrades(c)
      PROVE  Owner[c] = u /\ users'[u] = Upsert(users[u], held[c])
  BY <1>1, SaveUserOutcomes DEF SaveLogin, SaveGrades, Calls
<1>2. ASSUME NEW v \in Users, NEW role \in Roles, AssignRole(v, role) PROVE v = u
  BY <1>2 DEF AssignRole, StateType
<1>3. QED
  BY <1>1, <1>2 DEF Step, Request, Serve, Environment, LoginPost,
     GetUserInfo, GetUserGrades, Enter, LogoutPost, ExpireToken, Authenticate,
     RegisterSession, IssueToken, ReadRow, ReadInfoGrades, CacheGet, ReadGrades,
     LookupSession, FetchGrades, CacheSet, LapseSession, ExpireEntry, Publish, Restart

(* What a handler holds after it answered. *)
LEMMA AnswerHolds ==
  ASSUME NEW c \in Clients, NEW how, NEW body, StateType, Answer(c, how, body)
  PROVE  /\ held'[c].profile = 0 /\ held'[c].grades = body
         /\ \A d \in Clients \ {c} : held'[d] = held[d]
<1>1. held' = [held EXCEPT ![c] = [EmptyUser EXCEPT !.grades = body]]
  BY DEF Answer, Hold
<1>2. /\ [EmptyUser EXCEPT !.grades = body].profile = 0
      /\ [EmptyUser EXCEPT !.grades = body].grades = body
  BY DEF EmptyUser
<1>3. QED
  BY <1>1, <1>2 DEF StateType

(* What a handler holds after it failed. *)
LEMMA FailHolds ==
  ASSUME NEW c \in Clients, StateType, Fail(c)
  PROVE  /\ held'[c].profile = 0 /\ held'[c].grades = NilGrades
         /\ \A d \in Clients \ {c} : held'[d] = held[d]
BY AnswerHolds DEF Fail

(* What a handler comes to hold was held, stored, cached or shown before. *)
LEMMA HeldChanges ==
  ASSUME StateType, Known, HeldLists, Step, NEW c \in Clients, held'[c] # held[c]
  PROVE  LET u == Owner[c] IN
         /\ \/ held'[c].profile \in {0, held[c].profile, portal[u]}
            \/ users[u] # NoRow /\ held'[c].profile = users[u].profile
         /\ \/ held'[c].grades \in {NilGrades, held[c].grades, cache[u], Listed(portal[u])}
            \/ users[u] # NoRow /\ held'[c].grades = users[u].grades
<1> DEFINE u    == Owner[c]
           Goal == /\ \/ held'[c].profile \in {0, held[c].profile, portal[u]}
                      \/ users[u] # NoRow /\ held'[c].profile = users[u].profile
                   /\ \/ held'[c].grades \in {NilGrades, held[c].grades, cache[u], Listed(portal[u])}
                      \/ users[u] # NoRow /\ held'[c].grades = users[u].grades
<1>e. EmptyUser.profile = 0 /\ EmptyUser.grades = NilGrades
  BY DEF EmptyUser
<1>h. held \in [Clients -> HeldUser]
  BY DEF StateType
<1>1. ASSUME NEW d \in Clients, LoginPost(d) \/ (\E call \in Calls : Enter(d, call)) PROVE Goal
  BY <1>1, <1>e, <1>h DEF LoginPost, Enter, Hold
<1>2. ASSUME NEW d \in Clients, NEW how, NEW body \in {NilGrades, held[d].grades, cache[Owner[d]]},
             Answer(d, how, body)
      PROVE  Goal
  BY <1>2, AnswerHolds
<1>3. ASSUME NEW d \in Clients, Fail(d) PROVE Goal
  BY <1>2, <1>3 DEF Fail
<1>4. ASSUME NEW d \in Clients, NEW next \in Calls, SaveUser(d, next) PROVE Goal
  BY <1>3, <1>4 DEF SaveUser
<1>5. ASSUME NEW d \in Clients, Authenticate(d) PROVE Goal
  <2> DEFINE user == [EmptyUser EXCEPT !.profile = portal[Owner[d]], !.role = ProviderRole[Owner[d]]]
  <2>1. user.profile = portal[Owner[d]] /\ user.grades = NilGrades
    BY EmptyUserTyped, <1>e DEF HeldUser
  <2>2. CASE held' = [held EXCEPT ![d] = user]
    BY <2>1, <2>2, <1>h
  <2>3. QED
    BY <1>2, <1>3, <1>5, <2>2 DEF Authenticate, Hold
<1>6. ASSUME NEW d \in Clients, NEW from, NEW next, ReadRow(d, from, next) PROVE Goal
  <2> DEFINE user == [held[d] EXCEPT !.profile = users[Owner[d]].profile, !.role = users[Owner[d]].role]
  <2>1. user.profile = users[Owner[d]].profile /\ user.grades = held[d].grades
    BY <1>h DEF HeldUser
  <2>2. CASE held' = [held EXCEPT ![d] = user] /\ users[Owner[d]] # NoRow
    BY <2>1, <2>2, <1>h
  <2>3. QED
    BY <1>2, <1>3, <1>6, <2>2 DEF ReadRow, Hold
<1>7. ASSUME NEW d \in Clients, ReadGrades(d) PROVE Goal
  <2> DEFINE user == [held[d] EXCEPT !.grades = users[Owner[d]].grades]
  <2>1. user.profile = held[d].profile /\ user.grades = users[Owner[d]].grades
    BY <1>h DEF HeldUser
  <2>2. users[Owner[d]] # NoRow
    BY <1>7 DEF ReadGrades, Known, PastSave, Calls
  <2>3. CASE held' = [held EXCEPT ![d] = user]
    BY <2>1, <2>2, <2>3, <1>h
  <2>4. QED
    BY <1>3, <1>7, <2>3 DEF ReadGrades, Hold
<1>8. ASSUME NEW d \in Clients, FetchGrades(d) PROVE Goal
  <2> DEFINE user == [held[d] EXCEPT !.grades = Listed(portal[Owner[d]])]
  <2>1. user.profile = held[d].profile /\ user.grades = Listed(portal[Owner[d]])
    BY <1>h DEF HeldUser
  <2>2. CASE held' = [held EXCEPT ![d] = user]
    BY <2>1, <2>2, <1>h
  <2>3. QED
    BY <1>3, <1>8, <2>2 DEF FetchGrades, Hold
<1>9. CASE Restart
  BY <1>9, <1>e DEF Restart
<1>10. CASE \E d \in Clients : \/ LogoutPost(d) \/ IssueToken(d) \/ ReadInfoGrades(d)
                               \/ CacheGet(d) \/ LookupSession(d) \/ CacheSet(d)
  BY <1>2, <1>3, <1>10 DEF LogoutPost, IssueToken, ReadInfoGrades, CacheGet, LookupSession, CacheSet
<1>11. CASE UNCHANGED held
  BY <1>11
<1>12. ASSUME NEW d \in Clients, SaveLogin(d) \/ SaveGrades(d) PROVE Goal
  BY <1>4, <1>12 DEF SaveLogin, SaveGrades, Calls
<1>13. QED
  BY <1>1, <1>5, <1>6, <1>7, <1>8, <1>9, <1>10, <1>11, <1>12
  DEF Step, Request, Serve, Environment, GetUserInfo, GetUserGrades, Calls, ExpireToken,
      RegisterSession, LapseSession, ExpireEntry, Publish, AssignRole

(* No step stores, caches or holds an edition the portal has not published  *)
(* yet.                                                                     *)
LEMMA StepPublished ==
  StateType /\ StateType' /\ Known /\ HeldLists /\ HistoryType /\ Kept /\ Published /\ Next => Published'
<1> SUFFICES ASSUME StateType, StateType', Known, HeldLists, HistoryType, Kept, Published, Step, Track
             PROVE  Published'
  BY DEF Next
<1>g. ASSUME NEW u \in Users PROVE portal[u] \in Nat /\ portal'[u] \in Nat /\ portal[u] <= portal'[u]
  BY PortalGrows
<1>s. ASSUME NEW u \in Users, NEW g PROVE Shown(u, g) => Shown(u, g)'
  <2>1. portal[u] <= portal'[u] /\ portal[u] \in Nat /\ portal'[u] \in Nat
    BY <1>g
  <2>2. QED
    BY <2>1 DEF Shown, Editions
<1>r. ASSUME NEW u \in Users, users[u] # NoRow
      PROVE  users[u] \in Rows /\ Shown(u, users[u].grades) /\ users[u].grades \notin Blank
  <2>1. users[u] \in Rows
    BY <1>r DEF StateType
  <2>2. users[u].grades \in Editions => users[u].grades \in committed[u]
    BY <1>r DEF Kept, Stored
  <2>3. QED
    BY <2>1, <2>2 DEF Published, Shown, Rows, Grades
<1>1. ASSUME NEW c \in Clients
      PROVE  held'[c].profile <= portal'[Owner[c]] /\ Shown(Owner[c], held[c].grades)'
  <2> DEFINE u == Owner[c]
  <2>1. /\ held[c] \in HeldUser /\ held'[c] \in HeldUser /\ u \in Users
        /\ held[c].profile <= portal[u] /\ Shown(u, held[c].grades)
    BY DEF StateType, Published
  <2>2. CASE held'[c] = held[c]
    <3>1. held[c].profile \in Nat
      BY <2>1 DEF HeldUser, Editions
    <3>2. QED
      BY <2>1, <2>2, <3>1, <1>g, <1>s
  <2>3. CASE held'[c] # held[c]
    <3>1. /\ \/ held'[c].profile \in {0, held[c].profile, portal[u]}
             \/ users[u] # NoRow /\ held'[c].profile = users[u].profile
          /\ \/ held'[c].grades \in {NilGrades, held[c].grades, cache[u], Listed(portal[u])}
             \/ users[u] # NoRow /\ held'[c].grades = users[u].grades
      BY <2>3, HeldChanges
    <3>2. held[c].profile \in Nat /\ (users[u] # NoRow => users[u].profile \in Nat)
      BY <2>1, <1>r DEF HeldUser, Editions, Rows
    <3>3. held'[c].profile <= portal'[u]
      BY <2>1, <3>1, <3>2, <1>g DEF Published
    <3>4. Shown(u, cache[u])
      BY <2>1 DEF Kept, OnlyCommittedShown, Published, Shown
    <3>5. Shown(u, NilGrades) /\ Shown(u, Listed(portal[u]))
      BY <2>1, <1>g DEF Shown, Listed
    <3>6. Shown(u, held'[c].grades)
      BY <2>1, <3>1, <3>4, <3>5, <1>r
    <3>7. QED
      BY <2>1, <3>3, <3>6, <1>s
  <2>4. QED
    BY <2>2, <2>3
<1>2. ASSUME NEW u \in Users, users'[u] # NoRow PROVE users'[u].profile <= portal'[u]
  <2>1. portal[u] \in Nat /\ portal'[u] \in Nat /\ portal[u] <= portal'[u]
    BY <1>g
  <2>2. CASE users'[u] = users[u]
    <3>1. users[u].profile <= portal[u] /\ users[u].profile \in Nat
      BY <1>2, <2>2, <1>r DEF Published, Rows, Editions
    <3>2. QED
      BY <2>1, <2>2, <3>1
  <2>3. ASSUME NEW role \in Roles, AssignRole(u, role) PROVE users'[u].profile <= portal'[u]
    <3>1. users[u] \in Rows /\ users'[u] = [users[u] EXCEPT !.role = role]
      BY <2>3, <1>r DEF AssignRole, StateType
    <3>2. users'[u].profile = users[u].profile /\ users[u].profile <= portal[u] /\ users[u].profile \in Nat
      BY <3>1, <2>3 DEF Rows, AssignRole, Published, Editions
    <3>3. QED
      BY <2>1, <3>2
  <2>4. ASSUME NEW c \in Clients, Owner[c] = u, users'[u] = Upsert(users[u], held[c])
        PROVE  users'[u].profile <= portal'[u]
    <3>1. held[c].profile <= portal[u] /\ held[c].profile \in Nat
      BY <2>4 DEF Published, StateType, HeldUser, Editions
    <3>2. QED
      BY <2>1, <2>4, <3>1 DEF Upsert
  <2>5. QED
    BY <2>2, <2>3, <2>4, RowChanges
<1>3. ASSUME NEW u \in Users, NEW e \in committed'[u] PROVE e <= portal'[u] /\ e \notin Blank
  <2>1. portal[u] \in Nat /\ portal'[u] \in Nat /\ portal[u] <= portal'[u]
    BY <1>g
  <2>2. CASE e \in committed[u]
    <3>1. e <= portal[u] /\ e \notin Blank /\ e \in Nat
      BY <2>2 DEF Published, HistoryType, Editions
    <3>2. QED
      BY <2>1, <3>1
  <2>3. CASE e \notin committed[u]
    <3>1. /\ users'[u] # NoRow /\ e = users'[u].grades /\ e # NoGrades
          /\ users'[u] \in Rows
      BY <1>3, <2>3, Commits DEF Stored, StateType
    <3>2. e \in Editions \ Blank
      BY <3>1 DEF Rows, Grades
    <3>3. CASE users'[u] = users[u]
      BY <3>1, <3>2, <3>3, <2>1, <1>r DEF Shown, Editions
    <3>4. ASSUME NEW role \in Roles, AssignRole(u, role) PROVE e <= portal'[u]
      <4>1. users[u] \in Rows /\ users'[u] = [users[u] EXCEPT !.role = role]
        BY <3>4, <1>r DEF AssignRole, StateType
      <4>2. e = users[u].grades
        BY <3>1, <4>1 DEF Rows
      <4>3. QED
        BY <3>2, <4>2, <3>4, <2>1, <1>r DEF AssignRole, Shown, Editions
    <3>5. ASSUME NEW c \in Clients, Owner[c] = u, users'[u] = Upsert(users[u], held[c])
          PROVE  e <= portal'[u]
      <4>1. Shown(u, held[c].grades)
        BY <3>5 DEF Published
      <4>2. e = held[c].grades \/ (users[u] # NoRow /\ e = users[u].grades)
        BY <3>1, <3>5 DEF Upsert
      <4>3. QED
        BY <3>2, <4>1, <4>2, <2>1, <1>r DEF Shown, Editions
    <3>6. QED
      BY <3>2, <3>3, <3>4, <3>5, RowChanges
  <2>4. QED
    BY <2>2, <2>3
<1>4. QED
  BY <1>1, <1>2, <1>3 DEF Published

-----------------------------------------------------------------------------
(* A handler in its window whose row nobody changed still agrees with it: a *)
(* login holds a page at least as new as the row, a refresh holds the row   *)
(* itself and has seen that it lists no grades.                             *)
Agrees(c) ==
  LET row == users[Owner[c]] IN
  /\ pc[c] \in {"register", "saveLogin"} => row = NoRow \/ row.profile <= held[c].profile
  /\ pc[c] \in {"readGrades", "lookup", "fetch", "saveGrades"}
       => row # NoRow /\ held[c].profile = row.profile
  /\ pc[c] \in {"lookup", "fetch", "saveGrades"} => row.grades = NoGrades

Undisturbed == \A c \in Clients \ raced : Agrees(c)

(* How a handler enters its window and moves inside it. *)
LEMMA WindowMoves ==
  ASSUME StateType, Known, Step, NEW c \in Clients, pc'[c] \in Window
  PROVE  LET row == users[Owner[c]] IN
         \/ pc'[c] = pc[c] /\ held'[c] = held[c]
         \/ pc'[c] = "register" /\ held'[c].profile = portal[Owner[c]] /\ UNCHANGED users
         \/ pc[c] = "register" /\ pc'[c] = "saveLogin" /\ held'[c] = held[c]
         \/ /\ pc'[c] = "readGrades" /\ UNCHANGED users
            /\ row # NoRow /\ held'[c].profile = row.profile
         \/ /\ pc[c] = "readGrades" /\ pc'[c] = "lookup" /\ UNCHANGED users
            /\ row.grades = NoGrades /\ held'[c].profile = held[c].profile
         \/ pc[c] = "lookup" /\ pc'[c] = "fetch" /\ held'[c] = held[c]
         \/ pc[c] = "fetch" /\ pc'[c] = "saveGrades" /\ held'[c].profile = held[c].profile
<1> DEFINE row  == users[Owner[c]]
           Goal ==
         \/ pc'[c] = pc[c] /\ held'[c] = held[c]
         \/ pc'[c] = "register" /\ held'[c].profile = portal[Owner[c]] /\ UNCHANGED users
         \/ pc[c] = "register" /\ pc'[c] = "saveLogin" /\ held'[c] = held[c]
         \/ /\ pc'[c] = "readGrades" /\ UNCHANGED users
            /\ row # NoRow /\ held'[c].profile = row.profile
         \/ /\ pc[c] = "readGrades" /\ pc'[c] = "lookup" /\ UNCHANGED users
            /\ row.grades = NoGrades /\ held'[c].profile = held[c].profile
         \/ pc[c] = "lookup" /\ pc'[c] = "fetch" /\ held'[c] = held[c]
         \/ pc[c] = "fetch" /\ pc'[c] = "saveGrades" /\ held'[c].profile = held[c].profile
<1>h. held \in [Clients -> HeldUser] /\ pc \in [Clients -> Calls \cup Answers]
  BY DEF StateType
<1> USE <1>h DEF Goto, Hold, Window, Calls, Answers
<1>1. ASSUME NEW d \in Clients, NEW how \in Answers, NEW body, Answer(d, how, body) PROVE Goal
  BY <1>1, AnswerHolds DEF Answer
<1>2. ASSUME NEW d \in Clients, Fail(d) PROVE Goal
  BY <1>1, <1>2 DEF Fail
<1>3. ASSUME NEW d \in Clients, LoginPost(d) \/ Enter(d, "infoRow") \/ Enter(d, "cacheGet") PROVE Goal
  BY <1>3 DEF LoginPost, Enter
<1>4. ASSUME NEW d \in Clients, SaveLogin(d) \/ SaveGrades(d) PROVE Goal
  BY <1>2, <1>4 DEF SaveLogin, SaveGrades, SaveUser
<1>5. ASSUME NEW d \in Clients, Authenticate(d) PROVE Goal
  <2> DEFINE user == [EmptyUser EXCEPT !.profile = portal[Owner[d]], !.role = ProviderRole[Owner[d]]]
  <2>1. user.profile = portal[Owner[d]]
    BY EmptyUserTyped DEF HeldUser
  <2>2. CASE held' = [held EXCEPT ![d] = user] /\ pc' = [pc EXCEPT ![d] = "register"]
    BY <1>5, <2>1, <2>2 DEF Authenticate
  <2>3. QED
    BY <1>1, <1>2, <1>5, <2>2 DEF Authenticate
<1>6. ASSUME NEW d \in Clients, RegisterSession(d) PROVE Goal
  BY <1>6 DEF RegisterSession
<1>7. ASSUME NEW d \in Clients, NEW from, NEW next \in {"infoGrades", "readGrades"}, ReadRow(d, from, next)
      PROVE  Goal
  <2> DEFINE user == [held[d] EXCEPT !.profile = users[Owner[d]].profile, !.role = users[Owner[d]].role]
  <2>1. user.profile = users[Owner[d]].profile
    BY DEF HeldUser
  <2>2. CASE /\ held' = [held EXCEPT ![d] = user] /\ pc' = [pc EXCEPT ![d] = next]
             /\ users[Owner[d]] # NoRow
    BY <1>7, <2>1, <2>2 DEF ReadRow
  <2>3. QED
    BY <1>1, <1>2, <1>7, <2>2 DEF ReadRow
<1>8. ASSUME NEW d \in Clients, ReadGrades(d) PROVE Goal
  <2> DEFINE user == [held[d] EXCEPT !.grades = users[Owner[d]].grades]
  <2>1. user.profile = held[d].profile
    BY DEF HeldUser
  <2>2. CASE /\ held' = [held EXCEPT ![d] = user]
             /\ Goto(d, IF users[Owner[d]].grades = NoGrades THEN "lookup" ELSE "cacheSet")
    BY <1>8, <2>1, <2>2 DEF ReadGrades
  <2>3. QED
    BY <1>2, <1>8, <2>2 DEF ReadGrades
<1>9. ASSUME NEW d \in Clients, LookupSession(d) PROVE Goal
  <2>1. CASE pc[d] = "lookup" /\ Goto(d, "fetch") /\ UNCHANGED held
    BY <2>1
  <2>2. QED
    BY <1>1, <1>9, <2>1 DEF LookupSession
<1>10. ASSUME NEW d \in Clients, FetchGrades(d) PROVE Goal
  <2> DEFINE user == [held[d] EXCEPT !.grades = Listed(portal[Owner[d]])]
  <2>1. user.profile = held[d].profile
    BY DEF HeldUser
  <2>2. CASE held' = [held EXCEPT ![d] = user] /\ Goto(d, "saveGrades")
    BY <1>10, <2>1, <2>2 DEF FetchGrades
  <2>3. QED
    BY <1>2, <1>10, <2>2 DEF FetchGrades
<1>11. CASE Restart
  BY <1>11 DEF Restart
<1>12. ASSUME NEW d \in Clients, CacheGet(d) PROVE Goal
  <2>1. CASE Goto(d, "readRow") /\ UNCHANGED held
    BY <2>1
  <2>2. QED
    BY <1>1, <1>12, <2>1 DEF CacheGet
<1>13. CASE \E d \in Clients : LogoutPost(d) \/ IssueToken(d) \/ ReadInfoGrades(d) \/ CacheSet(d)
  BY <1>1, <1>2, <1>13 DEF LogoutPost, IssueToken, ReadInfoGrades, CacheSet
<1>14. CASE UNCHANGED <<pc, held>>
  BY <1>14
<1>15. QED
  BY <1>3, <1>4, <1>5, <1>6, <1>7, <1>8, <1>9, <1>10, <1>11, <1>12, <1>13, <1>14
  DEF Step, Request, Serve, Environment, GetUserInfo, GetUserGrades, ExpireToken,
      LapseSession, ExpireEntry, Publish, AssignRole

(* A handler that was not raced still agrees with its row after every step. *)
LEMMA StepUndisturbed ==
  StateType /\ Known /\ Published /\ Undisturbed /\ Next => Undisturbed'
<1> SUFFICES ASSUME StateType, Known, Published, Undisturbed, Step, Track,
                    NEW c \in Clients, c \notin raced', pc'[c] \in Window
             PROVE  Agrees(c)'
  BY DEF Next, Undisturbed, Agrees, Window
<1> DEFINE row == users[Owner[c]]
<1>1. \/ pc[c] \notin Window
      \/ c \notin raced /\ Data(users'[Owner[c]]) = Data(row)
  BY DEF Track
<1>2. pc[c] \notin Window => UNCHANGED users /\ pc'[c] \in {"register", "readGrades"}
  BY WindowMoves DEF Window
<1>3. row = NoRow \/ row.profile <= portal[Owner[c]]
  BY DEF Published, StateType
<1>4. CASE pc[c] \notin Window
  BY <1>2, <1>3, <1>4, WindowMoves DEF Agrees, Window
<1>5. CASE pc[c] \in Window /\ c \notin raced /\ Data(users'[Owner[c]]) = Data(row)
  <2>1. Agrees(c)
    BY <1>5 DEF Undisturbed
  <2>2. /\ users'[Owner[c]] = NoRow <=> row = NoRow
        /\ row # NoRow => /\ users'[Owner[c]].profile = row.profile
                          /\ users'[Owner[c]].grades = row.grades
    BY <1>5 DEF Data
  <2>3. QED
    BY <1>3, <2>1, <2>2, WindowMoves DEF Agrees, Window
<1>6. QED
  BY <1>1, <1>4, <1>5

-----------------------------------------------------------------------------
(* The inductive invariant. *)
Inv ==
  /\ StateType
  /\ HistoryType
  /\ Known
  /\ HeldLists
  /\ Kept
  /\ Published
  /\ Undisturbed

(* The inductive invariant holds at the start. *)
LEMMA InitInv == Init => Inv
<1> SUFFICES ASSUME Init PROVE Inv
  OBVIOUS
<1>1. StateType
  BY InitTyped
<1>2. HistoryType /\ Known /\ HeldLists
  BY DEF Init, HistoryType, Known, TokenHolderKnown, PastSave, HeldLists, Calls
<1>3. Kept
  BY DEF Init, Kept, OnlyCommittedShown
<1>4. Published
  BY DEF Init, Published, Shown, EmptyUser
<1>5. Undisturbed
  BY DEF Init, Undisturbed, Agrees
<1>6. QED
  BY <1>1, <1>2, <1>3, <1>4, <1>5 DEF Inv

(* Every step of the handlers, of their environment and of a restart        *)
(* preserves it.                                                            *)
LEMMA StepInv == Inv /\ [Next]_vars => Inv'
<1> SUFFICES ASSUME Inv, [Next]_vars PROVE Inv'
  OBVIOUS
<1>1. CASE Next
  <2>1. StateType'
    BY <1>1, StepTyped DEF Inv, Next
  <2>2. HistoryType'
    BY <1>1, <2>1, StepHistoryTyped DEF Inv, Next
  <2>3. Known' /\ HeldLists'
    BY <1>1, StepKnown, StepHeldLists DEF Inv, Next
  <2>4. Kept'
    BY <1>1, StepKept DEF Inv
  <2>5. Published'
    BY <1>1, <2>1, StepPublished DEF Inv
  <2>6. Undisturbed'
    BY <1>1, StepUndisturbed DEF Inv
  <2>7. QED
    BY <2>1, <2>2, <2>3, <2>4, <2>5, <2>6 DEF Inv
<1>2. CASE UNCHANGED vars
  BY <1>2 DEF vars, Inv, StateType, HistoryType, Known, TokenHolderKnown, HeldLists, Kept,
     OnlyCommittedShown, Published, Shown, Undisturbed, Agrees
<1>3. QED
  BY <1>1, <1>2

(* The inductive invariant, conjunction of all the above, holds in every    *)
(* state of every behaviour.                                                *)
THEOREM Invariance == Spec => []Inv
BY InitInv, StepInv, PTL DEF Spec

(* Every variable keeps its type. *)
THEOREM TypeCorrect == Spec => []TypeOK
<1>1. Inv => TypeOK
  BY DEF Inv, StateType, HistoryType, TypeOK
<1>2. QED
  BY <1>1, Invariance, PTL

(* A token holder is never told that there is no such user. *)
THEOREM TokenHoldersKnown == Spec => []TokenHolderKnown
<1>1. Inv => TokenHolderKnown
  BY DEF Inv, Known
<1>2. QED
  BY <1>1, Invariance, PTL

(* No grades are cached or answered that were not committed first. *)
THEOREM CommittedBeforeShown == Spec => []OnlyCommittedShown
<1>1. Inv => OnlyCommittedShown
  BY DEF Inv, Kept
<1>2. QED
  BY <1>1, Invariance, PTL

-----------------------------------------------------------------------------
(* Roles change only by an administrator's hand. *)
THEOREM RolesKept == Spec => RoleKept
<1> DEFINE Kept1(u) == users[u] # NoRow =>
             users'[u].role = users[u].role \/ \E role \in Roles : AssignRole(u, role)
<1>1. ASSUME Inv, [Next]_vars, NEW u \in Users PROVE Kept1(u)
  <2>1. CASE users'[u] = users[u]
    BY <2>1
  <2>2. CASE users'[u] # users[u]
    <3>1. StateType /\ Step
      BY <1>1, <2>2 DEF Inv, Next, vars
    <3>2. QED
      <4>1. ASSUME NEW c \in Clients, users'[u] = Upsert(users[u], held[c]) PROVE Kept1(u)
        BY <4>1 DEF Upsert
      <4>2. QED
        BY <2>2, <3>1, <4>1, RowChanges
  <2>3. QED
    BY <2>1, <2>2
<1>2. Inv /\ [Next]_vars =>
        [\A u \in Users : users[u] # NoRow =>
           users'[u].role = users[u].role \/ \E role \in Roles : AssignRole(u, role)]_vars
  BY <1>1
<1>3. QED
  BY <1>2, Invariance, PTL DEF Spec, RoleKept

(* Stored data is lost only to a save that overlapped another change. *)
THEOREM LossesNeedRaces == Spec => LossNeedsRace
<1>1. ASSUME Inv, [Next]_vars, NEW u \in Users, users[u] # NoRow, Lost(users[u], users'[u])
      PROVE  \E c \in raced : Owner[c] = u /\ pc[c] \in {"saveLogin", "saveGrades"}
  <2>1. users[u] \in Rows /\ users[u].profile \in Nat
    BY <1>1 DEF Inv, StateType, Rows, Editions
  <2>2. users'[u] # users[u]
    BY <1>1, <2>1 DEF Lost
  <2>3. StateType /\ Step
    BY <1>1, <2>2 DEF Inv, Next, vars
  <2>4. ASSUME NEW role \in Roles, AssignRole(u, role) PROVE FALSE
    <3>1. users'[u] = [users[u] EXCEPT !.role = role]
      BY <2>3, <2>4 DEF AssignRole, StateType
    <3>2. users'[u].profile = users[u].profile /\ users'[u].grades = users[u].grades
      BY <2>1, <3>1 DEF Rows
    <3>3. QED
      BY <1>1, <2>1, <3>2 DEF Lost
  <2>5. PICK c \in Clients : /\ Owner[c] = u
                             /\ SaveLogin(c) \/ SaveGrades(c)
                             /\ users'[u] = Upsert(users[u], held[c])
    BY <2>2, <2>3, <2>4, RowChanges
  <2>6. held[c].profile \in Nat
    BY <1>1 DEF Inv, StateType, HeldUser, Editions
  <2>7. CASE SaveLogin(c)
    <3>1. held[c].grades = NilGrades /\ pc[c] = "saveLogin"
      BY <1>1, <2>7 DEF SaveLogin, Inv, HeldLists
    <3>2. held[c].profile < users[u].profile
      BY <1>1, <2>5, <3>1 DEF Lost, Upsert
    <3>3. ~ Agrees(c)
      BY <1>1, <2>1, <2>5, <2>6, <3>1, <3>2 DEF Agrees
    <3>4. QED
      BY <1>1, <2>5, <3>1, <3>3 DEF Inv, Undisturbed
  <2>8. CASE SaveGrades(c)
    <3>1. pc[c] = "saveGrades"
      BY <2>8 DEF SaveGrades
    <3>2. users'[u].profile = held[c].profile
      BY <2>5 DEF Upsert
    <3>3. ~ Agrees(c)
      BY <1>1, <2>1, <2>5, <2>6, <3>1, <3>2 DEF Agrees, Lost
    <3>4. QED
      BY <1>1, <2>5, <3>1, <3>3 DEF Inv, Undisturbed
  <2>9. QED
    BY <2>5, <2>7, <2>8
<1>2. Inv /\ [Next]_vars =>
        [\A u \in Users : users[u] # NoRow /\ Lost(users[u], users'[u])
           => \E c \in raced : Owner[c] = u /\ pc[c] \in {"saveLogin", "saveGrades"}]_vars
  BY <1>1
<1>3. QED
  BY <1>2, Invariance, PTL DEF Spec, LossNeedsRace

-----------------------------------------------------------------------------
(* Redis, the devices and PostgreSQL, while no user has two requests in     *)
(* flight.                                                                  *)

(* A handler about to cache holds the list its row has, and one that asks   *)
(* the provider has seen that the row has none.                             *)
FreshHands ==
  \A c \in Clients :
    LET row == users[Owner[c]] IN
    /\ pc[c] = "cacheSet" => row # NoRow /\ held[c].grades = row.grades
    /\ pc[c] \in {"lookup", "fetch", "saveGrades"} => row.grades = NoGrades

(* How a handler comes to hold a list, and what it does with it. *)
LEMMA ListMoves ==
  ASSUME StateType, Known, Step, NEW c \in Clients,
         pc'[c] \in {"lookup", "fetch", "saveGrades", "cacheSet"}
  PROVE  LET row == users[Owner[c]] IN
         \/ pc'[c] = pc[c] /\ held'[c] = held[c]
         \/ /\ pc'[c] = IF row.grades = NoGrades THEN "lookup" ELSE "cacheSet"
            /\ row # NoRow /\ held'[c].grades = row.grades /\ UNCHANGED users
         \/ pc[c] = "lookup" /\ pc'[c] = "fetch" /\ UNCHANGED users
         \/ pc[c] = "fetch" /\ pc'[c] = "saveGrades" /\ UNCHANGED users
         \/ SaveGrades(c) /\ pc'[c] = "cacheSet" /\ held' = held
<1> DEFINE row  == users[Owner[c]]
           Goal ==
         \/ pc'[c] = pc[c] /\ held'[c] = held[c]
         \/ /\ pc'[c] = IF row.grades = NoGrades THEN "lookup" ELSE "cacheSet"
            /\ row # NoRow /\ held'[c].grades = row.grades /\ UNCHANGED users
         \/ pc[c] = "lookup" /\ pc'[c] = "fetch" /\ UNCHANGED users
         \/ pc[c] = "fetch" /\ pc'[c] = "saveGrades" /\ UNCHANGED users
         \/ SaveGrades(c) /\ pc'[c] = "cacheSet" /\ held' = held
<1>h. held \in [Clients -> HeldUser] /\ pc \in [Clients -> Calls \cup Answers]
  BY DEF StateType
<1> USE <1>h DEF Goto, Hold, Calls, Answers
<1>1. ASSUME NEW d \in Clients, NEW how \in Answers, NEW body, Answer(d, how, body) PROVE Goal
  BY <1>1, AnswerHolds DEF Answer
<1>2. ASSUME NEW d \in Clients, Fail(d) PROVE Goal
  BY <1>1, <1>2 DEF Fail
<1>3. ASSUME NEW d \in Clients, LoginPost(d) \/ Enter(d, "infoRow") \/ Enter(d, "cacheGet") PROVE Goal
  BY <1>3 DEF LoginPost, Enter
<1>4. ASSUME NEW d \in Clients, SaveLogin(d) \/ SaveGrades(d) PROVE Goal
  <2>1. CASE Fail(d)
    BY <1>2, <2>1
  <2>2. CASE Goto(d, "issue") /\ UNCHANGED held
    BY <2>2
  <2>3. CASE SaveGrades(d) /\ Goto(d, "cacheSet") /\ UNCHANGED held
    BY <2>3
  <2>4. QED
    BY <1>4, <2>1, <2>2, <2>3 DEF SaveLogin, SaveGrades, SaveUser
<1>5. ASSUME NEW d \in Clients, Authenticate(d) PROVE Goal
  <2>1. CASE /\ Goto(d, "register")
             /\ Hold(d, [EmptyUser EXCEPT !.profile = portal[Owner[d]], !.role = ProviderRole[Owner[d]]])
    BY <2>1
  <2>2. QED
    BY <1>1, <1>2, <1>5, <2>1 DEF Authenticate
<1>6. ASSUME NEW d \in Clients, RegisterSession(d) PROVE Goal
  BY <1>6 DEF RegisterSession
<1>7. ASSUME NEW d \in Clients, NEW from, NEW next \in {"infoGrades", "readGrades"}, ReadRow(d, from, next)
      PROVE  Goal
  <2>1. CASE /\ Goto(d, next)
             /\ Hold(d, [held[d] EXCEPT !.profile = users[Owner[d]].profile, !.role = users[Owner[d]].role])
    BY <1>7, <2>1
  <2>2. QED
    BY <1>1, <1>2, <1>7, <2>1 DEF ReadRow
<1>8. ASSUME NEW d \in Clients, ReadGrades(d) PROVE Goal
  <2> DEFINE user == [held[d] EXCEPT !.grades = users[Owner[d]].grades]
  <2>1. user.grades = users[Owner[d]].grades
    BY DEF HeldUser
  <2>2. users[Owner[d]] # NoRow /\ UNCHANGED users
    BY <1>8 DEF ReadGrades, Known, PastSave
  <2>3. CASE /\ held' = [held EXCEPT ![d] = user]
             /\ Goto(d, IF users[Owner[d]].grades = NoGrades THEN "lookup" ELSE "cacheSet")
    BY <2>1, <2>2, <2>3
  <2>4. QED
    BY <1>2, <1>8, <2>3 DEF ReadGrades
<1>9. ASSUME NEW d \in Clients, LookupSession(d) PROVE Goal
  <2>1. CASE pc[d] = "lookup" /\ Goto(d, "fetch") /\ UNCHANGED held /\ UNCHANGED users
    BY <2>1
  <2>2. QED
    BY <1>1, <1>9, <2>1 DEF LookupSession
<1>10. ASSUME NEW d \in Clients, FetchGrades(d) PROVE Goal
  <2>1. CASE /\ pc[d] = "fetch" /\ Goto(d, "saveGrades") /\ UNCHANGED users
             /\ Hold(d, [held[d] EXCEPT !.grades = Listed(portal[Owner[d]])])
    BY <2>1
  <2>2. QED
    BY <1>2, <1>10, <2>1 DEF FetchGrades
<1>11. CASE Restart
  BY <1>11 DEF Restart
<1>12. ASSUME NEW d \in Clients, CacheGet(d) PROVE Goal
  <2>1. CASE Goto(d, "readRow") /\ UNCHANGED held
    BY <2>1
  <2>2. QED
    BY <1>1, <1>12, <2>1 DEF CacheGet
<1>13. CASE \E d \in Clients : LogoutPost(d) \/ IssueToken(d) \/ ReadInfoGrades(d) \/ CacheSet(d)
  BY <1>1, <1>2, <1>13 DEF LogoutPost, IssueToken, ReadInfoGrades, CacheSet
<1>14. CASE UNCHANGED <<pc, held>>
  BY <1>14
<1>15. QED
  BY <1>3, <1>4, <1>5, <1>6, <1>7, <1>8, <1>9, <1>10, <1>11, <1>12, <1>13, <1>14
  DEF Step, Request, Serve, Environment, GetUserInfo, GetUserGrades, ExpireToken,
      LapseSession, ExpireEntry, Publish, AssignRole

(* Only CacheSet puts a list into Redis. *)
LEMMA CacheChanges ==
  ASSUME StateType, Step, NEW u \in Users, cache'[u] # cache[u], cache'[u] # NoGrades
  PROVE  \E c \in Clients : /\ Owner[c] = u /\ pc[c] = "cacheSet" /\ UNCHANGED users
                            /\ cache'[u] = held[c].grades
<1>1. ASSUME NEW c \in Clients, CacheSet(c)
      PROVE  /\ Owner[c] = u /\ pc[c] = "cacheSet" /\ UNCHANGED users
             /\ cache'[u] = held[c].grades
  BY <1>1 DEF CacheSet, StateType
<1>2. ASSUME NEW v \in Users, ExpireEntry(v) PROVE FALSE
  BY <1>2 DEF ExpireEntry, StateType
<1>3. QED
  BY <1>1, <1>2 DEF Step, Request, Serve, Environment, SaveLogin, SaveGrades, LoginPost,
     GetUserInfo, GetUserGrades, Enter, LogoutPost, ExpireToken, Authenticate,
     RegisterSession, IssueToken, ReadRow, ReadInfoGrades, CacheGet, ReadGrades,
     LookupSession, FetchGrades, LapseSession, Publish, AssignRole, Restart

(* The list of a row that is there changes only by the save of a refresh.   *)
LEMMA ListChanges ==
  ASSUME StateType, HeldLists, Step, NEW u \in Users, users[u] # NoRow
  PROVE  \/ users'[u].grades = users[u].grades
         \/ \E c \in Clients : Owner[c] = u /\ SaveGrades(c)
<1>1. ASSUME NEW role \in Roles, AssignRole(u, role) PROVE users'[u].grades = users[u].grades
  <2>1. users[u] \in Rows /\ users'[u] = [users[u] EXCEPT !.role = role]
    BY <1>1 DEF AssignRole, StateType
  <2>2. QED
    BY <2>1 DEF Rows
<1>2. ASSUME NEW c \in Clients, SaveLogin(c), users'[u] = Upsert(users[u], held[c])
      PROVE  users'[u].grades = users[u].grades
  <2>1. held[c].grades = NilGrades
    BY <1>2 DEF SaveLogin, HeldLists
  <2>2. QED
    BY <1>2, <2>1 DEF Upsert
<1>3. QED
  BY <1>1, <1>2, RowChanges

(* The list of a stored row is never replaced: a refresh saves only where   *)
(* there is none.                                                           *)
LEMMA ListsStay ==
  ASSUME StateType, HeldLists, Step, FreshHands,
         NEW u \in Users, users[u] # NoRow, users[u].grades # NoGrades
  PROVE  users'[u] # NoRow /\ users'[u].grades = users[u].grades
<1>1. ASSUME NEW c \in Clients, Owner[c] = u, SaveGrades(c) PROVE FALSE
  BY <1>1 DEF SaveGrades, FreshHands
<1>2. QED
  BY <1>1, RowsStay, ListChanges

(* A list is shown by CacheGet out of Redis or by CacheSet out of the       *)
(* handler's hands, and stays shown until the device sends a request.       *)
LEMMA ShownMoves ==
  ASSUME StateType, Step, NEW c \in Clients, pc'[c] = "ok", held'[c].grades \in Editions
  PROVE  \/ pc'[c] = pc[c] /\ held'[c] = held[c]
         \/ /\ cache[Owner[c]] # NoGrades /\ UNCHANGED users
            /\ held'[c].grades = cache[Owner[c]]
         \/ /\ pc[c] = "cacheSet" /\ UNCHANGED users
            /\ held'[c].grades = held[c].grades
<1> DEFINE Goal ==
         \/ pc'[c] = pc[c] /\ held'[c] = held[c]
         \/ /\ cache[Owner[c]] # NoGrades /\ UNCHANGED users
            /\ held'[c].grades = cache[Owner[c]]
         \/ /\ pc[c] = "cacheSet" /\ UNCHANGED users
            /\ held'[c].grades = held[c].grades
<1>h. held \in [Clients -> HeldUser] /\ pc \in [Clients -> Calls \cup Answers]
  BY DEF StateType
<1> USE <1>h DEF Goto, Hold, Calls, Answers
<1>1. ASSUME NEW d \in Clients, NEW how, Answer(d, how, NilGrades) PROVE Goal
  BY <1>1, AnswerHolds DEF Answer
<1>2. ASSUME NEW d \in Clients, Fail(d) PROVE Goal
  BY <1>1, <1>2 DEF Fail
<1>3. ASSUME NEW d \in Clients, NEW call \in Calls, NEW user, Goto(d, call), UNCHANGED held \/ Hold(d, user)
      PROVE  Goal
  BY <1>3
<1>4. ASSUME NEW d \in Clients, NEW next \in Calls, SaveUser(d, next) PROVE Goal
  BY <1>2, <1>3, <1>4 DEF SaveUser
<1>5. ASSUME NEW d \in Clients, CacheGet(d) PROVE Goal
  <2>1. CASE cache[Owner[d]] # NoGrades /\ Answer(d, "ok", cache[Owner[d]])
    BY <1>5, <2>1, AnswerHolds DEF Answer, CacheGet
  <2>2. QED
    BY <1>3, <1>5, <2>1 DEF CacheGet
<1>6. ASSUME NEW d \in Clients, CacheSet(d) PROVE Goal
  BY <1>6, AnswerHolds DEF Answer, CacheSet
<1>7. ASSUME NEW d \in Clients, Request(d) PROVE Goal
  BY <1>1, <1>3, <1>7 DEF Request, LoginPost, GetUserInfo, GetUserGrades, Enter, LogoutPost, ExpireToken
<1>8. ASSUME NEW d \in Clients, NEW from, NEW next \in Calls, ReadRow(d, from, next) PROVE Goal
  BY <1>1, <1>2, <1>3, <1>8 DEF ReadRow
<1>9. ASSUME NEW d \in Clients, Serve(d) PROVE Goal
  <2>1. CASE Authenticate(d) \/ RegisterSession(d) \/ IssueToken(d)
    BY <1>1, <1>2, <1>3, <2>1 DEF Authenticate, RegisterSession, IssueToken
  <2>2. CASE SaveLogin(d) \/ SaveGrades(d)
    BY <1>4, <2>2 DEF SaveLogin, SaveGrades
  <2>3. CASE ReadInfoGrades(d) \/ ReadGrades(d) \/ LookupSession(d) \/ FetchGrades(d)
    BY <1>1, <1>2, <1>3, <2>3 DEF ReadInfoGrades, ReadGrades, LookupSession, FetchGrades
  <2>4. QED
    BY <1>5, <1>6, <1>8, <1>9, <2>1, <2>2, <2>3 DEF Serve
<1>10. CASE Restart
  BY <1>10 DEF Restart
<1>11. ASSUME NEW u \in Users, Environment(u) PROVE Goal
  BY <1>11 DEF Environment, LapseSession, ExpireEntry, Publish, AssignRole
<1>12. QED
  BY <1>7, <1>9, <1>10, <1>11 DEF Step

(* A step from a state in which no user has two requests in flight keeps    *)
(* Redis, what devices were shown and the lists about to be cached fresh.   *)
LEMMA StepFresh == Inv /\ OneAtATime /\ CacheFresh /\ ShownFresh /\ FreshHands /\ [Next]_vars => (CacheFresh /\ ShownFresh /\ FreshHands)'
<1> SUFFICES ASSUME Inv, OneAtATime, CacheFresh, ShownFresh, FreshHands, Next
             PROVE  (CacheFresh /\ ShownFresh /\ FreshHands)'
  BY DEF vars, CacheFresh, ShownFresh, FreshHands
<1>i. StateType /\ Known /\ HeldLists /\ Step
  BY DEF Inv, Next
<1>1. ASSUME NEW u \in Users, cache'[u] # NoGrades PROVE users'[u] # NoRow /\ cache'[u] = users'[u].grades
  <2>1. CASE cache'[u] # cache[u]
    <3>1. PICK c \in Clients : /\ Owner[c] = u /\ pc[c] = "cacheSet" /\ UNCHANGED users
                               /\ cache'[u] = held[c].grades
      BY <1>1, <1>i, <2>1, CacheChanges
    <3>2. QED
      BY <3>1 DEF FreshHands
  <2>2. CASE cache'[u] = cache[u]
    <3>1. users[u] # NoRow /\ cache[u] = users[u].grades /\ users[u].grades # NoGrades
      BY <1>1, <2>2 DEF CacheFresh
    <3>2. QED
      BY <1>i, <2>2, <3>1, ListsStay
  <2>3. QED
    BY <2>1, <2>2
<1>2. ASSUME NEW d \in Clients, pc'[d] \in {"lookup", "fetch", "saveGrades", "cacheSet"}
      PROVE  /\ pc'[d] = "cacheSet" => users'[Owner[d]] # NoRow /\ held'[d].grades = users'[Owner[d]].grades
             /\ pc'[d] # "cacheSet" => users'[Owner[d]].grades = NoGrades
  <2> DEFINE u == Owner[d]
  <2>u. u \in Users
    OBVIOUS
  <2>1. CASE pc'[d] = pc[d] /\ held'[d] = held[d]
    <3>1. users[u] # NoRow
      BY <1>2, <1>i, <2>1 DEF Known, PastSave, Calls
    <3>2. ASSUME NEW c \in Clients, Owner[c] = u, SaveGrades(c) PROVE FALSE
      <4>1. pc[c] = "saveGrades" /\ pc[c] \in Calls /\ pc[d] \in Calls
        BY <1>2, <2>1, <3>2 DEF SaveGrades, Calls
      <4>2. c = d
        BY <3>2, <4>1 DEF OneAtATime
      <4>3. pc' = [pc EXCEPT ![d] = "cacheSet"] \/ pc' = [pc EXCEPT ![d] = "failed"]
        BY <1>i, <3>2, <4>2, SaveUserOutcomes DEF SaveGrades, Calls
      <4>4. QED
        BY <1>i, <2>1, <4>1, <4>2, <4>3 DEF StateType
    <3>3. users'[u] # NoRow /\ users'[u].grades = users[u].grades
      BY <2>u, <3>1, <3>2, <1>i, RowsStay, ListChanges
    <3>4. QED
      BY <1>2, <2>1, <3>1, <3>3 DEF FreshHands
  <2>2. CASE /\ pc'[d] = IF users[u].grades = NoGrades THEN "lookup" ELSE "cacheSet"
             /\ users[u] # NoRow /\ held'[d].grades = users[u].grades /\ UNCHANGED users
    BY <2>2
  <2>3. CASE \/ pc[d] = "lookup" /\ pc'[d] = "fetch" /\ UNCHANGED users
             \/ pc[d] = "fetch" /\ pc'[d] = "saveGrades" /\ UNCHANGED users
    BY <2>3 DEF FreshHands
  <2>4. CASE SaveGrades(d) /\ pc'[d] = "cacheSet" /\ held' = held
    <3>1. /\ held[d].grades \in Grades
          /\ users[u] # NoRow
      BY <1>i, <2>4 DEF SaveGrades, HeldLists, Known, PastSave, Calls
    <3>2. users'[u] = Upsert(users[u], held[d]) /\ Upsert(users[u], held[d]) \in Rows
      BY <1>i, <2>4, SaveUserOutcomes DEF SaveGrades, Calls, StateType
    <3>3. users'[u].grades = held[d].grades
      BY <3>1, <3>2 DEF Upsert, Grades
    <3>4. QED
      BY <2>4, <3>2, <3>3
  <2>5. QED
    BY <1>2, <1>i, <2>1, <2>2, <2>3, <2>4, ListMoves
<1>3. ASSUME NEW d \in Clients, pc'[d] = "ok", held'[d].grades \in Editions
      PROVE  users'[Owner[d]] # NoRow /\ held'[d].grades = users'[Owner[d]].grades
  <2> DEFINE u == Owner[d]
  <2>1. CASE pc'[d] = pc[d] /\ held'[d] = held[d]
    <3>1. u \in Users /\ users[u] # NoRow /\ held[d].grades = users[u].grades /\ users[u].grades # NoGrades
      BY <1>3, <2>1 DEF ShownFresh
    <3>2. QED
      BY <1>i, <2>1, <3>1, ListsStay
  <2>2. CASE /\ cache[u] # NoGrades /\ UNCHANGED users
             /\ held'[d].grades = cache[u]
    BY <2>2 DEF CacheFresh
  <2>3. CASE /\ pc[d] = "cacheSet" /\ UNCHANGED users
             /\ held'[d].grades = held[d].grades
    BY <2>3 DEF FreshHands
  <2>4. QED
    BY <1>3, <1>i, <2>1, <2>2, <2>3, ShownMoves
<1>4. QED
  BY <1>1, <1>2, <1>3 DEF CacheFresh, ShownFresh, FreshHands

(* In a behaviour in which no user ever has two requests in flight, Redis   *)
(* and every device show the list PostgreSQL holds.                         *)
THEOREM FreshAlone == Spec => FreshUnlessOverlapping
<1>1. Init => CacheFresh /\ ShownFresh /\ FreshHands
  BY DEF Init, CacheFresh, ShownFresh, FreshHands
<1>2. Inv /\ OneAtATime /\ (CacheFresh /\ ShownFresh /\ FreshHands) /\ [Next]_vars => (CacheFresh /\ ShownFresh /\ FreshHands)'
  BY StepFresh
<1>3. CacheFresh /\ ShownFresh /\ FreshHands => CacheFresh /\ ShownFresh
  OBVIOUS
<1>4. QED
  BY <1>1, <1>2, <1>3, Invariance, PTL DEF Spec, FreshUnlessOverlapping

-----------------------------------------------------------------------------
(* UserManager implements GradesService: every step of the handlers, of     *)
(* their environment and of a crash is a step of the service or invisible.  *)

(* The initial states are initial states of the service. *)
LEMMA InitService == Init => Service!Init
BY DEF Init, Service!Init, StoredRole, LastShown

(* A call that stores nothing lets its client be shown committed grades, or *)
(* shows nothing any more to those whose answer is gone.                    *)
Unstored == UNCHANGED <<portal, users>>

(* A step that leaves the database alone commits nothing. *)
LEMMA CommittedUnchanged == Inv /\ Track /\ UNCHANGED users => UNCHANGED committed
<1> SUFFICES ASSUME Inv, Track, UNCHANGED users
             PROVE  UNCHANGED committed
  OBVIOUS
<1>1. ASSUME NEW u \in Users PROVE committed'[u] = committed[u]
  <2>1. committed'[u] = committed[u] \cup Stored(users[u])
    BY Commits DEF Inv
  <2>2. Stored(users[u]) \subseteq committed[u]
    BY DEF Inv, Kept, Stored
  <2>3. QED
    BY <2>1, <2>2
<1>2. QED
  BY <1>1 DEF Track, Inv, HistoryType

(* A step that stores nothing and after which clients are shown at most     *)
(* what they were is a Clear.                                               *)
LEMMA ClearStep ==
  ASSUME Inv, Track, Unstored,
         \A c \in Clients : LastShown'[c] = LastShown[c] \/ LastShown'[c] = NilGrades
  PROVE  Service!Next
<1> DEFINE gone == {c \in Clients : LastShown'[c] = NilGrades}
<1>1. UNCHANGED committed
  BY CommittedUnchanged DEF Unstored
<1>2. LastShown' = [c \in Clients |-> IF c \in gone THEN NilGrades ELSE LastShown[c]]
  BY DEF LastShown
<1>3. Service!Clear(gone)
  BY <1>1, <1>2 DEF Service!Clear, Unstored, StoredRole
<1>4. QED
  BY <1>3 DEF Service!Next

(* A step that stores nothing and shows a client a committed list, or the   *)
(* empty one, is a Show.                                                    *)
LEMMA ShowStep ==
  ASSUME Inv, Track, Unstored, NEW c \in Clients,
         users[Owner[c]] # NoRow,
         LastShown'[c] \in committed[Owner[c]] \cup {NoGrades},
         \A d \in Clients \ {c} : LastShown'[d] = LastShown[d]
  PROVE  Service!Next
<1>1. UNCHANGED committed
  BY CommittedUnchanged DEF Unstored
<1>2. LastShown' = [LastShown EXCEPT ![c] = LastShown'[c]]
  <2>1. \A d \in Clients : LastShown'[d] = IF d = c THEN LastShown'[c] ELSE LastShown[d]
    OBVIOUS
  <2>2. /\ LastShown  = [d \in Clients |-> LastShown[d]]
        /\ LastShown' = [d \in Clients |-> LastShown'[d]]
    BY DEF LastShown
  <2>3. QED
    BY <2>1, <2>2
<1>3. StoredRole[Owner[c]] # NoRow
  BY DEF StoredRole, Inv, StateType, Rows
<1>4. Service!Show(c, LastShown'[c])
  BY <1>1, <1>2, <1>3 DEF Service!Show, Unstored, StoredRole
<1>5. LastShown'[c] \in (0 .. MaxEdition) \cup {NoGrades}
  BY DEF Inv, HistoryType, Editions
<1>6. QED
  BY <1>4, <1>5 DEF Service!Next

(* A new edition at the portal is a Publish. *)
LEMMA PublishStep ==
  ASSUME Inv, Track, NEW u \in Users, Publish(u)
  PROVE  Service!Next
<1>1. UNCHANGED committed
  BY CommittedUnchanged DEF Publish
<1>2. Service!Publish(u)
  BY <1>1 DEF Publish, Service!Publish, StoredRole, LastShown
<1>3. QED
  BY <1>2 DEF Service!Next

(* An assigned role is an AssignRole. *)
LEMMA AssignRoleStep ==
  ASSUME Inv, Track, NEW u \in Users, NEW r \in Roles, AssignRole(u, r)
  PROVE  Service!Next
<1>1. users[u] \in Rows /\ users' = [users EXCEPT ![u] = [users[u] EXCEPT !.role = r]]
  BY DEF AssignRole, Inv, StateType
<1>2. /\ [users[u] EXCEPT !.role = r].grades = users[u].grades
      /\ [users[u] EXCEPT !.role = r].role = r
      /\ [users[u] EXCEPT !.role = r] \in Rows
  BY <1>1 DEF Rows
<1>3. ASSUME NEW v \in Users PROVE committed'[v] = committed[v]
  <2>1. Stored(users'[v]) = Stored(users[v])
    BY <1>1, <1>2 DEF Stored, Inv, StateType
  <2>2. Stored(users[v]) \subseteq committed[v]
    BY DEF Inv, Kept, Stored
  <2>3. QED
    BY <2>1, <2>2, Commits DEF Inv
<1>4. UNCHANGED committed
  BY <1>3 DEF Track, Inv, HistoryType
<1>5. StoredRole' = [StoredRole EXCEPT ![u] = r]
  BY <1>1, <1>2 DEF StoredRole, Inv, StateType
<1>6. StoredRole[u] # NoRow
  BY <1>1 DEF StoredRole, Rows
<1>7. Service!AssignRole(u, r)
  BY <1>4, <1>5, <1>6 DEF Service!AssignRole, AssignRole, LastShown
<1>8. QED
  BY <1>7 DEF Service!Next

(* A save that changed the row, acknowledged or not, is a Save. *)
LEMMA SaveStep ==
  ASSUME Inv, Track, NEW c \in Clients, SaveLogin(c) \/ SaveGrades(c),
         users' # users
  PROVE  Service!Next
<1> DEFINE u     == Owner[c]
           row   == Upsert(users[u], held[c])
           saved == committed'[u] \ committed[u]
<1>1. /\ u \in Users /\ row \in Rows /\ users[u] \in Rows \cup {NoRow} /\ held[c] \in HeldUser
      /\ users' \in [Users -> Rows \cup {NoRow}]
      /\ UNCHANGED portal
      /\ users'[u] \in {users[u], row}
      /\ \A v \in Users : v # u => users'[v] = users[v]
  BY SaveUserOutcomes, SaveUserTyped DEF SaveLogin, SaveGrades, Inv, StateType, Calls
<1>2. users'[u] = row
  BY <1>1 DEF Inv, StateType
<1>3. LastShown' = LastShown
  <2>1. pc[c] # "ok" /\ pc'[c] # "ok"
    BY SaveUserOutcomes DEF SaveLogin, SaveGrades, Inv, StateType, Calls
  <2>2. \A d \in Clients \ {c} : pc'[d] = pc[d] /\ held'[d] = held[d]
    BY SaveUserOutcomes DEF SaveLogin, SaveGrades, Inv, StateType, Calls
  <2>3. QED
    BY <2>1, <2>2 DEF LastShown
<1>4. ASSUME NEW v \in Users, v # u PROVE committed'[v] = committed[v]
  <2>1. Stored(users'[v]) \subseteq committed[v]
    BY <1>1, <1>4 DEF Inv, Kept, Stored
  <2>2. QED
    BY <2>1, Commits DEF Inv
<1>5. committed' = [committed EXCEPT ![u] = committed[u] \cup saved]
  <2>1. committed[u] \subseteq committed'[u]
    BY <1>1, Commits DEF Inv
  <2>2. QED
    BY <1>1, <1>4, <2>1 DEF Track, Inv, HistoryType
<1>6. saved \subseteq Stored(row)
  BY <1>1, <1>2, Commits DEF Inv
<1>7. \A e, f \in saved : e = f
  BY <1>6 DEF Stored
<1>8. saved \subseteq (0 .. portal[u]) \ Blank
  <2>1. ASSUME NEW e \in saved PROVE e \in Editions \ Blank /\ e <= portal[u]
    <3>1. e = row.grades /\ e # NoGrades
      BY <1>6 DEF Stored
    <3>2. e \in Editions \ Blank
      BY <1>1, <3>1 DEF Rows, Grades
    <3>3. e = held[c].grades \/ (users[u] # NoRow /\ e = users[u].grades)
      BY <3>1 DEF Upsert
    <3>4. CASE e = held[c].grades
      BY <3>2, <3>4 DEF Inv, Published, Shown
    <3>5. CASE users[u] # NoRow /\ e = users[u].grades
      BY <1>1, <3>1, <3>5 DEF Inv, Kept, Stored, Published
    <3>6. QED
      BY <3>2, <3>3, <3>4, <3>5
  <2>2. portal[u] \in Nat
    BY <1>1 DEF Inv, StateType, Editions
  <2>3. QED
    BY <2>1, <2>2 DEF Editions
<1>9. StoredRole' = [StoredRole EXCEPT ![u] = IF @ = NoRow THEN ProviderRole[u] ELSE @]
  <2>1. row.role = IF users[u] = NoRow THEN held[c].role ELSE users[u].role
    BY DEF Upsert
  <2>2. users[u] = NoRow => held[c].role = ProviderRole[u]
    BY DEF SaveLogin, SaveGrades, Inv, HeldLists, Known, PastSave, Calls
  <2>3. users[u] # NoRow => users[u].role # NoRow
    BY <1>1 DEF Rows
  <2>4. row # NoRow
    BY <1>1
  <2>5. QED
    BY <1>1, <1>2, <2>1, <2>2, <2>3, <2>4 DEF StoredRole
<1>10. Service!Save(u, saved)
  BY <1>1, <1>3, <1>5, <1>7, <1>8, <1>9 DEF Service!Save
<1>11. saved \in SUBSET (0 .. MaxEdition)
  <2>1. portal[u] \in 0 .. MaxEdition
    BY <1>1 DEF Inv, StateType, Editions
  <2>2. QED
    BY <1>8, <2>1
<1>12. QED
  BY <1>1, <1>10, <1>11 DEF Service!Next

-----------------------------------------------------------------------------
(* An answer without grades shows nobody anything new. *)
LEMMA AnswerNothing ==
  ASSUME NEW c \in Clients, NEW how, Inv, Answer(c, how, NilGrades)
  PROVE  \A d \in Clients : LastShown'[d] = LastShown[d] \/ LastShown'[d] = NilGrades
<1>1. held'[c].grades = NilGrades /\ \A d \in Clients \ {c} : held'[d] = held[d] /\ pc'[d] = pc[d]
  BY AnswerHolds DEF Inv, Answer, Goto, StateType
<1>2. QED
  BY <1>1 DEF LastShown

(* Nor does an error. *)
LEMMA FailNothing ==
  ASSUME NEW c \in Clients, Inv, Fail(c)
  PROVE  \A d \in Clients : LastShown'[d] = LastShown[d] \/ LastShown'[d] = NilGrades
BY AnswerNothing DEF Fail

(* A step of c that leaves it in the middle of a request. *)
LEMMA GotoNothing ==
  ASSUME NEW c \in Clients, NEW call \in Calls, NEW user, Inv, Goto(c, call),
         held' \in {held, [held EXCEPT ![c] = user]}
  PROVE  \A d \in Clients : LastShown'[d] = LastShown[d] \/ LastShown'[d] = NilGrades
<1>1. pc'[c] # "ok" /\ \A d \in Clients \ {c} : held'[d] = held[d] /\ pc'[d] = pc[d]
  BY DEF Goto, Inv, StateType, Calls
<1>2. QED
  BY <1>1 DEF LastShown

(* An answer with grades is what its client is shown, and nobody else. *)
LEMMA AnswerGrades ==
  ASSUME NEW c \in Clients, NEW body, Inv, Answer(c, "ok", body)
  PROVE  LastShown'[c] = body /\ \A d \in Clients \ {c} : LastShown'[d] = LastShown[d]
<1>1. held'[c].grades = body /\ \A d \in Clients \ {c} : held'[d] = held[d] /\ pc'[d] = pc[d]
  BY AnswerHolds DEF Inv, Answer, Goto, StateType
<1>2. pc'[c] = "ok"
  BY DEF Answer, Goto, Inv, StateType
<1>3. QED
  BY <1>1, <1>2 DEF LastShown

(* Every step of the handlers is a step of the service, or invisible there. *)
LEMMA StepService == Inv /\ [Next]_vars => [Service!Next]_(Service!vars)
<1> SUFFICES ASSUME Inv, [Next]_vars
             PROVE  Service!Next \/ UNCHANGED Service!vars
  OBVIOUS
<1> DEFINE Quiet == \A d \in Clients : LastShown'[d] = LastShown[d] \/ LastShown'[d] = NilGrades
<1>0. CASE UNCHANGED vars
  BY <1>0 DEF vars, Service!vars, StoredRole, LastShown
<1>t. ASSUME Next PROVE Track
  BY <1>t DEF Next
<1> USE DEF Calls
<1>1. ASSUME NEW c \in Clients, LoginPost(c), Track PROVE Service!Next
  <2>1. Quiet
    BY <1>1, GotoNothing DEF LoginPost, Hold
  <2>2. QED
    BY <1>1, <2>1, ClearStep DEF LoginPost, Unstored
<1>2. ASSUME NEW c \in Clients, NEW call \in Calls, Enter(c, call), Track PROVE Service!Next
  <2>1. Quiet
    BY <1>2, GotoNothing DEF Enter, Hold
  <2>2. QED
    BY <1>2, <2>1, ClearStep DEF Enter, Unstored
<1>3. ASSUME NEW c \in Clients, LogoutPost(c), Track PROVE Service!Next
  <2>1. Quiet
    BY <1>3, AnswerNothing DEF LogoutPost
  <2>2. QED
    BY <1>3, <2>1, ClearStep DEF LogoutPost, Unstored
<1>4. ASSUME NEW c \in Clients, Authenticate(c), Track PROVE Service!Next
  <2>1. Quiet
    BY <1>4, GotoNothing, AnswerNothing, FailNothing DEF Authenticate, Hold
  <2>2. QED
    BY <1>4, <2>1, ClearStep DEF Authenticate, Unstored
<1>5. ASSUME NEW c \in Clients, RegisterSession(c), Track PROVE Service!Next
  <2>1. Quiet
    BY <1>5, GotoNothing DEF RegisterSession
  <2>2. QED
    BY <1>5, <2>1, ClearStep DEF RegisterSession, Unstored
<1>6. ASSUME NEW c \in Clients, SaveLogin(c) \/ SaveGrades(c), Track PROVE Service!Next
  <2>1. CASE users' # users
    BY <1>6, <2>1, SaveStep
  <2>2. CASE users' = users
    <3>1. Quiet
      BY <1>6, GotoNothing, FailNothing DEF SaveLogin, SaveGrades, SaveUser
    <3>2. QED
      BY <1>6, <2>2, <3>1, ClearStep DEF SaveLogin, SaveGrades, Unstored
  <2>3. QED
    BY <2>1, <2>2
<1>7. ASSUME NEW c \in Clients, IssueToken(c), Track PROVE Service!Next
  <2>1. Quiet
    BY <1>7, AnswerNothing DEF IssueToken
  <2>2. QED
    BY <1>7, <2>1, ClearStep DEF IssueToken, Unstored
<1>8. ASSUME NEW c \in Clients, NEW from, NEW next \in Calls, ReadRow(c, from, next), Track
      PROVE  Service!Next
  <2>1. Quiet
    BY <1>8, GotoNothing, AnswerNothing, FailNothing DEF ReadRow, Hold
  <2>2. QED
    BY <1>8, <2>1, ClearStep DEF ReadRow, Unstored
<1>9. ASSUME NEW c \in Clients, ReadInfoGrades(c), Track PROVE Service!Next
  <2>1. Quiet
    BY <1>9, AnswerNothing, FailNothing DEF ReadInfoGrades
  <2>2. QED
    BY <1>9, <2>1, ClearStep DEF ReadInfoGrades, Unstored
<1>10. ASSUME NEW c \in Clients, CacheGet(c), Track PROVE Service!Next
  <2>1. CASE cache[Owner[c]] # NoGrades /\ Answer(c, "ok", cache[Owner[c]])
    <3>1. cache[Owner[c]] \in committed[Owner[c]] /\ users[Owner[c]] # NoRow
      BY <1>10, <2>1 DEF CacheGet, Inv, Kept, OnlyCommittedShown, Known, PastSave
    <3>2. QED
      BY <1>10, <2>1, <3>1, AnswerGrades, ShowStep DEF CacheGet, Unstored
  <2>2. CASE Goto(c, "readRow") /\ UNCHANGED held
    <3>1. Quiet
      BY <2>2, GotoNothing
    <3>2. QED
      BY <1>10, <3>1, ClearStep DEF CacheGet, Unstored
  <2>3. QED
    BY <1>10, <2>1, <2>2 DEF CacheGet
<1>11. ASSUME NEW c \in Clients, ReadGrades(c), Track PROVE Service!Next
  <2>1. Quiet
    BY <1>11, GotoNothing, FailNothing DEF ReadGrades, Hold
  <2>2. QED
    BY <1>11, <2>1, ClearStep DEF ReadGrades, Unstored
<1>12. ASSUME NEW c \in Clients, LookupSession(c), Track PROVE Service!Next
  <2>1. Quiet
    BY <1>12, GotoNothing, AnswerNothing DEF LookupSession
  <2>2. QED
    BY <1>12, <2>1, ClearStep DEF LookupSession, Unstored
<1>13. ASSUME NEW c \in Clients, FetchGrades(c), Track PROVE Service!Next
  <2>1. Quiet
    BY <1>13, GotoNothing, FailNothing DEF FetchGrades, Hold
  <2>2. QED
    BY <1>13, <2>1, ClearStep DEF FetchGrades, Unstored
<1>14. ASSUME NEW c \in Clients, CacheSet(c), Track PROVE Service!Next
  <2>1. held[c].grades \in committed[Owner[c]] \cup {NoGrades} /\ users[Owner[c]] # NoRow
    BY <1>14 DEF CacheSet, Inv, Kept, HeldLists, Known, PastSave, Grades
  <2>2. QED
    BY <1>14, <2>1, AnswerGrades, ShowStep DEF CacheSet, Unstored
<1>15. ASSUME NEW u \in Users, NEW role \in Roles, AssignRole(u, role), Track PROVE Service!Next
  BY <1>15, AssignRoleStep
<1>16. ASSUME NEW u \in Users, Publish(u), Track PROVE Service!Next
  BY <1>16, PublishStep
<1>17. ASSUME Restart, Track PROVE Service!Next
  <2>1. Quiet
    BY <1>17 DEF Restart, LastShown
  <2>2. QED
    BY <1>17, <2>1, ClearStep DEF Restart, Unstored
<1>18. ASSUME UNCHANGED <<portal, users, pc, held>>, Track PROVE Service!Next
  <2>1. Quiet
    BY <1>18 DEF LastShown
  <2>2. QED
    BY <1>18, <2>1, ClearStep DEF Unstored
<1>19. CASE Next
  <2>1. ASSUME NEW c \in Clients, Request(c), Track PROVE Service!Next
    BY <2>1, <1>1, <1>2, <1>3, <1>18 DEF Request, GetUserInfo, GetUserGrades, ExpireToken
  <2>2. ASSUME NEW c \in Clients, Serve(c), Track PROVE Service!Next
    BY <2>2, <1>4, <1>5, <1>6, <1>7, <1>8, <1>9, <1>10, <1>11, <1>12, <1>13, <1>14 DEF Serve
  <2>3. ASSUME NEW u \in Users, Environment(u), Track PROVE Service!Next
    BY <2>3, <1>15, <1>16, <1>18 DEF Environment, LapseSession, ExpireEntry
  <2>4. QED
    BY <1>19, <1>17, <2>1, <2>2, <2>3 DEF Next, Step
<1>20. QED
  BY <1>0, <1>19

(* The handlers, with all their failures, races and crashes, implement the  *)
(* service.                                                                 *)
THEOREM Refinement == Spec => ImplementsService
BY InitService, StepService, Invariance, PTL DEF Spec, ImplementsService, Service!Spec
=============================================================================
