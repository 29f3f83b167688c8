----------------------------- MODULE UserManager -----------------------------
(***************************************************************************)
(* The use cases of internal/logic/user.go (Login, GetInfo, GetGrades,     *)
(* Logout) as HTTP handlers run them, over the provider's session map, the *)
(* PostgreSQL row of each user and the Redis entry of each user.  Every    *)
(* call that leaves the goroutine (portal page, locked map section, SQL    *)
(* statement, SQL transaction, Redis command) is one step, so the handlers *)
(* of several clients interleave between calls exactly where they may.     *)
(*                                                                         *)
(* Data is abstracted to editions: the portal numbers the successive       *)
(* states of a student's pages, a profile or a list of grades is the       *)
(* edition it was parsed from, and an edition in Blank has a grades table  *)
(* with no rows.                                                           *)
(***************************************************************************)
EXTENDS Naturals

CONSTANTS
  Users,         \* user names
  Clients,       \* devices; each has at most one request in flight
  Owner,         \* the user each client signs in as
  Roles,         \* the roles users.role admits (migrations/0001_init.up.sql)
  Student,       \* the role the code falls back to
  ProviderRole,  \* the role the provider reports for each user
  MaxEdition,    \* bound on the editions the portal publishes per user
  Blank,         \* the editions whose grades table has no rows
  NoRow,         \* no row in users for that name
  NoGrades,      \* an empty list: no rows in grades, or no key in Redis
  NilGrades      \* Go's nil slice: SaveUser leaves the stored grades alone

Editions == 0 .. MaxEdition
Grades   == (Editions \ Blank) \cup {NoGrades}
Rows     == [profile : Editions, role : Roles, grades : Grades]

ASSUME ConstantsAssumption ==
  /\ Owner \in [Clients -> Users]
  /\ Student \in Roles
  /\ ProviderRole \in [Users -> Roles]
  /\ MaxEdition \in Nat
  /\ Blank \subseteq Editions
  /\ NoGrades \notin Editions
  /\ NilGrades \notin Editions
  /\ NoGrades # NilGrades
  /\ NoRow \notin Rows \cup Roles

VARIABLES
  portal,    \* edition the upstream portal currently shows for each user
  sessions,  \* UserParser.sessions: absent, usable, or idle past sessionTTL
  users,     \* row of users with its grades, or NoRow
  cache,     \* value of Redis key grades:<user>, NoGrades when there is none
  tokens,    \* clients whose cookie holds a valid JWT
  pc,        \* next call of each client's handler, or how the last one ended
  held,      \* the *domain.User (or response body) in the handler's hands
  committed, \* history: editions of grades ever committed for each user
  raced      \* history: handlers whose row changed after they read it

vars     == <<portal, sessions, users, cache, tokens, pc, held, committed, raced>>

Answers  == {"idle", "ok", "denied", "notFound", "conflict", "failed"}
Calls    == {"authenticate", "register", "saveLogin", "issue", "infoRow", "infoGrades",
             "cacheGet", "readRow", "readGrades", "lookup", "fetch", "saveGrades", "cacheSet"}
HeldUser == [profile : Editions, role : Roles, grades : Grades \cup {NilGrades}]

(* domain.User{}: no grades slice yet. *)
EmptyUser == [profile |-> 0, role |-> Student, grades |-> NilGrades]

Init ==
  /\ portal    = [u \in Users |-> 0]
  /\ sessions  = [u \in Users |-> "none"]
  /\ users     = [u \in Users |-> NoRow]
  /\ cache     = [u \in Users |-> NoGrades]
  /\ tokens    = {}
  /\ pc        = [c \in Clients |-> "idle"]
  /\ held      = [c \in Clients |-> EmptyUser]
  /\ committed = [u \in Users |-> {}]
  /\ raced     = {}

-----------------------------------------------------------------------------
(* Control of one handler. *)

Idle(c) == pc[c] \in Answers

Goto(c, call) == pc' = [pc EXCEPT ![c] = call]

Hold(c, user) == held' = [held EXCEPT ![c] = user]

(* The handler writes its response; only a list of grades has a body here. *)
Answer(c, how, body) ==
  /\ Goto(c, how)
  /\ Hold(c, [EmptyUser EXCEPT !.grades = body])

(* Any other error of a call: 500 internal. *)
Fail(c) == Answer(c, "failed", NilGrades)

(* pruneExpiredLocked: the provider drops every session idle past its TTL. *)
Pruned == [u \in Users |-> IF sessions[u] = "lapsed" THEN "none" ELSE sessions[u]]

(* The rows of a fetched grades table. *)
Listed(edition) == IF edition \in Blank THEN NoGrades ELSE edition

(* Mutant of Upsert: no `if user.Grades != nil`. *)
UpsertStoringNil(row, user) ==
  [profile |-> user.profile,
   role    |-> IF row = NoRow THEN user.role ELSE row.role,
   grades  |-> user.grades]

(* Mutant of Upsert: role = EXCLUDED.role in the ON CONFLICT list. *)
UpsertWithRole(row, user) ==
  [profile |-> user.profile,
   role    |-> user.role,
   grades  |-> IF user.grades # NilGrades THEN user.grades
               ELSE IF row = NoRow THEN NoGrades ELSE row.grades]

(* UserStorage.SaveUser as one committed transaction: insert the row, or on *)
(* conflict overwrite the profile but not the role; a nil grades slice keeps *)
(* the stored grades, any other slice, the empty one included, replaces them.*)
Upsert(row, user) ==
  [profile |-> user.profile,
   role    |-> IF row = NoRow THEN user.role ELSE row.role,
   grades  |-> IF user.grades # NilGrades THEN user.grades
               ELSE IF row = NoRow THEN NoGrades ELSE row.grades]

(* SaveUser(ctx, user) by c's handler.  An error means the transaction rolled *)
(* back, or that it committed and the acknowledgement was lost.               *)
SaveUser(c, next) ==
  LET u     == Owner[c]
      saved == [users EXCEPT ![u] = Upsert(@, held[c])]
  IN  \/ users' = saved /\ Goto(c, next) /\ UNCHANGED held
      \/ users' \in {users, saved} /\ Fail(c)

-----------------------------------------------------------------------------
(* POST /auth/login: LoginPost -> UserManager.Login.                       *)

LoginPost(c) ==
  /\ Idle(c)
  /\ Goto(c, "authenticate")
  /\ Hold(c, EmptyUser)
  /\ UNCHANGED <<portal, sessions, users, cache, tokens>>

(* UserParser.GetUser up to the lock: the login form and the profile page,  *)
(* over a fresh cookie jar.  A profile page without a name is a refusal.    *)
Authenticate(c) ==
  LET u == Owner[c]
  IN  /\ pc[c] = "authenticate"
      /\ \/ /\ Goto(c, "register")
            /\ Hold(c, [EmptyUser EXCEPT !.profile = portal[u], !.role = ProviderRole[u]])
         \/ Answer(c, "denied", NilGrades)
         \/ Fail(c)
      /\ UNCHANGED <<portal, sessions, users, cache, tokens>>

(* UserParser.GetUser under the lock: prune, then replace the user's session. *)
RegisterSession(c) ==
  /\ pc[c] = "register"
  /\ sessions' = [Pruned EXCEPT ![Owner[c]] = "live"]
  /\ Goto(c, "saveLogin")
  /\ UNCHANGED <<portal, users, cache, tokens, held>>

(* Mutant of SaveLogin: the error of SaveUser is dropped. *)
SaveLoginUnchecked(c) ==
  /\ pc[c] = "saveLogin"
  /\ users' \in {users, [users EXCEPT ![Owner[c]] = Upsert(@, held[c])]}
  /\ Goto(c, "issue")
  /\ UNCHANGED <<portal, sessions, cache, tokens, held>>

SaveLogin(c) ==
  /\ pc[c] = "saveLogin"
  /\ SaveUser(c, "issue")
  /\ UNCHANGED <<portal, sessions, cache, tokens>>

(* The JWT is signed and set as a cookie after Login has returned. *)
IssueToken(c) ==
  /\ pc[c] = "issue"
  /\ tokens' = tokens \cup {c}
  /\ Answer(c, "ok", NilGrades)
  /\ UNCHANGED <<portal, sessions, users, cache>>

-----------------------------------------------------------------------------
(* GET /user/info and GET /user/grades, behind AuthMiddleware.              *)

Enter(c, call) ==
  /\ Idle(c)
  /\ c \in tokens
  /\ Goto(c, call)
  /\ Hold(c, EmptyUser)
  /\ UNCHANGED <<portal, sessions, users, cache, tokens>>

GetUserInfo(c) == Enter(c, "infoRow")

GetUserGrades(c) == Enter(c, "cacheGet")

(* A hit answers at once; a miss, an error or no Redis at all reads the     *)
(* database.                                                                *)
CacheGet(c) ==
  LET u == Owner[c]
  IN  /\ pc[c] = "cacheGet"
      /\ \/ cache[u] # NoGrades /\ Answer(c, "ok", cache[u])
         \/ Goto(c, "readRow") /\ UNCHANGED held
      /\ UNCHANGED <<portal, sessions, users, cache, tokens>>

(* UserStorage.GetUser, first statement: the row of users. *)
ReadRow(c, from, next) ==
  LET row == users[Owner[c]]
  IN  /\ pc[c] = from
      /\ \/ IF row = NoRow
            THEN Answer(c, "notFound", NilGrades)
            ELSE /\ Goto(c, next)
                 /\ Hold(c, [held[c] EXCEPT !.profile = row.profile, !.role = row.role])
         \/ Fail(c)
      /\ UNCHANGED <<portal, sessions, users, cache, tokens>>

(* UserStorage.GetUser, second statement: the rows of grades, in no         *)
(* transaction with the first.  GetInfo answers from the first alone;       *)
(* GetGrades turns to the provider when the list is empty.                  *)
ReadInfoGrades(c) ==
  /\ pc[c] = "infoGrades"
  /\ Answer(c, "ok", NilGrades) \/ Fail(c)
  /\ UNCHANGED <<portal, sessions, users, cache, tokens>>

(* Mutant of ReadGrades: always refreshed, no `if len(user.Grades) == 0`. *)
ReadGradesToRefresh(c) ==
  /\ pc[c] = "readGrades"
  /\ \/ /\ Goto(c, "lookup")
        /\ Hold(c, [held[c] EXCEPT !.grades = users[Owner[c]].grades])
     \/ Fail(c)
  /\ UNCHANGED <<portal, sessions, users, cache, tokens>>

ReadGrades(c) ==
  LET stored == users[Owner[c]].grades
  IN  /\ pc[c] = "readGrades"
      /\ \/ /\ Goto(c, IF stored = NoGrades THEN "lookup" ELSE "cacheSet")
            /\ Hold(c, [held[c] EXCEPT !.grades = stored])
         \/ Fail(c)
      /\ UNCHANGED <<portal, sessions, users, cache, tokens>>

(* Mutant of LookupSession: waits for a session instead of reporting none. *)
LookupSessionWaiting(c) ==
  /\ pc[c] = "lookup"
  /\ sessions' = Pruned
  /\ IF Pruned[Owner[c]] = "none" THEN UNCHANGED <<pc, held>>
     ELSE Goto(c, "fetch") /\ UNCHANGED held
  /\ UNCHANGED <<portal, users, cache, tokens>>

(* UserParser.GetGrades under the lock: prune, look the session up, touch   *)
(* it.  ErrSessionNotFound is 409 session_expired.                          *)
LookupSession(c) ==
  LET u == Owner[c]
  IN  /\ pc[c] = "lookup"
      /\ sessions' = Pruned
      /\ IF Pruned[u] = "none"
         THEN Answer(c, "conflict", NilGrades)
         ELSE Goto(c, "fetch") /\ UNCHANGED held
      /\ UNCHANGED <<portal, users, cache, tokens>>

(* Mutant of FetchGrades: the list is cached as soon as it is fetched. *)
FetchGradesCached(c) ==
  /\ pc[c] = "fetch"
  /\ Goto(c, "saveGrades")
  /\ Hold(c, [held[c] EXCEPT !.grades = Listed(portal[Owner[c]])])
  /\ cache' = [cache EXCEPT ![Owner[c]] = Listed(portal[Owner[c]])]
  /\ UNCHANGED <<portal, sessions, users, tokens>>

(* UserParser.GetGrades after the lock: the grades page, through the client *)
(* of the session found, whatever has become of the map entry since.        *)
FetchGrades(c) ==
  /\ pc[c] = "fetch"
  /\ \/ /\ Goto(c, "saveGrades")
        /\ Hold(c, [held[c] EXCEPT !.grades = Listed(portal[Owner[c]])])
     \/ Fail(c)
  /\ UNCHANGED <<portal, sessions, users, cache, tokens>>

(* Mutant of SaveGrades: the error of SaveUser is dropped. *)
SaveGradesUnchecked(c) ==
  /\ pc[c] = "saveGrades"
  /\ users' \in {users, [users EXCEPT ![Owner[c]] = Upsert(@, held[c])]}
  /\ Goto(c, "cacheSet")
  /\ UNCHANGED <<portal, sessions, cache, tokens, held>>

(* GetGrades writes back the user it read, with the fetched grades. *)
SaveGrades(c) ==
  /\ pc[c] = "saveGrades"
  /\ SaveUser(c, "cacheSet")
  /\ UNCHANGED <<portal, sessions, cache, tokens>>

(* An empty list is not cached, and a failed Set is ignored. *)
CacheSet(c) ==
  LET u == Owner[c]
  IN  /\ pc[c] = "cacheSet"
      /\ \/ held[c].grades # NoGrades /\ cache' = [cache EXCEPT ![u] = held[c].grades]
         \/ UNCHANGED cache
      /\ Answer(c, "ok", held[c].grades)
      /\ UNCHANGED <<portal, sessions, users, tokens>>

-----------------------------------------------------------------------------
(* POST /auth/logout drops the user's provider session and this client's    *)
(* cookie.  There is no blacklist: the cookies of the user's other devices  *)
(* stay valid.                                                              *)
LogoutPost(c) ==
  /\ Idle(c)
  /\ c \in tokens
  /\ sessions' = [sessions EXCEPT ![Owner[c]] = "none"]
  /\ tokens'   = tokens \ {c}
  /\ Answer(c, "ok", NilGrades)
  /\ UNCHANGED <<portal, users, cache>>

(* jwtTTL passes, or the device loses its cookie. *)
ExpireToken(c) ==
  /\ c \in tokens
  /\ tokens' = tokens \ {c}
  /\ UNCHANGED <<portal, sessions, users, cache, pc, held>>

(* Nobody touches u's session for longer than sessionTTL. *)
LapseSession(u) ==
  /\ sessions[u] = "live"
  /\ sessions' = [sessions EXCEPT ![u] = "lapsed"]
  /\ UNCHANGED <<portal, users, cache, tokens, pc, held>>

(* Mutant of ExpireEntry: Set is called with a TTL of 0, which keeps the key. *)
ExpireEntryNever(u) == FALSE

(* Redis drops an entry: its TTL passed, it was evicted, or Redis restarted. *)
ExpireEntry(u) ==
  /\ cache[u] # NoGrades
  /\ cache' = [cache EXCEPT ![u] = NoGrades]
  /\ UNCHANGED <<portal, sessions, users, tokens, pc, held>>

(* The university changes what it shows about u. *)
Publish(u) ==
  /\ portal[u] < MaxEdition
  /\ portal' = [portal EXCEPT ![u] = @ + 1]
  /\ UNCHANGED <<sessions, users, cache, tokens, pc, held>>

(* An administrator sets a role in the database; no code path does. *)
AssignRole(u, role) ==
  /\ users[u] # NoRow
  /\ users' = [users EXCEPT ![u].role = role]
  /\ UNCHANGED <<portal, sessions, cache, tokens, pc, held>>

(* The process dies and is restarted (restart: unless-stopped): handlers    *)
(* and the session map are gone, the database, Redis and cookies are not.   *)
Restart ==
  /\ sessions' = [u \in Users |-> "none"]
  /\ pc'   = [c \in Clients |-> "idle"]
  /\ held' = [c \in Clients |-> EmptyUser]
  /\ UNCHANGED <<portal, users, cache, tokens>>

-----------------------------------------------------------------------------
(* History.  A handler is in its window from the moment it has read the     *)
(* profile it will save until it saves it; it is raced when the row's data  *)
(* changed meanwhile.                                                       *)
Window == {"register", "saveLogin", "readGrades", "lookup", "fetch", "saveGrades"}

Data(row) == IF row = NoRow THEN <<>> ELSE <<row.profile, row.grades>>

Stored(row) == IF row = NoRow THEN {} ELSE {row.grades} \ {NoGrades}

Track ==
  /\ committed' = [u \in Users |-> committed[u] \cup Stored(users'[u])]
  /\ raced' = {c \in Clients :
                 /\ pc[c] \in Window /\ pc'[c] \in Window
                 /\ c \in raced \/ Data(users'[Owner[c]]) # Data(users[Owner[c]])}

(* The calls a handler in flight makes, one at a time. *)
Serve(c) ==
  \/ Authenticate(c) \/ RegisterSession(c) \/ SaveLogin(c) \/ IssueToken(c)
  \/ ReadRow(c, "infoRow", "infoGrades") \/ ReadInfoGrades(c)
  \/ CacheGet(c) \/ ReadRow(c, "readRow", "readGrades") \/ ReadGrades(c)
  \/ LookupSession(c) \/ FetchGrades(c) \/ SaveGrades(c) \/ CacheSet(c)

(* What a client does; a request turned away by validation, by the rate     *)
(* limiter or by AuthMiddleware changes nothing and is not a step.          *)
Request(c) ==
  \/ LoginPost(c) \/ GetUserInfo(c) \/ GetUserGrades(c) \/ LogoutPost(c)
  \/ ExpireToken(c)

Environment(u) ==
  \/ LapseSession(u) \/ ExpireEntry(u) \/ Publish(u)
  \/ \E role \in Roles : AssignRole(u, role)

Step ==
  \/ \E c \in Clients : Request(c) \/ Serve(c)
  \/ \E u \in Users : Environment(u)
  \/ Restart

Next == Step /\ Track

Spec == Init /\ [][Next]_vars

(* Handlers keep running: Go schedules every goroutine, the portal client   *)
(* has a timeout, and PostgreSQL and Redis answer or fail.  Redis honours   *)
(* the TTL, which config.validate keeps positive.  Nothing is assumed of    *)
(* clients, of the portal or of crashes.                                    *)
FairSpec ==
  /\ Spec
  /\ \A c \in Clients : WF_vars(Serve(c) /\ Track)
  /\ \A u \in Users : WF_vars(ExpireEntry(u) /\ Track)

-----------------------------------------------------------------------------
(* Every variable keeps its type; in particular the nil slice of a login    *)
(* never reaches the database and the empty list is never a cached value.   *)
TypeOK ==
  /\ portal    \in [Users -> Editions]
  /\ sessions  \in [Users -> {"none", "live", "lapsed"}]
  /\ users     \in [Users -> Rows \cup {NoRow}]
  /\ cache     \in [Users -> Grades]
  /\ tokens    \subseteq Clients
  /\ pc        \in [Clients -> Calls \cup Answers]
  /\ held      \in [Clients -> HeldUser]
  /\ committed \in [Users -> SUBSET Editions]
  /\ raced     \subseteq Clients

(* A client that was let in is never told 404 user_not_found: LoginPost     *)
(* issues the token only after SaveUser committed, and nothing deletes a    *)
(* row, so the row outlives every token, crashes included.                  *)
TokenHolderKnown ==
  /\ \A c \in tokens : users[Owner[c]] # NoRow
  /\ \A c \in Clients : pc[c] # "notFound"

(* GetGrades saves before it caches and before it answers, and stops when   *)
(* the save fails: no grades reach Redis or a client that were not first    *)
(* committed to PostgreSQL, whatever fails or crashes in between.           *)
OnlyCommittedShown ==
  /\ \A u \in Users : cache[u] # NoGrades => cache[u] \in committed[u]
  /\ \A c \in Clients : pc[c] = "ok" /\ held[c].grades \in Editions
                          => held[c].grades \in committed[Owner[c]]

(* A step loses data when the stored profile goes back to an older edition  *)
(* or a stored list of grades is replaced, by the empty one or another.     *)
Lost(old, new) ==
  \/ new.profile < old.profile
  \/ old.grades # NoGrades /\ new.grades # old.grades

(* GetGrades is a read-modify-write with no transaction around it, and      *)
(* Login saves a page it read earlier.  Data is lost only by a save whose   *)
(* row changed after that handler read: handlers that do not overlap never  *)
(* undo each other, and a later login never drops the grades.               *)
LossNeedsRace ==
  [][\A u \in Users :
       users[u] # NoRow /\ Lost(users[u], users'[u])
       => \E c \in raced : Owner[c] = u /\ pc[c] \in {"saveLogin", "saveGrades"}]_vars

(* A role assigned in the database survives every later login and every     *)
(* write-back by GetGrades, also of a user read before the assignment:      *)
(* SaveUser's ON CONFLICT list leaves role out.                             *)
RoleKept ==
  [][\A u \in Users : users[u] # NoRow =>
       users'[u].role = users[u].role \/ \E role \in Roles : AssignRole(u, role)]_vars

(* Every request is answered: no handler waits for another. *)
EveryRequestAnswered == \A c \in Clients : pc[c] \in Calls ~> pc[c] \in Answers

(* Every entry of Redis is the list the database holds. *)
CacheFresh ==
  \A u \in Users : cache[u] # NoGrades => users[u] # NoRow /\ cache[u] = users[u].grades

(* Cache-aside is allowed to be stale, but not for good: the portal         *)
(* publishes finitely often here, and from some point on it is fresh.       *)
CacheConverges == <>[]CacheFresh

(* No user has two requests in flight. *)
OneAtATime ==
  \A c, d \in Clients : Owner[c] = Owner[d] /\ pc[c] \in Calls /\ pc[d] \in Calls => c = d

(* Every list a device was last shown is the list the database holds. *)
ShownFresh ==
  \A c \in Clients :
    pc[c] = "ok" /\ held[c].grades \in Editions
      => users[Owner[c]] # NoRow /\ held[c].grades = users[Owner[c]].grades

(* Redis is written in no transaction with PostgreSQL, yet only requests of *)
(* one user that overlap can make the two, or what two devices are shown,   *)
(* differ: no failure or lost answer of a call, no crash and no expiry      *)
(* does, as GetGrades saves before it caches and asks the portal only when  *)
(* nothing is stored, and Login leaves the grades alone.                    *)
FreshUnlessOverlapping == []OneAtATime => [](CacheFresh /\ ShownFresh)

(* The role stored for each user, and what each client was last shown. *)
StoredRole == [u \in Users |-> IF users[u] = NoRow THEN NoRow ELSE users[u].role]
LastShown  == [c \in Clients |-> IF pc[c] = "ok" THEN held[c].grades ELSE NilGrades]

(* What the clients may rely on, as a specification of its own: a user is   *)
(* known from the first committed save, and what a client is shown is the   *)
(* body of its last successful answer.                                      *)
Service == INSTANCE GradesService WITH
  FirstRole <- ProviderRole,
  Unknown   <- NoRow,
  Nothing   <- NilGrades,
  published <- portal,
  role      <- StoredRole,
  kept      <- committed,
  shown     <- LastShown

(* Handlers with all their calls, failures, races and crashes implement     *)
(* the service: every step is one of its steps or invisible.                *)
ImplementsService == Service!Spec

=============================================================================
