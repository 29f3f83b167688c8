----------------------------- MODULE UserParser -----------------------------
(***************************************************************************)
(* The portal client of internal/repository/userProvider/parser.go: the    *)
(* map from user names to portal sessions, the mutex around it, the        *)
(* requests to the portal made outside the mutex, lazy pruning by idle     *)
(* time, and the portal, which may end a session on its side at any time.  *)
(*                                                                         *)
(* A step under p.mu is one action.  Time is the number of ticks a session *)
(* has been idle, counted no further than one past the TTL: whether it is  *)
(* past the TTL is all the code asks.                                      *)
(***************************************************************************)
EXTENDS Naturals

CONSTANTS
  Users,     \* user names
  Callers,   \* goroutines that call the provider
  HttpClients,  \* http.Clients with their cookie jars, reused when unreferenced
  TTL,       \* sessionTTL in ticks
  None       \* no session, no user

(* userSession: its client and the ticks since lastUsed.  The history field *)
(* unused counts the ticks since a call was last given the session.         *)
Ticks   == 0 .. TTL + 1
Session == [client : HttpClients, idle : Ticks, unused : Ticks]

ASSUME ParserAssumption ==
  /\ TTL \in Nat \ {0}
  /\ None \notin Users \cup HttpClients \cup Session

VARIABLES
  sessions,  \* p.sessions: the userSession of each user, or None
  jar,       \* whose pages the portal shows to each client's cookies
  alive,     \* clients whose login the portal still accepts
  pc,        \* next step of each call, or how it ended
  user,      \* the userName argument of each call
  client,    \* the client each call works with, or None
  page       \* whose grades each call has been given, or None

vars == <<sessions, jar, alive, pc, user, client, page>>

Answers ==
  {"idle", "registered", "invalidCredentials", "loginFailed",  \* of GetUser
   "sessionNotFound", "ok", "noTable", "gradesFailed",         \* of GetGrades
   "closed"}                                                   \* of CloseSession
Calls   == {"authenticate", "register", "lookup", "fetch"}

Init ==
  /\ sessions = [u \in Users |-> None]
  /\ jar      = [h \in HttpClients |-> None]
  /\ alive    = {}
  /\ pc       = [c \in Callers |-> "idle"]
  /\ user     = [c \in Callers |-> None]
  /\ client   = [c \in Callers |-> None]
  /\ page     = [c \in Callers |-> None]

Idle(c) == pc[c] \in Answers

(* The call returns; a finished call holds no session. *)
Return(c, how) ==
  /\ pc'     = [pc EXCEPT ![c] = how]
  /\ client' = [client EXCEPT ![c] = None]

(* Mutant of Expired: >= for >. *)
ExpiredAtTTL(session) == session.idle >= TTL

(* pruneExpiredLocked. *)
Expired(session) == session.idle > TTL

(* Mutant of Pruned: GetUser and GetGrades do not prune. *)
PrunedNever == sessions

Pruned == [u \in Users |-> IF sessions[u] # None /\ Expired(sessions[u]) THEN None ELSE sessions[u]]

(* Mutant of Fresh: one client, and so one cookie jar, for all logins. *)
Shared == HttpClients

(* A new client: neither the map nor a call refers to it. *)
Fresh ==
  {h \in HttpClients : /\ \A u \in Users : sessions[u] # None => sessions[u].client # h
                       /\ \A c \in Callers : client[c] # h}

-----------------------------------------------------------------------------
(* GetUser(ctx, username, password): a new cookie jar and client, the login *)
(* form and the profile page, then the map.                                 *)

GetUser(c, u) ==
  /\ Idle(c)
  /\ \E h \in Fresh : /\ client' = [client EXCEPT ![c] = h]
                     /\ jar'    = [jar EXCEPT ![h] = None]
                     /\ alive'  = alive \ {h}
  /\ pc'   = [pc EXCEPT ![c] = "authenticate"]
  /\ user' = [user EXCEPT ![c] = u]
  /\ page' = [page EXCEPT ![c] = None]
  /\ UNCHANGED sessions

(* The portal shows the user's profile to the new jar, shows a page without *)
(* a name (ErrInvalidCredentials), or cannot be asked.                      *)
Authenticate(c) ==
  /\ pc[c] = "authenticate"
  /\ \/ /\ jar'   = [jar EXCEPT ![client[c]] = user[c]]
        /\ alive' = alive \cup {client[c]}
        /\ pc'    = [pc EXCEPT ![c] = "register"]
        /\ UNCHANGED client
     \/ /\ \E how \in {"invalidCredentials", "loginFailed"} : Return(c, how)
        /\ UNCHANGED <<jar, alive>>
  /\ UNCHANGED <<sessions, user, page>>

RegisterSession(c) ==
  /\ pc[c] = "register"
  /\ sessions' = [Pruned EXCEPT ![user[c]] = [client |-> client[c], idle |-> 0, unused |-> 0]]
  /\ Return(c, "registered")
  /\ UNCHANGED <<jar, alive, user, page>>

-----------------------------------------------------------------------------
(* GetGrades(ctx, userName): the map, then the grades page.                 *)

GetGrades(c, u) ==
  /\ Idle(c)
  /\ pc'   = [pc EXCEPT ![c] = "lookup"]
  /\ user' = [user EXCEPT ![c] = u]
  /\ page' = [page EXCEPT ![c] = None]
  /\ UNCHANGED <<sessions, jar, alive, client>>

(* Mutant of Touched: no lastUsed = time.Now(). *)
Untouched(map, u) == [map EXCEPT ![u].unused = 0]

Touched(map, u) == [map EXCEPT ![u].idle = 0, ![u].unused = 0]

(* Mutant of LookupSession: no `if !ok`. *)
LookupSessionUnchecked(c) ==
  LET found == Pruned[user[c]]
  IN  /\ pc[c] = "lookup"
      /\ pc' = [pc EXCEPT ![c] = "fetch"]
      /\ IF found = None
         THEN sessions' = Pruned /\ UNCHANGED client
         ELSE /\ client'   = [client EXCEPT ![c] = found.client]
              /\ sessions' = Touched(Pruned, user[c])
      /\ UNCHANGED <<jar, alive, user, page>>

(* UserParser.GetGrades under the lock: prune, look the session up, touch   *)
(* it before the lock is released.                                          *)
LookupSession(c) ==
  /\ pc[c] = "lookup"
  /\ \/ /\ Pruned[user[c]] = None
        /\ Return(c, "sessionNotFound")
        /\ sessions' = Pruned
     \/ /\ Pruned[user[c]] # None
        /\ pc'       = [pc EXCEPT ![c] = "fetch"]
        /\ client'   = [client EXCEPT ![c] = Pruned[user[c]].client]
        /\ sessions' = Touched(Pruned, user[c])
  /\ UNCHANGED <<jar, alive, user, page>>

(* The client found asks for the grades page, whatever has become of the    *)
(* map since.  A login the portal has ended gets a page without a grades    *)
(* table, as one it refuses gets a profile page without a name.             *)
FetchGrades(c) ==
  /\ pc[c] = "fetch"
  /\ \/ /\ client[c] \in alive
        /\ Return(c, "ok")
        /\ page' = [page EXCEPT ![c] = jar[client[c]]]
     \/ /\ client[c] \notin alive
        /\ Return(c, "noTable")
        /\ UNCHANGED page
     \/ Return(c, "gradesFailed") /\ UNCHANGED page
  /\ UNCHANGED <<sessions, jar, alive, user>>

-----------------------------------------------------------------------------
CloseSession(c, u) ==
  /\ Idle(c)
  /\ sessions' = [sessions EXCEPT ![u] = None]
  /\ user'     = [user EXCEPT ![c] = u]
  /\ page'     = [page EXCEPT ![c] = None]
  /\ Return(c, "closed")
  /\ UNCHANGED <<jar, alive>>

(* run() closes the provider when it ends: with no call left after an       *)
(* orderly stop, and in the midst of calls, which go on with the sessions   *)
(* they hold, when the listener failed or the signal came early.            *)
Close ==
  /\ sessions' = [u \in Users |-> None]
  /\ UNCHANGED <<jar, alive, pc, user, client, page>>

(* A crash loses the calls too. *)
Crash ==
  /\ sessions' = [u \in Users |-> None]
  /\ pc'       = [c \in Callers |-> "idle"]
  /\ user'     = [c \in Callers |-> None]
  /\ client'   = [c \in Callers |-> None]
  /\ page'     = [c \in Callers |-> None]
  /\ UNCHANGED <<jar, alive>>

(* The portal ends a login: its own timeout, a restart, a login elsewhere. *)
PortalEnds(h) ==
  /\ h \in alive
  /\ alive' = alive \ {h}
  /\ UNCHANGED <<sessions, jar, pc, user, client, page>>

Later(ticks) == IF ticks > TTL THEN ticks ELSE ticks + 1

Tick ==
  /\ sessions' = [u \in Users |->
                    IF sessions[u] = None THEN None
                    ELSE [sessions[u] EXCEPT !.idle = Later(@), !.unused = Later(@)]]
  /\ UNCHANGED <<jar, alive, pc, user, client, page>>

Call(c) == \E u \in Users : GetUser(c, u) \/ GetGrades(c, u) \/ CloseSession(c, u)

Serve(c) == Authenticate(c) \/ RegisterSession(c) \/ LookupSession(c) \/ FetchGrades(c)

Next ==
  \/ \E c \in Callers : Call(c) \/ Serve(c)
  \/ \E h \in HttpClients : PortalEnds(h)
  \/ Close \/ Crash \/ Tick

Spec == Init /\ [][Next]_vars

-----------------------------------------------------------------------------
(* Every variable keeps its type, and a call has a session in its hands     *)
(* exactly between the steps that need one: GetGrades never goes on to the  *)
(* portal with the nil session of a failed map lookup.                      *)
TypeOK ==
  /\ sessions \in [Users -> Session \cup {None}]
  /\ jar      \in [HttpClients -> Users \cup {None}]
  /\ alive    \subseteq HttpClients
  /\ pc       \in [Callers -> Calls \cup Answers]
  /\ user     \in [Callers -> Users \cup {None}]
  /\ client   \in [Callers -> HttpClients \cup {None}]
  /\ page     \in [Callers -> Users \cup {None}]
  /\ \A c \in Callers : client[c] # None <=> pc[c] \in {"authenticate", "register", "fetch"}

(* A student is never given another student's grades: the session looked up *)
(* under a name is authenticated as that name, however logins of several    *)
(* users, re-logins, logouts and pruning overlap with requests that still   *)
(* use a session the map has dropped.                                       *)
FetchedOwn == \A c \in Callers : page[c] # None => page[c] = user[c]

(* Pruning is lazy, yet nobody is given a session that was last given out,  *)
(* or registered, more than sessionTTL ago.                                 *)
HandedOutWithinTTL ==
  [][\A c \in Callers : pc[c] = "lookup" /\ pc'[c] = "fetch" => sessions[user[c]].unused <= TTL]_vars

(* A session that some call was given within the last sessionTTL is removed *)
(* only by a logout of its user or by the end of the process: neither a     *)
(* call of another user, which prunes the whole map, nor a re-login leaves  *)
(* its user without one.                                                    *)
KeptWhileUsed ==
  [][\A u \in Users :
       sessions[u] # None /\ sessions'[u] = None /\ sessions[u].unused <= TTL
       => (\E c \in Callers : CloseSession(c, u)) \/ Close \/ Crash]_vars

(* What UserManager knows of the map, and of a call to it. *)
State == [u \in Users |-> IF sessions[u] = None THEN "none"
                          ELSE IF Expired(sessions[u]) THEN "lapsed" ELSE "live"]

Outcome ==
  [c \in Callers |->
     CASE pc[c] = "registered"      -> "registered"
       [] pc[c] = "sessionNotFound" -> "notFound"
       [] pc[c] = "closed"          -> "closed"
       [] pc[c] \in {"fetch", "ok", "noTable", "gradesFailed"} -> "given"
       [] OTHER -> "none"]

States == INSTANCE SessionStates WITH state <- State, outcome <- Outcome

(* The map, its clock and its pruning do to each user's session what        *)
(* UserManager assumes of them.                                             *)
ImplementsSessionStates == States!Spec

(* writeUserError of internal/delivery/api/user.go. *)
Status(how) ==
  CASE how = "sessionNotFound" -> 409
    [] how \in {"noTable", "gradesFailed"} -> 500
    [] OTHER -> 200

(* internal/delivery/api/docs/openapi.yaml:83-84 promises for /user/grades  *)
(* "409: Upstream-session expired, a new login is required".  The session   *)
(* the portal has ended is such a session; the request is not told so.      *)
ExpiredUpstreamIs409 ==
  [][\A c \in Callers :
       pc[c] = "fetch" /\ client[c] \notin alive /\ pc'[c] \in {"ok", "sessionNotFound", "noTable"}
       => Status(pc'[c]) = 409]_vars
=============================================================================
