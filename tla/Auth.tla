-------------------------------- MODULE Auth --------------------------------
(***************************************************************************)
(* Who is let in: the rate limiter in front of POST /auth/login, the role  *)
(* and expiry a login puts into its JWT, and the checks of AuthMiddleware  *)
(* and RequireRole (internal/delivery/api/login.go).                       *)
(*                                                                         *)
(* Time is in ticks, and every clock counts down to or up to the point at  *)
(* which the code stops caring, so that it needs no bound.  The limiter is *)
(* the fixed-window one of Fiber: a window starts at the first login of an *)
(* address and every login of that address counts, refused or not.  An     *)
(* address is the peer of the connection: devices behind nginx.conf have   *)
(* one address between them.                                               *)
(*                                                                         *)
(* The role in a JWT is the provider's, and no other is consulted here:    *)
(* what a login saves of its user, the role in the row included, is in     *)
(* UserManager.                                                            *)
(***************************************************************************)
EXTENDS Integers

CONSTANTS
  Users, Devices,
  Owner,         \* the user each device signs in as
  Addresses,
  Address,       \* the address each device comes from
  Roles, Admin,
  Providers,     \* what DEMO_MODE chooses between
  Reports,       \* the role each provider reports for each user, or Refused
  Refused,       \* not an account of that provider
  RateLimitMax,  \* RATE_LIMIT_MAX
  Window,        \* RATE_LIMIT_WINDOW in ticks
  TTL,           \* JWT_TTL in ticks
  NoCookie

ASSUME AuthAssumption ==
  /\ Owner \in [Devices -> Users]
  /\ Address \in [Devices -> Addresses]
  /\ Admin \in Roles
  /\ Reports \in [Providers -> [Users -> Roles \cup {Refused}]]
  /\ Refused \notin Roles
  /\ RateLimitMax \in Nat \ {0} /\ Window \in Nat \ {0} /\ TTL \in Nat \ {0}
  /\ NoCookie \notin [role : Roles, left : 0..TTL]

VARIABLES
  provider,  \* the provider the running process was started with
  hits,      \* logins of each address in its window
  left,      \* ticks until the window of each address ends; 0: it has none
  cookie,    \* the JWT of each device: its role, and the ticks until its exp
  pc,        \* where the login of each device is, or the answer it got last
  held,      \* the role the provider reported to the login in flight, else Refused
  passed,    \* history: logins of each address the running process let through, up to 2 * Max
  ages,      \* history: ticks since the last, the last but one, ... login let through
  ago        \* history: ticks since a provider that reports a role for a user was running

limiter == <<hits, left, passed, ages>>
vars    == <<provider, limiter, cookie, pc, held, ago>>

(* "refused" is any error of a login past the limiter: 400, 403, 500.       *)
Answers == {"idle", "ok", "refused", "limited", "unauthorized", "forbidden"}
Places  == Answers \cup {"authenticate", "save", "issue"}

Slots    == 1..(2 * RateLimitMax)
LongAgo  == [i \in Slots |-> Window]

(* 0 for the roles the running provider reports, TTL for those of long ago. *)
Ago(p, before) ==
  [u \in Users |-> [r \in Roles |-> IF Reports[p][u] = r THEN 0 ELSE before[u][r]]]

Init ==
  /\ provider \in Providers
  /\ hits = [a \in Addresses |-> 0] /\ left = [a \in Addresses |-> 0]
  /\ cookie = [d \in Devices |-> NoCookie]
  /\ pc = [d \in Devices |-> "idle"]
  /\ held = [d \in Devices |-> Refused]
  /\ passed = [a \in Addresses |-> 0]
  /\ ages = [a \in Addresses |-> LongAgo]
  /\ ago = Ago(provider, [u \in Users |-> [r \in Roles |-> TTL]])

Less(n) == IF n = 0 THEN 0 ELSE n - 1
More(n, most) == IF n = most THEN most ELSE n + 1

Goto(d, place) == pc' = [pc EXCEPT ![d] = place]

Idle(d) == pc[d] \in Answers

-----------------------------------------------------------------------------
(* POST /auth/login. *)

(* Mutant of Count: a login in the window prolongs it. *)
CountProlonging(a) ==
  /\ hits' = [hits EXCEPT ![a] = IF left[a] = 0 THEN 1 ELSE IF hits[a] > RateLimitMax THEN @ ELSE @ + 1]
  /\ left' = [left EXCEPT ![a] = Window]

(* Mutant of Count: the window ends when it is full, and starts anew. *)
CountRefilling(a) ==
  /\ hits' = [hits EXCEPT ![a] = IF left[a] = 0 \/ hits[a] > RateLimitMax THEN 1 ELSE @ + 1]
  /\ left' = [left EXCEPT ![a] = IF left[a] = 0 THEN Window ELSE @]

(* Mutant of Count: a window that ended does not reset the count. *)
CountForever(a) ==
  /\ hits' = [hits EXCEPT ![a] = IF hits[a] > RateLimitMax THEN @ ELSE @ + 1]
  /\ left' = [left EXCEPT ![a] = IF left[a] = 0 THEN Window ELSE @]

(* The limiter counts a login, in a new window when the last one has ended. *)
(* A count past RateLimitMax + 1 makes no difference and is not kept.       *)
Count(a) ==
  /\ hits' = [hits EXCEPT ![a] = IF left[a] = 0 THEN 1 ELSE IF hits[a] > RateLimitMax THEN @ ELSE @ + 1]
  /\ left' = [left EXCEPT ![a] = IF left[a] = 0 THEN Window ELSE @]

Passes(a) == hits'[a] <= RateLimitMax

Login(d) ==
  LET a == Address[d]
  IN  /\ Idle(d)
      /\ Count(a)
      /\ IF Passes(a)
         THEN /\ ages' = [ages EXCEPT ![a] = [i \in Slots |-> IF i = 1 THEN 0 ELSE ages[a][i - 1]]]
              /\ passed' = [passed EXCEPT ![a] = More(@, 2 * RateLimitMax)]
              /\ Goto(d, "authenticate") \/ Goto(d, "refused")
         ELSE /\ Goto(d, "limited")
              /\ UNCHANGED <<ages, passed>>
      /\ UNCHANGED <<provider, cookie, held, ago>>

(* Mutant of Authenticate: the error of the provider is not looked at. *)
AuthenticateAnyone(d) ==
  /\ pc[d] = "authenticate"
  /\ held' = [held EXCEPT ![d] = Reports[provider][Owner[d]]]
  /\ Goto(d, "save")
  /\ UNCHANGED <<provider, limiter, cookie, ago>>

(* UserProvider.GetUser: the provider reports a role, refuses or fails. *)
Authenticate(d) ==
  LET role == Reports[provider][Owner[d]]
  IN  /\ pc[d] = "authenticate"
      /\ \/ /\ role # Refused
            /\ held' = [held EXCEPT ![d] = role]
            /\ Goto(d, "save")
         \/ Goto(d, "refused") /\ UNCHANGED held
      /\ UNCHANGED <<provider, limiter, cookie, ago>>

(* UserStorage.SaveUser: without its success the login is not let in. *)
Save(d) ==
  /\ pc[d] = "save"
  /\ \/ Goto(d, "issue") /\ UNCHANGED held
     \/ Goto(d, "refused") /\ held' = [held EXCEPT ![d] = Refused]
  /\ UNCHANGED <<provider, limiter, cookie, ago>>

(* The JWT is signed with the role the provider reported. *)
Issue(d) ==
  /\ pc[d] = "issue"
  /\ cookie' = [cookie EXCEPT ![d] = [role |-> held[d], left |-> TTL]]
  /\ Goto(d, "ok")
  /\ held' = [held EXCEPT ![d] = Refused]
  /\ UNCHANGED <<provider, limiter, ago>>

-----------------------------------------------------------------------------
(* Protected requests.  AuthMiddleware and RequireRole touch nothing but    *)
(* the request, so a protected request is one step.                         *)

(* Mutant of LetIn: the expiry of the token is not checked. *)
LetInLate(d) == cookie[d] # NoCookie

(* AuthMiddleware: a cookie, of this service, not past its expiry. *)
LetIn(d) == cookie[d] # NoCookie /\ cookie[d].left > 0

(* GET /user/admin/ping: RequireRole("admin") asks the token. *)
AdminPing(d) ==
  /\ Idle(d)
  /\ Goto(d, IF ~ LetIn(d) THEN "unauthorized"
             ELSE IF cookie[d].role # Admin THEN "forbidden" ELSE "ok")
  /\ UNCHANGED <<provider, limiter, cookie, held, ago>>

(* POST /auth/logout takes the cookie from this device only. *)
Logout(d) ==
  /\ Idle(d)
  /\ IF LetIn(d) THEN cookie' = [cookie EXCEPT ![d] = NoCookie] /\ Goto(d, "ok")
                 ELSE UNCHANGED cookie /\ Goto(d, "unauthorized")
  /\ UNCHANGED <<provider, limiter, held, ago>>

-----------------------------------------------------------------------------
Tick ==
  /\ left' = [a \in Addresses |-> Less(left[a])]
  /\ cookie' = [d \in Devices |-> IF cookie[d] = NoCookie THEN NoCookie
                                  ELSE [cookie[d] EXCEPT !.left = Less(@)]]
  /\ ages' = [a \in Addresses |-> [i \in Slots |-> More(ages[a][i], Window)]]
  /\ ago' = Ago(provider, [u \in Users |-> [r \in Roles |-> More(ago[u][r], TTL)]])
  /\ UNCHANGED <<provider, hits, passed, pc, held>>

(* The process starts anew, perhaps with another DEMO_MODE: the limiter     *)
(* forgets, the cookies stay, the secret is the same.                       *)
Restart(p) ==
  /\ provider' = p
  /\ hits' = [a \in Addresses |-> 0] /\ left' = [a \in Addresses |-> 0]
  /\ passed' = [a \in Addresses |-> 0]
  /\ pc' = [d \in Devices |-> "idle"]
  /\ held' = [d \in Devices |-> Refused]
  /\ ago' = Ago(p, ago)
  /\ UNCHANGED <<ages, cookie>>

Serve(d) == Authenticate(d) \/ Save(d) \/ Issue(d)

Next ==
  \/ \E d \in Devices : Login(d) \/ Serve(d) \/ AdminPing(d) \/ Logout(d)
  \/ Tick
  \/ \E p \in Providers : Restart(p)

Spec == Init /\ [][Next]_vars

(* Time passes. *)
FairSpec == Spec /\ WF_vars(Tick)

-----------------------------------------------------------------------------
(* No count exceeds what the limiter can still tell apart, no token lives   *)
(* longer than TTL, and none has a role that no provider reports.           *)
TypeOK ==
  /\ provider \in Providers
  /\ hits \in [Addresses -> 0..(RateLimitMax + 1)]
  /\ left \in [Addresses -> 0..Window]
  /\ cookie \in [Devices -> [role : Roles, left : 0..TTL] \cup {NoCookie}]
  /\ pc \in [Devices -> Places]
  /\ held \in [Devices -> Roles \cup {Refused}]
  /\ passed \in [Addresses -> 0..(2 * RateLimitMax)]
  /\ ages \in [Addresses -> [Slots -> 0..Window]]
  /\ ago \in [Users -> [Roles -> 0..TTL]]

(* login.go:61: a process lets at most twice Max logins of an address       *)
(* through in any span as long as the window: when it has let 2 * Max       *)
(* through and lets one more, the first of those is Window or more ago.     *)
(* Logins that earlier processes let through are not among them: a restart  *)
(* forgets what was counted.                                                *)
AtMostTwice ==
  [][\A d \in Devices : Login(d) /\ Passes(Address[d]) /\ passed[Address[d]] = 2 * RateLimitMax
       => ages[Address[d]][2 * RateLimitMax] = Window]_vars

(* A device is told 429 only when Max logins of its address were let        *)
(* through less than Window ago: refused attempts do not prolong the ban,   *)
(* and what an earlier window or process counted does not matter.           *)
RefusedAfterMax ==
  [][\A d \in Devices : Login(d) /\ ~ Passes(Address[d])
       => ages[Address[d]][RateLimitMax] < Window]_vars

(* login.go:146: the role a token carries is checked nowhere again.  It     *)
(* still opens nothing TTL after the provider that granted it was replaced, *)
(* by whatever logins, logouts and restarts.                                *)
RoleNotOutdated == \A d \in Devices : LetIn(d) => ago[Owner[d]][cookie[d].role] < TTL

(* Every address gets another chance, however often its devices try.        *)
LockoutEnds == \A a \in Addresses : []<>(left[a] = 0 \/ hits[a] < RateLimitMax)
=============================================================================
